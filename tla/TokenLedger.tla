------------------------------ MODULE TokenLedger ------------------------------
(***************************************************************************)
(* What the management of tokens keeps for a tunnel whose requests do not  *)
(* overlap: a token is issued once, the newest one is kept as the token of *)
(* the tunnel, the one before it may be kept for a grace period, and none  *)
(* comes back.  Of a tunnel whose requests did overlap it says only that   *)
(* tokens are new.  It is a ledger: with which token an agent is let in is *)
(* decided elsewhere.                                                      *)
(***************************************************************************)
EXTENDS Naturals, Sequences

CONSTANTS Tunnels, Tokens, NoToken

VARIABLES
  issued,   \* the tokens issued for a tunnel, oldest first
  current,  \* the token kept as that of the tunnel, or NoToken
  graced,   \* the token kept for the grace period, or NoToken
  raced     \* tunnels with requests that overlapped

vars == <<issued, current, graced, raced>>

Init ==
  /\ issued \in [Tunnels -> {<<>>} \cup {<<tok>> : tok \in Tokens}]
  /\ current = [t \in Tunnels |-> IF issued[t] = <<>> THEN NoToken ELSE issued[t][1]]
  /\ graced = [t \in Tunnels |-> NoToken]
  /\ raced = {}

Fresh(tok) == \A t \in Tunnels : \A i \in DOMAIN issued[t] : issued[t][i] # tok

Issue(t) ==
  \E tok \in Tokens :
    /\ Fresh(tok)
    /\ issued'[t] = Append(issued[t], tok)
    /\ current'[t] = tok
    /\ graced'[t] \in {graced[t], NoToken}

\* The token before the newest starts its grace period.
Retire(t) ==
  /\ Len(issued[t]) > 1
  /\ graced'[t] = issued[t][Len(issued[t]) - 1]
  /\ UNCHANGED <<issued[t], current[t]>>

\* Deletion, or time
Lapse(t) ==
  /\ current'[t] \in {current[t], NoToken}
  /\ graced'[t] \in {graced[t], NoToken}
  /\ UNCHANGED issued[t]

Next ==
  /\ raced \subseteq raced'
  /\ \A t \in Tunnels : t \in raced' \/ Issue(t) \/ Retire(t) \/ Lapse(t)

Spec == Init /\ [][Next]_vars
=============================================================================
