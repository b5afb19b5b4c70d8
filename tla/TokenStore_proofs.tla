--------------------------- MODULE TokenStore_proofs ---------------------------
(***************************************************************************)
(* What holds of the two caches of the server for any tunnels, tokens and  *)
(* concurrent requests, whatever the length of a grace period, a day and a *)
(* year.  Provenance and Replaced are inductive with TypeOK; from them a   *)
(* token is found under one key.  Alone and Newest, for tunnels whose      *)
(* requests never overlapped, carry the refinement of TokenLedger, and     *)
(* Backed the tokens of the tunnels that are listed.                       *)
(***************************************************************************)
EXTENDS TokenStore, FiniteSetTheorems, TLAPS

USE DEF caches, requestVars, ghosts, vars

\* The tokens of a history of one tunnel
TokensOf(s) == {s[i] : i \in DOMAIN s}

MainKey(t) == <<t, "main">>
OldKey(t) == <<t, "old">>

(***************************************************************************)
(* What the token cache holds for a tunnel, and what a rotation has read   *)
(* there, was issued for that tunnel and for no other.                     *)
(***************************************************************************)
Provenance ==
  /\ \A k \in Keys :
       tokens[k].token # NoToken => tokens[k].token \in TokensOf(issued[k[1]])
  /\ \A r \in Requests :
       pc[r] \in {"read", "replaced"} => read[r].token \in TokensOf(issued[on[r]])
  /\ \A t, u \in Tunnels : t # u => TokensOf(issued[t]) \cap TokensOf(issued[u]) = {}

(***************************************************************************)
(* The token in use differs from the one kept under ":old" and from those  *)
(* that rotations will still put there.                                    *)
(***************************************************************************)
Replaced ==
  /\ \A t \in Tunnels :
       tokens[MainKey(t)].token # NoToken =>
         tokens[MainKey(t)].token # tokens[OldKey(t)].token
  /\ \A r \in Requests :
       pc[r] = "replaced" => tokens[MainKey(on[r])].token # read[r].token

\* A tunnel whose requests never overlapped has at most one at work.
Alone ==
  \A t \in Tunnels \ raced : \A q, r \in Requests :
    /\ pc[q] # "idle" /\ on[q] = t
    /\ pc[r] # "idle" /\ on[r] = t
    => q = r

(***************************************************************************)
(* Of such a tunnel the token in use is the newest, a rotation has read    *)
(* the newest, and after it stored another, the one before.                *)
(***************************************************************************)
Newest ==
  \A t \in Tunnels \ raced :
    /\ tokens[MainKey(t)].token # NoToken =>
         /\ issued[t] # <<>>
         /\ tokens[MainKey(t)].token = issued[t][Len(issued[t])]
    /\ \A r \in Requests : on[r] = t =>
         /\ pc[r] = "read" =>
              /\ issued[t] # <<>>
              /\ read[r].token = issued[t][Len(issued[t])]
         /\ pc[r] = "replaced" =>
              /\ Len(issued[t]) > 1
              /\ read[r].token = issued[t][Len(issued[t]) - 1]

(***************************************************************************)
(* Of such a tunnel the token lives as long as the tunnel does; only one   *)
(* that is created now, or being deleted, has none.                        *)
(***************************************************************************)
Lasts(t) ==
  /\ tokens[MainKey(t)].token # NoToken
  /\ tunnels[t] <= tokens[MainKey(t)].until \/ MaxTime < tokens[MainKey(t)].until

Backed ==
  \A t \in Tunnels \ raced :
    /\ tunnels[t] <= now \/ Lasts(t)
    /\ \A r \in Requests : on[r] = t =>
         /\ pc[r] \in {"checked", "dropped"} => tunnels[t] <= now
         /\ pc[r] = "stored" =>
              /\ tokens[MainKey(t)].token # NoToken
              /\ MaxTime < tokens[MainKey(t)].until
-----------------------------------------------------------------------------
(***************************************************************************)
(* A sequence after an append.                                             *)
(***************************************************************************)
LEMMA AppendLast ==
  ASSUME NEW S, NEW s \in Seq(S), NEW x \in S
  PROVE  /\ Append(s, x) \in Seq(S)
         /\ Len(s) \in Nat
         /\ Len(Append(s, x)) = Len(s) + 1
         /\ DOMAIN s = 1..Len(s)
         /\ DOMAIN Append(s, x) = 1..(Len(s) + 1)
         /\ Append(s, x)[Len(s) + 1] = x
         /\ \A i \in 1..Len(s) : Append(s, x)[i] = s[i]
  OBVIOUS

(***************************************************************************)
(* The last element after an append, and the one before it.                *)
(***************************************************************************)
LEMMA AppendEnds ==
  ASSUME NEW S, NEW s \in Seq(S), NEW x \in S
  PROVE  /\ Append(s, x) # <<>>
         /\ Append(s, x)[Len(Append(s, x))] = x
         /\ s # <<>> => /\ Len(Append(s, x)) > 1
                        /\ Append(s, x)[Len(Append(s, x)) - 1] = s[Len(s)]
  <1>1. PICK n \in Nat : Len(s) = n
    OBVIOUS
  <1>2. /\ Len(Append(s, x)) = n + 1
        /\ Append(s, x)[n + 1] = x
        /\ \A i \in 1..n : Append(s, x)[i] = s[i]
    BY <1>1, AppendLast
  <1>3. s # <<>> => n > 0
    BY <1>1
  <1>4. Append(s, x) # <<>>
    <2>1. Len(<<>>) = 0 /\ n + 1 # 0
      OBVIOUS
    <2>2. QED
      BY <1>2, <2>1
  <1>5. s # <<>> => n + 1 > 1 /\ (n + 1) - 1 = n /\ n \in 1..n
    BY <1>3
  <1>6. QED
    BY <1>1, <1>2, <1>4, <1>5

(***************************************************************************)
(* Used is what was issued for some tunnel.                                *)
(***************************************************************************)
LEMMA UsedIssued ==
  \A tok : tok \in Used <=> \E t \in Tunnels : tok \in TokensOf(issued[t])
  BY DEF Used, TokensOf

(***************************************************************************)
(* One more token is issued for a tunnel.                                  *)
(***************************************************************************)
LEMMA IssueOne ==
  ASSUME TypeOK, NEW t \in Tunnels, NEW tok \in Tokens,
         issued' = [issued EXCEPT ![t] = Append(@, tok)]
  PROVE  /\ issued' \in [Tunnels -> Seq(Tokens)]
         /\ issued'[t] = Append(issued[t], tok)
         /\ TokensOf(issued'[t]) = TokensOf(issued[t]) \cup {tok}
         /\ \A u \in Tunnels : u # t =>
              /\ issued'[u] = issued[u]
              /\ TokensOf(issued'[u]) = TokensOf(issued[u])
  <1> DEFINE s == issued[t]
  <1>1. issued \in [Tunnels -> Seq(Tokens)]
    BY DEF TypeOK
  <1>2. s \in Seq(Tokens)
    BY <1>1
  <1>3. issued'[t] = Append(s, tok)
    BY <1>1
  <1> HIDE DEF s
  <1>4. /\ Append(s, tok) \in Seq(Tokens)
        /\ Len(s) \in Nat
        /\ DOMAIN s = 1..Len(s)
        /\ DOMAIN Append(s, tok) = 1..(Len(s) + 1)
        /\ Append(s, tok)[Len(s) + 1] = tok
        /\ \A i \in 1..Len(s) : Append(s, tok)[i] = s[i]
    BY <1>2, AppendLast
  <1>5. issued' \in [Tunnels -> Seq(Tokens)]
    BY <1>1, <1>4 DEF s
  <1>6. TokensOf(issued[t]) = {s[i] : i \in DOMAIN s}
    BY DEF TokensOf, s
  <1>7. TokensOf(issued'[t]) = {Append(s, tok)[i] : i \in DOMAIN Append(s, tok)}
    BY <1>3 DEF TokensOf
  <1>8. {Append(s, tok)[i] : i \in DOMAIN Append(s, tok)}
          = {s[i] : i \in DOMAIN s} \cup {tok}
    BY <1>4
  <1>9. \A u \in Tunnels : u # t =>
          /\ issued'[u] = issued[u]
          /\ TokensOf(issued'[u]) = TokensOf(issued[u])
    BY <1>1
  <1>10. QED
    BY <1>3, <1>5, <1>6, <1>7, <1>8, <1>9 DEF s

(***************************************************************************)
(* NewToken() stores a token that was never used under the key of the      *)
(* tunnel.                                                                 *)
(***************************************************************************)
LEMMA NewTokenStores ==
  ASSUME TypeOK, NEW r \in Requests, NewToken(r)
  PROVE  \E tok \in NewTokens \ Used :
           /\ tokens' = [tokens EXCEPT ![MainKey(on[r])] =
                           [token |-> tok, expires |-> now + Year, until |-> now + Year]]
           /\ tokens' \in [Keys -> Entries]
           /\ issued' = [issued EXCEPT ![on[r]] = Append(@, tok)]
  <1>1. PICK tok \in NewTokens \ Used :
           /\ Put(MainKey(on[r]), tok, now + Year, Year)
           /\ issued' = [issued EXCEPT ![on[r]] = Append(@, tok)]
    BY DEF NewToken, MainKey
  <1>2. now + Year \in Nat /\ tok \in Tokens /\ tokens \in [Keys -> Entries]
    BY TimesAssumption DEF TypeOK, Tokens
  <1>3. [token |-> tok, expires |-> now + Year, until |-> now + Year] \in Entries
    BY <1>2 DEF Entries
  <1>4. tokens' = [tokens EXCEPT ![MainKey(on[r])] =
                     [token |-> tok, expires |-> now + Year, until |-> now + Year]]
    BY <1>1 DEF Put
  <1>5. tokens' \in [Keys -> Entries]
    BY <1>2, <1>3, <1>4
  <1>6. QED
    BY <1>1, <1>4, <1>5

(***************************************************************************)
(* RotateOld() stores what the rotation has read under ":old".             *)
(***************************************************************************)
LEMMA RotateOldStores ==
  ASSUME TypeOK, NEW r \in Requests, RotateOld(r)
  PROVE  /\ tokens' = [tokens EXCEPT ![OldKey(on[r])] =
                         [token |-> read[r].token, expires |-> read[r].expires,
                          until |-> now + Grace]]
         /\ tokens' \in [Keys -> Entries]
         /\ read[r].token \in Tokens \cup {NoToken}
  <1>1. now + Grace \in Nat /\ tokens \in [Keys -> Entries] /\ read[r] \in Entries
    BY TimesAssumption DEF TypeOK
  <1>2. [token |-> read[r].token, expires |-> read[r].expires,
         until |-> now + Grace] \in Entries
    BY <1>1 DEF Entries
  <1>3. tokens' = [tokens EXCEPT ![OldKey(on[r])] =
                     [token |-> read[r].token, expires |-> read[r].expires,
                      until |-> now + Grace]]
    BY DEF RotateOld, Put, OldKey
  <1>4. QED
    BY <1>1, <1>2, <1>3 DEF Entries
-----------------------------------------------------------------------------
(***************************************************************************)
(* The clock, the expiry times and the entries stay within their types,    *)
(* whatever request makes the step.                                        *)
(***************************************************************************)
LEMMA InitType == Init => TypeOK
  <1> SUFFICES ASSUME Init PROVE TypeOK
    OBVIOUS
  <1>1. <<BootToken>> \in Seq(Tokens) /\ <<>> \in Seq(Tokens) /\ BootToken \in Tokens
    BY DEF Tokens
  <1>2. issued \in [Tunnels -> Seq(Tokens)]
    BY <1>1 DEF Init
  <1>3. /\ NoEntry \in Entries
        /\ [token |-> BootToken, expires |-> Day, until |-> Day] \in Entries
    BY <1>1, TimesAssumption DEF NoEntry, Entries
  <1>4. tokens \in [Keys -> Entries] /\ read \in [Requests -> Entries]
    BY <1>3 DEF Init
  <1>5. /\ now \in 0..MaxTime
        /\ tunnels \in [Tunnels -> 0..MaxTime + Year]
        /\ ports \in [Tunnels -> 0..MaxTime + Day]
    BY TimesAssumption DEF Init
  <1>6. QED
    BY <1>2, <1>4, <1>5, BootAssumption DEF Init, TypeOK

\* Every step keeps the types.
LEMMA TypeStep == TypeOK /\ [Next]_vars => TypeOK'
  <1> SUFFICES ASSUME TypeOK, [Next]_vars PROVE TypeOK'
    OBVIOUS
  <1>a. /\ now + Day \in 0..MaxTime + Day
        /\ now + Year \in 0..MaxTime + Year
        /\ 0 \in 0..MaxTime + Year
        /\ NoEntry \in Entries
    BY TimesAssumption DEF TypeOK, NoEntry, Entries
  <1>1. CASE Tick
    BY <1>1, TimesAssumption DEF Tick, TypeOK
  <1>2. ASSUME NEW k \in Keys, Authenticate(k) \/ AgentLeaves(k) PROVE TypeOK'
    <2>1. k[1] \in Tunnels
      BY DEF Keys
    <2>2. QED
      BY <1>2, <1>a, <2>1 DEF Authenticate, AgentLeaves, TypeOK
  <1>3. ASSUME NEW t \in Tunnels, Resolve(t) PROVE TypeOK'
    BY <1>3 DEF Resolve, TypeOK
  <1>4. ASSUME NEW t \in Tunnels, NEW r \in Requests,
               BeginCreate(r, t) \/ BeginDelete(r, t) \/ BeginRotate(r, t)
        PROVE  TypeOK'
    BY <1>4 DEF BeginCreate, BeginDelete, BeginRotate, Begin, TypeOK
  <1>5. ASSUME NEW r \in Requests, CreateToken(r) \/ RotateNew(r) PROVE TypeOK'
    <2>1. NewToken(r) /\ on[r] \in Tunnels
      BY <1>5 DEF CreateToken, RotateNew, TypeOK
    <2>2. PICK tok \in NewTokens \ Used :
             /\ tokens' \in [Keys -> Entries]
             /\ issued' = [issued EXCEPT ![on[r]] = Append(@, tok)]
      BY <2>1, NewTokenStores
    <2>3. issued' \in [Tunnels -> Seq(Tokens)]
      BY <2>1, <2>2, IssueOne DEF Tokens
    <2>4. /\ pc' \in [Requests -> {"idle", "checked", "stored", "found", "unlisted",
                                   "dropped", "listed", "read", "replaced"}]
          /\ UNCHANGED <<now, tunnels, ports, on, read, agents, portMap, raced>>
      BY <1>5 DEF CreateToken, RotateNew, Goto, TypeOK
    <2>5. QED
      BY <2>2, <2>3, <2>4 DEF TypeOK
  <1>6. ASSUME NEW r \in Requests, CreateTunnel(r) \/ DeleteUnregister(r) \/ DeleteTunnel(r)
        PROVE  TypeOK'
    <2>1. CASE CreateTunnel(r)
      BY <2>1, <1>a DEF CreateTunnel, Goto, TypeOK
    <2>2. CASE DeleteUnregister(r)
      BY <2>2, <1>a DEF DeleteUnregister, Goto, TypeOK
    <2>3. CASE DeleteTunnel(r)
      BY <2>3, <1>a DEF DeleteTunnel, Goto, TypeOK
    <2>4. QED
      BY <1>6, <2>1, <2>2, <2>3
  <1>7. ASSUME NEW r \in Requests, DeleteToken(r) PROVE TypeOK'
    BY <1>7, <1>a DEF DeleteToken, Goto, TypeOK
  <1>8. ASSUME NEW r \in Requests, RotateRead(r) PROVE TypeOK'
    <2>1. MainKey(on[r]) \in Keys
      BY DEF MainKey, Keys, Slots, TypeOK
    <2>2. tokens[MainKey(on[r])] \in Entries
      BY <2>1 DEF TypeOK
    <2>3. QED
      BY <1>8, <2>2 DEF RotateRead, MainKey, Goto, TypeOK
  <1>9. ASSUME NEW r \in Requests, RotateOld(r) PROVE TypeOK'
    <2>1. tokens' \in [Keys -> Entries]
      BY <1>9, RotateOldStores
    <2>2. /\ read' \in [Requests -> Entries]
          /\ pc' \in [Requests -> {"idle", "checked", "stored", "found", "unlisted",
                                   "dropped", "listed", "read", "replaced"}]
          /\ UNCHANGED <<now, tunnels, ports, on, agents, portMap, issued, raced>>
      BY <1>9, <1>a DEF RotateOld, Goto, TypeOK
    <2>3. QED
      BY <2>1, <2>2 DEF TypeOK
  <1>10. CASE UNCHANGED vars
    BY <1>10 DEF TypeOK
  <1>11. QED
    BY <1>1, <1>2, <1>3, <1>4, <1>5, <1>6, <1>7, <1>8, <1>9, <1>10 DEF Next

(***************************************************************************)
(* Type correctness of the caches, the requests and the history.           *)
(***************************************************************************)
THEOREM TypeCorrect == Spec => []TypeOK
  BY InitType, TypeStep, PTL DEF Spec
-----------------------------------------------------------------------------
(***************************************************************************)
(* The steps that store no token and read none; at most the request r      *)
(* moves, and never to "read" or "replaced".                               *)
(***************************************************************************)
Plain(r) ==
  /\ UNCHANGED <<tokens, read, issued>>
  /\ \A q \in Requests \ {r} : pc'[q] = pc[q] /\ on'[q] = on[q]
  /\ pc'[r] \in {"read", "replaced"} => pc'[r] = pc[r] /\ on'[r] = on[r]

\* What a step may do to the stored tokens
LEMMA StoreSteps ==
  ASSUME TypeOK, [Next]_vars
  PROVE  \/ UNCHANGED <<tokens, read, issued, pc, on>>
         \/ \E r \in Requests :
              \/ Plain(r)
              \/ CreateToken(r)
              \/ DeleteToken(r)
              \/ RotateRead(r)
              \/ RotateNew(r)
              \/ RotateOld(r)
  <1> DEFINE Steps == \/ UNCHANGED <<tokens, read, issued, pc, on>>
                      \/ \E r \in Requests :
                           \/ Plain(r)
                           \/ CreateToken(r)
                           \/ DeleteToken(r)
                           \/ RotateRead(r)
                           \/ RotateNew(r)
                           \/ RotateOld(r)
  <1>1. CASE Tick
    BY <1>1 DEF Tick
  <1>2. ASSUME NEW k \in Keys, Authenticate(k) \/ AgentLeaves(k) PROVE Steps
    BY <1>2 DEF Authenticate, AgentLeaves
  <1>3. ASSUME NEW t \in Tunnels, Resolve(t) PROVE Steps
    BY <1>3 DEF Resolve
  <1>4. ASSUME NEW t \in Tunnels, NEW r \in Requests,
               BeginCreate(r, t) \/ BeginDelete(r, t) \/ BeginRotate(r, t)
        PROVE  Steps
    <2>1. Plain(r)
      BY <1>4 DEF BeginCreate, BeginDelete, BeginRotate, Begin, Plain, TypeOK
    <2>2. QED
      BY <2>1
  <1>5. ASSUME NEW r \in Requests, CreateTunnel(r) \/ DeleteUnregister(r) \/ DeleteTunnel(r)
        PROVE  Steps
    <2>1. Plain(r)
      BY <1>5 DEF CreateTunnel, DeleteUnregister, DeleteTunnel, Goto, Plain, TypeOK
    <2>2. QED
      BY <2>1
  <1>6. CASE UNCHANGED vars
    BY <1>6
  <1>7. QED
    BY <1>1, <1>2, <1>3, <1>4, <1>5, <1>6 DEF Next

(***************************************************************************)
(* Every token ever stored came from NewToken() for that tunnel.           *)
(***************************************************************************)
LEMMA ProvenanceStep == TypeOK /\ Provenance /\ [Next]_vars => Provenance'
  <1> SUFFICES ASSUME TypeOK, Provenance, [Next]_vars PROVE Provenance'
    OBVIOUS
  <1>a. NoEntry.token = NoToken /\ NoToken \notin Tokens
    BY BootAssumption DEF NoEntry
  <1>b. UNCHANGED issued => \A t \in Tunnels : TokensOf(issued'[t]) = TokensOf(issued[t])
    BY DEF TokensOf
  <1>c. \A k \in Keys : k[1] \in Tunnels
    BY DEF Keys
  <1>d. \A r \in Requests : on[r] \in Tunnels /\ MainKey(on[r]) \in Keys
                            /\ OldKey(on[r]) \in Keys
    BY DEF TypeOK, Keys, Slots, MainKey, OldKey
  <1>1. CASE UNCHANGED <<tokens, read, issued, pc, on>>
    BY <1>1 DEF Provenance
  <1>2. ASSUME NEW r \in Requests, Plain(r) PROVE Provenance'
    BY <1>2 DEF Plain, Provenance
  <1>3. ASSUME NEW r \in Requests, CreateToken(r) \/ RotateNew(r) PROVE Provenance'
    <2> DEFINE t == on[r]
    <2>1. NewToken(r) /\ t \in Tunnels
      BY <1>3 DEF CreateToken, RotateNew, TypeOK
    <2>2. PICK tok \in NewTokens \ Used :
             /\ tokens' = [tokens EXCEPT ![MainKey(t)] =
                            [token |-> tok, expires |-> now + Year, until |-> now + Year]]
             /\ issued' = [issued EXCEPT ![t] = Append(@, tok)]
      BY <2>1, NewTokenStores
    <2> HIDE DEF t
    <2>3. /\ TokensOf(issued'[t]) = TokensOf(issued[t]) \cup {tok}
          /\ \A u \in Tunnels : u # t => TokensOf(issued'[u]) = TokensOf(issued[u])
      BY <2>1, <2>2, IssueOne DEF Tokens
    <2>4. \A u \in Tunnels : tok \notin TokensOf(issued[u])
      BY <2>2, UsedIssued
    <2>5. ASSUME NEW k \in Keys, tokens'[k].token # NoToken
          PROVE  tokens'[k].token \in TokensOf(issued'[k[1]])
      <3>1. CASE k = MainKey(t)
        <4>1. tokens'[k].token = tok /\ k[1] = t
          BY <2>2, <2>5, <3>1 DEF MainKey, TypeOK
        <4>2. QED
          BY <2>3, <4>1
      <3>2. CASE k # MainKey(t)
        <4>1. tokens'[k] = tokens[k]
          BY <2>2, <3>2 DEF TypeOK
        <4>2. tokens[k].token \in TokensOf(issued[k[1]])
          BY <2>5, <4>1 DEF Provenance
        <4>3. TokensOf(issued[k[1]]) \subseteq TokensOf(issued'[k[1]])
          BY <1>c, <2>3
        <4>4. QED
          BY <4>1, <4>2, <4>3
      <3>3. QED
        BY <3>1, <3>2
    <2>6. ASSUME NEW q \in Requests, pc'[q] \in {"read", "replaced"}
          PROVE  read'[q].token \in TokensOf(issued'[on'[q]])
      <3>1. pc[q] \in {"read", "replaced"} /\ read' = read /\ on' = on
        BY <1>3, <2>6 DEF CreateToken, RotateNew, Goto, TypeOK
      <3>2. read[q].token \in TokensOf(issued[on[q]]) /\ on[q] \in Tunnels
        BY <1>d, <3>1 DEF Provenance
      <3>3. TokensOf(issued[on[q]]) \subseteq TokensOf(issued'[on[q]])
        BY <2>3, <3>2
      <3>4. QED
        BY <3>1, <3>2, <3>3
    <2>7. ASSUME NEW u \in Tunnels, NEW v \in Tunnels, u # v
          PROVE  TokensOf(issued'[u]) \cap TokensOf(issued'[v]) = {}
      <3>1. TokensOf(issued[u]) \cap TokensOf(issued[v]) = {}
        BY <2>7 DEF Provenance
      <3>2. QED
        BY <2>3, <2>4, <2>7, <3>1
    <2>8. QED
      BY <2>5, <2>6, <2>7 DEF Provenance
  <1>4. ASSUME NEW r \in Requests, DeleteToken(r) PROVE Provenance'
    <2>1. \A k \in Keys : tokens'[k] = tokens[k] \/ tokens'[k].token = NoToken
      BY <1>4, <1>a DEF DeleteToken, TypeOK
    <2>2. /\ UNCHANGED <<on, read, issued>>
          /\ \A q \in Requests : pc'[q] \in {"read", "replaced"} => pc'[q] = pc[q]
      BY <1>4 DEF DeleteToken, Goto, TypeOK
    <2>3. QED
      BY <2>1, <2>2 DEF Provenance
  <1>5. ASSUME NEW r \in Requests, RotateRead(r) PROVE Provenance'
    <2>1. CASE Seen(MainKey(on[r]))
      <3>1. /\ read' = [read EXCEPT ![r] = tokens[MainKey(on[r])]]
            /\ pc' = [pc EXCEPT ![r] = "read"]
            /\ UNCHANGED <<tokens, issued, on>>
        BY <1>5, <2>1 DEF RotateRead, Goto, MainKey
      <3>2. tokens[MainKey(on[r])].token \in TokensOf(issued[on[r]])
        <4>1. tokens[MainKey(on[r])].token \in TokensOf(issued[MainKey(on[r])[1]])
          BY <1>d, <2>1 DEF Seen, Provenance
        <4>2. QED
          BY <4>1 DEF MainKey
      <3>3. ASSUME NEW q \in Requests, pc'[q] \in {"read", "replaced"}
            PROVE  read'[q].token \in TokensOf(issued[on[q]])
        BY <3>1, <3>2, <3>3 DEF TypeOK, Provenance
      <3>4. QED
        BY <3>1, <3>3 DEF Provenance
    <2>2. CASE ~Seen(MainKey(on[r]))
      <3>1. /\ pc' = [pc EXCEPT ![r] = "idle"]
            /\ UNCHANGED <<tokens, issued, on, read>>
        BY <1>5, <2>2 DEF RotateRead, Goto, MainKey
      <3>2. QED
        BY <3>1 DEF Provenance, TypeOK
    <2>3. QED
      BY <2>1, <2>2
  <1>6. ASSUME NEW r \in Requests, RotateOld(r) PROVE Provenance'
    <2>1. pc[r] = "replaced" /\ read[r].token \in TokensOf(issued[on[r]])
      BY <1>6 DEF RotateOld, Provenance
    <2>2. ASSUME NEW k \in Keys, tokens'[k].token # NoToken
          PROVE  tokens'[k].token \in TokensOf(issued[k[1]])
      <3>1. CASE k = OldKey(on[r])
        <4>1. k[1] = on[r]
          BY <3>1 DEF OldKey
        <4>2. tokens'[k].token = read[r].token
          <5>1. tokens \in [Keys -> Entries]
            BY DEF TypeOK
          <5>2. tokens' = [tokens EXCEPT ![OldKey(on[r])] =
                             [token |-> read[r].token, expires |-> read[r].expires,
                              until |-> now + Grace]]
            BY <1>6, RotateOldStores
          <5>3. QED
            BY <3>1, <5>1, <5>2
        <4>3. QED
          BY <2>1, <4>1, <4>2
      <3>2. CASE k # OldKey(on[r])
        <4>1. tokens'[k] = tokens[k]
          BY <1>6, <3>2, RotateOldStores DEF TypeOK
        <4>2. QED
          BY <2>2, <4>1 DEF Provenance
      <3>3. QED
        BY <3>1, <3>2
    <2>3. /\ UNCHANGED <<on, issued>>
          /\ \A q \in Requests : pc'[q] \in {"read", "replaced"} =>
               pc'[q] = pc[q] /\ read'[q] = read[q]
      BY <1>6 DEF RotateOld, Goto, TypeOK
    <2>4. QED
      BY <2>2, <2>3 DEF Provenance
  <1>7. QED
    BY <1>1, <1>2, <1>3, <1>4, <1>5, <1>6, StoreSteps

(***************************************************************************)
(* The key of a tunnel only gets tokens nobody has seen; ":old" only gets  *)
(* one that was replaced.                                                  *)
(***************************************************************************)
LEMMA ReplacedStep ==
  TypeOK /\ Provenance /\ Replaced /\ [Next]_vars => Replaced'
  <1> SUFFICES ASSUME TypeOK, Provenance, Replaced, [Next]_vars PROVE Replaced'
    OBVIOUS
  <1>a. tokens \in [Keys -> Entries] /\ NoEntry.token = NoToken
    BY DEF TypeOK, NoEntry
  <1>b. \A t \in Tunnels : /\ MainKey(t) \in Keys /\ OldKey(t) \in Keys
                           /\ \A u \in Tunnels : /\ MainKey(t) # OldKey(u)
                                                 /\ MainKey(t) = MainKey(u) => t = u
                                                 /\ OldKey(t) = OldKey(u) => t = u
    BY DEF Keys, Slots, MainKey, OldKey
  <1>c. \A r \in Requests : on[r] \in Tunnels
    BY DEF TypeOK
  <1>1. CASE UNCHANGED <<tokens, read, issued, pc, on>>
    BY <1>1 DEF Replaced
  <1>2. ASSUME NEW r \in Requests, Plain(r) PROVE Replaced'
    BY <1>2 DEF Plain, Replaced
  <1>3. ASSUME NEW r \in Requests, CreateToken(r) \/ RotateNew(r) PROVE Replaced'
    <2>1. NewToken(r)
      BY <1>3 DEF CreateToken, RotateNew
    <2>2. PICK tok \in NewTokens \ Used :
             tokens' = [tokens EXCEPT ![MainKey(on[r])] =
                          [token |-> tok, expires |-> now + Year, until |-> now + Year]]
      BY <2>1, NewTokenStores
    <2>3. \A u \in Tunnels : tok \notin TokensOf(issued[u])
      BY <2>2, UsedIssued
    <2>4. tok # NoToken
      BY BootAssumption DEF Tokens
    <2>5. /\ tokens'[MainKey(on[r])].token = tok
          /\ \A k \in Keys : k # MainKey(on[r]) => tokens'[k] = tokens[k]
      BY <1>a, <1>b, <1>c, <2>2
    <2>6. \A k \in Keys : tokens[k].token # tok
      <3>1. \A k \in Keys : k[1] \in Tunnels
        BY DEF Keys
      <3>2. QED
        BY <2>3, <2>4, <3>1 DEF Provenance
    <2>7. ASSUME NEW t \in Tunnels, tokens'[MainKey(t)].token # NoToken
          PROVE  tokens'[MainKey(t)].token # tokens'[OldKey(t)].token
      BY <1>b, <1>c, <2>5, <2>6, <2>7 DEF Replaced
    <2>8. ASSUME NEW q \in Requests, pc'[q] = "replaced"
          PROVE  tokens'[MainKey(on'[q])].token # read'[q].token
      <3>1. pc[q] \in {"read", "replaced"} /\ read' = read /\ on' = on
        BY <1>3, <2>8 DEF CreateToken, RotateNew, Goto, TypeOK
      <3>2. q # r => pc[q] = "replaced"
        BY <1>3, <2>8 DEF CreateToken, RotateNew, Goto, TypeOK
      <3>3. read[q].token # tok
        BY <1>c, <2>3, <3>1 DEF Provenance
      <3>4. CASE on[q] = on[r]
        BY <2>5, <3>1, <3>3, <3>4
      <3>5. CASE on[q] # on[r]
        <4>1. tokens'[MainKey(on[q])] = tokens[MainKey(on[q])]
          BY <1>b, <1>c, <2>5, <3>5
        <4>2. QED
          BY <3>1, <3>2, <3>5, <4>1 DEF Replaced
      <3>6. QED
        BY <3>4, <3>5
    <2>9. QED
      BY <2>7, <2>8 DEF Replaced
  <1>4. ASSUME NEW r \in Requests, DeleteToken(r) PROVE Replaced'
    <2>1. /\ tokens'[MainKey(on[r])].token = NoToken
          /\ \A k \in Keys : k # MainKey(on[r]) => tokens'[k] = tokens[k]
      BY <1>4, <1>a, <1>b, <1>c DEF DeleteToken, MainKey
    <2>2. /\ UNCHANGED <<on, read>>
          /\ \A q \in Requests : pc'[q] = "replaced" => pc[q] = "replaced"
      BY <1>4 DEF DeleteToken, Goto, TypeOK
    <2>3. ASSUME NEW q \in Requests, pc'[q] = "replaced"
          PROVE  tokens'[MainKey(on[q])].token # read[q].token
      <3>1. read[q].token \in TokensOf(issued[on[q]])
        BY <2>2, <2>3 DEF Provenance
      <3>2. read[q].token # NoToken
        <4>1. issued[on[q]] \in Seq(Tokens)
          BY <1>c DEF TypeOK
        <4>2. TokensOf(issued[on[q]]) \subseteq Tokens
          BY <4>1 DEF TokensOf
        <4>3. QED
          BY <3>1, <4>2, BootAssumption
      <3>3. CASE on[q] = on[r]
        BY <2>1, <3>2, <3>3
      <3>4. CASE on[q] # on[r]
        BY <1>b, <1>c, <2>1, <2>2, <2>3, <3>4 DEF Replaced
      <3>5. QED
        BY <3>3, <3>4
    <2>4. QED
      BY <1>b, <1>c, <2>1, <2>2, <2>3 DEF Replaced
  <1>5. ASSUME NEW r \in Requests, RotateRead(r) PROVE Replaced'
    <2>1. /\ UNCHANGED <<tokens, on>>
          /\ \A q \in Requests : pc'[q] = "replaced" =>
               pc[q] = "replaced" /\ read'[q] = read[q]
      BY <1>5 DEF RotateRead, Goto, TypeOK
    <2>2. QED
      BY <2>1 DEF Replaced
  <1>6. ASSUME NEW r \in Requests, RotateOld(r) PROVE Replaced'
    <2>1. /\ tokens'[OldKey(on[r])].token = read[r].token
          /\ \A k \in Keys : k # OldKey(on[r]) => tokens'[k] = tokens[k]
      <3>1. tokens' = [tokens EXCEPT ![OldKey(on[r])] =
                         [token |-> read[r].token, expires |-> read[r].expires,
                          until |-> now + Grace]]
        BY <1>6, RotateOldStores
      <3>2. QED
        BY <1>a, <1>b, <1>c, <3>1
    <2>2. /\ on' = on /\ pc[r] = "replaced"
          /\ \A q \in Requests : pc'[q] = "replaced" =>
               pc[q] = "replaced" /\ read'[q] = read[q]
      BY <1>6 DEF RotateOld, Goto, TypeOK
    <2>3. \A t \in Tunnels : tokens'[MainKey(t)] = tokens[MainKey(t)]
      BY <1>b, <1>c, <2>1
    <2>4. ASSUME NEW t \in Tunnels, tokens'[MainKey(t)].token # NoToken
          PROVE  tokens'[MainKey(t)].token # tokens'[OldKey(t)].token
      <3>1. CASE t = on[r]
        BY <2>1, <2>2, <2>3, <3>1 DEF Replaced
      <3>2. CASE t # on[r]
        BY <1>b, <1>c, <2>1, <2>3, <2>4, <3>2 DEF Replaced
      <3>3. QED
        BY <3>1, <3>2
    <2>5. QED
      BY <1>c, <2>2, <2>3, <2>4 DEF Replaced
  <1>7. QED
    BY <1>1, <1>2, <1>3, <1>4, <1>5, <1>6, StoreSteps

\* The boot token is the only one.
LEMMA InitStored == Init => Provenance /\ Replaced
  <1> SUFFICES ASSUME Init PROVE Provenance /\ Replaced
    OBVIOUS
  <1>1. /\ NoEntry.token = NoToken /\ BootToken # NoToken
        /\ \A k \in Keys : tokens[k].token =
             IF k = <<BootTunnel, "main">> THEN BootToken ELSE NoToken
    BY BootAssumption DEF Init, NoEntry, Tokens
  <1>2. /\ TokensOf(<<BootToken>>) = {BootToken} /\ TokensOf(<<>>) = {}
        /\ \A t \in Tunnels :
             issued[t] = IF t = BootTunnel THEN <<BootToken>> ELSE <<>>
    BY DEF TokensOf, Init
  <1>3. \A r \in Requests : pc[r] = "idle"
    BY DEF Init
  <1>4. Provenance
    BY <1>1, <1>2, <1>3, BootAssumption DEF Provenance, Keys
  <1>5. Replaced
    BY <1>1, <1>3 DEF Replaced, Keys, Slots, MainKey, OldKey
  <1>6. QED
    BY <1>4, <1>5

-----------------------------------------------------------------------------
(***************************************************************************)
(* Two tunnels never have a token in common, and a tunnel never has one    *)
(* under both of its keys: one key at most opens.                          *)
(***************************************************************************)
LEMMA OneKey ==
  ASSUME TypeOK, Provenance, Replaced,
         NEW tok \in Tokens, NEW j \in Opens(tok), NEW k \in Opens(tok)
  PROVE  j = k
  <1>1. /\ j \in Keys /\ k \in Keys /\ tok # NoToken
        /\ tokens[j].token = tok /\ tokens[k].token = tok
    BY BootAssumption DEF Opens
  <1>2. tok \in TokensOf(issued[j[1]]) /\ tok \in TokensOf(issued[k[1]])
    BY <1>1 DEF Provenance
  <1>3. j[1] = k[1]
    BY <1>1, <1>2 DEF Provenance, Keys
  <1>4. PICK t \in Tunnels : j \in {MainKey(t), OldKey(t)} /\ k \in {MainKey(t), OldKey(t)}
    BY <1>1, <1>3 DEF Keys, Slots, MainKey, OldKey
  <1>5. QED
    BY <1>1, <1>4 DEF Replaced

(***************************************************************************)
(* validate_token() never has a choice: however creations, rotations and   *)
(* deletions overlap, a token is found under one key at most.              *)
(***************************************************************************)
THEOREM OneTunnelPerToken == Spec => []OneNamePerToken
  <1>1. TypeOK /\ Provenance /\ Replaced => OneNamePerToken
    <2> SUFFICES ASSUME TypeOK, Provenance, Replaced, NEW tok \in Tokens
                 PROVE  Cardinality(Opens(tok)) <= 1
      BY DEF OneNamePerToken
    <2>1. CASE Opens(tok) = {}
      BY <2>1, FS_EmptySet
    <2>2. CASE Opens(tok) # {}
      <3>1. PICK k \in Opens(tok) : TRUE
        BY <2>2
      <3>2. Opens(tok) = {k}
        BY OneKey
      <3>3. QED
        BY <3>2, FS_Singleton
    <2>3. QED
      BY <2>1, <2>2
  <1>2. Init => Provenance /\ Replaced
    BY InitStored
  <1>3. /\ TypeOK /\ Provenance /\ Replaced /\ [Next]_vars
        => (Provenance /\ Replaced)'
    BY ProvenanceStep, ReplacedStep
  <1>4. QED
    BY <1>1, <1>2, <1>3, TypeCorrect, PTL DEF Spec

-----------------------------------------------------------------------------
(***************************************************************************)
(* A key that finds a token after a step found it before, unless the step  *)
(* stored it: a new one, or the one a rotation holds.                      *)
(***************************************************************************)
LEMMA FoundBefore ==
  ASSUME TypeOK, [Next]_vars, NEW k \in Keys, tokens'[k] = tokens[k],
         Seen(k)', now' < tokens'[k].expires
  PROVE  Seen(k) /\ now < tokens[k].expires
  <1>1. now \in Nat /\ now' \in Nat /\ now <= now'
    <2>1. TypeOK' /\ MaxTime \in Nat
      BY TypeStep, TimesAssumption
    <2>2. now' = now \/ now' = now + 1
      BY DEF Next, Tick, Authenticate, AgentLeaves, Resolve, BeginCreate, BeginDelete,
             BeginRotate, CreateToken, CreateTunnel, DeleteUnregister, DeleteTunnel,
             DeleteToken, RotateRead, RotateNew, RotateOld
    <2>3. QED
      BY <2>1, <2>2 DEF TypeOK
  <1>2. tokens[k].until \in Nat /\ tokens[k].expires \in Nat
    BY DEF TypeOK, Entries
  <1>3. QED
    BY <1>1, <1>2 DEF Seen

(***************************************************************************)
(* A step that accepts a token that was refused would have to store it;    *)
(* but only a new token is stored, or one that a rotation holds.           *)
(***************************************************************************)
LEMMA RefusedStep ==
  ASSUME TypeOK, [Next]_vars, NEW tok \in Used,
         tok \notin Accepted, tok \notin Held
  PROVE  tok \notin Accepted'
  <1> SUFFICES ASSUME tok \in Accepted' PROVE FALSE
    OBVIOUS
  <1>1. PICK k \in Keys :
          /\ Seen(k)' /\ now' < tokens'[k].expires
          /\ tokens'[k].token = tok /\ tok \in Tokens
    BY DEF Accepted, Opens
  <1>a. tok # NoToken /\ NoEntry.token = NoToken
    BY <1>1, BootAssumption DEF NoEntry
  <1>2. tokens'[k] # tokens[k]
    <2> SUFFICES ASSUME tokens'[k] = tokens[k] PROVE FALSE
      OBVIOUS
    <2>1. k \in Opens(tok)
      BY <1>1, FoundBefore DEF Opens
    <2>2. QED
      BY <1>1, <2>1 DEF Accepted
  <1>3. ASSUME NEW r \in Requests, CreateToken(r) \/ RotateNew(r) PROVE FALSE
    <2>1. NewToken(r)
      BY <1>3 DEF CreateToken, RotateNew
    <2>2. PICK new \in NewTokens \ Used :
             tokens' = [tokens EXCEPT ![MainKey(on[r])] =
                          [token |-> new, expires |-> now + Year, until |-> now + Year]]
      BY <2>1, NewTokenStores
    <2>3. tokens'[k].token = new
      BY <1>2, <2>2 DEF TypeOK
    <2>4. QED
      BY <1>1, <2>3
  <1>4. ASSUME NEW r \in Requests, DeleteToken(r) PROVE FALSE
    BY <1>1, <1>2, <1>4, <1>a DEF DeleteToken, TypeOK
  <1>5. ASSUME NEW r \in Requests, RotateOld(r) PROVE FALSE
    <2>1. tokens' = [tokens EXCEPT ![OldKey(on[r])] =
                       [token |-> read[r].token, expires |-> read[r].expires,
                        until |-> now + Grace]]
      BY <1>5, RotateOldStores
    <2>2. tokens'[k].token = read[r].token
      BY <1>2, <2>1 DEF TypeOK
    <2>3. read[r].token \in Held
      BY <1>5 DEF RotateOld, Held
    <2>4. QED
      BY <1>1, <2>2, <2>3
  <1>6. ASSUME NEW r \in Requests, Plain(r) \/ RotateRead(r) PROVE FALSE
    BY <1>2, <1>6 DEF Plain, RotateRead
  <1>7. QED
    BY <1>2, <1>3, <1>4, <1>5, <1>6, StoreSteps

(***************************************************************************)
(* No token that is refused is accepted again, unless a rotation had read  *)
(* it before and writes it back: time, deletion and any other rotation     *)
(* only ever take tokens away.                                             *)
(***************************************************************************)
THEOREM RefusedUnlessHeld == Spec => RefusedStaysRefused
  <1>1. TypeOK /\ [Next]_vars =>
          [\A tok \in Used : tok \notin Accepted /\ tok \notin Held
                               => tok \notin Accepted']_vars
    BY RefusedStep
  <1>2. QED
    BY <1>1, TypeCorrect, PTL DEF Spec, RefusedStaysRefused

-----------------------------------------------------------------------------
(***************************************************************************)
(* Requests on a tunnel that never overlapped: a second one that starts    *)
(* while the first is at work puts the tunnel among those that raced.      *)
(***************************************************************************)
LEMMA AloneStep == TypeOK /\ Alone /\ [Next]_vars => Alone'
  <1> SUFFICES ASSUME TypeOK, Alone, [Next]_vars PROVE Alone'
    OBVIOUS
  <1>1. ASSUME NEW t \in Tunnels, NEW r \in Requests,
               BeginCreate(r, t) \/ BeginDelete(r, t) \/ BeginRotate(r, t)
        PROVE  Alone'
    <2>1. /\ pc[r] = "idle"
          /\ \E step : pc' = [pc EXCEPT ![r] = step]
          /\ on' = [on EXCEPT ![r] = t]
          /\ raced' = IF Busy(t) THEN raced \cup {t} ELSE raced
      BY <1>1 DEF BeginCreate, BeginDelete, BeginRotate, Begin
    <2>2. ASSUME NEW u \in Tunnels, u \notin raced',
                 NEW p \in Requests, NEW q \in Requests,
                 pc'[p] # "idle", on'[p] = u, pc'[q] # "idle", on'[q] = u
          PROVE  p = q
      <3>1. u \notin raced
        BY <2>1, <2>2
      <3>2. ASSUME NEW s \in Requests, s # r, pc'[s] # "idle", on'[s] = u
            PROVE  pc[s] # "idle" /\ on[s] = u /\ u # t
        <4>1. pc[s] # "idle" /\ on[s] = u
          BY <2>1, <3>2 DEF TypeOK
        <4>2. QED
          BY <2>1, <2>2, <4>1 DEF Busy
      <3>3. on'[r] = t
        BY <2>1 DEF TypeOK
      <3>4. QED
        BY <2>2, <3>1, <3>2, <3>3 DEF Alone
    <2>3. QED
      BY <2>2 DEF Alone
  <1>2. ASSUME NEW r \in Requests,
               \/ CreateToken(r) \/ CreateTunnel(r)
               \/ DeleteUnregister(r) \/ DeleteTunnel(r) \/ DeleteToken(r)
               \/ RotateRead(r) \/ RotateNew(r) \/ RotateOld(r)
        PROVE  Alone'
    <2>1. /\ pc[r] # "idle"
          /\ \E step : pc' = [pc EXCEPT ![r] = step]
          /\ UNCHANGED <<on, raced>>
      BY <1>2 DEF CreateToken, CreateTunnel, DeleteUnregister, DeleteTunnel, DeleteToken,
                  RotateRead, RotateNew, RotateOld, Goto
    <2>2. QED
      BY <2>1 DEF Alone, TypeOK
  <1>3. CASE UNCHANGED <<pc, on, raced>>
    BY <1>3 DEF Alone
  <1>4. ASSUME NEW k \in Keys, Authenticate(k) \/ AgentLeaves(k)
        PROVE  UNCHANGED <<pc, on, raced>>
    BY <1>4 DEF Authenticate, AgentLeaves
  <1>5. ASSUME Tick \/ (\E t \in Tunnels : Resolve(t)) \/ UNCHANGED vars
        PROVE  UNCHANGED <<pc, on, raced>>
    BY <1>5 DEF Tick, Resolve
  <1>6. QED
    BY <1>1, <1>2, <1>3, <1>4, <1>5 DEF Next

(***************************************************************************)
(* A tunnel that raced once is never again among those that did not.       *)
(***************************************************************************)
LEMMA RacedGrows == [Next]_vars => raced \subseteq raced'
  <1> SUFFICES ASSUME [Next]_vars PROVE raced \subseteq raced'
    OBVIOUS
  <1>1. ASSUME NEW t \in Tunnels, NEW r \in Requests,
               BeginCreate(r, t) \/ BeginDelete(r, t) \/ BeginRotate(r, t)
        PROVE  raced \subseteq raced'
    BY <1>1 DEF BeginCreate, BeginDelete, BeginRotate, Begin
  <1>2. QED
    BY <1>1 DEF Next, Tick, Authenticate, AgentLeaves, Resolve, CreateToken, CreateTunnel,
                DeleteUnregister, DeleteTunnel, DeleteToken, RotateRead, RotateNew, RotateOld

(***************************************************************************)
(* The keys of the tunnels, and what the steps of a request do to the      *)
(* entry that stands under the plain id.                                   *)
(***************************************************************************)
LEMMA TwoKeys ==
  \A t \in Tunnels :
    /\ MainKey(t) \in Keys /\ OldKey(t) \in Keys
    /\ \A u \in Tunnels : /\ MainKey(t) # OldKey(u)
                          /\ MainKey(t) = MainKey(u) => t = u
                          /\ OldKey(t) = OldKey(u) => t = u
  BY DEF Keys, Slots, MainKey, OldKey

\* create and rotate put a token that nobody had under the name of the tunnel.
LEMMA MainAfterNew ==
  ASSUME TypeOK, NEW r \in Requests, NewToken(r)
  PROVE  \E tok \in NewTokens \ Used :
           /\ tok # NoToken
           /\ tokens'[MainKey(on[r])] =
                [token |-> tok, expires |-> now + Year, until |-> now + Year]
           /\ \A k \in Keys : k # MainKey(on[r]) => tokens'[k] = tokens[k]
           /\ issued'[on[r]] = Append(issued[on[r]], tok)
           /\ \A u \in Tunnels : u # on[r] => issued'[u] = issued[u]
  <1>1. PICK tok \in NewTokens \ Used :
           /\ tokens' = [tokens EXCEPT ![MainKey(on[r])] =
                           [token |-> tok, expires |-> now + Year, until |-> now + Year]]
           /\ issued' = [issued EXCEPT ![on[r]] = Append(@, tok)]
    BY NewTokenStores
  <1>2. /\ on[r] \in Tunnels /\ MainKey(on[r]) \in Keys
        /\ tokens \in [Keys -> Entries] /\ issued \in [Tunnels -> Seq(Tokens)]
    BY TwoKeys DEF TypeOK
  <1>3. tok # NoToken
    BY BootAssumption DEF Tokens
  <1>4. /\ tokens'[MainKey(on[r])] =
             [token |-> tok, expires |-> now + Year, until |-> now + Year]
        /\ \A k \in Keys : k # MainKey(on[r]) => tokens'[k] = tokens[k]
    BY <1>1, <1>2
  <1>5. /\ issued'[on[r]] = Append(issued[on[r]], tok)
        /\ \A u \in Tunnels : u # on[r] => issued'[u] = issued[u]
    BY <1>1, <1>2
  <1>6. QED
    BY <1>3, <1>4, <1>5

\* A rotation keeps the token it has read, for the grace period.
LEMMA OldAfterRotate ==
  ASSUME TypeOK, NEW r \in Requests, RotateOld(r)
  PROVE  /\ tokens'[OldKey(on[r])] =
              [token |-> read[r].token, expires |-> read[r].expires, until |-> now + Grace]
         /\ \A k \in Keys : k # OldKey(on[r]) => tokens'[k] = tokens[k]
  <1>1. tokens' = [tokens EXCEPT ![OldKey(on[r])] =
                     [token |-> read[r].token, expires |-> read[r].expires,
                      until |-> now + Grace]]
    BY RotateOldStores
  <1>2. on[r] \in Tunnels /\ OldKey(on[r]) \in Keys /\ tokens \in [Keys -> Entries]
    BY TwoKeys DEF TypeOK
  <1>3. QED
    BY <1>1, <1>2

(***************************************************************************)
(* Without an overlap a rotation replaces the very token it read.          *)
(***************************************************************************)
LEMMA NewestStep ==
  TypeOK /\ Alone /\ Newest /\ [Next]_vars => Newest'
  <1> SUFFICES ASSUME TypeOK, Alone, Newest, [Next]_vars PROVE Newest'
    OBVIOUS
  <1> DEFINE Good(u) ==
        /\ tokens'[MainKey(u)].token # NoToken =>
             /\ issued'[u] # <<>>
             /\ tokens'[MainKey(u)].token = issued'[u][Len(issued'[u])]
        /\ \A q \in Requests : on'[q] = u =>
             /\ pc'[q] = "read" =>
                  /\ issued'[u] # <<>>
                  /\ read'[q].token = issued'[u][Len(issued'[u])]
             /\ pc'[q] = "replaced" =>
                  /\ Len(issued'[u]) > 1
                  /\ read'[q].token = issued'[u][Len(issued'[u]) - 1]
  <1>0. ASSUME \A u \in Tunnels \ raced : Good(u) PROVE Newest'
    BY <1>0, RacedGrows DEF Newest
  <1>1. CASE UNCHANGED <<tokens, read, issued, pc, on>>
    BY <1>0, <1>1 DEF Newest
  <1>2. ASSUME NEW r \in Requests, Plain(r) PROVE Newest'
    <2>1. \A u \in Tunnels \ raced : Good(u)
      BY <1>2 DEF Plain, Newest
    <2>2. QED
      BY <1>0, <2>1
  <1>3. ASSUME NEW r \in Requests, CreateToken(r) \/ RotateNew(r),
               NEW u \in Tunnels \ raced
        PROVE  Good(u)
    <2>1. /\ NewToken(r) /\ UNCHANGED <<read, on>>
          /\ pc[r] \in {"checked", "read"}
          /\ \A q \in Requests : q # r => pc'[q] = pc[q]
          /\ pc'[r] = "replaced" => pc[r] = "read"
          /\ pc'[r] # "read"
      BY <1>3 DEF CreateToken, RotateNew, Goto, TypeOK
    <2>2. PICK tok \in NewTokens \ Used :
            /\ tokens'[MainKey(on[r])] =
                 [token |-> tok, expires |-> now + Year, until |-> now + Year]
            /\ \A k \in Keys : k # MainKey(on[r]) => tokens'[k] = tokens[k]
            /\ issued'[on[r]] = Append(issued[on[r]], tok)
            /\ \A t \in Tunnels : t # on[r] => issued'[t] = issued[t]
      BY <2>1, MainAfterNew
    <2>3. CASE u = on[r]
      <3> DEFINE s == issued[u]
      <3>1. s \in Seq(Tokens) /\ tok \in Tokens
        BY DEF TypeOK, Tokens
      <3>2. issued'[u] = Append(s, tok)
        BY <2>2, <2>3
      <3>3. tokens'[MainKey(u)].token = tok
        BY <2>2, <2>3
      <3>4. pc[r] = "read" => s # <<>> /\ read[r].token = s[Len(s)]
        BY <2>3 DEF Newest
      <3>5. \A q \in Requests : on[q] = u /\ pc[q] # "idle" => q = r
        BY <2>1, <2>3 DEF Alone
      <3> HIDE DEF s
      <3>6. /\ Append(s, tok) # <<>>
            /\ Append(s, tok)[Len(Append(s, tok))] = tok
            /\ s # <<>> => /\ Len(Append(s, tok)) > 1
                           /\ Append(s, tok)[Len(Append(s, tok)) - 1] = s[Len(s)]
        BY <3>1, AppendEnds
      <3>7. \A q \in Requests : on'[q] = u /\ pc'[q] \in {"read", "replaced"} =>
               q = r /\ pc'[q] = "replaced" /\ pc[r] = "read"
        BY <2>1, <3>5
      <3>8. read' = read
        BY <2>1
      <3>9. QED
        BY <3>2, <3>3, <3>4, <3>6, <3>7, <3>8
    <2>4. CASE u # on[r]
      <3>1. tokens'[MainKey(u)] = tokens[MainKey(u)] /\ issued'[u] = issued[u]
        BY <2>2, <2>4, TwoKeys DEF TypeOK
      <3>2. \A q \in Requests : on'[q] = u =>
               pc'[q] = pc[q] /\ read'[q] = read[q] /\ on[q] = u
        BY <2>1, <2>4
      <3>3. QED
        BY <3>1, <3>2 DEF Newest
    <2>5. QED
      BY <2>3, <2>4
  <1>4. ASSUME NEW r \in Requests, DeleteToken(r), NEW u \in Tunnels \ raced
        PROVE  Good(u)
    <2>1. tokens'[MainKey(u)] = tokens[MainKey(u)] \/ tokens'[MainKey(u)].token = NoToken
      BY <1>4, TwoKeys DEF DeleteToken, NoEntry, TypeOK
    <2>2. /\ UNCHANGED <<on, read, issued>>
          /\ \A q \in Requests : pc'[q] = pc[q] \/ pc'[q] = "idle"
      BY <1>4 DEF DeleteToken, Goto, TypeOK
    <2>3. QED
      BY <2>1, <2>2 DEF Newest
  <1>5. ASSUME NEW r \in Requests, RotateRead(r), NEW u \in Tunnels \ raced
        PROVE  Good(u)
    <2>1. /\ UNCHANGED <<tokens, issued, on>>
          /\ \A q \in Requests : q # r => pc'[q] = pc[q] /\ read'[q] = read[q]
          /\ \/ pc'[r] = "idle"
             \/ /\ pc'[r] = "read" /\ read'[r] = tokens[MainKey(on[r])]
                /\ tokens[MainKey(on[r])].token # NoToken
      BY <1>5 DEF RotateRead, Goto, TypeOK, Seen, MainKey
    <2>2. QED
      BY <2>1 DEF Newest
  <1>6. ASSUME NEW r \in Requests, RotateOld(r), NEW u \in Tunnels \ raced
        PROVE  Good(u)
    <2>1. /\ UNCHANGED <<issued, on>> /\ on[r] \in Tunnels
          /\ \A q \in Requests : q # r => pc'[q] = pc[q] /\ read'[q] = read[q]
          /\ pc'[r] = "idle"
      BY <1>6 DEF RotateOld, Goto, TypeOK
    <2>2. tokens'[MainKey(u)] = tokens[MainKey(u)]
      BY <1>6, <2>1, OldAfterRotate, TwoKeys
    <2>3. QED
      BY <2>1, <2>2 DEF Newest
  <1>7. QED
    BY <1>0, <1>1, <1>2, <1>3, <1>4, <1>5, <1>6, StoreSteps

(***************************************************************************)
(* The initial caches: the test tunnel and its token.                      *)
(***************************************************************************)
LEMMA InitNewest == Init => Alone /\ Newest
  <1> SUFFICES ASSUME Init PROVE Alone /\ Newest
    OBVIOUS
  <1>1. Alone
    BY DEF Init, Alone
  <1>2. /\ NoEntry.token = NoToken
        /\ \A t \in Tunnels : tokens[MainKey(t)].token =
                                IF t = BootTunnel THEN BootToken ELSE NoToken
    BY TwoKeys DEF Init, NoEntry, MainKey
  <1>3. /\ \A t \in Tunnels : issued[t] = IF t = BootTunnel THEN <<BootToken>> ELSE <<>>
        /\ <<BootToken>> # <<>> /\ <<BootToken>>[Len(<<BootToken>>)] = BootToken
        /\ \A r \in Requests : pc[r] = "idle"
    BY DEF Init
  <1>4. Newest
    BY <1>2, <1>3 DEF Newest
  <1>5. QED
    BY <1>1, <1>4

-----------------------------------------------------------------------------
(***************************************************************************)
(* What is kept under a key, as Cache shows it: an expired entry is none.  *)
(***************************************************************************)
LEMMA KeptSteps ==
  ASSUME TypeOK, [Next]_vars, NEW t \in Tunnels, NEW slot \in Slots,
         tokens'[<<t, slot>>] = tokens[<<t, slot>>]
  PROVE  Kept(t, slot)' \in {Kept(t, slot), NoToken}
  <1>1. <<t, slot>> \in Keys
    BY DEF Keys
  <1>2. now \in Nat /\ now' \in Nat /\ now <= now'
    <2>1. TypeOK' /\ MaxTime \in Nat
      BY TypeStep, TimesAssumption
    <2>2. now' = now \/ now' = now + 1
      BY DEF Next, Tick, Authenticate, AgentLeaves, Resolve, BeginCreate, BeginDelete,
             BeginRotate, CreateToken, CreateTunnel, DeleteUnregister, DeleteTunnel,
             DeleteToken, RotateRead, RotateNew, RotateOld
    <2>3. QED
      BY <2>1, <2>2 DEF TypeOK
  <1>3. tokens[<<t, slot>>].until \in Nat
    BY <1>1 DEF TypeOK, Entries
  <1>4. Seen(<<t, slot>>)' => Seen(<<t, slot>>)
    BY <1>2, <1>3 DEF Seen
  <1>5. QED
    BY <1>4 DEF Kept

\* An entry that is not touched is kept as it was, as long as time stands still.
LEMMA KeptSame ==
  ASSUME NEW t, NEW slot, tokens'[<<t, slot>>] = tokens[<<t, slot>>], now' = now
  PROVE  Kept(t, slot)' = Kept(t, slot)
  BY DEF Kept, Seen

(***************************************************************************)
(* Every step of the server is, for each tunnel whose requests do not      *)
(* overlap, a token issued, a token retired, or a token that lapses.       *)
(***************************************************************************)
LEMMA LedgerStep ==
  ASSUME TypeOK, Alone, Newest, [Next]_vars
  PROVE  Ledger!Next
  <1> DEFINE C(u) == Kept(u, "main")
             G(u) == Kept(u, "old")
             Moves(u) ==
               \/ \E tok \in Tokens :
                    /\ Ledger!Fresh(tok)
                    /\ issued'[u] = Append(issued[u], tok)
                    /\ C(u)' = tok
                    /\ G(u)' \in {G(u), NoToken}
               \/ /\ Len(issued[u]) > 1
                  /\ G(u)' = issued[u][Len(issued[u]) - 1]
                  /\ UNCHANGED <<issued[u], C(u)>>
               \/ /\ C(u)' \in {C(u), NoToken}
                  /\ G(u)' \in {G(u), NoToken}
                  /\ UNCHANGED issued[u]
  <1>0. ASSUME \A u \in Tunnels \ raced : Moves(u) PROVE Ledger!Next
    BY <1>0, RacedGrows
    DEF Ledger!Next, Ledger!Issue, Ledger!Retire, Ledger!Lapse
  <1>a. /\ now \in Nat /\ Year \in Nat /\ Grace \in Nat /\ Year > 0 /\ Grace > 0
        /\ \A t \in Tunnels : MainKey(t) = <<t, "main">> /\ OldKey(t) = <<t, "old">>
        /\ "main" \in Slots /\ "old" \in Slots
    BY TimesAssumption DEF TypeOK, MainKey, OldKey, Slots
  <1>b. ASSUME NEW u \in Tunnels, UNCHANGED issued[u],
               tokens'[MainKey(u)] = tokens[MainKey(u)],
               tokens'[OldKey(u)] = tokens[OldKey(u)]
        PROVE  Moves(u)
    BY <1>a, <1>b, KeptSteps
  <1>c. ASSUME UNCHANGED <<tokens, issued>> PROVE Ledger!Next
    BY <1>0, <1>b, <1>c
  <1>1. ASSUME NEW r \in Requests, CreateToken(r) \/ RotateNew(r),
               NEW u \in Tunnels \ raced
        PROVE  Moves(u)
    <2>1. NewToken(r) /\ now' = now
      BY <1>1 DEF CreateToken, RotateNew
    <2>2. PICK tok \in NewTokens \ Used :
            /\ tok # NoToken
            /\ tokens'[MainKey(on[r])] =
                 [token |-> tok, expires |-> now + Year, until |-> now + Year]
            /\ \A k \in Keys : k # MainKey(on[r]) => tokens'[k] = tokens[k]
            /\ issued'[on[r]] = Append(issued[on[r]], tok)
            /\ \A t \in Tunnels : t # on[r] => issued'[t] = issued[t]
      BY <2>1, MainAfterNew
    <2>3. on[r] \in Tunnels
      BY DEF TypeOK
    <2>4. CASE u = on[r]
      <3>1. Ledger!Fresh(tok) /\ tok \in Tokens
        BY <2>2 DEF Ledger!Fresh, Used, Tokens
      <3>2. C(u)' = tok
        <4>1. tokens'[<<u, "main">>] =
                 [token |-> tok, expires |-> now + Year, until |-> now + Year]
          BY <1>a, <2>2, <2>4
        <4>2. Seen(<<u, "main">>)'
          BY <1>a, <2>1, <2>2, <4>1 DEF Seen
        <4>3. QED
          BY <4>1, <4>2 DEF Kept
      <3>3. G(u)' = G(u)
        <4>1. tokens'[OldKey(u)] = tokens[OldKey(u)]
          BY <2>2, <2>3, <2>4, TwoKeys
        <4>2. QED
          BY <1>a, <2>1, <4>1, KeptSame
      <3>4. issued'[u] = Append(issued[u], tok)
        BY <2>2, <2>4
      <3>5. QED
        BY <3>1, <3>2, <3>3, <3>4
    <2>5. CASE u # on[r]
      BY <1>b, <2>2, <2>3, <2>5, TwoKeys
    <2>6. QED
      BY <2>4, <2>5
  <1>2. ASSUME NEW r \in Requests, RotateOld(r), NEW u \in Tunnels \ raced
        PROVE  Moves(u)
    <2>1. /\ tokens'[OldKey(on[r])] =
               [token |-> read[r].token, expires |-> read[r].expires, until |-> now + Grace]
          /\ \A k \in Keys : k # OldKey(on[r]) => tokens'[k] = tokens[k]
      BY <1>2, OldAfterRotate
    <2>2. /\ on[r] \in Tunnels /\ now' = now /\ issued' = issued
          /\ pc[r] = "replaced"
      BY <1>2 DEF RotateOld, TypeOK
    <2>3. CASE u = on[r]
      <3>1. /\ Len(issued[u]) > 1
            /\ read[r].token = issued[u][Len(issued[u]) - 1]
        BY <2>2, <2>3 DEF Newest
      <3>2. G(u)' = read[r].token
        <4>1. tokens'[<<u, "old">>] =
                 [token |-> read[r].token, expires |-> read[r].expires,
                  until |-> now + Grace]
          BY <1>a, <2>1, <2>3
        <4>2. read[r].token # NoToken => Seen(<<u, "old">>)'
          BY <1>a, <2>2, <4>1 DEF Seen
        <4>3. QED
          BY <4>1, <4>2 DEF Kept, Seen
      <3>3. C(u)' = C(u)
        <4>1. tokens'[MainKey(u)] = tokens[MainKey(u)]
          BY <2>1, <2>2, TwoKeys
        <4>2. QED
          BY <1>a, <2>2, <4>1, KeptSame
      <3>4. QED
        BY <2>2, <3>1, <3>2, <3>3
    <2>4. CASE u # on[r]
      BY <1>b, <2>1, <2>2, <2>4, TwoKeys
    <2>5. QED
      BY <2>3, <2>4
  <1>3. ASSUME NEW r \in Requests, DeleteToken(r), NEW u \in Tunnels \ raced
        PROVE  Moves(u)
    <2>1. /\ tokens' = [tokens EXCEPT ![MainKey(on[r])] = NoEntry]
          /\ on[r] \in Tunnels /\ now' = now /\ issued' = issued
          /\ tokens \in [Keys -> Entries]
      BY <1>3 DEF DeleteToken, MainKey, TypeOK
    <2>2. CASE u = on[r]
      <3>1. C(u)' = NoToken
        <4>1. tokens'[<<u, "main">>] = NoEntry
          BY <1>a, <2>1, <2>2, TwoKeys
        <4>2. QED
          BY <4>1 DEF Kept, Seen, NoEntry
      <3>2. G(u)' = G(u)
        <4>1. tokens'[OldKey(u)] = tokens[OldKey(u)]
          BY <2>1, TwoKeys
        <4>2. QED
          BY <1>a, <2>1, <4>1, KeptSame
      <3>3. QED
        BY <2>1, <3>1, <3>2
    <2>3. CASE u # on[r]
      BY <1>b, <2>1, <2>3, TwoKeys
    <2>4. QED
      BY <2>2, <2>3
  <1>4. ASSUME NEW r \in Requests, Plain(r) \/ RotateRead(r) PROVE Ledger!Next
    BY <1>c, <1>4 DEF Plain, RotateRead
  <1>5. CASE UNCHANGED <<tokens, read, issued, pc, on>>
    BY <1>c, <1>5
  <1>6. QED
    BY <1>0, <1>1, <1>2, <1>3, <1>4, <1>5, StoreSteps

(***************************************************************************)
(* The server starts as the ledger does: one token, for the test tunnel.   *)
(***************************************************************************)
LEMMA LedgerInit == Init => Ledger!Init
  <1> SUFFICES ASSUME Init PROVE Ledger!Init
    OBVIOUS
  <1>1. /\ BootToken \in Tokens /\ BootToken # NoToken /\ 0 < Day
        /\ <<BootToken>> # <<>> /\ <<BootToken>>[1] = BootToken
    BY BootAssumption, TimesAssumption DEF Tokens
  <1>2. issued \in [Tunnels -> {<<>>} \cup {<<tok>> : tok \in Tokens}]
    BY <1>1 DEF Init
  <1>3. ASSUME NEW t \in Tunnels
        PROVE  /\ Kept(t, "main") = IF issued[t] = <<>> THEN NoToken ELSE issued[t][1]
               /\ Kept(t, "old") = NoToken
    <2>1. /\ tokens[MainKey(t)] =
               IF t = BootTunnel
                 THEN [token |-> BootToken, expires |-> Day, until |-> Day] ELSE NoEntry
          /\ tokens[OldKey(t)] = NoEntry
      BY TwoKeys DEF Init, MainKey, OldKey
    <2>2. issued[t] = IF t = BootTunnel THEN <<BootToken>> ELSE <<>>
      BY DEF Init
    <2>3. now = 0
      BY DEF Init
    <2>4. Kept(t, "old") = NoToken
      BY <2>1 DEF Kept, Seen, NoEntry, OldKey
    <2>5. Kept(t, "main") = IF t = BootTunnel THEN BootToken ELSE NoToken
      BY <1>1, <2>1, <2>3 DEF Kept, Seen, NoEntry, MainKey
    <2>6. QED
      BY <1>1, <2>2, <2>4, <2>5
  <1>4. raced = {}
    BY DEF Init
  <1>5. QED
    BY <1>2, <1>3, <1>4 DEF Ledger!Init

(***************************************************************************)
(* For tunnels whose requests never overlapped the caches implement the    *)
(* ledger: the newest token opens, the one before it has the grace period, *)
(* and no token is issued twice, to anybody.                               *)
(***************************************************************************)
THEOREM CachesImplementLedger == Spec => ImplementsLedger
  <1>1. Init => Ledger!Init /\ Alone /\ Newest
    BY LedgerInit, InitNewest
  <1>2. TypeOK /\ Alone /\ Newest /\ [Next]_vars => (Alone /\ Newest)'
    BY AloneStep, NewestStep
  <1>3. TypeOK /\ Alone /\ Newest /\ [Next]_vars => Ledger!Next
    BY LedgerStep
  <1>4. QED
    BY <1>1, <1>2, <1>3, TypeCorrect, PTL DEF Spec, ImplementsLedger, Ledger!Spec

-----------------------------------------------------------------------------
(***************************************************************************)
(* In a server that runs for less than a year no token that the API stored *)
(* expires, and creation and deletion keep a tunnel's entry within the     *)
(* life of its token.                                                      *)
(***************************************************************************)
LEMMA BackedStep ==
  ASSUME MaxTime < Year, TypeOK, Alone, Backed, [Next]_vars
  PROVE  Backed'
  <1> DEFINE Good(u) ==
        /\ tunnels'[u] <= now' \/ Lasts(u)'
        /\ \A q \in Requests : on'[q] = u =>
             /\ pc'[q] \in {"checked", "dropped"} => tunnels'[u] <= now'
             /\ pc'[q] = "stored" =>
                  /\ tokens'[MainKey(u)].token # NoToken
                  /\ MaxTime < tokens'[MainKey(u)].until
  <1>0. ASSUME \A u \in Tunnels \ raced : Good(u) PROVE Backed'
    BY <1>0, RacedGrows DEF Backed
  <1>a. now \in Nat /\ \A t \in Tunnels : tunnels[t] \in Nat
    BY TimesAssumption DEF TypeOK
  <1>b. ASSUME NEW u \in Tunnels \ raced, tunnels'[u] = tunnels[u],
               now' \in {now, now + 1},
               tokens'[MainKey(u)] = tokens[MainKey(u)],
               \A q \in Requests : on'[q] = u /\ pc'[q] \in {"checked", "dropped", "stored"}
                                     => on[q] = u /\ pc'[q] = pc[q]
        PROVE  Good(u)
    <2>1. tunnels[u] <= now => tunnels[u] <= now'
      BY <1>a, <1>b
    <2>2. Lasts(u)' <=> Lasts(u)
      BY <1>b DEF Lasts
    <2>3. QED
      BY <1>b, <2>1, <2>2 DEF Backed
  <1>1. CASE Tick
    BY <1>0, <1>1, <1>b DEF Tick
  <1>2. ASSUME NEW k \in Keys, Authenticate(k) \/ AgentLeaves(k) PROVE Backed'
    BY <1>0, <1>2, <1>b DEF Authenticate, AgentLeaves
  <1>3. CASE (\E t \in Tunnels : Resolve(t)) \/ UNCHANGED vars
    BY <1>0, <1>3, <1>b DEF Resolve
  <1>4. ASSUME NEW t \in Tunnels, NEW r \in Requests,
               BeginCreate(r, t) \/ BeginDelete(r, t) \/ BeginRotate(r, t),
               NEW u \in Tunnels \ raced
        PROVE  Good(u)
    <2>1. /\ UNCHANGED <<now, tunnels, tokens>>
          /\ \A q \in Requests : q # r => pc'[q] = pc[q] /\ on'[q] = on[q]
          /\ on'[r] = t
          /\ \/ pc'[r] = "checked" /\ ~Listed(t)
             \/ pc'[r] \in {"found", "listed"}
      BY <1>4 DEF BeginCreate, BeginDelete, BeginRotate, Begin, TypeOK
    <2>2. ~Listed(t) => tunnels[t] <= now
      BY <1>a DEF Listed
    <2>3. Lasts(u)' <=> Lasts(u)
      BY <2>1 DEF Lasts
    <2>4. QED
      BY <2>1, <2>2, <2>3 DEF Backed
  <1>5. ASSUME NEW r \in Requests, CreateToken(r) \/ RotateNew(r),
               NEW u \in Tunnels \ raced
        PROVE  Good(u)
    <2>1. /\ NewToken(r) /\ UNCHANGED <<now, tunnels, on>>
          /\ pc[r] # "idle" /\ pc'[r] \in {"stored", "replaced"}
          /\ \A q \in Requests : q # r => pc'[q] = pc[q]
      BY <1>5 DEF CreateToken, RotateNew, Goto, TypeOK
    <2>2. PICK tok \in NewTokens \ Used :
            /\ tok # NoToken
            /\ tokens'[MainKey(on[r])] =
                 [token |-> tok, expires |-> now + Year, until |-> now + Year]
            /\ \A k \in Keys : k # MainKey(on[r]) => tokens'[k] = tokens[k]
      BY <2>1, MainAfterNew
    <2>3. CASE u = on[r]
      <3>1. tokens'[MainKey(u)].token # NoToken /\ MaxTime < tokens'[MainKey(u)].until
        <4>1. MaxTime < now + Year
          BY <1>a, TimesAssumption
        <4>2. QED
          BY <2>2, <2>3, <4>1
      <3>2. \A q \in Requests : on[q] = u /\ pc[q] # "idle" => q = r
        BY <2>1, <2>3 DEF Alone
      <3>3. Lasts(u)'
        BY <3>1 DEF Lasts
      <3>4. QED
        BY <2>1, <3>1, <3>2, <3>3
    <2>4. CASE u # on[r]
      <3>1. tokens'[MainKey(u)] = tokens[MainKey(u)]
        BY <2>2, <2>4, TwoKeys DEF TypeOK
      <3>2. \A q \in Requests : on'[q] = u => on[q] = u /\ pc'[q] = pc[q]
        BY <2>1, <2>4
      <3>3. QED
        BY <1>b, <2>1, <3>1, <3>2
    <2>5. QED
      BY <2>3, <2>4
  <1>6. ASSUME NEW r \in Requests, CreateTunnel(r) \/ DeleteTunnel(r),
               NEW u \in Tunnels \ raced
        PROVE  Good(u)
    <2>1. /\ UNCHANGED <<now, tokens, on>> /\ pc[r] # "idle"
          /\ \A q \in Requests : q # r => pc'[q] = pc[q]
          /\ \/ pc[r] = "stored" /\ pc'[r] = "idle"
             \/ pc'[r] = "dropped" /\ tunnels'[on[r]] = 0
          /\ \A t \in Tunnels : t # on[r] => tunnels'[t] = tunnels[t]
      BY <1>6 DEF CreateTunnel, DeleteTunnel, Goto, TypeOK
    <2>2. Lasts(u)' <=> /\ tokens[MainKey(u)].token # NoToken
                        /\ \/ tunnels'[u] <= tokens[MainKey(u)].until
                           \/ MaxTime < tokens[MainKey(u)].until
      BY <2>1 DEF Lasts
    <2>3. CASE u = on[r]
      <3>1. \A q \in Requests : on[q] = u /\ pc[q] # "idle" => q = r
        BY <2>1, <2>3 DEF Alone
      <3>2. CASE pc[r] = "stored" /\ pc'[r] = "idle"
        BY <2>1, <2>2, <2>3, <3>1, <3>2 DEF Backed
      <3>3. CASE pc'[r] = "dropped" /\ tunnels'[on[r]] = 0
        BY <1>a, <2>1, <2>3, <3>1, <3>3
      <3>4. QED
        BY <2>1, <3>2, <3>3
    <2>4. CASE u # on[r]
      BY <1>b, <2>1, <2>4
    <2>5. QED
      BY <2>3, <2>4
  <1>7. ASSUME NEW r \in Requests, DeleteToken(r), NEW u \in Tunnels \ raced
        PROVE  Good(u)
    <2>1. /\ UNCHANGED <<now, tunnels, on>> /\ pc[r] = "dropped" /\ pc'[r] = "idle"
          /\ \A q \in Requests : q # r => pc'[q] = pc[q]
          /\ \A k \in Keys : k # MainKey(on[r]) => tokens'[k] = tokens[k]
      BY <1>7 DEF DeleteToken, Goto, MainKey, TypeOK
    <2>2. CASE u = on[r]
      <3>1. \A q \in Requests : on[q] = u /\ pc[q] # "idle" => q = r
        BY <2>1, <2>2 DEF Alone
      <3>2. tunnels[u] <= now
        BY <2>1, <2>2 DEF Backed
      <3>3. QED
        BY <2>1, <3>1, <3>2
    <2>3. CASE u # on[r]
      <3>1. tokens'[MainKey(u)] = tokens[MainKey(u)]
        BY <2>1, <2>3, TwoKeys DEF TypeOK
      <3>2. QED
        BY <1>b, <2>1, <2>3, <3>1
    <2>4. QED
      BY <2>2, <2>3
  <1>8. ASSUME NEW r \in Requests,
               DeleteUnregister(r) \/ RotateRead(r) \/ RotateOld(r),
               NEW u \in Tunnels \ raced
        PROVE  Good(u)
    <2>1. /\ UNCHANGED <<now, tunnels, on>> /\ on[r] \in Tunnels
          /\ \A q \in Requests : q # r => pc'[q] = pc[q]
          /\ pc'[r] \in {"unlisted", "read", "idle"}
      BY <1>8 DEF DeleteUnregister, RotateRead, RotateOld, Goto, TypeOK
    <2>2. tokens'[MainKey(u)] = tokens[MainKey(u)]
      <3>1. CASE RotateOld(r)
        BY <2>1, <3>1, OldAfterRotate, TwoKeys
      <3>2. CASE DeleteUnregister(r) \/ RotateRead(r)
        BY <3>2 DEF DeleteUnregister, RotateRead
      <3>3. QED
        BY <1>8, <3>1, <3>2
    <2>3. \A q \in Requests :
             on'[q] = u /\ pc'[q] \in {"checked", "dropped", "stored"}
               => on[q] = u /\ pc'[q] = pc[q]
      BY <2>1
    <2>4. QED
      BY <1>b, <2>1, <2>2, <2>3
  <1>9. QED
    BY <1>0, <1>1, <1>2, <1>3, <1>4, <1>5, <1>6, <1>7, <1>8 DEF Next

(***************************************************************************)
(* A server that runs for less than a year never lists a tunnel without    *)
(* the token that was issued last for it in the cache, as long as the      *)
(* requests on it do not overlap.                                          *)
(***************************************************************************)
THEOREM NewestAlwaysKept == ASSUME MaxTime < Year PROVE Spec => []ListedKeepsNewest
  <1>1. Init => Backed
    <2> SUFFICES ASSUME Init PROVE Backed
      OBVIOUS
    <2>1. /\ now = 0 /\ \A r \in Requests : pc[r] = "idle"
          /\ \A t \in Tunnels : tunnels[t] = IF t = BootTunnel THEN Day ELSE 0
      BY DEF Init
    <2>2. tokens[MainKey(BootTunnel)] = [token |-> BootToken, expires |-> Day, until |-> Day]
      BY BootAssumption, TwoKeys DEF Init, MainKey
    <2>3. Lasts(BootTunnel)
      BY <2>1, <2>2, BootAssumption, TimesAssumption DEF Lasts, Tokens
    <2>4. QED
      BY <2>1, <2>3 DEF Backed
  <1>2. TypeOK /\ Newest /\ Backed => ListedKeepsNewest
    <2> SUFFICES ASSUME TypeOK, Newest, Backed, NEW t \in Tunnels \ raced, Listed(t)
                 PROVE  /\ Seen(MainKey(t))
                        /\ issued[t] # <<>>
                        /\ tokens[MainKey(t)].token = issued[t][Len(issued[t])]
      BY DEF ListedKeepsNewest, MainKey
    <2>1. /\ now \in Nat /\ now <= MaxTime /\ MaxTime \in Nat
          /\ tunnels[t] \in Nat /\ tokens[MainKey(t)].until \in Nat
      BY TwoKeys, TimesAssumption DEF TypeOK, Entries
    <2>2. Lasts(t)
      BY <2>1 DEF Backed, Listed
    <2>3. Seen(MainKey(t))
      BY <2>1, <2>2 DEF Lasts, Seen, Listed
    <2>4. QED
      BY <2>2, <2>3 DEF Newest, Lasts
  <1>3. TypeOK /\ Alone /\ Backed /\ [Next]_vars => Backed'
    BY BackedStep
  <1>4. TypeOK /\ Alone /\ Newest /\ [Next]_vars => (Alone /\ Newest)'
    BY AloneStep, NewestStep
  <1>5. QED
    BY <1>1, <1>2, <1>3, <1>4, InitNewest, TypeCorrect, PTL DEF Spec
=============================================================================
