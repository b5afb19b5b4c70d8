---------------------------- MODULE RequestReply ----------------------------
(***************************************************************************)
(* What a client of the HTTP proxy is promised: its request gets at most   *)
(* one reply, and that is the agent's response to this very request or an  *)
(* error.  RequestTracking is shown to implement this module.              *)
(***************************************************************************)
CONSTANTS
  Reqs,     \* HTTP requests
  Errors,   \* error replies
  NoReply   \* not answered yet

VARIABLE reply

Init == reply = [r \in Reqs |-> NoReply]

Waiting(r) == reply[r] = NoReply

Respond(r) ==
  /\ Waiting(r)
  /\ reply' = [reply EXCEPT ![r] = r]

\* Several requests fail together when their agent goes.
Fail(S, e) ==
  /\ \A r \in S : Waiting(r)
  /\ reply' = [r \in Reqs |-> IF r \in S THEN e ELSE reply[r]]

Next ==
  \/ \E r \in Reqs : Respond(r)
  \/ \E S \in SUBSET Reqs, e \in Errors : Fail(S, e)

Spec == Init /\ [][Next]_reply
=============================================================================
