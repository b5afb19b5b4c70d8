----------------------- MODULE RequestTracking_proofs -----------------------
(***************************************************************************)
(* What holds of the requests in flight on an agent connection, for any    *)
(* set of requests.  A callback is called at most once whatever the load;  *)
(* with unique request ids (PerSecond <= 1) every client gets its own      *)
(* response, the maps implement RequestReply and a request without an      *)
(* answer always has somebody left who will answer it.                     *)
(***************************************************************************)
EXTENDS RequestTracking, FiniteSetTheorems, TLAPS

USE DEF requestVars, replyVars, mapVars, sessionVars, closeVars, vars,
        Seconds, NoId

(***************************************************************************)
(* A request that reached send_http_request() has an id, and its stream is *)
(* known under that id only.                                               *)
(***************************************************************************)
IdOrder ==
  \A r \in Reqs :
    /\ pc[r] \in {"sending", "submitting", "storing", "flushing", "closing", "arming"}
         => id[r] \in Seconds
    /\ pc[r] \in {"new", "routing"} => id[r] = NoId
    /\ timer[r] # "off" => id[r] \in Seconds
    /\ stream[r] \in {NoId, id[r]}

(***************************************************************************)
(* The initial state satisfies the inductive invariant.                    *)
(***************************************************************************)
LEMMA InitInv == Init => TypeOK /\ IdOrder /\ CallbackOnce /\ AnsweredOnce
  BY ReqsAssumption, SecondsAssumption
  DEF Init, TypeOK, IdOrder, CallbackOnce, AnsweredOnce, Threads

(***************************************************************************)
(* Calling callbacks keeps replies and counts within their types.          *)
(***************************************************************************)
LEMMA AnswerType ==
  ASSUME TypeOK, NEW S, NEW v \in Reqs \cup Errors, Answer(S, v)
  PROVE  /\ reply' \in [Reqs -> Reqs \cup Errors \cup {NoReply}]
         /\ calls' \in [Reqs -> Nat]
  <1>1. reply' \in [Reqs -> Reqs \cup Errors \cup {NoReply}]
    BY DEF TypeOK, Answer
  <1>2. \A r \in Reqs : calls[r] \in Nat /\ calls[r] + 1 \in Nat
    BY DEF TypeOK
  <1>3. QED
    BY <1>1, <1>2 DEF Answer

(***************************************************************************)
(* Every variable stays within its type, whatever thread makes the step.   *)
(***************************************************************************)
LEMMA TypeStep == TypeOK /\ IdOrder /\ [Next]_vars => TypeOK'
  <1> SUFFICES ASSUME TypeOK, IdOrder, [Next]_vars PROVE TypeOK'
    OBVIOUS
  <1> USE SecondsAssumption DEF TypeOK, Step, Up, Threads
  <1> "500" \in Errors /\ "502" \in Errors /\ "503" \in Errors
    BY DEF Errors
  <1>1. ASSUME NEW r \in Reqs, Http(r) PROVE TypeOK'
    <2>1. CASE IsConnected(r)
      BY <2>1, AnswerType DEF IsConnected
    <2>2. CASE GetAgent(r)
      <3>1. CASE listed
        <4>1. PICK s \in Seconds : id' = [id EXCEPT ![r] = s] /\ now' = s
          BY <2>2, <3>1 DEF GetAgent
        <4>2. s \in Nat
          OBVIOUS
        <4>3. QED
          BY <2>2, <3>1, <4>1, <4>2 DEF GetAgent
      <3>2. CASE ~listed
        BY <2>2, <3>2, AnswerType DEF GetAgent
      <3>3. QED
        BY <3>1, <3>2
    <2>3. CASE CheckState(r)
      BY <2>3, AnswerType DEF CheckState
    <2>4. CASE Submit(r)
      BY <2>4, AnswerType DEF Submit
    <2>5. CASE Store(r)
      BY <2>5 DEF Store, IdOrder
    <2>6. CASE Flush(r)
      BY <2>6 DEF Flush, SendQueued
    <2>7. CASE CloseReturns(r) \/ ArmTimer(r)
      BY <2>7 DEF CloseReturns, ArmTimer
    <2>8. QED
      BY <1>1, <2>1, <2>2, <2>3, <2>4, <2>5, <2>6, <2>7 DEF Http
  <1>2. ASSUME NEW r \in Reqs, TimerFires(r) PROVE TypeOK'
    BY <1>2, AnswerType DEF TimerFires, IdOrder
  <1>3. ASSUME NEW r \in Reqs, ReadResponse(r) PROVE TypeOK'
    BY <1>3, AnswerType DEF ReadResponse, Known
  <1>4. ASSUME NEW x \in Threads, Close(x) PROVE TypeOK'
    <2>1. CASE CloseDrain(x)
      BY <2>1, AnswerType DEF CloseDrain
    <2>2. QED
      BY <1>4, <2>1 DEF Close, CloseEnter, CloseDelete, CloseNotify
  <1>5. CASE ReadOther \/ ReadGoaway \/ ReadFails \/ ReadEnds \/ HeartbeatEnds
    BY <1>5 DEF ReadOther, ReadGoaway, ReadFails, ReadEnds, HeartbeatEnds, SendQueued
  <1>6. CASE BeginRead \/ HeartbeatFails \/ Unlist
    BY <1>6 DEF BeginRead, HeartbeatFails, Unlist
  <1>7. CASE SessionRace \/ \E x \in Threads : DeadSession(x)
    BY <1>7 DEF SessionRace, DeadSession
  <1>8. CASE UNCHANGED vars
    BY <1>8
  <1>9. QED
    BY <1>1, <1>2, <1>3, <1>4, <1>5, <1>6, <1>7, <1>8 DEF Next, Handle

(***************************************************************************)
(* A request gets its id once, before anything is stored under it.         *)
(***************************************************************************)
LEMMA OrderStep == TypeOK /\ IdOrder /\ [Next]_vars => IdOrder'
  <1> SUFFICES ASSUME TypeOK, IdOrder, [Next]_vars PROVE IdOrder'
    OBVIOUS
  <1> USE DEF TypeOK, IdOrder, Step, Up
  <1>1. ASSUME NEW r \in Reqs, Http(r) PROVE IdOrder'
    <2>1. CASE GetAgent(r)
      <3>1. pc[r] = "routing" /\ stream[r] = NoId
        BY <2>1 DEF GetAgent
      <3>2. CASE listed
        <4>1. /\ pc' = [pc EXCEPT ![r] = "sending"]
              /\ stream' = stream /\ timer' = timer
              /\ \E s \in Seconds : id' = [id EXCEPT ![r] = s]
          BY <2>1, <3>2 DEF GetAgent
        <4>2. QED
          BY <3>1, <4>1
      <3>3. CASE ~listed
        <4>1. /\ pc' = [pc EXCEPT ![r] = "returned"]
              /\ stream' = stream /\ timer' = timer /\ id' = id
          BY <2>1, <3>3 DEF GetAgent
        <4>2. QED
          BY <4>1
      <3>4. QED
        BY <3>2, <3>3
    <2>2. CASE IsConnected(r) \/ CheckState(r)
      BY <2>2 DEF IsConnected, CheckState
    <2>3. CASE Submit(r) \/ Flush(r) \/ CloseReturns(r)
      BY <2>3 DEF Submit, Flush, CloseReturns
    <2>4. CASE Store(r) \/ ArmTimer(r)
      BY <2>4 DEF Store, ArmTimer
    <2>5. QED
      BY <1>1, <2>1, <2>2, <2>3, <2>4 DEF Http
  <1>2. ASSUME NEW r \in Reqs, TimerFires(r) PROVE IdOrder'
    BY <1>2 DEF TimerFires
  <1>3. ASSUME NEW r \in Reqs, ReadResponse(r) PROVE IdOrder'
    BY <1>3 DEF ReadResponse
  <1>4. ASSUME NEW x \in Threads, Close(x) PROVE IdOrder'
    BY <1>4 DEF Close, CloseEnter, CloseDelete, CloseDrain, CloseNotify
  <1>5. CASE ReadOther \/ ReadGoaway \/ ReadFails \/ ReadEnds \/ HeartbeatEnds
    BY <1>5 DEF ReadOther, ReadGoaway, ReadFails, ReadEnds, HeartbeatEnds
  <1>6. CASE BeginRead \/ HeartbeatFails \/ Unlist
    BY <1>6 DEF BeginRead, HeartbeatFails, Unlist
  <1>7. CASE SessionRace \/ \E x \in Threads : DeadSession(x)
    BY <1>7 DEF SessionRace, DeadSession
  <1>8. CASE UNCHANGED vars
    BY <1>8
  <1>9. QED
    BY <1>1, <1>2, <1>3, <1>4, <1>5, <1>6, <1>7, <1>8 DEF Next, Handle, Threads

(***************************************************************************)
(* A step that moves no request, calls nothing and stores nothing.         *)
(***************************************************************************)
LEMMA QuietStep ==
  ASSUME CallbackOnce, AnsweredOnce, UNCHANGED <<pc, id, calls, pending>>
  PROVE  CallbackOnce' /\ AnsweredOnce'
  BY DEF CallbackOnce, AnsweredOnce

(***************************************************************************)
(* Who calls a callback erases it in the same critical section, and only   *)
(* uncalled callbacks are stored.                                          *)
(***************************************************************************)
LEMMA CallbackStep ==
  ASSUME TypeOK, IdOrder, CallbackOnce, AnsweredOnce, [Next]_vars
  PROVE  CallbackOnce' /\ AnsweredOnce'
  <1> DEFINE Once(q) ==
        /\ \A s \in Seconds : pending'[s] = q =>
             /\ id'[q] = s /\ calls'[q] = 0
             /\ pc'[q] \in {"flushing", "closing", "arming", "returned"}
        /\ pc'[q] \in {"new", "routing", "sending", "submitting", "storing"}
             => calls'[q] = 0
        /\ calls'[q] <= 1
  <1>0. ASSUME \A q \in Reqs : Once(q) PROVE CallbackOnce' /\ AnsweredOnce'
    BY <1>0 DEF CallbackOnce, AnsweredOnce
  <1>1. ASSUME NEW r \in Reqs, Http(r), NEW q \in Reqs PROVE Once(q)
    <2> USE DEF TypeOK, CallbackOnce, AnsweredOnce, Step
    <2>0. ASSUME pc[r] \in {"new", "routing", "sending", "submitting"},
                 pc' = [pc EXCEPT ![r] = "returned"],
                 NEW v, Answer({r}, v), UNCHANGED <<id, pending>>
          PROVE  Once(q)
      <3>1. \A s \in Seconds : pending[s] # r
        BY <2>0
      <3>2. calls'[q] = IF q = r THEN 1 ELSE calls[q]
        BY <2>0 DEF Answer
      <3>3. QED
        BY <2>0, <3>1, <3>2
    <2>1. CASE IsConnected(r)
      <3>1. CASE listed /\ state = "CONNECTED"
        BY <2>1, <3>1 DEF IsConnected
      <3>2. CASE ~(listed /\ state = "CONNECTED")
        BY <2>0, <2>1, <3>2 DEF IsConnected
      <3>3. QED
        BY <3>1, <3>2
    <2>2. CASE GetAgent(r)
      <3>1. CASE listed
        <4>1. PICK s \in Seconds : id' = [id EXCEPT ![r] = s]
          BY <2>2, <3>1 DEF GetAgent
        <4>2. pc[r] = "routing" /\ pc' = [pc EXCEPT ![r] = "sending"]
          BY <2>2, <3>1 DEF GetAgent
        <4>3. \A i \in Seconds : pending[i] # r
          BY <4>2
        <4>4. UNCHANGED <<calls, pending>>
          BY <2>2, <3>1 DEF GetAgent
        <4>5. QED
          BY <4>1, <4>2, <4>3, <4>4
      <3>2. CASE ~listed
        BY <2>0, <2>2, <3>2 DEF GetAgent
      <3>3. QED
        BY <3>1, <3>2
    <2>3. CASE CheckState(r)
      <3>1. CASE state = "CONNECTED" /\ session
        BY <2>3, <3>1 DEF CheckState
      <3>2. CASE ~(state = "CONNECTED" /\ session)
        BY <2>0, <2>3, <3>2 DEF CheckState
      <3>3. QED
        BY <3>1, <3>2
    <2>4. CASE Submit(r)
      <3>1. CASE pc' = [pc EXCEPT ![r] = "storing"] /\ UNCHANGED replyVars
        BY <2>4, <3>1 DEF Submit
      <3>2. CASE pc' = [pc EXCEPT ![r] = "returned"] /\ Answer({r}, "502")
        BY <2>0, <2>4, <3>2 DEF Submit
      <3>3. QED
        BY <2>4, <3>1, <3>2 DEF Submit
    <2>5. CASE Store(r)
      <3>1. /\ pc[r] = "storing" /\ pc' = [pc EXCEPT ![r] = "flushing"]
            /\ pending' = [pending EXCEPT ![id[r]] = r]
            /\ UNCHANGED <<id, calls>>
        BY <2>5 DEF Store
      <3>2. id[r] \in Seconds /\ \A i \in Seconds : pending[i] # r
        BY <3>1 DEF IdOrder
      <3>3. QED
        BY <3>1, <3>2
    <2>6. CASE Flush(r) \/ CloseReturns(r) \/ ArmTimer(r)
      <3>1. /\ pc[r] \in {"flushing", "closing", "arming"}
            /\ \E p \in {"closing", "arming", "returned"} : pc' = [pc EXCEPT ![r] = p]
            /\ UNCHANGED <<id, calls, pending>>
        BY <2>6 DEF Flush, CloseReturns, ArmTimer
      <3>2. QED
        BY <3>1
    <2>7. QED
      BY <1>1, <2>1, <2>2, <2>3, <2>4, <2>5, <2>6 DEF Http
  <1>2. ASSUME NEW i \in Seconds, NEW v, pending[i] # NoReq, NEW q \in Reqs,
               Answer({pending[i]}, v),
               pending' = [pending EXCEPT ![i] = NoReq],
               UNCHANGED <<pc, id>>
        PROVE  Once(q)
    BY <1>2, ReqsAssumption DEF Answer, TypeOK, CallbackOnce, AnsweredOnce
  <1>3. ASSUME NEW r \in Reqs, TimerFires(r) PROVE CallbackOnce' /\ AnsweredOnce'
    <2>1. id[r] \in Seconds
      BY <1>3 DEF TimerFires, IdOrder
    <2>2. CASE pending[id[r]] # NoReq
      BY <1>0, <1>2, <1>3, <2>1, <2>2 DEF TimerFires
    <2>3. CASE pending[id[r]] = NoReq
      BY <1>3, <2>3, QuietStep DEF TimerFires
    <2>4. QED
      BY <2>2, <2>3
  <1>4. ASSUME NEW r \in Reqs, ReadResponse(r) PROVE CallbackOnce' /\ AnsweredOnce'
    <2>1. CASE Known(r)
      <3>1. stream[r] \in Seconds /\ pending[stream[r]] # NoReq
        BY <2>1 DEF Known, TypeOK
      <3>2. QED
        BY <1>0, <1>2, <1>4, <2>1, <3>1 DEF ReadResponse
    <2>2. CASE ~Known(r)
      BY <1>4, <2>2, QuietStep DEF ReadResponse
    <2>3. QED
      BY <2>1, <2>2
  <1>5. ASSUME NEW x \in Threads, CloseDrain(x), NEW q \in Reqs PROVE Once(q)
    <2>1. /\ calls' = [r \in Reqs |-> IF r \in Stored THEN calls[r] + 1 ELSE calls[r]]
          /\ pending' = [s \in Seconds |-> NoReq]
          /\ pc' = pc
      BY <1>5 DEF CloseDrain, Answer
    <2>2. q \in Stored => /\ calls[q] = 0
                          /\ pc[q] \in {"flushing", "closing", "arming", "returned"}
      BY DEF Stored, CallbackOnce
    <2>3. QED
      BY <2>1, <2>2, ReqsAssumption DEF TypeOK, CallbackOnce, AnsweredOnce
  <1>6. ASSUME NEW x \in Threads, Close(x), ~CloseDrain(x)
        PROVE  CallbackOnce' /\ AnsweredOnce'
    BY <1>6, QuietStep DEF Close, CloseEnter, CloseDelete, CloseNotify
  <1>7. CASE ReadOther \/ ReadGoaway \/ ReadFails \/ ReadEnds \/ HeartbeatEnds
    BY <1>7, QuietStep DEF ReadOther, ReadGoaway, ReadFails, ReadEnds, HeartbeatEnds
  <1>8. CASE BeginRead \/ HeartbeatFails \/ Unlist
    BY <1>8, QuietStep DEF BeginRead, HeartbeatFails, Unlist
  <1>9. CASE SessionRace \/ \E x \in Threads : DeadSession(x)
    BY <1>9, QuietStep DEF SessionRace, DeadSession
  <1>10. CASE UNCHANGED vars
    BY <1>10, QuietStep
  <1>11. QED
    BY <1>0, <1>1, <1>3, <1>4, <1>5, <1>6, <1>7, <1>8, <1>9, <1>10
    DEF Next, Handle, Threads

-----------------------------------------------------------------------------
(***************************************************************************)
(* Type correctness of the requests, the maps and the connection.          *)
(***************************************************************************)
THEOREM TypeCorrect == Spec => [](TypeOK /\ IdOrder)
  <1>1. Init => TypeOK /\ IdOrder
    BY InitInv
  <1>2. TypeOK /\ IdOrder /\ [Next]_vars => (TypeOK /\ IdOrder)'
    BY TypeStep, OrderStep
  <1>3. QED
    BY <1>1, <1>2, PTL DEF Spec

(***************************************************************************)
(* However response, timer, close() on several threads and refusals race,  *)
(* and however many requests share an id, no callback is called twice.     *)
(***************************************************************************)
THEOREM NeverAnsweredTwice == Spec => [](CallbackOnce /\ AnsweredOnce)
  <1>1. Init => CallbackOnce /\ AnsweredOnce
    BY InitInv
  <1>2. /\ TypeOK /\ IdOrder /\ CallbackOnce /\ AnsweredOnce /\ [Next]_vars
        => (CallbackOnce /\ AnsweredOnce)'
    BY CallbackStep
  <1>3. QED
    BY <1>1, <1>2, TypeCorrect, PTL DEF Spec

-----------------------------------------------------------------------------
(***************************************************************************)
(* No two requests have the same request id.                               *)
(***************************************************************************)
UniqueIds == \A q, r \in Reqs : id[q] = id[r] /\ id[r] # NoId => q = r

\* Who has been given something has had its callback called.
Silent == \A r \in Reqs : calls[r] = 0 => reply[r] = NoReply

(***************************************************************************)
(* If no second is shared, the id of a request is that of no other.        *)
(***************************************************************************)
LEMMA FreshId ==
  ASSUME PerSecond <= 1, TypeOK, NEW s \in Seconds,
         Cardinality({q \in Reqs : id[q] = s}) < PerSecond
  PROVE  \A q \in Reqs : id[q] # s
  <1> DEFINE Same == {q \in Reqs : id[q] = s}
  <1>1. IsFiniteSet(Same)
    BY ReqsAssumption, FS_Subset
  <1>2. Cardinality(Same) \in Nat /\ (Cardinality(Same) = 0 <=> Same = {})
    BY <1>1, FS_CardinalityType, FS_EmptySet
  <1>3. Cardinality(Same) = 0
    BY <1>2, SecondsAssumption
  <1>4. QED
    BY <1>2, <1>3

\* get_agent() gives an id of its own while no second is shared.
LEMMA UniqueStep ==
  ASSUME PerSecond <= 1, TypeOK, UniqueIds, [Next]_vars
  PROVE  UniqueIds'
  <1>1. ASSUME NEW r \in Reqs, GetAgent(r), listed PROVE UniqueIds'
    <2>1. PICK s \in Seconds : /\ Cardinality({q \in Reqs : id[q] = s}) < PerSecond
                               /\ id' = [id EXCEPT ![r] = s]
      BY <1>1 DEF GetAgent
    <2>2. \A q \in Reqs : id[q] # s
      BY <2>1, FreshId
    <2>3. QED
      BY <2>1, <2>2 DEF UniqueIds, TypeOK
  <1>2. ASSUME NEW r \in Reqs, GetAgent(r), ~listed PROVE UNCHANGED id
    BY <1>2 DEF GetAgent
  <1>3. ASSUME NEW r \in Reqs, Http(r), ~GetAgent(r) PROVE UNCHANGED id
    BY <1>3 DEF Http, IsConnected, CheckState, Submit, Store, Flush, CloseReturns, ArmTimer
  <1>4. ASSUME NEW r \in Reqs, TimerFires(r) \/ ReadResponse(r) PROVE UNCHANGED id
    BY <1>4 DEF TimerFires, ReadResponse
  <1>5. ASSUME NEW x \in Threads, Close(x) \/ DeadSession(x) PROVE UNCHANGED id
    BY <1>5 DEF Close, CloseEnter, CloseDelete, CloseDrain, CloseNotify, DeadSession
  <1>6. CASE ReadOther \/ ReadGoaway \/ ReadFails \/ ReadEnds \/ HeartbeatEnds
    BY <1>6 DEF ReadOther, ReadGoaway, ReadFails, ReadEnds, HeartbeatEnds, UniqueIds
  <1>7. CASE BeginRead \/ HeartbeatFails \/ Unlist \/ SessionRace \/ UNCHANGED vars
    BY <1>7 DEF BeginRead, HeartbeatFails, Unlist, SessionRace, UniqueIds
  <1>8. UNCHANGED id => UniqueIds'
    BY DEF UniqueIds
  <1>9. QED
    BY <1>1, <1>2, <1>3, <1>4, <1>5, <1>6, <1>7, <1>8 DEF Next, Handle, Threads

(***************************************************************************)
(* To fail requests whose callback was not yet called is a step of the     *)
(* promise, and so is to give a request its own response.                  *)
(***************************************************************************)
LEMMA FailStep ==
  ASSUME TypeOK, Silent, NEW S \in SUBSET Reqs, NEW e \in Errors,
         \A q \in S : calls[q] = 0, Answer(S, e)
  PROVE  Promise!Next /\ Silent'
  <1>1. Promise!Fail(S, e)
    BY DEF Promise!Fail, Promise!Waiting, Silent, Answer
  <1>2. Silent'
    BY DEF Silent, Answer, TypeOK
  <1>3. QED
    BY <1>1, <1>2 DEF Promise!Next

\* The first call of a callback with a response is the first reply to its client.
LEMMA RespondStep ==
  ASSUME TypeOK, Silent, NEW r \in Reqs, calls[r] = 0, Answer({r}, r)
  PROVE  Promise!Next /\ Silent'
  <1>1. Promise!Respond(r)
    BY DEF Promise!Respond, Promise!Waiting, Silent, Answer, TypeOK
  <1>2. Silent'
    BY DEF Silent, Answer, TypeOK
  <1>3. QED
    BY <1>1, <1>2 DEF Promise!Next

(***************************************************************************)
(* Every step of the server is a step of the promise or shows the clients  *)
(* nothing.                                                                *)
(***************************************************************************)
LEMMA PromiseStep ==
  ASSUME TypeOK, IdOrder, CallbackOnce, UniqueIds, Silent, [Next]_vars
  PROVE  [Promise!Next]_reply /\ Silent'
  <1> DEFINE Good == [Promise!Next]_reply /\ Silent'
  <1> "500" \in Errors /\ "502" \in Errors /\ "503" \in Errors
    BY DEF Errors
  <1>0. UNCHANGED replyVars => Good
    BY DEF Silent
  <1>1. ASSUME NEW r \in Reqs, Http(r) PROVE Good
    <2>1. ASSUME pc[r] \in {"new", "routing", "sending", "submitting"},
                 NEW e \in Errors, Answer({r}, e)
          PROVE  Good
      <3>1. calls[r] = 0
        BY <2>1 DEF CallbackOnce
      <3>2. QED
        BY <2>1, <3>1, FailStep
    <2>2. CASE IsConnected(r)
      BY <1>0, <2>1, <2>2 DEF IsConnected, Step
    <2>3. CASE GetAgent(r)
      BY <1>0, <2>1, <2>3 DEF GetAgent, Step
    <2>4. CASE CheckState(r)
      BY <1>0, <2>1, <2>4 DEF CheckState, Step
    <2>5. CASE Submit(r)
      BY <1>0, <2>1, <2>5 DEF Submit, Step
    <2>6. CASE Store(r) \/ Flush(r) \/ CloseReturns(r) \/ ArmTimer(r)
      BY <1>0, <2>6 DEF Store, Flush, CloseReturns, ArmTimer
    <2>7. QED
      BY <1>1, <2>2, <2>3, <2>4, <2>5, <2>6 DEF Http
  <1>2. ASSUME NEW r \in Reqs, TimerFires(r) PROVE Good
    <2>1. CASE pending[id[r]] # NoReq
      <3>1. id[r] \in Seconds
        BY <1>2 DEF TimerFires, IdOrder
      <3>2. pending[id[r]] \in Reqs /\ calls[pending[id[r]]] = 0
        BY <2>1, <3>1 DEF TypeOK, CallbackOnce
      <3>3. Answer({pending[id[r]]}, "502")
        BY <1>2, <2>1 DEF TimerFires
      <3>4. QED
        BY <3>2, <3>3, FailStep
    <2>2. CASE pending[id[r]] = NoReq
      BY <1>0, <1>2, <2>2 DEF TimerFires
    <2>3. QED
      BY <2>1, <2>2
  <1>3. ASSUME NEW r \in Reqs, ReadResponse(r) PROVE Good
    <2>1. CASE Known(r)
      <3>1. /\ stream[r] = id[r] /\ id[r] \in Seconds
            /\ pending[id[r]] \in Reqs
        BY <2>1 DEF Known, IdOrder, TypeOK
      <3>2. pending[id[r]] = r
        BY <3>1 DEF CallbackOnce, UniqueIds
      <3>3. calls[r] = 0
        BY <3>1, <3>2 DEF CallbackOnce
      <3>4. Answer({r}, r)
        BY <1>3, <2>1, <3>1, <3>2 DEF ReadResponse
      <3>5. QED
        BY <3>3, <3>4, RespondStep
    <2>2. CASE ~Known(r)
      BY <1>0, <1>3, <2>2 DEF ReadResponse
    <2>3. QED
      BY <2>1, <2>2
  <1>4. ASSUME NEW x \in Threads, CloseDrain(x) PROVE Good
    <2>1. Stored \in SUBSET Reqs /\ \A q \in Stored : calls[q] = 0
      BY DEF Stored, TypeOK, CallbackOnce
    <2>2. Answer(Stored, "502")
      BY <1>4 DEF CloseDrain
    <2>3. QED
      BY <2>1, <2>2, FailStep
  <1>5. ASSUME NEW x \in Threads, Close(x), ~CloseDrain(x) PROVE Good
    BY <1>0, <1>5 DEF Close, CloseEnter, CloseDelete, CloseNotify
  <1>6. CASE ReadOther \/ ReadGoaway \/ ReadFails \/ ReadEnds \/ HeartbeatEnds
    BY <1>0, <1>6 DEF ReadOther, ReadGoaway, ReadFails, ReadEnds, HeartbeatEnds
  <1>7. CASE BeginRead \/ HeartbeatFails \/ Unlist \/ SessionRace \/ UNCHANGED vars
    BY <1>0, <1>7 DEF BeginRead, HeartbeatFails, Unlist, SessionRace
  <1>8. CASE \E x \in Threads : DeadSession(x)
    BY <1>0, <1>8 DEF DeadSession
  <1>9. QED
    BY <1>1, <1>2, <1>3, <1>4, <1>5, <1>6, <1>7, <1>8 DEF Next, Handle, Threads

-----------------------------------------------------------------------------
(***************************************************************************)
(* As long as no two requests are routed to the agent within one second,   *)
(* ids are unique and nobody is given anything without a call.             *)
(***************************************************************************)
THEOREM IdsUnique == ASSUME PerSecond <= 1 PROVE Spec => [](UniqueIds /\ Silent)
  <1>1. Init => UniqueIds /\ Silent
    BY DEF Init, UniqueIds, Silent
  <1>2. /\ TypeOK /\ IdOrder /\ CallbackOnce /\ UniqueIds /\ Silent /\ [Next]_vars
        => (UniqueIds /\ Silent)'
    BY UniqueStep, PromiseStep
  <1>3. QED
    BY <1>1, <1>2, TypeCorrect, NeverAnsweredTwice, PTL DEF Spec

(***************************************************************************)
(* With unique ids the maps, the timers and close() implement the promise  *)
(* to the clients.                                                         *)
(***************************************************************************)
THEOREM PromiseKept == ASSUME PerSecond <= 1 PROVE Spec => ImplementsReply
  <1>1. Init => Promise!Init
    BY DEF Init, Promise!Init
  <1>2. /\ TypeOK /\ IdOrder /\ CallbackOnce /\ UniqueIds /\ Silent /\ [Next]_vars
        => [Promise!Next]_reply
    BY PromiseStep
  <1>3. QED
    BY <1>1, <1>2, TypeCorrect, NeverAnsweredTwice, IdsUnique, PTL
    DEF Spec, ImplementsReply, Promise!Spec

(***************************************************************************)
(* With unique ids no client is given the response to another's request.   *)
(***************************************************************************)
THEOREM EveryReplyOwn == ASSUME PerSecond <= 1 PROVE Spec => []OwnReply
  <1>1. Promise!Init => OwnReply
    BY DEF Promise!Init, OwnReply
  <1>2. TypeOK /\ OwnReply /\ [Promise!Next]_reply => OwnReply'
    <2> SUFFICES ASSUME TypeOK, OwnReply, [Promise!Next]_reply, NEW q \in Reqs
                 PROVE  reply'[q] \in {q, NoReply} \cup Errors
      BY DEF OwnReply
    <2>1. ASSUME NEW r \in Reqs, Promise!Respond(r)
          PROVE  reply'[q] \in {q, NoReply} \cup Errors
      BY <2>1 DEF Promise!Respond, OwnReply, TypeOK
    <2>2. ASSUME NEW S \in SUBSET Reqs, NEW e \in Errors, Promise!Fail(S, e)
          PROVE  reply'[q] \in {q, NoReply} \cup Errors
      BY <2>2 DEF Promise!Fail, OwnReply
    <2>3. QED
      BY <2>1, <2>2 DEF Promise!Next, OwnReply
  <1>3. QED
    BY <1>1, <1>2, TypeCorrect, PromiseKept, PTL DEF ImplementsReply, Promise!Spec
-----------------------------------------------------------------------------
(***************************************************************************)
(* A step that takes no callback out of the maps, moves no request past    *)
(* Store() or ArmTimer() and gives nobody a reply keeps Reachable.         *)
(***************************************************************************)
LEMMA StillReachable ==
  ASSUME Reachable, UNCHANGED <<pc, id, reply, pending, timer>>
  PROVE  Reachable'
  BY DEF Reachable

(***************************************************************************)
(* Whoever takes a callback out of the maps answers its request in the     *)
(* same step; with unique ids nobody else's callback stands in the way.    *)
(***************************************************************************)
LEMMA ReachableStep ==
  ASSUME TypeOK, IdOrder, CallbackOnce, UniqueIds, Reachable, [Next]_vars
  PROVE  Reachable'
  <1> DEFINE Reached(q) == reply'[q] = NoReply =>
        /\ pc'[q] \in {"flushing", "closing", "arming", "returned"} =>
             pending'[id'[q]] = q
        /\ pc'[q] = "returned" => timer'[q] = "armed"
  <1>0. ASSUME \A q \in Reqs : Reached(q) PROVE Reachable'
    BY <1>0 DEF Reachable
  <1>a. /\ NoReply \notin Reqs /\ NoReply \notin Errors
        /\ "500" \in Errors /\ "502" \in Errors /\ "503" \in Errors
    BY NoReplyAssumption DEF Errors
  <1>1. ASSUME NEW r \in Reqs, Http(r), NEW q \in Reqs PROVE Reached(q)
    <2> USE DEF TypeOK, Reachable, Step
    <2>0. ASSUME pc' = [pc EXCEPT ![r] = "returned"], NEW e \in Errors,
                 Answer({r}, e), UNCHANGED <<id, pending, timer>>
          PROVE  Reached(q)
      BY <1>a, <2>0 DEF Answer
    <2>1. CASE IsConnected(r)
      BY <1>a, <2>0, <2>1 DEF IsConnected
    <2>2. CASE GetAgent(r)
      <3>1. CASE listed
        <4>1. PICK s \in Seconds : id' = [id EXCEPT ![r] = s]
          BY <2>2, <3>1 DEF GetAgent
        <4>2. /\ pc[r] = "routing" /\ pc' = [pc EXCEPT ![r] = "sending"]
              /\ UNCHANGED <<reply, pending, timer>>
          BY <2>2, <3>1 DEF GetAgent
        <4>3. QED
          BY <4>1, <4>2
      <3>2. CASE ~listed
        BY <1>a, <2>0, <2>2, <3>2 DEF GetAgent
      <3>3. QED
        BY <3>1, <3>2
    <2>3. CASE CheckState(r)
      BY <1>a, <2>0, <2>3 DEF CheckState
    <2>4. CASE Submit(r)
      BY <1>a, <2>0, <2>4 DEF Submit
    <2>5. CASE Store(r)
      <3>1. /\ pc[r] = "storing" /\ pc' = [pc EXCEPT ![r] = "flushing"]
            /\ pending' = [pending EXCEPT ![id[r]] = r]
            /\ UNCHANGED <<id, reply, timer>>
        BY <2>5 DEF Store
      <3>2. id[r] \in Seconds
        BY <3>1 DEF IdOrder
      <3>3. CASE q = r
        BY <3>1, <3>2, <3>3
      <3>4. CASE q # r
        <4>1. id[q] # id[r]
          BY <3>2, <3>4 DEF UniqueIds
        <4>2. reply[q] = NoReply /\ pc[q] = "returned" => id[q] \in Seconds
          BY DEF IdOrder
        <4>3. QED
          BY <3>1, <3>2, <3>4, <4>1, <4>2 DEF IdOrder
      <3>5. QED
        BY <3>3, <3>4
    <2>6. CASE Flush(r) \/ CloseReturns(r)
      <3>1. /\ pc[r] \in {"flushing", "closing"}
            /\ \E p \in {"closing", "arming"} : pc' = [pc EXCEPT ![r] = p]
            /\ UNCHANGED <<id, reply, pending, timer>>
        BY <2>6 DEF Flush, CloseReturns
      <3>2. QED
        BY <3>1
    <2>7. CASE ArmTimer(r)
      BY <2>7 DEF ArmTimer
    <2>8. QED
      BY <1>1, <2>1, <2>2, <2>3, <2>4, <2>5, <2>6, <2>7 DEF Http
  <1>2. ASSUME NEW r \in Reqs, id[r] \in Seconds, pending[id[r]] # NoReq,
               NEW v \in Reqs \cup Errors, Answer({pending[id[r]]}, v),
               pending' = [pending EXCEPT ![id[r]] = NoReq],
               UNCHANGED <<pc, id>>,
               \A q \in Reqs : q # r => timer'[q] = timer[q],
               NEW q \in Reqs
        PROVE  Reached(q)
    <2>1. pending[id[r]] = r
      BY <1>2 DEF TypeOK, CallbackOnce, UniqueIds
    <2>2. CASE q = r
      BY <1>a, <1>2, <2>1, <2>2 DEF Answer
    <2>3. CASE q # r
      <3>1. id[q] # id[r]
        BY <1>2, <2>3 DEF UniqueIds
      <3>2. reply[q] = NoReply /\ pc[q] = "returned" => id[q] \in Seconds
        BY DEF Reachable, IdOrder
      <3>3. reply'[q] = reply[q] /\ timer'[q] = timer[q]
        BY <1>2, <2>1, <2>3 DEF Answer
      <3>4. QED
        BY <1>2, <3>1, <3>2, <3>3 DEF Reachable, IdOrder, TypeOK
    <2>4. QED
      BY <2>2, <2>3
  <1>3. ASSUME NEW r \in Reqs, TimerFires(r) PROVE Reachable'
    <2>1. id[r] \in Seconds
      BY <1>3 DEF TimerFires, IdOrder
    <2>2. \A q \in Reqs : q # r => timer'[q] = timer[q]
      BY <1>3 DEF TimerFires, TypeOK
    <2>3. CASE pending[id[r]] # NoReq
      BY <1>a, <1>0, <1>2, <1>3, <2>1, <2>2, <2>3 DEF TimerFires
    <2>4. CASE pending[id[r]] = NoReq
      <3>1. r # NoReq
        BY ReqsAssumption
      <3>2. ~(reply[r] = NoReply
              /\ pc[r] \in {"flushing", "closing", "arming", "returned"})
        BY <2>4, <3>1 DEF Reachable
      <3>3. UNCHANGED <<pc, id, reply, pending>>
        BY <1>3, <2>4 DEF TimerFires
      <3>4. \A q \in Reqs : Reached(q)
        BY <2>2, <3>2, <3>3 DEF Reachable
      <3>5. QED
        BY <1>0, <3>4
    <2>5. QED
      BY <2>3, <2>4
  <1>4. ASSUME NEW r \in Reqs, ReadResponse(r) PROVE Reachable'
    <2>1. CASE Known(r)
      <3>1. stream[r] = id[r] /\ id[r] \in Seconds /\ pending[id[r]] # NoReq
        BY <2>1 DEF Known, IdOrder, TypeOK
      <3>2. QED
        BY <1>0, <1>2, <1>4, <2>1, <3>1 DEF ReadResponse
    <2>2. CASE ~Known(r)
      BY <1>4, <2>2, StillReachable DEF ReadResponse
    <2>3. QED
      BY <2>1, <2>2
  <1>5. ASSUME NEW x \in Threads, CloseDrain(x), NEW q \in Reqs PROVE Reached(q)
    <2>1. /\ reply' = [r \in Reqs |-> IF r \in Stored THEN "502" ELSE reply[r]]
          /\ UNCHANGED <<pc, id, timer>>
      BY <1>5 DEF CloseDrain, Answer
    <2>2. ASSUME reply'[q] = NoReply
          PROVE  reply[q] = NoReply /\ q \notin Stored
      BY <1>a, <2>1, <2>2
    <2>3. ASSUME q \notin Stored, reply[q] = NoReply
          PROVE  pc[q] \notin {"flushing", "closing", "arming", "returned"}
      <3>1. \A s \in Seconds : pending[s] # q
        BY <2>3, ReqsAssumption DEF Stored
      <3>2. QED
        BY <2>3, <3>1 DEF Reachable, IdOrder
    <2>4. QED
      BY <2>1, <2>2, <2>3
  <1>6. ASSUME NEW x \in Threads, Close(x), ~CloseDrain(x) PROVE Reachable'
    BY <1>6, StillReachable DEF Close, CloseEnter, CloseDelete, CloseNotify
  <1>7. CASE ReadOther \/ ReadGoaway \/ ReadFails \/ ReadEnds \/ HeartbeatEnds
    BY <1>7, StillReachable DEF ReadOther, ReadGoaway, ReadFails, ReadEnds, HeartbeatEnds
  <1>8. CASE BeginRead \/ HeartbeatFails \/ Unlist
    BY <1>8, StillReachable DEF BeginRead, HeartbeatFails, Unlist
  <1>9. CASE SessionRace \/ \E x \in Threads : DeadSession(x)
    BY <1>9, StillReachable DEF SessionRace, DeadSession
  <1>10. CASE UNCHANGED vars
    BY <1>10, StillReachable
  <1>11. QED
    BY <1>0, <1>1, <1>3, <1>4, <1>5, <1>6, <1>7, <1>8, <1>9, <1>10
    DEF Next, Handle, Threads

(***************************************************************************)
(* With unique ids an unanswered request stays within reach of response,   *)
(* timer and handle_disconnect(), and no call of send_http_request() ends  *)
(* without an answer or an armed timer.                                    *)
(***************************************************************************)
THEOREM AlwaysReachable == ASSUME PerSecond <= 1 PROVE Spec => []Reachable
  <1>1. Init => Reachable
    BY DEF Init, Reachable
  <1>2. /\ TypeOK /\ IdOrder /\ CallbackOnce /\ UniqueIds /\ Reachable /\ [Next]_vars
        => Reachable'
    BY ReachableStep
  <1>3. QED
    BY <1>1, <1>2, TypeCorrect, NeverAnsweredTwice, IdsUnique, PTL DEF Spec

(***************************************************************************)
(* A callback in pending_requests_ was never called and stands there under *)
(* the id of its request alone, also while ids collide: the io thread, the *)
(* timer and handle_disconnect() each erase before they call.              *)
(***************************************************************************)
THEOREM CallbacksOnce == Spec => []CallbackOnce
  BY NeverAnsweredTwice, PTL
=============================================================================
