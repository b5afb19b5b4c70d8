---------------------------- MODULE AgentLife_proofs ----------------------------
(***************************************************************************)
(* What holds of the tunnel agent for any health configuration, delays and *)
(* number of streams: its types, that a session in use is attended to,     *)
(* that no answer goes to a session that was deleted, and that the         *)
(* heartbeat does not end a session for no reason.                         *)
(***************************************************************************)
EXTENDS AgentLife, TLAPS

USE DEF Runs, CanRun, CanRead, mainVars, beat, requests, vars

(***************************************************************************)
(* ReconnectionManager keeps its delay within the configured bounds.       *)
(***************************************************************************)
LEMMA RetryDelay ==
  ASSUME delay \in InitialDelay..MaxDelay, Retry
  PROVE  delay' \in InitialDelay..MaxDelay
  BY DelayAssumption DEF Retry, Smaller

(***************************************************************************)
(* At the bottom of its loop run_agent() waits or ends.                    *)
(***************************************************************************)
LEMMA RetryMain ==
  ASSUME Retry
  PROVE  \/ main' = "backoff" /\ UNCHANGED process
         \/ process' = "ended" /\ UNCHANGED main
  BY DEF Retry

-----------------------------------------------------------------------------
(***************************************************************************)
(* Every variable stays within its type, whichever thread makes the step.  *)
(***************************************************************************)
LEMMA TypeStep == TypeOK /\ [Next]_vars => TypeOK'
  <1> SUFFICES ASSUME TypeOK, [Next]_vars PROVE TypeOK'
    OBVIOUS
  <1> USE DEF TypeOK
  <1>1. CASE DialOk \/ AuthOk \/ LoopNotices \/ Awake \/ Signal
    <2>1. CASE DialOk
      BY <2>1, BoundAssumption DEF DialOk
    <2>2. CASE AuthOk
      <3>1. pingAge' \in 0..Interval /\ ackAge' \in 0..Timeout
        BY <2>2, HealthAssumption DEF AuthOk, Watched
      <3>2. delay' \in InitialDelay..MaxDelay
        BY <2>2, DelayAssumption DEF AuthOk, Watched
      <3>3. QED
        BY <2>2, <3>1, <3>2 DEF AuthOk, Watched
    <2>3. CASE LoopNotices \/ Awake \/ Signal
      BY <2>3 DEF LoopNotices, Awake, Signal
    <2>4. QED
      BY <1>1, <2>1, <2>2, <2>3
  <1>2. CASE DialFails \/ AuthFails \/ Join
    <2>1. delay' \in InitialDelay..MaxDelay
      BY <1>2, RetryDelay DEF DialFails, AuthFails, Join
    <2>2. /\ main' \in {"dial", "auth", "loop", "join", "backoff"}
          /\ process' \in {"runs", "ended", "crashed"}
      BY <1>2, RetryMain DEF DialFails, AuthFails, Join
    <2>3. CASE DialFails
      BY <2>1, <2>2, <2>3 DEF DialFails
    <2>4. CASE AuthFails
      BY <2>1, <2>2, <2>4 DEF AuthFails
    <2>5. CASE Join
      BY <2>1, <2>2, <2>5 DEF Join
    <2>6. QED
      BY <1>2, <2>3, <2>4, <2>5
  <1>3. CASE CheckStops \/ Check \/ GiveUp
    BY <1>3 DEF CheckStops, Check, GiveUp, AfterSend
  <1>4. CASE ReadAck \/ ReadFails \/ LateRead
    <2>1. ackAge' \in 0..Timeout
      BY <1>4, HealthAssumption DEF ReadAck, ReadFails, LateRead
    <2>2. excuse' \in BOOLEAN /\ reading' \in BOOLEAN
      BY <1>4 DEF ReadAck, ReadFails, LateRead
    <2>3. QED
      BY <1>4, <2>1, <2>2 DEF ReadAck, ReadFails, LateRead
  <1>5. CASE ForwardDone
    BY <1>5 DEF ForwardDone, AfterResponse, AfterSend
  <1>6. ASSUME NEW s \in Streams, ReadHeaders(s) \/ ReadRequest(s) \/ ServerSends(s)
        PROVE  TypeOK'
    BY <1>6 DEF ReadHeaders, ReadRequest, ServerSends
  <1>7. CASE PeerAcks \/ LinkLost \/ PeerTurns
    BY <1>7 DEF PeerAcks, LinkLost, PeerTurns
  <1>8. CASE Tick
    <2>1. pingAge' \in 0..Interval /\ ackAge' \in 0..Timeout
      BY <1>8, HealthAssumption DEF Tick, Smaller
    <2>2. excuse' \in BOOLEAN /\ due' \in BOOLEAN
      BY <1>8 DEF Tick
    <2>3. QED
      BY <1>8, <2>1, <2>2 DEF Tick
  <1>9. CASE UNCHANGED vars
    BY <1>9
  <1>10. QED
    BY <1>1, <1>2, <1>3, <1>4, <1>5, <1>6, <1>7, <1>8, <1>9 DEF Next

(***************************************************************************)
(* Type correctness of the two threads, the session and the timers; the    *)
(* delay between two dials stays within its configured bounds.             *)
(***************************************************************************)
THEOREM TypeCorrect == Spec => []TypeOK
  <1>1. Init => TypeOK
    <2> SUFFICES ASSUME Init PROVE TypeOK
      OBVIOUS
    <2>1. /\ pingAge \in 0..Interval /\ ackAge \in 0..Timeout
          /\ delay \in InitialDelay..MaxDelay /\ sessions \in 0..MaxSessions
      BY HealthAssumption, DelayAssumption, BoundAssumption DEF Init
    <2>2. QED
      BY <2>1, StreamAssumption DEF Init, TypeOK
  <1>2. TypeOK /\ [Next]_vars => TypeOK'
    BY TypeStep
  <1>3. QED
    BY <1>1, <1>2, PTL DEF Spec

-----------------------------------------------------------------------------
(***************************************************************************)
(* The io thread is inside forward() only for a session that exists, and   *)
(* the main thread deletes a session only after join(): whatever order the *)
(* two threads take, the answer of the local service is never written to a *)
(* session that is gone.                                                   *)
(***************************************************************************)
THEOREM NeverUsedAfterStop == Spec => []NoUseAfterStop
  <1>1. Init => NoUseAfterStop
    BY DEF Init, NoUseAfterStop
  <1>2. NoUseAfterStop /\ [Next]_vars => NoUseAfterStop'
    <2> SUFFICES ASSUME NoUseAfterStop, [Next]_vars PROVE NoUseAfterStop'
      OBVIOUS
    <2> USE DEF NoUseAfterStop
    <2>1. CASE DialOk \/ DialFails \/ AuthOk \/ AuthFails \/ LoopNotices \/ Awake \/ Signal
      BY <2>1 DEF DialOk, DialFails, AuthOk, AuthFails, LoopNotices, Awake, Signal
    <2>2. CASE Join
      BY <2>2 DEF Join
    <2>3. CASE CheckStops \/ Check \/ GiveUp \/ ReadAck \/ ReadFails \/ LateRead \/ ForwardDone
      BY <2>3 DEF CheckStops, Check, GiveUp, ReadAck, ReadFails, LateRead, ForwardDone
    <2>4. ASSUME NEW s \in Streams, ReadHeaders(s) \/ ReadRequest(s) \/ ServerSends(s)
          PROVE  NoUseAfterStop'
      BY <2>4 DEF ReadHeaders, ReadRequest, ServerSends
    <2>5. CASE PeerAcks \/ LinkLost \/ PeerTurns \/ Tick \/ UNCHANGED vars
      BY <2>5 DEF PeerAcks, LinkLost, PeerTurns, Tick
    <2>6. QED
      BY <2>1, <2>2, <2>3, <2>4, <2>5 DEF Next
  <1>3. QED
    BY <1>1, <1>2, PTL DEF Spec

-----------------------------------------------------------------------------
(***************************************************************************)
(* Between AuthOk and the end of the polling loop: the link is there or    *)
(* lost, the timer runs while the session is in use, and a read is pending *)
(* unless a request is forwarded.                                          *)
(***************************************************************************)
Watching ==
  main = "loop" =>
    /\ link # "none" /\ io # "none"
    /\ running /\ active => armed
    /\ active /\ io = "idle" => reading

\* Every handler starts the next one.
LEMMA WatchingStep == TypeOK /\ Watching /\ [Next]_vars => Watching'
  <1> SUFFICES ASSUME TypeOK, Watching, [Next]_vars PROVE Watching'
    OBVIOUS
  <1> USE DEF Watching
  <1>1. CASE DialOk \/ AuthOk \/ LoopNotices \/ Awake \/ Signal
    BY <1>1 DEF DialOk, AuthOk, Watched, LoopNotices, Awake, Signal
  <1>2. CASE DialFails \/ AuthFails \/ Join
    BY <1>2, RetryMain DEF DialFails, AuthFails, Join
  <1>3. CASE CheckStops \/ Check \/ GiveUp
    BY <1>3 DEF CheckStops, Check, GiveUp, AfterSend, TypeOK
  <1>4. CASE ReadAck \/ ReadFails \/ LateRead
    BY <1>4 DEF ReadAck, ReadFails, LateRead
  <1>8. CASE ForwardDone
    <2>1. reading' = active' /\ UNCHANGED <<main, link, running, armed>> /\ io' = "idle"
      BY <1>8 DEF ForwardDone
    <2>2. active' => active
      BY <1>8 DEF ForwardDone, AfterSend, TypeOK
    <2>3. QED
      BY <2>1, <2>2
  <1>5. ASSUME NEW s \in Streams, ReadHeaders(s) \/ ReadRequest(s) \/ ServerSends(s)
        PROVE  Watching'
    BY <1>5 DEF ReadHeaders, ReadRequest, ServerSends
  <1>6. CASE PeerAcks \/ LinkLost \/ PeerTurns \/ Tick \/ UNCHANGED vars
    BY <1>6 DEF PeerAcks, LinkLost, PeerTurns, Tick
  <1>7. QED
    BY <1>1, <1>2, <1>3, <1>4, <1>5, <1>6, <1>8 DEF Next

(***************************************************************************)
(* Watching holds throughout.                                              *)
(***************************************************************************)
LEMMA WatchingHolds == Spec => []Watching
  <1>1. Init => Watching
    BY DEF Init, Watching
  <1>2. TypeOK /\ Watching /\ [Next]_vars => Watching'
    BY WatchingStep
  <1>3. QED
    BY <1>1, <1>2, TypeCorrect, PTL DEF Spec

(***************************************************************************)
(* A session in use never loses its read or its heartbeat: every handler   *)
(* that returns has started the next one.                                  *)
(***************************************************************************)
THEOREM AlwaysAttended == Spec => []Attended
  <1>1. Watching => Attended
    BY DEF Watching, Attended
  <1>2. QED
    BY <1>1, WatchingHolds, PTL

-----------------------------------------------------------------------------
(***************************************************************************)
(* While the server has no excuse to give, the last ACK is no older than   *)
(* the last PING can be; once PINGs are due, one is under way or about to  *)
(* be sent.                                                                *)
(***************************************************************************)
Punctual ==
  main = "loop" /\ running /\ active /\ ~excuse =>
    /\ ackAge <= pingAge
    /\ ackAge > 0 /\ pingAge = Interval /\ link = "up" => due \/ ping # "none"

\* The agent that gave up is on its way out and will not start a session.
Leaving == gaveUp => ~running /\ main \in {"loop", "join"}

(***************************************************************************)
(* A tick of the clock: what was under way has been handled, unless the    *)
(* server is silent or the local service slow.                             *)
(***************************************************************************)
LEMMA TickPunctual ==
  ASSUME TypeOK, Watching, Punctual, Tick
  PROVE  Punctual'
  <1> SUFFICES ASSUME main = "loop", running, active, ~excuse, ~silent,
                      io # "forwarding"
               PROVE  /\ ackAge' <= pingAge'
                      /\ due'
    BY DEF Punctual, Tick
  <1>1. armed /\ reading /\ link \in {"up", "lost"}
    BY DEF Watching, TypeOK
  <1>2. ~due /\ link = "up" /\ ping = "none"
    BY <1>1 DEF Tick, Ready, TypeOK
  <1>3. ackAge <= pingAge /\ (ackAge > 0 => pingAge # Interval)
    BY <1>2 DEF Punctual
  <1>4. pingAge \in 0..Interval /\ ackAge \in 0..Timeout
    BY DEF TypeOK
  <1>5. ackAge' <= pingAge'
    BY <1>3, <1>4, HealthAssumption DEF Tick, Smaller
  <1>6. QED
    BY <1>1, <1>5 DEF Tick

(***************************************************************************)
(* No handler and no step of the server lets the ACK fall behind.          *)
(***************************************************************************)
LEMMA PunctualStep ==
  TypeOK /\ Watching /\ Punctual /\ Leaving /\ [Next]_vars => Punctual'
  <1> SUFFICES ASSUME TypeOK, Watching, Punctual, Leaving, [Next]_vars
               PROVE  Punctual'
    OBVIOUS
  <1> USE DEF Punctual
  <1>0. pingAge \in 0..Interval /\ ackAge \in 0..Timeout
    BY DEF TypeOK
  <1>1. CASE AuthOk
    BY <1>1, HealthAssumption DEF AuthOk, Watched
  <1>2. CASE DialOk \/ LoopNotices \/ Awake \/ Signal
    BY <1>2 DEF DialOk, LoopNotices, Awake, Signal
  <1>3. CASE DialFails \/ AuthFails \/ Join
    BY <1>3, RetryMain DEF DialFails, AuthFails, Join
  <1>4. CASE Check
    BY <1>4 DEF Check, AfterSend, TypeOK
  <1>5. CASE CheckStops \/ GiveUp
    BY <1>5 DEF CheckStops, GiveUp
  <1>6. CASE ReadAck
    BY <1>6, <1>0, HealthAssumption DEF ReadAck
  <1>7. CASE ReadFails \/ LateRead
    BY <1>7 DEF ReadFails, LateRead
  <1>8. CASE ForwardDone
    BY <1>8 DEF ForwardDone, AfterSend
  <1>9. ASSUME NEW s \in Streams, ReadHeaders(s) \/ ReadRequest(s) \/ ServerSends(s)
        PROVE  Punctual'
    BY <1>9 DEF ReadHeaders, ReadRequest, ServerSends
  <1>10. CASE PeerAcks \/ LinkLost \/ PeerTurns \/ UNCHANGED vars
    BY <1>10 DEF PeerAcks, LinkLost, PeerTurns
  <1>11. CASE Tick
    BY <1>11, TickPunctual
  <1>12. QED
    BY <1>1, <1>2, <1>3, <1>4, <1>5, <1>6, <1>7, <1>8, <1>9, <1>10, <1>11 DEF Next

(***************************************************************************)
(* running = false is final, and the loop of run_agent() tests it before   *)
(* it dials again.                                                         *)
(***************************************************************************)
LEMMA LeavingStep == Leaving /\ [Next]_vars => Leaving'
  <1> SUFFICES ASSUME Leaving, [Next]_vars PROVE Leaving'
    OBVIOUS
  <1> USE DEF Leaving
  <1>1. CASE DialOk \/ DialFails \/ AuthOk \/ AuthFails \/ LoopNotices \/ Awake \/ Signal
    BY <1>1 DEF DialOk, DialFails, AuthOk, AuthFails, Watched, LoopNotices, Awake, Signal
  <1>2. CASE Join
    BY <1>2 DEF Join, Retry
  <1>3. CASE CheckStops \/ Check \/ GiveUp \/ ReadAck \/ ReadFails \/ LateRead \/ ForwardDone
    BY <1>3 DEF CheckStops, Check, GiveUp, ReadAck, ReadFails, LateRead, ForwardDone
  <1>4. ASSUME NEW s \in Streams, ReadHeaders(s) \/ ReadRequest(s) \/ ServerSends(s)
        PROVE  Leaving'
    BY <1>4 DEF ReadHeaders, ReadRequest, ServerSends
  <1>5. CASE PeerAcks \/ LinkLost \/ PeerTurns \/ Tick \/ UNCHANGED vars
    BY <1>5 DEF PeerAcks, LinkLost, PeerTurns, Tick
  <1>6. QED
    BY <1>1, <1>2, <1>3, <1>4, <1>5 DEF Next

(***************************************************************************)
(* The excuse of the agent that gave up is not forgotten, and an agent     *)
(* that is punctual cannot reach the timeout.                              *)
(***************************************************************************)
LEMMA ExcuseStep ==
  TypeOK /\ Punctual /\ Leaving /\ GivesUpOnlySilent /\ [Next]_vars
    => GivesUpOnlySilent'
  <1> SUFFICES ASSUME TypeOK, Punctual, Leaving, GivesUpOnlySilent, [Next]_vars
               PROVE  GivesUpOnlySilent'
    OBVIOUS
  <1> USE DEF GivesUpOnlySilent
  <1>1. CASE GiveUp
    <2>1. pingAge \in 0..Interval /\ ackAge \in 0..Timeout
      BY DEF TypeOK
    <2>2. excuse
      BY <1>1, <2>1, HealthAssumption DEF GiveUp, Punctual
    <2>3. QED
      BY <1>1, <2>2 DEF GiveUp
  <1>2. CASE AuthOk
    BY <1>2 DEF AuthOk, Watched, Leaving
  <1>3. CASE DialOk \/ DialFails \/ AuthFails \/ LoopNotices \/ Join \/ Awake \/ Signal
    BY <1>3 DEF DialOk, DialFails, AuthFails, LoopNotices, Join, Awake, Signal
  <1>4. CASE CheckStops \/ Check \/ ReadAck \/ ReadFails \/ LateRead \/ ForwardDone
    BY <1>4 DEF CheckStops, Check, ReadAck, ReadFails, LateRead, ForwardDone
  <1>5. ASSUME NEW s \in Streams, ReadHeaders(s) \/ ReadRequest(s) \/ ServerSends(s)
        PROVE  GivesUpOnlySilent'
    BY <1>5 DEF ReadHeaders, ReadRequest, ServerSends
  <1>6. CASE PeerAcks \/ LinkLost \/ PeerTurns \/ Tick \/ UNCHANGED vars
    BY <1>6 DEF PeerAcks, LinkLost, PeerTurns, Tick
  <1>7. QED
    BY <1>1, <1>2, <1>3, <1>4, <1>5, <1>6 DEF Next

(***************************************************************************)
(* For every interval and timeout that AgentConfig::validate() lets        *)
(* through: if is_timed_out() ends a session, the server was silent or the *)
(* local service slow for a part of the wait.  So last_ping_time_, which   *)
(* is set only once, does not make the agent give up on a server that      *)
(* answers at once while the local service is quick.  A slow local service *)
(* is an excuse like a silent server, and how long either took is not said.*)
(***************************************************************************)
THEOREM GivesUpOnlyWithExcuse == Spec => []GivesUpOnlySilent
  <1>1. Init => Punctual /\ Leaving /\ GivesUpOnlySilent
    BY DEF Init, Punctual, Leaving, GivesUpOnlySilent
  <1>2. TypeOK /\ Watching /\ Punctual /\ Leaving /\ [Next]_vars
          => Punctual' /\ Leaving'
    BY PunctualStep, LeavingStep
  <1>3. TypeOK /\ Punctual /\ Leaving /\ GivesUpOnlySilent /\ [Next]_vars
          => GivesUpOnlySilent'
    BY ExcuseStep
  <1>4. QED
    BY <1>1, <1>2, <1>3, TypeCorrect, WatchingHolds, PTL DEF Spec
=============================================================================
