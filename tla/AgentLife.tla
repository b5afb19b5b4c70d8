------------------------------- MODULE AgentLife -------------------------------
(***************************************************************************)
(* The tunnel agent: run_agent() on the main thread, which dials,          *)
(* authenticates, watches the session and dials again; the io thread of    *)
(* each session, which runs one handler at a time (the heartbeat check     *)
(* every 100 ms and the reads of HTTP2Session); the signal handler; and    *)
(* the server at the other end.                                            *)
(*                                                                         *)
(* A request is forwarded synchronously, inside the read handler: while    *)
(* io = "forwarding" no other handler runs.  One tick of the model stands  *)
(* for one period of the heartbeat check.  TCP frames are TCPTunnel's.     *)
(***************************************************************************)
EXTENDS Naturals

CONSTANTS
  Streams,       \* HTTP/2 streams that the server opens in a session
  FirstStream,   \* the first of them, number 1 in each session
  Interval,      \* ticks between two PINGs
  Timeout,       \* ticks without an ACK that end the session
  InitialDelay, MaxDelay,   \* of ReconnectionManager
  MaxSessions    \* bounds the dials that succeed

\* AgentConfig::validate() lets no other health configuration through.
ASSUME HealthAssumption ==
  Interval \in Nat /\ Timeout \in Nat /\ 0 < Interval /\ Interval < Timeout
ASSUME DelayAssumption ==
  /\ InitialDelay \in Nat /\ MaxDelay \in Nat
  /\ 0 < InitialDelay /\ InitialDelay <= MaxDelay
ASSUME StreamAssumption == FirstStream \in Streams
ASSUME BoundAssumption == MaxSessions \in Nat

VARIABLES
  running,   \* the global flag
  process,   \* "runs", "ended" or "crashed"
  main,      \* where run_agent() is
  link,      \* the TLS connection; "lost" when its end or error is readable
  silent,    \* the server is there but says nothing
  active,    \* HTTP2Session::active_
  session,   \* the nghttp2 session behind session_
  io,        \* what the io thread does
  reading,   \* an async_read_some() is pending
  due,       \* the heartbeat timer has expired
  armed,     \* the heartbeat timer is set or has expired
  pingAge,   \* ticks since last_ping_time_, which only start() sets
  ackAge,    \* ticks since last_ack_time_
  ping,      \* PINGs under way: none, sent, or acknowledged in the socket
  request,   \* the requests of the session
  serving,   \* the stream whose request is forwarded
  delay,     \* ReconnectionManager::current_delay_ms_
  sessions,  \* sessions so far
  excuse,    \* history: the wait for an ACK was not the agent's own doing
  gaveUp,    \* history: the heartbeat ended a session
  signalled  \* history: SIGINT or SIGTERM came

mainVars == <<process, main, delay, sessions>>
beat == <<due, armed, pingAge, ackAge, ping, excuse, gaveUp>>
requests == <<request, serving>>
vars == <<running, signalled, mainVars, link, silent, active, session, io, reading,
          beat, requests>>

TypeOK ==
  /\ {running, silent, active, reading, due, armed, excuse, gaveUp, signalled}
       \subseteq BOOLEAN
  /\ process \in {"runs", "ended", "crashed"}
  /\ main \in {"dial", "auth", "loop", "join", "backoff"}
  /\ link \in {"none", "up", "lost"}
  /\ session \in {"none", "live", "deleted"}
  /\ io \in {"none", "idle", "forwarding"}
  /\ pingAge \in 0..Interval /\ ackAge \in 0..Timeout
  /\ ping \in {"none", "sent", "acked"}
  /\ request \in [Streams -> {"none", "plain", "headers", "data", "forwarding",
                              "answered", "lost"}]
  /\ serving \in Streams
  /\ delay \in InitialDelay..MaxDelay
  /\ sessions \in 0..MaxSessions

Unread == {s \in Streams : request[s] \in {"plain", "headers", "data"}}
Runs == process = "runs"

\* What send_data() may leave of active_: a write to a link that is lost may
\* fail, and send_callback() reports it.
AfterSend == IF link = "up" THEN {active} ELSE {active, FALSE}

\* send_response(): submitted and written at once, or lost with the link.
AfterResponse ==
  [request EXCEPT ![serving] = IF link = "up" THEN "answered" ELSE "lost"]

-----------------------------------------------------------------------------
\* Main thread.

\* Faulty: the delay is not capped
FaultyRetry ==
  IF running
  THEN main' = "backoff" /\ delay' = 2 * delay /\ UNCHANGED process
  ELSE process' = "ended" /\ UNCHANGED <<main, delay>>

\* The bottom of the loop of run_agent(): get_next_delay_ms() and sleep.
Smaller(a, b) == IF a < b THEN a ELSE b
Retry ==
  IF running
  THEN /\ main' = "backoff"
       /\ delay' = Smaller(2 * delay, MaxDelay)
       /\ UNCHANGED process
  ELSE process' = "ended" /\ UNCHANGED <<main, delay>>

\* TLSClient::connect() succeeds; the handshake needs an answer.
DialOk ==
  /\ Runs /\ main = "dial" /\ ~silent /\ sessions < MaxSessions
  /\ main' = "auth"
  /\ link' = "up"
  /\ sessions' = sessions + 1
  /\ UNCHANGED <<running, signalled, process, delay, silent, active, session, io,
                 reading, beat, requests>>

\* connect() throws: no address, refused, or the handshake fails.
DialFails ==
  /\ Runs /\ main = "dial"
  /\ Retry
  /\ UNCHANGED <<running, signalled, sessions, link, silent, active, session, io, reading,
                 beat, requests>>

\* run_agent() starts the heartbeat, resets the delay and sets the timer.
Watched ==
  /\ armed' = TRUE /\ due' = FALSE
  /\ pingAge' = 0 /\ ackAge' = 0 /\ ping' = "none" /\ excuse' = FALSE
  /\ delay' = InitialDelay

\* HTTP2Session::start() gets its 200 and starts the first read.
AuthOk ==
  /\ Runs /\ main = "auth" /\ link = "up" /\ ~silent
  /\ main' = "loop"
  /\ active' = TRUE /\ session' = "live" /\ io' = "idle" /\ reading' = TRUE
  /\ Watched
  /\ request' = [s \in Streams |-> "none"]
  /\ UNCHANGED <<running, signalled, process, sessions, link, silent, gaveUp, serving>>

\* start() throws: another status, an error, or no answer for 5 seconds
AuthFails ==
  /\ Runs /\ main = "auth"
  /\ Retry
  /\ link' = "none"
  /\ UNCHANGED <<running, signalled, sessions, silent, active, session, io, reading,
                 beat, requests>>

\* Faulty: only the session is watched
FaultyLoopNotices ==
  /\ Runs /\ main = "loop" /\ ~active
  /\ main' = "join"
  /\ UNCHANGED <<running, signalled, process, delay, sessions, link, silent,
                 active, session, io, reading, beat, requests>>

\* Faulty: only the flag is watched
FaultyLoopStays ==
  /\ Runs /\ main = "loop" /\ ~running
  /\ main' = "join"
  /\ UNCHANGED <<running, signalled, process, delay, sessions, link, silent,
                 active, session, io, reading, beat, requests>>

\* The polling loop ends and io_context.stop() lets no further handler start.
LoopNotices ==
  /\ Runs /\ main = "loop" /\ (~running \/ ~active)
  /\ main' = "join"
  /\ UNCHANGED <<running, signalled, process, delay, sessions, link, silent,
                 active, session, io, reading, beat, requests>>

\* Faulty: the io thread is detached
FaultyJoin ==
  /\ Runs /\ main = "join"
  /\ Retry
  /\ link' = "none" /\ active' = FALSE /\ session' = "none"
  /\ io' = IF io = "forwarding" THEN io ELSE "none"
  /\ reading' = FALSE /\ armed' = FALSE /\ due' = FALSE /\ ping' = "none"
  /\ request' = [s \in Streams |-> IF s \in Unread THEN "lost" ELSE request[s]]
  /\ UNCHANGED <<running, signalled, sessions, silent, pingAge, ackAge, excuse, gaveUp,
                 serving>>

\* join() waits for the handler that runs; then stop(), disconnect() and the
\* destructors end the session.
Join ==
  /\ Runs /\ main = "join" /\ io = "idle"
  /\ Retry
  /\ link' = "none" /\ active' = FALSE /\ session' = "none" /\ io' = "none"
  /\ reading' = FALSE /\ armed' = FALSE /\ due' = FALSE /\ ping' = "none"
  /\ request' = [s \in Streams |-> IF s \in Unread THEN "lost" ELSE request[s]]
  /\ UNCHANGED <<running, signalled, sessions, silent, pingAge, ackAge, excuse, gaveUp,
                 serving>>

\* The sleep is over; the condition of the loop is tested.
Awake ==
  /\ Runs /\ main = "backoff"
  /\ IF running THEN main' = "dial" /\ UNCHANGED process
                ELSE process' = "ended" /\ UNCHANGED main
  /\ UNCHANGED <<running, signalled, delay, sessions, link, silent, active,
                 session, io, reading, beat, requests>>

Signal ==
  /\ Runs
  /\ running' = FALSE /\ signalled' = TRUE
  /\ UNCHANGED <<mainVars, link, silent, active, session, io, reading, beat, requests>>

-----------------------------------------------------------------------------
\* Handlers of the io thread, one at a time.

CanRun == Runs /\ main = "loop" /\ io = "idle"

\* heartbeat_check() returns at once, and is not scheduled again.
CheckStops ==
  /\ CanRun /\ due /\ (~running \/ ~active)
  /\ due' = FALSE /\ armed' = FALSE
  /\ UNCHANGED <<running, signalled, mainVars, link, silent, active, session, io, reading,
                 pingAge, ackAge, ping, excuse, gaveUp, requests>>

\* A PING may be written to a link that is lost, or fail and end the session.
Check ==
  /\ CanRun /\ due /\ running /\ active /\ ackAge < Timeout
  /\ due' = FALSE
  /\ ping' = IF pingAge >= Interval /\ ping = "none" /\ link = "up" THEN "sent" ELSE ping
  /\ active' \in AfterSend
  /\ UNCHANGED <<running, signalled, mainVars, link, silent, session, io, reading, armed,
                 pingAge, ackAge, excuse, gaveUp, requests>>

\* Faulty: the timeout is only logged
FaultyGiveUp ==
  /\ CanRun /\ due /\ running /\ active /\ ackAge >= Timeout
  /\ due' = FALSE
  /\ gaveUp' = TRUE
  /\ UNCHANGED <<running, signalled, mainVars, link, silent, active, session, io, reading,
                 armed, pingAge, ackAge, ping, excuse, requests>>

\* is_timed_out(): running = false, and stop() deletes the session unless the
\* PING just sent has ended it.
GiveUp ==
  /\ CanRun /\ due /\ running /\ active /\ ackAge >= Timeout
  /\ due' = FALSE /\ armed' = FALSE
  /\ running' = FALSE
  /\ active' = FALSE
  /\ session' \in IF link = "up" THEN {"deleted"} ELSE {"deleted", session}
  /\ gaveUp' = TRUE
  /\ UNCHANGED <<signalled, mainVars, link, silent, io, reading, pingAge, ackAge, ping,
                 excuse, requests>>

CanRead == CanRun /\ reading /\ session = "live"

\* Faulty: the next read is not started
FaultyReadAck ==
  /\ CanRead /\ ping = "acked"
  /\ ping' = "none" /\ ackAge' = 0 /\ excuse' = (gaveUp /\ excuse)
  /\ reading' = FALSE
  /\ UNCHANGED <<running, signalled, mainVars, link, silent, active, session, io,
                 due, armed, pingAge, gaveUp, requests>>

\* Faulty: record_ping_ack() is not wired
FaultyAckLost ==
  /\ CanRead /\ ping = "acked"
  /\ ping' = "none" /\ excuse' = (gaveUp /\ excuse)
  /\ reading' = active
  /\ UNCHANGED <<running, signalled, mainVars, link, silent, active, session, io,
                 due, armed, pingAge, ackAge, gaveUp, requests>>

\* record_ping_ack()
ReadAck ==
  /\ CanRead /\ ping = "acked"
  /\ ping' = "none" /\ ackAge' = 0 /\ excuse' = (gaveUp /\ excuse)
  /\ reading' = active
  /\ UNCHANGED <<running, signalled, mainVars, link, silent, active, session, io,
                 due, armed, pingAge, gaveUp, requests>>

\* The headers of a request whose body follows
ReadHeaders(s) ==
  /\ CanRead /\ request[s] = "headers"
  /\ request' = [request EXCEPT ![s] = "data"]
  /\ reading' = active
  /\ UNCHANGED <<running, signalled, mainVars, link, silent, active, session, io, beat,
                 serving>>

\* END_STREAM: on_request_() calls forward(), which blocks.  The body of the
\* first stream was taken for the answer to CONNECT.
ReadRequest(s) ==
  /\ CanRead /\ request[s] \in {"plain", "data"}
  /\ io' = "forwarding"
  /\ serving' = s
  /\ reading' = FALSE
  /\ request' = [request EXCEPT ![s] = "forwarding"]
  /\ UNCHANGED <<running, signalled, mainVars, link, silent, active, session, beat>>

\* forward() returns the answer of the local service or a 502, which
\* send_response() writes.
ForwardDone ==
  /\ Runs /\ io = "forwarding"
  /\ io' = "idle"
  /\ request' = AfterResponse
  /\ active' \in AfterSend
  /\ reading' = active'
  /\ UNCHANGED <<running, signalled, mainVars, link, silent, session, beat, serving>>

\* handle_read() with an error
ReadFails ==
  /\ CanRun /\ reading /\ link = "lost"
  /\ active' = FALSE /\ reading' = FALSE
  /\ UNCHANGED <<running, signalled, mainVars, link, silent, session, io, beat, requests>>

\* handle_read() does not look at active_: data after stop() goes to
\* nghttp2_session_mem_recv() with a null session.
LateRead ==
  /\ CanRun /\ reading /\ session = "deleted"
  /\ ping = "acked" \/ Unread # {}
  /\ process' = "crashed"
  /\ UNCHANGED <<running, signalled, main, delay, sessions, link, silent,
                 active, session, io, reading, beat, requests>>

-----------------------------------------------------------------------------
\* The server, the network and time.

ServerSends(s) ==
  /\ Runs /\ main = "loop" /\ link = "up" /\ ~silent
  /\ request[s] = "none" /\ (s = FirstStream \/ request[FirstStream] # "none")
  /\ \E how \in {"plain", "headers"} : request' = [request EXCEPT ![s] = how]
  /\ UNCHANGED <<running, signalled, mainVars, link, silent, active, session, io, reading,
                 beat, serving>>

PeerAcks ==
  /\ Runs /\ link = "up" /\ ~silent /\ ping = "sent"
  /\ ping' = "acked"
  /\ UNCHANGED <<running, signalled, mainVars, link, silent, active, session, io, reading,
                 due, armed, pingAge, ackAge, excuse, gaveUp, requests>>

\* The connection is closed or reset; what was not read is gone.
LinkLost ==
  /\ Runs /\ link = "up"
  /\ link' = "lost" /\ ping' = "none"
  /\ request' = [s \in Streams |-> IF s \in Unread THEN "lost" ELSE request[s]]
  /\ UNCHANGED <<running, signalled, mainVars, silent, active, session, io, reading,
                 due, armed, pingAge, ackAge, excuse, gaveUp, serving>>

PeerTurns ==
  /\ Runs
  /\ silent' = ~silent
  /\ UNCHANGED <<running, signalled, mainVars, link, active, session, io, reading, beat, requests>>

\* Handlers that are ready run before the next tick, and so does the server's
\* answer to a PING, unless the local service keeps the thread.
Ready ==
  \/ due
  \/ reading /\ (link = "lost" \/ ping = "acked" \/ Unread # {})
  \/ link = "up" /\ ~silent /\ ping = "sent"

Tick ==
  /\ Runs /\ main = "loop" /\ (io = "forwarding" \/ ~Ready)
  /\ pingAge' = Smaller(pingAge + 1, Interval)
  /\ ackAge' = Smaller(ackAge + 1, Timeout)
  /\ due' = armed
  /\ excuse' = (excuse \/ silent \/ io = "forwarding")
  /\ UNCHANGED <<running, signalled, mainVars, link, silent, active, session, io, reading,
                 armed, ping, gaveUp, requests>>

-----------------------------------------------------------------------------
Init ==
  /\ running = TRUE /\ signalled = FALSE
  /\ process = "runs" /\ main = "dial" /\ delay = InitialDelay
  /\ sessions = 0
  /\ link = "none" /\ silent = FALSE
  /\ active = FALSE /\ session = "none" /\ io = "none" /\ reading = FALSE
  /\ due = FALSE /\ armed = FALSE /\ pingAge = 0 /\ ackAge = 0 /\ ping = "none"
  /\ excuse = FALSE /\ gaveUp = FALSE
  /\ request = [s \in Streams |-> "none"] /\ serving = FirstStream

MainThread == AuthOk \/ AuthFails \/ LoopNotices \/ Join \/ Awake
Dials == (DialOk \/ DialFails) /\ ~silent
Reads == \E s \in Streams : ReadHeaders(s) \/ ReadRequest(s)

Next ==
  \/ DialOk \/ DialFails \/ AuthOk \/ AuthFails \/ LoopNotices \/ Join \/ Awake \/ Signal
  \/ CheckStops \/ Check \/ GiveUp \/ ReadAck \/ ReadFails \/ LateRead \/ ForwardDone
  \/ \E s \in Streams : ReadHeaders(s) \/ ReadRequest(s) \/ ServerSends(s)
  \/ PeerAcks \/ LinkLost \/ PeerTurns \/ Tick

\* The two threads run, the timer expires and the server answers the PINGs it
\* takes; connect() returns when somebody is there.  Nothing makes the local
\* service answer.
Fairness ==
  /\ WF_vars(MainThread) /\ WF_vars(Dials)
  /\ WF_vars(CheckStops \/ Check \/ GiveUp)
  /\ WF_vars(ReadAck) /\ WF_vars(ReadFails) /\ WF_vars(Reads)
  /\ WF_vars(PeerAcks) /\ WF_vars(Tick)

Spec == Init /\ [][Next]_vars /\ Fairness

-----------------------------------------------------------------------------
\* A session in use always has a read under way and its heartbeat armed:
\* every handler of HTTP2Session and of run_agent() starts the next one.
Attended == CanRun /\ running /\ active => reading /\ armed

\* The answer of the local service goes to a session that still exists: the
\* main thread deletes it only after the io thread has ended.
NoUseAfterStop == io = "forwarding" => session = "live" /\ main \in {"loop", "join"}

\* When the heartbeat ends a session, the server was silent or the local
\* service held the io thread at some time of the wait: is_timed_out() against
\* last_ping_time_ and last_ack_time_.  How long the silence was is not said.
GivesUpOnlySilent == gaveUp => excuse

\* tunnel-agent/README.md promises to reconnect: only a signal ends the agent.
EndsOnlyOnSignal == ~Runs => signalled

\* The end of the connection is acted upon, unless the local service holds
\* the io thread.
LossNoticed == link = "lost" ~> (link # "lost" \/ io = "forwarding" \/ ~Runs)

\* A server that has fallen silent for good does not keep its session.
SilenceEnds == ~<>[](Runs /\ silent /\ main = "loop" /\ io # "forwarding")

\* After a signal the process ends, unless it hangs in the local service or
\* in the handshake with a silent server.
SignalObeyed == ~running ~> (~Runs \/ io = "forwarding" \/ (silent /\ main = "dial"))
=============================================================================
