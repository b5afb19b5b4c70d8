--------------------------- MODULE RequestTracking ---------------------------
(***************************************************************************)
(* HTTP requests in flight on one agent connection: HTTPProxy routes each  *)
(* on the io thread of its client socket, AgentConnection::                *)
(* send_http_request() submits it to the HTTP/2 session and stores its     *)
(* callback, and the io thread of the agent reads the responses.  The      *)
(* request maps are guarded by requests_mutex_; the session, its pointer   *)
(* and state_ are shared without a lock.                                   *)
(*                                                                         *)
(* The stream of a request is named after the request: nghttp2 gives each  *)
(* submission a stream id of its own.                                      *)
(***************************************************************************)
EXTENDS FiniteSets, Naturals

CONSTANTS
  Reqs,           \* HTTP requests
  Io,             \* the io thread of the agent connection
  NoReq,          \* no callback stored
  NoReply,        \* not answered yet
  MaxSecond,      \* last second of std::time() that matters
  PerSecond,      \* requests routed to this agent within one second
  MayGoaway       \* whether the agent may send GOAWAY

ASSUME ReqsAssumption == IsFiniteSet(Reqs) /\ Io \notin Reqs /\ NoReq \notin Reqs
ASSUME SecondsAssumption == MaxSecond \in Nat /\ PerSecond \in Nat
ASSUME MayGoawayAssumption == MayGoaway \in BOOLEAN

Seconds == 1..MaxSecond
NoId == 0
Errors == {"500", "502", "503"}
ASSUME NoReplyAssumption == NoReply \notin Reqs \cup Errors
ASSUME ErrorsAssumption == Errors \cap Reqs = {}

VARIABLES
  pc,       \* progress of a request on its HTTP thread
  id,       \* request_id, the second it was routed in
  now,      \* last second a request was routed in
  reply,    \* what the client socket was last given
  calls,    \* how often the callback of a request was called
  pending,  \* pending_requests_: from request ids to callbacks
  stream,   \* stream_to_request_: from streams to request ids
  timer,    \* the timeout of a request
  session,  \* http2_session_ is not null
  queued,   \* streams submitted to the session and not sent
  wire,     \* streams sent that the agent may answer
  state,    \* AgentConnection::state_
  closing,  \* progress of close() on each thread
  io,       \* what the io thread is in: a read handler, or the heartbeat
  listed,   \* the connection is in the AgentRegistry
  server    \* "up" or "crashed"

requestVars == <<pc, id, now>>
replyVars == <<reply, calls>>
mapVars == <<pending, stream>>
sessionVars == <<session, queued, wire>>
closeVars == <<state, closing, io, listed>>
vars == <<requestVars, replyVars, mapVars, timer, sessionVars, closeVars, server>>

Threads == Reqs \cup {Io}

TypeOK ==
  /\ pc \in [Reqs -> {"new", "routing", "sending", "submitting", "storing",
                      "flushing", "closing", "arming", "returned"}]
  /\ id \in [Reqs -> Seconds \cup {NoId}]
  /\ now \in Nat
  /\ reply \in [Reqs -> Reqs \cup Errors \cup {NoReply}]
  /\ calls \in [Reqs -> Nat]
  /\ pending \in [Seconds -> Reqs \cup {NoReq}]
  /\ stream \in [Reqs -> Seconds \cup {NoId}]
  /\ timer \in [Reqs -> {"off", "armed", "fired"}]
  /\ session \in BOOLEAN
  /\ queued \in SUBSET Reqs
  /\ wire \in SUBSET Reqs
  /\ state \in {"CONNECTED", "DISCONNECTING", "DISCONNECTED"}
  /\ closing \in [Threads -> {"no", "deleting", "draining", "notifying", "done"}]
  /\ io \in {"idle", "reading", "goaway", "closing", "heartbeat", "ended"}
  /\ listed \in BOOLEAN
  /\ server \in {"up", "crashed"}

Up == server = "up"

\* The callbacks of the requests in S are called with the value v.
Answer(S, v) ==
  /\ reply' = [r \in Reqs |-> IF r \in S THEN v ELSE reply[r]]
  /\ calls' = [r \in Reqs |-> IF r \in S THEN calls[r] + 1 ELSE calls[r]]

Step(r, from, to) ==
  /\ Up
  /\ pc[r] = from
  /\ pc' = [pc EXCEPT ![r] = to]

-----------------------------------------------------------------------------
\* HTTPProxy::route_to_agent, on the thread of the client socket

IsConnected(r) ==
  /\ IF listed /\ state = "CONNECTED"
       THEN Step(r, "new", "routing") /\ UNCHANGED replyVars
       ELSE Step(r, "new", "returned") /\ Answer({r}, "503")
  /\ UNCHANGED <<id, now, mapVars, timer, sessionVars, closeVars, server>>

\* Faulty variant: every request gets the same id
FaultyGetAgent(r) ==
  \/ /\ listed
     /\ Step(r, "routing", "sending")
     /\ id' = [id EXCEPT ![r] = 1]
     /\ UNCHANGED <<now, replyVars, mapVars, timer, sessionVars, closeVars, server>>
  \/ /\ ~listed
     /\ Step(r, "routing", "returned")
     /\ Answer({r}, "500")
     /\ UNCHANGED <<id, now, mapVars, timer, sessionVars, closeVars, server>>

\* Faulty variant: ids from a counter that runs past the seconds considered
FaultyCounter(r) ==
  /\ listed
  /\ Step(r, "routing", "sending")
  /\ id' = [id EXCEPT ![r] = now + 1]
  /\ now' = now + 1
  /\ UNCHANGED <<replyVars, mapVars, timer, sessionVars, closeVars, server>>

(***************************************************************************)
(* The agent is looked up again, and the request id is "req_" and the      *)
(* second.  PerSecond bounds the load: how many requests share a second.   *)
(***************************************************************************)
GetAgent(r) ==
  \/ /\ listed
     /\ Step(r, "routing", "sending")
     /\ \E s \in Seconds \cap {now, now + 1} :
          /\ Cardinality({q \in Reqs : id[q] = s}) < PerSecond
          /\ id' = [id EXCEPT ![r] = s]
          /\ now' = s
     /\ UNCHANGED <<replyVars, mapVars, timer, sessionVars, closeVars, server>>
  \/ /\ ~listed
     /\ Step(r, "routing", "returned")
     /\ Answer({r}, "500")
     /\ UNCHANGED <<id, now, mapVars, timer, sessionVars, closeVars, server>>

-----------------------------------------------------------------------------
\* AgentConnection::send_http_request, on the thread of the client socket

CheckState(r) ==
  /\ IF state = "CONNECTED" /\ session
       THEN Step(r, "sending", "submitting") /\ UNCHANGED replyVars
       ELSE Step(r, "sending", "returned") /\ Answer({r}, "502")
  /\ UNCHANGED <<id, now, mapVars, timer, sessionVars, closeVars, server>>

\* nghttp2_submit_headers() gives a stream, or refuses
Submit(r) ==
  /\ session
  /\ \/ /\ Step(r, "submitting", "storing")
        /\ queued' = queued \cup {r}
        /\ UNCHANGED replyVars
     \/ /\ Step(r, "submitting", "returned")
        /\ Answer({r}, "502")
        /\ UNCHANGED queued
  /\ UNCHANGED <<id, now, mapVars, timer, session, wire, closeVars, server>>

\* Faulty variant: the callback of another request with an older id is dropped
FaultyStore(r) ==
  /\ Step(r, "storing", "flushing")
  /\ pending' = [s \in Seconds |-> IF s = id[r] THEN r ELSE NoReq]
  /\ stream' = [stream EXCEPT ![r] = id[r]]
  /\ UNCHANGED <<id, now, replyVars, timer, sessionVars, closeVars, server>>

Store(r) ==
  /\ Step(r, "storing", "flushing")
  /\ pending' = [pending EXCEPT ![id[r]] = r]
  /\ stream' = [stream EXCEPT ![r] = id[r]]
  /\ UNCHANGED <<id, now, replyVars, timer, sessionVars, closeVars, server>>

\* nghttp2_session_send() sends all that is queued
SendQueued == wire' = wire \cup queued /\ queued' = {}

\* send_pending_data(): sent, or blocked, or failed and so close()
Flush(r) ==
  /\ session
  /\ \/ Step(r, "flushing", "arming") /\ SendQueued
     \/ Step(r, "flushing", "arming") /\ UNCHANGED <<queued, wire>>
     \/ Step(r, "flushing", "closing") /\ UNCHANGED <<queued, wire>>
  /\ UNCHANGED <<id, now, replyVars, mapVars, timer, session, closeVars, server>>

\* Faulty variant: no timer is set
FaultyArmTimer(r) ==
  /\ Step(r, "arming", "returned")
  /\ UNCHANGED <<id, now, replyVars, mapVars, timer, sessionVars, closeVars, server>>

ArmTimer(r) ==
  /\ Step(r, "arming", "returned")
  /\ timer' = [timer EXCEPT ![r] = "armed"]
  /\ UNCHANGED <<id, now, replyVars, mapVars, sessionVars, closeVars, server>>

(***************************************************************************)
(* The 30 minutes are over; nothing ever cancels the timer.  It runs on    *)
(* the io thread of the agent, between other handlers.                     *)
(***************************************************************************)
TimerFires(r) ==
  /\ Up
  /\ timer[r] = "armed"
  /\ io \in {"idle", "ended"}
  /\ timer' = [timer EXCEPT ![r] = "fired"]
  /\ IF pending[id[r]] # NoReq
       THEN /\ Answer({pending[id[r]]}, "502")
            /\ pending' = [pending EXCEPT ![id[r]] = NoReq]
            /\ stream' = [stream EXCEPT ![r] = NoId]
       ELSE UNCHANGED <<replyVars, mapVars>>
  /\ UNCHANGED <<requestVars, sessionVars, closeVars, server>>

-----------------------------------------------------------------------------
\* AgentConnection::start_read, on the io thread of the agent

(***************************************************************************)
(* Bytes arrived and go to nghttp2_session_mem_recv(), without a look at   *)
(* state_: the read may have completed before another thread closed.       *)
(***************************************************************************)
BeginRead ==
  /\ Up
  /\ io = "idle"
  /\ io' = "reading"
  /\ UNCHANGED <<requestVars, replyVars, mapVars, timer, sessionVars, state,
                 closing, listed, server>>

Known(s) == stream[s] # NoId /\ pending[stream[s]] # NoReq

\* Faulty variant: the entries of the request stay
FaultyReadResponse(s) ==
  /\ Up
  /\ io = "reading" /\ session
  /\ s \in wire
  /\ IF Known(s)
       THEN Answer({pending[stream[s]]}, s)
       ELSE UNCHANGED replyVars
  /\ wire' = (wire \cup queued) \ {s}
  /\ queued' = {}
  /\ io' = "idle"
  /\ UNCHANGED <<requestVars, mapVars, timer, session, state, closing, listed, server>>

\* The response on stream s is complete: complete_request(), then a flush
ReadResponse(s) ==
  /\ Up
  /\ io = "reading" /\ session
  /\ s \in wire
  /\ IF Known(s)
       THEN /\ Answer({pending[stream[s]]}, s)
            /\ pending' = [pending EXCEPT ![stream[s]] = NoReq]
            /\ stream' = [stream EXCEPT ![s] = NoId]
       ELSE UNCHANGED <<replyVars, mapVars>>
  /\ wire' = (wire \cup queued) \ {s}
  /\ queued' = {}
  /\ io' = "idle"
  /\ UNCHANGED <<requestVars, timer, session, state, closing, listed, server>>

\* SETTINGS, WINDOW_UPDATE, part of a response; the heartbeat's PING likewise
ReadOther ==
  /\ Up
  /\ io = "reading" /\ session
  /\ SendQueued
  /\ io' = "idle"
  /\ UNCHANGED <<requestVars, replyVars, mapVars, timer, session, state,
                 closing, listed, server>>

\* GOAWAY: close() is called from within nghttp2_session_mem_recv()
ReadGoaway ==
  /\ MayGoaway
  /\ Up
  /\ io = "reading" /\ session
  /\ io' = "goaway"
  /\ UNCHANGED <<requestVars, replyVars, mapVars, timer, sessionVars, state,
                 closing, listed, server>>

\* End of file, read error, or a failure of mem_recv or of the send after it
ReadFails ==
  /\ Up
  /\ io = "idle" \/ (io = "reading" /\ session)
  /\ io' = "closing"
  /\ UNCHANGED <<requestVars, replyVars, mapVars, timer, sessionVars, state,
                 closing, listed, server>>

\* The heartbeat finds 60 seconds of silence, or cannot send its PING
HeartbeatFails ==
  /\ Up
  /\ io = "idle"
  /\ io' = "heartbeat"
  /\ UNCHANGED <<requestVars, replyVars, mapVars, timer, sessionVars, state,
                 closing, listed, server>>

-----------------------------------------------------------------------------
\* AgentConnection::close, on whichever thread calls it

InClose(x) ==
  IF x = Io THEN io \in {"goaway", "closing", "heartbeat"} ELSE pc[x] = "closing"

\* state_ is read without a lock: two threads may both find it CONNECTED
CloseEnter(x) ==
  /\ Up
  /\ InClose(x)
  /\ closing[x] = "no"
  /\ closing' = [closing EXCEPT ![x] =
                    IF state = "CONNECTED" THEN "deleting" ELSE "done"]
  /\ UNCHANGED <<requestVars, replyVars, mapVars, timer, sessionVars, state,
                 io, listed, server>>

\* nghttp2_session_del(), and the socket is shut down
CloseDelete(x) ==
  /\ Up
  /\ closing[x] = "deleting"
  /\ state' = "DISCONNECTING"
  /\ session' = FALSE
  /\ queued' = {}
  /\ wire' = {}
  /\ closing' = [closing EXCEPT ![x] = "draining"]
  /\ UNCHANGED <<requestVars, replyVars, mapVars, timer, io, listed, server>>

Stored == {pending[s] : s \in Seconds} \ {NoReq}

\* Faulty variant: the callbacks are called and kept
FaultyCloseDrain(x) ==
  /\ Up
  /\ closing[x] = "draining"
  /\ state' = "DISCONNECTED"
  /\ Answer(Stored, "502")
  /\ closing' = [closing EXCEPT ![x] = "notifying"]
  /\ UNCHANGED <<requestVars, mapVars, timer, sessionVars, io, listed, server>>

\* handle_disconnect(): every callback stored so far is failed
CloseDrain(x) ==
  /\ Up
  /\ closing[x] = "draining"
  /\ state' = "DISCONNECTED"
  /\ Answer(Stored, "502")
  /\ pending' = [s \in Seconds |-> NoReq]
  /\ closing' = [closing EXCEPT ![x] = "notifying"]
  /\ UNCHANGED <<requestVars, stream, timer, sessionVars, io, listed, server>>

\* on_disconnect_
CloseNotify(x) ==
  /\ Up
  /\ closing[x] = "notifying"
  /\ listed' = FALSE
  /\ closing' = [closing EXCEPT ![x] = "done"]
  /\ UNCHANGED <<requestVars, replyVars, mapVars, timer, sessionVars, state, io, server>>

\* send_http_request() goes on after close() as if nothing had happened
CloseReturns(r) ==
  /\ closing[r] = "done"
  /\ Step(r, "closing", "arming")
  /\ UNCHANGED <<id, now, replyVars, mapVars, timer, sessionVars, closeVars, server>>

\* The read handler returns; after GOAWAY only if mem_recv reports an error
ReadEnds ==
  /\ Up
  /\ io \in {"closing", "goaway"}
  /\ closing[Io] = "done"
  /\ io' = "ended"
  /\ UNCHANGED <<requestVars, replyVars, mapVars, timer, sessionVars, state,
                 closing, listed, server>>

\* After the heartbeat's close() the read it did not cancel is still to come.
HeartbeatEnds ==
  /\ Up
  /\ io = "heartbeat"
  /\ closing[Io] = "done"
  /\ io' = "idle"
  /\ UNCHANGED <<requestVars, replyVars, mapVars, timer, sessionVars, state,
                 closing, listed, server>>

-----------------------------------------------------------------------------
\* What the missing lock on the session leaves undefined

\* Threads that are in, or about to enter, a call on http2_session_
Inside ==
  {r \in Reqs : pc[r] \in {"submitting", "flushing"}}
    \cup {x \in Threads : closing[x] = "deleting"}
    \cup (IF io \in {"reading", "goaway"} THEN {Io} ELSE {})

\* Two threads in the session at once may corrupt it.
SessionRace ==
  /\ Up
  /\ Cardinality(Inside) > 1
  /\ server' = "crashed"
  /\ UNCHANGED <<requestVars, replyVars, mapVars, timer, sessionVars, closeVars>>

\* The session was deleted under a thread that now calls into it.
DeadSession(x) ==
  /\ Up
  /\ ~session
  /\ x \in Inside /\ closing[x] \in {"no", "done"}
  /\ server' = "crashed"
  /\ UNCHANGED <<requestVars, replyVars, mapVars, timer, sessionVars, closeVars>>

\* DELETE /tunnels/{id}: the entry goes while the connection stays
Unlist ==
  /\ Up
  /\ listed
  /\ listed' = FALSE
  /\ UNCHANGED <<requestVars, replyVars, mapVars, timer, sessionVars, state,
                 closing, io, server>>

-----------------------------------------------------------------------------
Init ==
  /\ pc = [r \in Reqs |-> "new"]
  /\ id = [r \in Reqs |-> NoId]
  /\ now = 1
  /\ reply = [r \in Reqs |-> NoReply]
  /\ calls = [r \in Reqs |-> 0]
  /\ pending = [s \in Seconds |-> NoReq]
  /\ stream = [r \in Reqs |-> NoId]
  /\ timer = [r \in Reqs |-> "off"]
  /\ session = TRUE
  /\ queued = {}
  /\ wire = {}
  /\ state = "CONNECTED"
  /\ closing = [x \in Threads |-> "no"]
  /\ io = "idle"
  /\ listed = TRUE
  /\ server = "up"

Http(r) ==
  \/ IsConnected(r) \/ GetAgent(r) \/ CheckState(r) \/ Submit(r) \/ Store(r)
  \/ Flush(r) \/ CloseReturns(r) \/ ArmTimer(r)

Close(x) == CloseEnter(x) \/ CloseDelete(x) \/ CloseDrain(x) \/ CloseNotify(x)

\* What the io thread is in comes to its end
Handle ==
  \/ \E r \in Reqs : ReadResponse(r)
  \/ ReadOther \/ ReadGoaway \/ ReadFails \/ ReadEnds \/ HeartbeatEnds
  \/ Close(Io) \/ DeadSession(Io)

Next ==
  \/ \E r \in Reqs : Http(r) \/ TimerFires(r) \/ Close(r) \/ DeadSession(r)
  \/ BeginRead \/ HeartbeatFails \/ Handle
  \/ SessionRace \/ Unlist

Spec == Init /\ [][Next]_vars

(***************************************************************************)
(* The HTTP threads go on with what they began, the io thread finishes the *)
(* handler it is in, and the handler of an expired timer, queued behind    *)
(* others, has its turn (hence strong fairness).  A call on a deleted      *)
(* session is a call on a null pointer: it does not return.  Nothing       *)
(* obliges the agent to answer or to go, nor a race to strike.             *)
(***************************************************************************)
Fairness ==
  /\ \A r \in Reqs :
       /\ WF_vars(Http(r) \/ Close(r) \/ DeadSession(r))
       /\ SF_vars(TimerFires(r))
  /\ WF_vars(io # "idle" /\ Handle)

FairSpec == Spec /\ Fairness

-----------------------------------------------------------------------------
(***************************************************************************)
(* However response, timeout, close() and a refusal race for a request,    *)
(* its callback is called at most once (requests_mutex_ and the erase).    *)
(***************************************************************************)
AnsweredOnce == \A r \in Reqs : calls[r] <= 1

(***************************************************************************)
(* A callback in pending_requests_ was never called, stands there once and *)
(* under the id of its request; one not yet stored was never called.  So   *)
(* whoever erases the entry is the first to call it.                       *)
(***************************************************************************)
CallbackOnce ==
  \A r \in Reqs :
    /\ \A s \in Seconds : pending[s] = r =>
         /\ id[r] = s /\ calls[r] = 0
         /\ pc[r] \in {"flushing", "closing", "arming", "returned"}
    /\ pc[r] \in {"new", "routing", "sending", "submitting", "storing"}
         => calls[r] = 0

(***************************************************************************)
(* A client is given the response the agent made to its own request, or an *)
(* error.  That is so while request ids are unique: stream -> id ->        *)
(* callback then leads back to the request.                                *)
(***************************************************************************)
OwnReply == \A r \in Reqs : reply[r] \in {r, NoReply} \cup Errors

(***************************************************************************)
(* Until it is answered, a request whose callback was stored is found in   *)
(* pending_requests_ under its own id, so that response, timer and         *)
(* handle_disconnect() can all reach it; and the call that ended without   *)
(* an answer left an armed timer.                                          *)
(***************************************************************************)
Reachable ==
  \A r \in Reqs : reply[r] = NoReply =>
    /\ pc[r] \in {"flushing", "closing", "arming", "returned"} =>
         pending[id[r]] = r
    /\ pc[r] = "returned" => timer[r] = "armed"

Promise == INSTANCE RequestReply

(***************************************************************************)
(* The request maps, the timers and close() together implement the promise *)
(* to the client: one reply, never changed, its own response or an error.  *)
(***************************************************************************)
ImplementsReply == Promise!Spec

(***************************************************************************)
(* FR-015: a request that reached send_http_request() is answered in the   *)
(* end, if only by its timer, unless the server dies.                      *)
(***************************************************************************)
EveryRequestAnswered ==
  \A r \in Reqs : pc[r] = "storing" ~> reply[r] # NoReply \/ ~Up
=============================================================================
