------------------------------- MODULE TCPTunnel -------------------------------
(***************************************************************************)
(* TCP connections of public clients through one tunnel: TCPServer accepts *)
(* them, TCPProxy turns what a client sends into frames on the connection  *)
(* of the agent, HTTP2Session and TCPForwarder take the frames apart and   *)
(* write to the local service, and the same the other way round.           *)
(*                                                                         *)
(* Data is counted in units.  Byte number k of a direction is the number   *)
(* k, and a frame carries the bytes themselves.  The sequence number of a  *)
(* frame is left out, because neither receiver reads it.  Every frame is   *)
(* one TLS record, and a read of a TLS stream returns at most one record.  *)
(* Two threads writing to the agent's TLS stream at once are modelled as   *)
(* one after the other.                                                    *)
(***************************************************************************)
EXTENDS FiniteSets, Naturals, Sequences

CONSTANTS
  Conns,        \* client connections
  Garbled,      \* the connection id of a frame that names no connection
  Window,       \* send_window_size and recv_window_size
  ReadMax,      \* buffer of a read: from the client, and of the agent
  MaxUp,        \* bytes a client sends
  MaxDown,      \* bytes the local service sends on a connection
  MaxSessions   \* how often the agent dials in

ASSUME ConnsAssumption == IsFiniteSet(Conns) /\ Garbled \notin Conns
ASSUME SizesAssumption ==
  {Window, ReadMax, MaxUp, MaxDown, MaxSessions} \subseteq Nat \ {0}

VARIABLES
  client,       \* the client's end of a connection
  sent,         \* bytes the client has sent
  taken,        \* bytes read_from_client() has read
  got,          \* bytes the client has been given
  state,        \* TCPConnection::state; "checked" inside create_connection()
  connections,  \* TCPProxy::connections_
  reading,      \* connections with an async_read_some() on the client socket
  accepted,     \* bytes_sent, which is also the size of send_buffer
  recv,         \* recv_buffer
  writes,       \* sizes of the async_write()s in progress to the client
  active,       \* TCPServer::active_connection_count_
  agent,        \* "connected", "broken" (not noticed yet) or "gone"
  session,      \* how often the agent has dialled in
  toAgent,      \* frames on their way to the agent
  toServer,     \* frames on their way to the server
  fwd,          \* TCPForwarder's connection
  pending,      \* its pending_data
  local,        \* bytes the local service has received
  fed,          \* bytes the local service has sent
  upSpoilt,     \* a chunk too large for the agent's buffer, or a freed one
  downSpoilt,   \* overlapping writes, a full buffer or a lost frame
  server        \* "up" or "crashed"

clientVars == <<client, sent>>
connVars == <<state, connections, reading>>
upVars == <<taken, accepted>>
downVars == <<recv, writes, got, downSpoilt>>
linkVars == <<agent, session>>
fwdVars == <<fwd, pending, local, fed, upSpoilt>>
vars == <<clientVars, connVars, upVars, downVars, active, linkVars,
          toAgent, toServer, fwdVars, server>>

UpFrames == [type : {"OPEN", "DATA", "CLOSE"}, conn : Conns \cup {Garbled},
             data : Seq(1..MaxUp)]
DownFrames == [type : {"DATA", "CLOSE", "GOAWAY"}, conn : Conns \cup {Garbled},
               data : Seq(1..MaxDown)]

TypeOK ==
  /\ client \in [Conns -> {"idle", "refused", "open", "eof", "gone"}]
  /\ sent \in [Conns -> 0..MaxUp]
  /\ taken \in [Conns -> 0..MaxUp]
  /\ got \in [Conns -> Seq(1..MaxDown)]
  /\ state \in [Conns -> {"none", "checked", "CONNECTING", "ESTABLISHED",
                          "CLOSING", "CLOSED"}]
  /\ connections \in SUBSET Conns
  /\ reading \in SUBSET Conns
  /\ accepted \in [Conns -> 0..Window]
  /\ recv \in [Conns -> Seq(1..MaxDown)]
  /\ writes \in [Conns -> Seq(Nat \ {0})]
  /\ active \in Nat
  /\ agent \in {"connected", "broken", "gone"}
  /\ session \in 1..MaxSessions
  /\ toAgent \in Seq(UpFrames)
  /\ toServer \in Seq(DownFrames)
  /\ fwd \in [Conns -> {"none", "connecting", "connected", "failed", "closed"}]
  /\ pending \in [Conns -> Seq(1..MaxUp)]
  /\ local \in [Conns -> Seq(0..MaxUp)]
  /\ fed \in [Conns -> 0..MaxDown]
  /\ upSpoilt \in SUBSET Conns
  /\ downSpoilt \in SUBSET Conns
  /\ server \in {"up", "crashed"}

Up == server = "up"
Least(a, b) == IF a < b THEN a ELSE b
Bytes(k, n) == [i \in 1..n |-> k + i]
Frame(t, c, d) == [type |-> t, conn |-> c, data |-> d]
Set(f, c, v) == [f EXCEPT ![c] = v]

-----------------------------------------------------------------------------
\* The server's end of the agent connection

\* AgentConnection::send_tcp_data: the frame is written at once.  A socket
\* whose peer has gone may still swallow it.
Sends(f) ==
  \/ agent = "connected" /\ toAgent' = Append(toAgent, f)
  \/ agent = "broken" /\ UNCHANGED toAgent

SendFails == agent = "broken" /\ UNCHANGED toAgent
NoAgent == agent = "gone" /\ UNCHANGED toAgent

(***************************************************************************)
(* AgentConnection::send_tcp_close: the frame carries the first 16         *)
(* characters of the id's text, not its 16 bytes, so it names nothing the  *)
(* agent knows.                                                            *)
(***************************************************************************)
SendClose(c) ==
  \/ Sends(Frame("CLOSE", Garbled, <<>>))
  \/ SendFails
  \/ NoAgent

-----------------------------------------------------------------------------
\* TCPProxy

\* A faulty close: the reader of the client goes on, state_ too
FaultyClose(c, graceful) ==
  IF c \notin connections
    THEN UNCHANGED <<state, connections, toAgent>>
    ELSE /\ UNCHANGED <<state, connections>>
         /\ SendClose(c)

\* close_connection(): with bytes in send_buffer a graceful close only
\* changes the state.
Close(c, graceful) ==
  IF c \notin connections
    THEN UNCHANGED <<state, connections, toAgent>>
    ELSE /\ IF graceful /\ accepted[c] > 0
              THEN state' = Set(state, c, "CLOSING") /\ UNCHANGED connections
              ELSE /\ state' = Set(state, c, "CLOSED")
                   /\ connections' = connections \ {c}
         /\ SendClose(c)

\* handle_accept() counts the connection, create_connection() asks whether
\* an agent is there.
Accept(c) ==
  /\ Up
  /\ client[c] = "idle"
  /\ agent # "gone"
  /\ client' = Set(client, c, "open")
  /\ state' = Set(state, c, "checked")
  /\ active' = active + 1
  /\ UNCHANGED <<sent, connections, reading, upVars, downVars, linkVars,
                 toAgent, toServer, fwdVars, server>>

\* No tunnel, an address that is not allowed, or no agent: the counter goes
\* up and, in close_callback, down again, and the socket is closed.
Refuse(c) ==
  /\ Up
  /\ client[c] = "idle"
  /\ client' = Set(client, c, "refused")
  /\ UNCHANGED <<sent, connVars, upVars, downVars, active, linkVars,
                 toAgent, toServer, fwdVars, server>>

\* The client reset the connection before the handler asked for its address:
\* remote_endpoint() throws and no thread of the pool catches.
AcceptThrows(c) ==
  /\ Up
  /\ client[c] = "idle"
  /\ client' = Set(client, c, "gone")
  /\ server' = "crashed"
  /\ UNCHANGED <<sent, connVars, upVars, downVars, active, linkVars,
                 toAgent, toServer, fwdVars>>

\* Faulty: close_callback is called whether or not the frame was sent
FaultyOpened(c) ==
  /\ Up
  /\ state[c] = "checked"
  /\ agent # "gone"
  /\ connections' = connections \cup {c}
  /\ Sends(Frame("OPEN", c, <<>>))
  /\ state' = Set(state, c, "ESTABLISHED")
  /\ reading' = reading \cup {c}
  /\ active' = active - 1
  /\ UNCHANGED <<clientVars, upVars, downVars, linkVars, toServer, fwdVars, server>>

\* Faulty: reading starts before the callback has set the state
FaultyUnread(c) ==
  /\ Up
  /\ state[c] = "checked"
  /\ connections' = connections \cup {c}
  /\ Sends(Frame("OPEN", c, <<>>))
  /\ state' = Set(state, c, "ESTABLISHED")
  /\ UNCHANGED <<clientVars, reading, active, upVars, downVars, linkVars,
                 toServer, fwdVars, server>>

\* TCP_OPEN is sent and the callback, which runs within send_tcp_data(),
\* establishes the connection.
Opened(c) ==
  /\ Up
  /\ state[c] = "checked"
  /\ connections' = connections \cup {c}
  /\ Sends(Frame("OPEN", c, <<>>))
  /\ state' = Set(state, c, "ESTABLISHED")
  /\ reading' = reading \cup {c}
  /\ UNCHANGED <<clientVars, active, upVars, downVars, linkVars, toServer,
                 fwdVars, server>>

\* The callback reports an error: close_callback takes the connection off the
\* counter, but it stays in connections_, CONNECTING, and is never read.
OpenFails(c) ==
  /\ Up
  /\ state[c] = "checked"
  /\ SendFails
  /\ connections' = connections \cup {c}
  /\ state' = Set(state, c, "CONNECTING")
  /\ active' = IF active > 0 THEN active - 1 ELSE 0
  /\ UNCHANGED <<clientVars, reading, upVars, downVars, linkVars, toServer,
                 fwdVars, server>>

\* The agent left after is_connected(): the connection counts as established,
\* is not stored, and is read.
OpenNoAgent(c) ==
  /\ Up
  /\ state[c] = "checked"
  /\ NoAgent
  /\ state' = Set(state, c, "ESTABLISHED")
  /\ reading' = reading \cup {c}
  /\ UNCHANGED <<clientVars, connections, active, upVars, downVars, linkVars,
                 toServer, fwdVars, server>>

\* Faulty: send_buffer is not counted
FaultyRoom(c) ==
  IF c \in connections /\ state[c] = "ESTABLISHED" THEN Window ELSE 0

\* What send_data() may take: nothing of send_buffer is ever removed.
Room(c) ==
  IF c \in connections /\ state[c] = "ESTABLISHED" THEN Window - accepted[c] ELSE 0

\* read_from_client() starts the next read only of an established connection.
ReadNext(c) == IF state[c] = "ESTABLISHED" THEN reading ELSE reading \ {c}

(***************************************************************************)
(* The read handler of read_from_client(): what send_data() does not take  *)
(* of the n bytes is dropped, and reading goes on.                         *)
(***************************************************************************)
ReadData(c) ==
  /\ Up
  /\ c \in reading
  /\ \E n \in 1..Least(ReadMax, sent[c] - taken[c]) :
       LET k == Least(n, Room(c)) IN
         /\ taken' = Set(taken, c, taken[c] + n)
         /\ accepted' = Set(accepted, c, accepted[c] + k)
         /\ IF k = 0
              THEN UNCHANGED toAgent
              ELSE \/ Sends(Frame("DATA", c, Bytes(taken[c], k)))
                   \/ SendFails
                   \/ NoAgent
  /\ reading' = ReadNext(c)
  /\ UNCHANGED <<clientVars, state, connections, downVars, active, linkVars,
                 toServer, fwdVars, server>>

ReadEof(c) ==
  /\ Up
  /\ c \in reading
  /\ client[c] = "eof" /\ taken[c] = sent[c]
  /\ reading' = reading \ {c}
  /\ Close(c, TRUE)
  /\ UNCHANGED <<clientVars, upVars, downVars, active, linkVars, toServer,
                 fwdVars, server>>

\* handle_error()
ReadError(c) ==
  /\ Up
  /\ c \in reading
  /\ client[c] = "gone"
  /\ reading' = reading \ {c}
  /\ Close(c, FALSE)
  /\ UNCHANGED <<clientVars, upVars, downVars, active, linkVars, toServer,
                 fwdVars, server>>

-----------------------------------------------------------------------------
\* write_to_client() of the whole of buf: the socket takes the bytes when the
\* write starts.  other tells whether another write is in progress.
StartWrite(c, buf, queue, spoils) ==
  /\ recv' = Set(recv, c, buf)
  /\ writes' = Set(writes, c, IF buf = <<>> THEN queue ELSE Append(queue, Len(buf)))
  /\ got' = IF client[c] \in {"open", "eof"} THEN Set(got, c, got[c] \o buf) ELSE got
  /\ downSpoilt' = IF spoils \/ (buf # <<>> /\ queue # <<>>)
                     THEN downSpoilt \cup {c} ELSE downSpoilt

\* process_tcp_frames() of the server hands over the next frame
TakesFrame(type, c) ==
  /\ Up
  /\ agent # "gone"
  /\ toServer # <<>>
  /\ Head(toServer).type = type /\ Head(toServer).conn = c
  /\ toServer' = Tail(toServer)

\* receive_data(), then write_to_client()
Receive(c, data) ==
  LET fits == Len(recv[c]) + Len(data) <= Window
  IN StartWrite(c, IF fits THEN recv[c] \o data ELSE recv[c], writes[c], ~fits)

\* handle_agent_tcp_frame(), TCP_DATA
FrameData(c) ==
  /\ TakesFrame("DATA", c)
  /\ IF c \in connections THEN Receive(c, Head(toServer).data) ELSE UNCHANGED downVars
  /\ UNCHANGED <<clientVars, connVars, upVars, active, linkVars, toAgent,
                 fwdVars, server>>

\* handle_agent_tcp_frame(), TCP_CLOSE: the client's socket stays open and
\* is still read.
FrameClose(c) ==
  /\ TakesFrame("CLOSE", c)
  /\ Close(c, TRUE)
  /\ UNCHANGED <<clientVars, reading, upVars, downVars, active, linkVars,
                 fwdVars, server>>

\* Faulty: what was written is not removed from the buffer
FaultyWriteDone(c) ==
  /\ Up
  /\ writes[c] # <<>>
  /\ client[c] # "gone"
  /\ StartWrite(c, recv[c], Tail(writes[c]), FALSE)
  /\ UNCHANGED <<clientVars, connVars, upVars, active, linkVars, toAgent,
                 toServer, fwdVars, server>>

\* The completion of the oldest write.  Removing more than the buffer holds
\* is undefined: the process dies, or the buffer is left empty.
WriteDone(c) ==
  /\ Up
  /\ writes[c] # <<>>
  /\ client[c] # "gone"
  /\ LET n == Head(writes[c]) IN
       \/ /\ n <= Len(recv[c])
          /\ StartWrite(c, SubSeq(recv[c], n + 1, Len(recv[c])), Tail(writes[c]), FALSE)
          /\ UNCHANGED server
       \/ /\ n > Len(recv[c])
          /\ StartWrite(c, <<>>, Tail(writes[c]), TRUE)
          /\ server' \in {"up", "crashed"}
  /\ UNCHANGED <<clientVars, connVars, upVars, active, linkVars, toAgent,
                 toServer, fwdVars>>

WriteError(c) ==
  /\ Up
  /\ writes[c] # <<>>
  /\ client[c] = "gone"
  /\ writes' = Set(writes, c, Tail(writes[c]))
  /\ Close(c, FALSE)
  /\ UNCHANGED <<clientVars, reading, upVars, recv, got, downSpoilt, active,
                 linkVars, toServer, fwdVars, server>>

-----------------------------------------------------------------------------
\* The tunnel agent

Serves == Up /\ agent = "connected"

\* HTTP2Session::send_tcp_frame: the socket does not block, and a frame it
\* cannot take now is lost.
Replies(f) ==
  \/ toServer' = Append(toServer, f) /\ UNCHANGED downSpoilt
  \/ UNCHANGED toServer /\ downSpoilt' =
       IF f.type = "DATA" THEN downSpoilt \cup {f.conn} ELSE downSpoilt

AgentTakes(type, c) ==
  /\ Serves
  /\ toAgent # <<>>
  /\ Head(toAgent).type = type /\ Head(toAgent).conn = c
  /\ toAgent' = Tail(toAgent)

AgentOpen(c) ==
  /\ AgentTakes("OPEN", c)
  /\ fwd' = Set(fwd, c, "connecting")
  /\ pending' = Set(pending, c, <<>>)
  /\ UNCHANGED <<clientVars, connVars, upVars, downVars, active, linkVars,
                 toServer, local, fed, upSpoilt, server>>

(***************************************************************************)
(* A frame with its header is longer than its data, so the data of a full  *)
(* read does not fit the agent's buffer, which is as long.  The first part *)
(* is no complete frame and is given to nghttp2, which finds it too long a *)
(* frame and says GOAWAY; the rest means nothing to anybody.               *)
(***************************************************************************)
AgentDataTooLong(c) ==
  /\ AgentTakes("DATA", c)
  /\ Len(Head(toAgent).data) >= ReadMax
  /\ toServer' = Append(toServer, Frame("GOAWAY", Garbled, <<>>))
  /\ upSpoilt' = upSpoilt \cup {c}
  /\ UNCHANGED <<clientVars, connVars, upVars, downVars, active, linkVars,
                 fwd, pending, local, fed, server>>

(***************************************************************************)
(* async_write() to the local service from a buffer that is freed when the *)
(* call returns.  The socket has room and takes the bytes at once, or what *)
(* it is given later is whatever lies there then.                          *)
(***************************************************************************)
WritesLocal(c, data) ==
  \/ local' = Set(local, c, local[c] \o data) /\ UNCHANGED upSpoilt
  \/ /\ data # <<>>
     /\ local' = Set(local, c, local[c] \o [i \in DOMAIN data |-> 0])
     /\ upSpoilt' = upSpoilt \cup {c}

\* Faulty: data that comes before the local connection replaces what is queued
FaultyForward(c, data) ==
  /\ pending' = IF fwd[c] = "connecting" THEN Set(pending, c, data) ELSE pending
  /\ IF fwd[c] = "connected" THEN WritesLocal(c, data) ELSE UNCHANGED <<local, upSpoilt>>

\* TCPForwarder::handle_tcp_data
Forward(c, data) ==
  /\ pending' = IF fwd[c] \in {"connecting", "failed"}
                  THEN Set(pending, c, pending[c] \o data) ELSE pending
  /\ IF fwd[c] = "connected" THEN WritesLocal(c, data) ELSE UNCHANGED <<local, upSpoilt>>

AgentData(c) ==
  /\ AgentTakes("DATA", c)
  /\ Len(Head(toAgent).data) < ReadMax
  /\ Forward(c, Head(toAgent).data)
  /\ UNCHANGED <<clientVars, connVars, upVars, downVars, active, linkVars,
                 toServer, fwd, fed, server>>

\* TCP_CLOSE for an id that is not in the forwarder's map
AgentClose ==
  /\ AgentTakes("CLOSE", Garbled)
  /\ UNCHANGED <<clientVars, connVars, upVars, downVars, active, linkVars,
                 toServer, fwdVars, server>>

\* The connection to the local service is made and the queue is flushed.
LocalConnects(c) ==
  /\ Serves
  /\ fwd[c] = "connecting"
  /\ fwd' = Set(fwd, c, "connected")
  /\ WritesLocal(c, pending[c])
  /\ pending' = Set(pending, c, <<>>)
  /\ UNCHANGED <<clientVars, connVars, upVars, downVars, active, linkVars,
                 toAgent, toServer, fed, server>>

\* Neither resolved nor connected: TCP_CLOSE, but the entry stays in the map.
LocalRefuses(c) ==
  /\ Serves
  /\ fwd[c] = "connecting"
  /\ fwd' = Set(fwd, c, "failed")
  /\ Replies(Frame("CLOSE", c, <<>>))
  /\ UNCHANGED <<clientVars, connVars, upVars, recv, writes, got, active,
                 linkVars, toAgent, pending, local, fed, upSpoilt, server>>

\* start_local_read(): what the local service sends becomes a frame.
LocalSends(c) ==
  /\ Serves
  /\ fwd[c] = "connected"
  /\ \E n \in 1..Least(ReadMax, MaxDown - fed[c]) :
       /\ fed' = Set(fed, c, fed[c] + n)
       /\ Replies(Frame("DATA", c, Bytes(fed[c], n)))
  /\ UNCHANGED <<clientVars, connVars, upVars, recv, writes, got, active,
                 linkVars, toAgent, fwd, pending, local, upSpoilt, server>>

LocalEof(c) ==
  /\ Serves
  /\ fwd[c] = "connected"
  /\ fwd' = Set(fwd, c, "closed")
  /\ Replies(Frame("CLOSE", c, <<>>))
  /\ UNCHANGED <<clientVars, connVars, upVars, recv, writes, got, active,
                 linkVars, toAgent, pending, local, fed, upSpoilt, server>>

\* A write to the local service failed: the connection is closed and the
\* server is not told.
LocalWriteError(c) ==
  /\ Serves
  /\ fwd[c] = "connected"
  /\ fwd' = Set(fwd, c, "closed")
  /\ UNCHANGED <<clientVars, connVars, upVars, downVars, active, linkVars,
                 toAgent, toServer, pending, local, fed, upSpoilt, server>>

-----------------------------------------------------------------------------
\* The agent connection itself

\* The agent's session ends, with the forwarder and its connections.
SessionEnds ==
  /\ Serves
  /\ agent' = "broken"
  /\ toAgent' = <<>>
  /\ fwd' = [c \in Conns |-> "none"]
  /\ pending' = [c \in Conns |-> <<>>]
  /\ UNCHANGED <<clientVars, connVars, upVars, downVars, active, session,
                 toServer, local, fed, upSpoilt, server>>

\* GOAWAY, or a read that fails: AgentConnection::close() and the entry in
\* the registry goes.  The proxy is not told.
AgentLeaves ==
  /\ Up
  /\ \/ agent = "broken"
     \/ agent = "connected" /\ toServer # <<>> /\ Head(toServer).type = "GOAWAY"
  /\ agent' = "gone"
  /\ toAgent' = <<>>
  /\ toServer' = <<>>
  /\ fwd' = [c \in Conns |-> "none"]
  /\ pending' = [c \in Conns |-> <<>>]
  /\ UNCHANGED <<clientVars, connVars, upVars, downVars, active, session,
                 local, fed, upSpoilt, server>>

Redial ==
  /\ Up
  /\ agent = "gone"
  /\ session < MaxSessions
  /\ agent' = "connected"
  /\ session' = session + 1
  /\ UNCHANGED <<clientVars, connVars, upVars, downVars, active, toAgent,
                 toServer, fwdVars, server>>

-----------------------------------------------------------------------------
\* The client

ClientSends(c) ==
  /\ client[c] = "open"
  /\ sent[c] < MaxUp
  /\ sent' = Set(sent, c, sent[c] + 1)
  /\ UNCHANGED <<client, connVars, upVars, downVars, active, linkVars,
                 toAgent, toServer, fwdVars, server>>

ClientEnds(c) ==
  /\ \/ client[c] = "open" /\ client' \in {Set(client, c, "eof"), Set(client, c, "gone")}
     \/ client[c] = "eof" /\ client' = Set(client, c, "gone")
  /\ UNCHANGED <<sent, connVars, upVars, downVars, active, linkVars,
                 toAgent, toServer, fwdVars, server>>

-----------------------------------------------------------------------------
Init ==
  /\ client = [c \in Conns |-> "idle"]
  /\ sent = [c \in Conns |-> 0]
  /\ taken = [c \in Conns |-> 0]
  /\ got = [c \in Conns |-> <<>>]
  /\ state = [c \in Conns |-> "none"]
  /\ connections = {}
  /\ reading = {}
  /\ accepted = [c \in Conns |-> 0]
  /\ recv = [c \in Conns |-> <<>>]
  /\ writes = [c \in Conns |-> <<>>]
  /\ active = 0
  /\ agent = "connected"
  /\ session = 1
  /\ toAgent = <<>>
  /\ toServer = <<>>
  /\ fwd = [c \in Conns |-> "none"]
  /\ pending = [c \in Conns |-> <<>>]
  /\ local = [c \in Conns |-> <<>>]
  /\ fed = [c \in Conns |-> 0]
  /\ upSpoilt = {}
  /\ downSpoilt = {}
  /\ server = "up"

Open(c) == Opened(c) \/ OpenFails(c) \/ OpenNoAgent(c)

ProxyStep(c) ==
  \/ Open(c) \/ ReadData(c) \/ ReadEof(c) \/ ReadError(c)
  \/ WriteDone(c) \/ WriteError(c)

FrameStep(c) ==
  \/ FrameData(c) \/ FrameClose(c)
  \/ AgentOpen(c) \/ AgentDataTooLong(c) \/ AgentData(c)

LinkStep == AgentClose \/ SessionEnds \/ AgentLeaves \/ Redial

LocalStep(c) ==
  \/ LocalConnects(c) \/ LocalRefuses(c) \/ LocalSends(c)
  \/ LocalEof(c) \/ LocalWriteError(c)

Next ==
  \/ LinkStep
  \/ \E c \in Conns :
       \/ FrameStep(c) \/ Accept(c) \/ Refuse(c) \/ AcceptThrows(c) \/ ProxyStep(c) \/ LocalStep(c)
       \/ ClientSends(c) \/ ClientEnds(c)

\* The io thread of the clients runs what is ready.
Fairness == \A c \in Conns : WF_vars(ProxyStep(c))

Spec == Init /\ [][Next]_vars /\ Fairness

-----------------------------------------------------------------------------
(***************************************************************************)
(* Client to service: what the local service receives is a prefix of what  *)
(* the client sent, across window limits, closes, agent failures and       *)
(* reconnections, until a chunk does not fit the agent's read buffer or    *)
(* the local socket is full (send_data, handle_tcp_data,                   *)
(* process_tcp_frames).                                                    *)
(***************************************************************************)
Upstream == INSTANCE ByteStream WITH
  offered <- sent, delivered <- local, spoilt <- upSpoilt
UpstreamInOrder == Upstream!Spec

(***************************************************************************)
(* Service to client: the same, until write_to_client() is called while a  *)
(* write is in progress, receive_data() finds the buffer full, or the      *)
(* agent loses a frame.                                                    *)
(***************************************************************************)
Downstream == INSTANCE ByteStream WITH
  offered <- fed, delivered <- got, spoilt <- downSpoilt
DownstreamInOrder == Downstream!Spec

(***************************************************************************)
(* A connection that is established and stored has a read posted on its    *)
(* client socket: read_from_client() is never left without a successor, so *)
(* an end of the client is always noticed.                                 *)
(***************************************************************************)
ReaderAttached ==
  Up => \A c \in connections : state[c] = "ESTABLISHED" => c \in reading

(***************************************************************************)
(* active_connection_count_ never falls below the ESTABLISHED connections, *)
(* those that carry data: the close callback runs at most once, and only   *)
(* when TCP_OPEN could not be sent.  Entries that a failed open leaves     *)
(* behind CONNECTING are not counted; nothing limits the counter.          *)
(***************************************************************************)
CounterCovers ==
  active >= Cardinality({c \in connections : state[c] = "ESTABLISHED"})

(***************************************************************************)
(* All a connection ever carries to the agent is one window: send_buffer   *)
(* keeps every byte, so what is in frames, queued at the agent and         *)
(* delivered together never exceeds Window.                                *)
(***************************************************************************)
OneWindowOnly ==
  \A c \in Conns : Len(local[c]) + Len(pending[c]) <= accepted[c] /\ accepted[c] <= Window

(***************************************************************************)
(* The end of a client is noticed: a stored connection whose client closed *)
(* or vanished does not stay ESTABLISHED (read_from_client, handle_error). *)
(***************************************************************************)
EndNoticed ==
  \A c \in Conns :
    (c \in connections /\ client[c] \in {"eof", "gone"}) ~>
      (state[c] # "ESTABLISHED" \/ server = "crashed")

(***************************************************************************)
(* FR-005 of the specification, forward TCP streams byte for byte: what is *)
(* read from the client of a running connection is sent on.  It is not:    *)
(* what exceeds the window is dropped.                                     *)
(***************************************************************************)
NoByteDropped ==
  \A c \in connections : state[c] = "ESTABLISHED" => accepted[c] = taken[c]
=============================================================================
