--------------------------- MODULE TCPTunnel_proofs ---------------------------
(***************************************************************************)
(* What holds of the tunnelled TCP connections for any number of them and  *)
(* any sizes of the window, the buffers and the data: the types, who reads *)
(* and who closes a connection, what the counters cover and what a window  *)
(* lets through; then the order of the bytes: TCPTunnel implements         *)
(* ByteStream from the client to the local service and back.               *)
(***************************************************************************)
EXTENDS TCPTunnel, FiniteSetTheorems, SequenceTheorems, TLAPS

USE DEF clientVars, connVars, upVars, downVars, linkVars, fwdVars, vars, Up, Set

-----------------------------------------------------------------------------
(***************************************************************************)
(* A frame is written behind the others, the first one is taken off, and   *)
(* bytes are added to those that are there.                                *)
(***************************************************************************)
LEMMA AppendLast ==
  ASSUME NEW S, NEW s \in Seq(S), NEW f \in S
  PROVE  /\ Append(s, f) \in Seq(S)
         /\ Len(Append(s, f)) = Len(s) + 1
         /\ \A i \in 1..Len(s) : Append(s, f)[i] = s[i]
         /\ Append(s, f)[Len(s) + 1] = f
  OBVIOUS

\* The first one is taken off.
LEMMA TakeFirst ==
  ASSUME NEW S, NEW s \in Seq(S), s # <<>>
  PROVE  /\ Head(s) \in S /\ Head(s) = s[1]
         /\ Len(s) \in Nat \ {0}
         /\ Tail(s) \in Seq(S)
         /\ Len(Tail(s)) = Len(s) - 1
         /\ \A i \in 1..Len(s) - 1 : Tail(s)[i] = s[i + 1]
  OBVIOUS

\* Bytes are added to those that are there.
LEMMA AddBytes ==
  ASSUME NEW S, NEW s \in Seq(S), NEW d \in Seq(S)
  PROVE  /\ s \o d \in Seq(S)
         /\ Len(s \o d) = Len(s) + Len(d)
         /\ \A i \in 1..Len(s) : (s \o d)[i] = s[i]
         /\ \A i \in 1..Len(d) : (s \o d)[Len(s) + i] = d[i]
  OBVIOUS

\* Bytes of a smaller range
LEMMA WiderBytes ==
  ASSUME NEW S, NEW T, S \subseteq T, NEW d \in Seq(S)
  PROVE  d \in Seq(T)
  OBVIOUS

\* Some bytes are taken from the front.
LEMMA DropFirst ==
  ASSUME NEW S, NEW s \in Seq(S), NEW n \in Nat, n <= Len(s)
  PROVE  /\ SubSeq(s, n + 1, Len(s)) \in Seq(S)
         /\ Len(SubSeq(s, n + 1, Len(s))) = Len(s) - n
  OBVIOUS

(***************************************************************************)
(* The bytes of a chunk that was read from a socket.                       *)
(***************************************************************************)
LEMMA BytesType ==
  ASSUME NEW k \in Nat, NEW n \in Nat, NEW m \in Nat, k + n <= m
  PROVE  /\ Bytes(k, n) \in Seq(1..m)
         /\ Len(Bytes(k, n)) = n
         /\ \A i \in 1..n : Bytes(k, n)[i] = k + i
  BY DEF Bytes

(***************************************************************************)
(* The smaller of two sizes                                                *)
(***************************************************************************)
LEMMA LeastBounds ==
  ASSUME NEW a \in Nat, NEW b \in Nat
  PROVE  Least(a, b) \in Nat /\ Least(a, b) <= a /\ Least(a, b) <= b
  BY DEF Least

(***************************************************************************)
(* What send_data() takes is at most what is left of the window.           *)
(***************************************************************************)
LEMMA RoomBounds ==
  ASSUME TypeOK, NEW c \in Conns
  PROVE  Room(c) \in Nat /\ accepted[c] + Room(c) <= Window
  <1>1. accepted[c] \in 0..Window
    BY DEF TypeOK
  <1>2. QED
    BY <1>1, SizesAssumption DEF Room

(***************************************************************************)
(* Whatever becomes of a frame to the agent, the frames under way are      *)
(* frames.                                                                 *)
(***************************************************************************)
LEMMA SendType ==
  ASSUME TypeOK, NEW f \in UpFrames, Sends(f) \/ SendFails \/ NoAgent
  PROVE  toAgent' \in Seq(UpFrames)
  <1>0. toAgent \in Seq(UpFrames)
    BY DEF TypeOK
  <1>1. CASE Sends(f)
    BY <1>0, <1>1 DEF Sends
  <1>2. CASE SendFails \/ NoAgent
    BY <1>2 DEF SendFails, NoAgent, TypeOK
  <1>3. QED
    BY <1>1, <1>2

\* Whatever becomes of a frame to the server, the frames under way are frames.
LEMMA ReplyType ==
  ASSUME TypeOK, NEW f \in DownFrames, f.type = "DATA" => f.conn \in Conns, Replies(f)
  PROVE  toServer' \in Seq(DownFrames) /\ downSpoilt' \in SUBSET Conns
  <1>0. toServer \in Seq(DownFrames) /\ downSpoilt \in SUBSET Conns
    BY DEF TypeOK
  <1>1. QED
    BY <1>0 DEF Replies

(***************************************************************************)
(* close_connection() changes the state, the map and the frames.           *)
(***************************************************************************)
LEMMA CloseType ==
  ASSUME TypeOK, NEW c \in Conns, NEW graceful \in BOOLEAN, Close(c, graceful)
  PROVE  /\ state' \in [Conns -> {"none", "checked", "CONNECTING", "ESTABLISHED",
                                  "CLOSING", "CLOSED"}]
         /\ connections' \in SUBSET Conns
         /\ toAgent' \in Seq(UpFrames)
  <1>1. Frame("CLOSE", Garbled, <<>>) \in UpFrames
    BY DEF Frame, UpFrames
  <1>2. SendClose(c) => toAgent' \in Seq(UpFrames)
    BY <1>1, SendType DEF SendClose
  <1>3. QED
    BY <1>2 DEF Close, TypeOK

(***************************************************************************)
(* write_to_client() of a buffer                                           *)
(***************************************************************************)
LEMMA StartWriteType ==
  ASSUME TypeOK, NEW c \in Conns, NEW buf \in Seq(1..MaxDown),
         NEW queue \in Seq(Nat \ {0}), NEW spoils \in BOOLEAN,
         StartWrite(c, buf, queue, spoils)
  PROVE  /\ recv' \in [Conns -> Seq(1..MaxDown)]
         /\ writes' \in [Conns -> Seq(Nat \ {0})]
         /\ got' \in [Conns -> Seq(1..MaxDown)]
         /\ downSpoilt' \in SUBSET Conns
  <1>1. got[c] \o buf \in Seq(1..MaxDown)
    BY ConcatProperties DEF TypeOK
  <1>2. buf # <<>> => Append(queue, Len(buf)) \in Seq(Nat \ {0})
    BY AppendProperties, LenProperties, EmptySeq
  <1>3. QED
    BY <1>1, <1>2 DEF StartWrite, TypeOK

(***************************************************************************)
(* async_write() to the local service                                      *)
(***************************************************************************)
LEMMA WritesLocalType ==
  ASSUME TypeOK, NEW c \in Conns, NEW d \in Seq(1..MaxUp), WritesLocal(c, d)
  PROVE  local' \in [Conns -> Seq(0..MaxUp)] /\ upSpoilt' \in SUBSET Conns
  <1>1. d \in Seq(0..MaxUp) /\ [i \in DOMAIN d |-> 0] \in Seq(0..MaxUp)
    BY SizesAssumption
  <1>2. local[c] \in Seq(0..MaxUp)
    BY DEF TypeOK
  <1>4. ASSUME NEW e \in Seq(0..MaxUp) PROVE local[c] \o e \in Seq(0..MaxUp)
    BY <1>2, AddBytes, Zenon
  <1>3. QED
    <2>1. /\ local[c] \o d \in Seq(0..MaxUp)
          /\ local[c] \o [i \in DOMAIN d |-> 0] \in Seq(0..MaxUp)
      BY <1>1, <1>4
    <2>2. local \in [Conns -> Seq(0..MaxUp)] /\ upSpoilt \in SUBSET Conns
      BY DEF TypeOK
    <2>3. QED
      BY <2>1, <2>2 DEF WritesLocal

(***************************************************************************)
(* Taking the next frame off a connection                                  *)
(***************************************************************************)
LEMMA TakeType ==
  ASSUME TypeOK, NEW type, NEW c
  PROVE  /\ TakesFrame(type, c) => /\ toServer' \in Seq(DownFrames)
                                   /\ Head(toServer) \in DownFrames
         /\ AgentTakes(type, c) => /\ toAgent' \in Seq(UpFrames)
                                   /\ Head(toAgent) \in UpFrames
  <1>0. toServer \in Seq(DownFrames) /\ toAgent \in Seq(UpFrames)
    BY DEF TypeOK
  <1>1. TakesFrame(type, c) => toServer' \in Seq(DownFrames) /\ Head(toServer) \in DownFrames
    BY <1>0, TakeFirst DEF TakesFrame
  <1>2. AgentTakes(type, c) => toAgent' \in Seq(UpFrames) /\ Head(toAgent) \in UpFrames
    BY <1>0, TakeFirst DEF AgentTakes
  <1>3. QED
    BY <1>1, <1>2

-----------------------------------------------------------------------------
(***************************************************************************)
(* What has been read from a client was sent by it.                        *)
(***************************************************************************)
ReadWasSent == \A c \in Conns : taken[c] <= sent[c]

(***************************************************************************)
(* TCPServer and TCPProxy keep every variable within its type: in          *)
(* particular no connection sends more than one window.                    *)
(***************************************************************************)
LEMMA ProxyType ==
  ASSUME TypeOK, ReadWasSent, NEW c \in Conns,
         Accept(c) \/ Refuse(c) \/ AcceptThrows(c) \/ ProxyStep(c)
  PROVE  TypeOK'
  <1>1. CASE Accept(c) \/ Refuse(c) \/ AcceptThrows(c)
    <2>1. CASE Accept(c)
      BY <2>1, SMTT(30) DEF Accept, TypeOK
    <2>2. CASE Refuse(c)
      BY <2>2 DEF Refuse, TypeOK
    <2>3. CASE AcceptThrows(c)
      BY <2>3 DEF AcceptThrows, TypeOK
    <2>4. QED
      BY <1>1, <2>1, <2>2, <2>3
  <1>2. CASE Open(c)
    <2>1. Frame("OPEN", c, <<>>) \in UpFrames
      BY DEF Frame, UpFrames
    <2>2. toAgent' \in Seq(UpFrames)
      BY <1>2, <2>1, SendType DEF Open, Opened, OpenFails, OpenNoAgent
    <2>3. CASE Opened(c)
      BY <2>2, <2>3 DEF Opened, TypeOK
    <2>4. CASE OpenFails(c)
      BY <2>2, <2>4, SMTT(30) DEF OpenFails, TypeOK
    <2>5. CASE OpenNoAgent(c)
      BY <2>2, <2>5 DEF OpenNoAgent, TypeOK
    <2>6. QED
      BY <1>2, <2>3, <2>4, <2>5 DEF Open
  <1>3. CASE ReadData(c)
    <2>1. PICK n \in 1..Least(ReadMax, sent[c] - taken[c]) :
            LET k == Least(n, Room(c)) IN
              /\ taken' = Set(taken, c, taken[c] + n)
              /\ accepted' = Set(accepted, c, accepted[c] + k)
              /\ IF k = 0
                   THEN UNCHANGED toAgent
                   ELSE \/ Sends(Frame("DATA", c, Bytes(taken[c], k)))
                        \/ SendFails
                        \/ NoAgent
      BY <1>3 DEF ReadData
    <2> DEFINE k == Least(n, Room(c))
    <2>2. /\ n \in Nat /\ n <= sent[c] - taken[c]
          /\ taken[c] \in Nat /\ sent[c] \in Nat /\ sent[c] <= MaxUp /\ MaxUp \in Nat
      <3>1. /\ taken[c] \in 0..MaxUp /\ sent[c] \in 0..MaxUp
            /\ ReadMax \in Nat /\ MaxUp \in Nat
        BY SizesAssumption DEF TypeOK
      <3>2. taken[c] <= sent[c]
        BY DEF ReadWasSent
      <3>3. QED
        BY <3>1, <3>2 DEF Least
    <2>3. /\ k \in Nat /\ k <= n /\ k <= Room(c)
          /\ Room(c) \in Nat /\ accepted[c] + Room(c) <= Window
      BY <2>2, LeastBounds, RoomBounds
    <2>4. taken' \in [Conns -> 0..MaxUp] /\ accepted' \in [Conns -> 0..Window]
      <3>1. taken[c] + n \in 0..MaxUp
        BY <2>2
      <3>2. accepted[c] \in Nat /\ Window \in Nat
        BY SizesAssumption DEF TypeOK
      <3>3. accepted[c] + k \in 0..Window
        BY <2>3, <3>2
      <3>4. taken \in [Conns -> 0..MaxUp] /\ accepted \in [Conns -> 0..Window]
        BY DEF TypeOK
      <3>5. QED
        BY <2>1, <3>1, <3>3, <3>4
    <2>5. Bytes(taken[c], k) \in Seq(1..MaxUp)
      <3>1. taken[c] + k <= MaxUp
        BY <2>2, <2>3
      <3>2. taken[c] \in Nat /\ k \in Nat /\ MaxUp \in Nat
        BY <2>2, <2>3
      <3> HIDE DEF k
      <3>3. QED
        BY <3>1, <3>2, BytesType
    <2>6. Frame("DATA", c, Bytes(taken[c], k)) \in UpFrames
      BY <2>5 DEF Frame, UpFrames
    <2>7. toAgent' \in Seq(UpFrames)
      <3>1. CASE k = 0
        BY <2>1, <3>1 DEF TypeOK
      <3>2. CASE k # 0
        BY <2>1, <2>6, <3>2, SendType
      <3>3. QED
        BY <3>1, <3>2
    <2>8. QED
      BY <1>3, <2>4, <2>7 DEF ReadData, ReadNext, TypeOK
  <1>4. CASE ReadEof(c) \/ ReadError(c)
    <2>1. \E graceful \in BOOLEAN : Close(c, graceful)
      BY <1>4 DEF ReadEof, ReadError
    <2>2. QED
      BY <1>4, <2>1, CloseType DEF ReadEof, ReadError, TypeOK
  <1>5. CASE WriteDone(c)
    <2>1. /\ writes[c] \in Seq(Nat \ {0}) /\ writes[c] # <<>>
          /\ recv[c] \in Seq(1..MaxDown)
      BY <1>5 DEF WriteDone, TypeOK
    <2>2. Tail(writes[c]) \in Seq(Nat \ {0}) /\ Head(writes[c]) \in Nat
      BY <2>1, TakeFirst
    <2>3. Head(writes[c]) <= Len(recv[c])
            => SubSeq(recv[c], Head(writes[c]) + 1, Len(recv[c])) \in Seq(1..MaxDown)
      BY <2>1, <2>2, DropFirst
    <2>4. /\ recv' \in [Conns -> Seq(1..MaxDown)]
          /\ writes' \in [Conns -> Seq(Nat \ {0})]
          /\ got' \in [Conns -> Seq(1..MaxDown)]
          /\ downSpoilt' \in SUBSET Conns
      <3>1. CASE Head(writes[c]) <= Len(recv[c])
        <4> DEFINE buf == SubSeq(recv[c], Head(writes[c]) + 1, Len(recv[c]))
        <4>0. ~(Head(writes[c]) > Len(recv[c]))
          BY <2>1, <2>2, <3>1
        <4>1. StartWrite(c, buf, Tail(writes[c]), FALSE)
          BY <1>5, <4>0, Zenon DEF WriteDone
        <4>2. buf \in Seq(1..MaxDown)
          BY <2>3, <3>1
        <4> HIDE DEF buf
        <4>3. QED
          BY <2>2, <4>1, <4>2, StartWriteType
      <3>2. CASE ~(Head(writes[c]) <= Len(recv[c]))
        <4>1. <<>> \in Seq(1..MaxDown)
          BY EmptySeq
        <4>2. StartWrite(c, <<>>, Tail(writes[c]), TRUE)
          BY <1>5, <3>2 DEF WriteDone
        <4>3. QED
          BY <2>2, <4>1, <4>2, StartWriteType
      <3>3. QED
        BY <3>1, <3>2
    <2>5. QED
      BY <1>5, <2>4 DEF WriteDone, TypeOK
  <1>6. CASE WriteError(c)
    <2>1. Tail(writes[c]) \in Seq(Nat \ {0})
      BY <1>6, TakeFirst DEF WriteError, TypeOK
    <2>2. QED
      BY <1>6, <2>1, CloseType DEF WriteError, TypeOK
  <1>7. QED
    BY <1>1, <1>2, <1>3, <1>4, <1>5, <1>6 DEF ProxyStep

(***************************************************************************)
(* So do the frames that arrive on either side.                            *)
(***************************************************************************)
LEMMA FrameStepType ==
  ASSUME TypeOK, NEW c \in Conns, FrameStep(c)
  PROVE  TypeOK'
  <1>1. CASE FrameData(c)
    <2>1. toServer' \in Seq(DownFrames) /\ Head(toServer).data \in Seq(1..MaxDown)
      BY <1>1, TakeType DEF FrameData, DownFrames
    <2>2. CASE c \in connections
      <3> DEFINE data == Head(toServer).data
                 fits == Len(recv[c]) + Len(data) <= Window
      <3>1. recv[c] \in Seq(1..MaxDown) /\ writes[c] \in Seq(Nat \ {0})
        BY DEF TypeOK
      <3>2. recv[c] \o data \in Seq(1..MaxDown)
        BY <2>1, <3>1, AddBytes
      <3>3. StartWrite(c, IF fits THEN recv[c] \o data ELSE recv[c], writes[c], ~fits)
        BY <1>1, <2>2 DEF FrameData, Receive
      <3>4. /\ recv' \in [Conns -> Seq(1..MaxDown)]
            /\ writes' \in [Conns -> Seq(Nat \ {0})]
            /\ got' \in [Conns -> Seq(1..MaxDown)]
            /\ downSpoilt' \in SUBSET Conns
        BY <3>1, <3>2, <3>3, StartWriteType
      <3>5. QED
        BY <1>1, <2>1, <3>4 DEF FrameData, TypeOK
    <2>3. CASE c \notin connections
      BY <1>1, <2>1, <2>3 DEF FrameData, TypeOK
    <2>4. QED
      BY <2>2, <2>3
  <1>2. CASE FrameClose(c)
    BY <1>2, TakeType, CloseType DEF FrameClose, TypeOK
  <1>3. CASE AgentOpen(c)
    <2>1. toAgent' \in Seq(UpFrames)
      BY <1>3, TakeType DEF AgentOpen
    <2>2. QED
      BY <1>3, <2>1, SMTT(30) DEF AgentOpen, TypeOK
  <1>4. CASE AgentDataTooLong(c)
    <2>1. toAgent' \in Seq(UpFrames)
      BY <1>4, TakeType DEF AgentDataTooLong
    <2>2. Frame("GOAWAY", Garbled, <<>>) \in DownFrames
      BY DEF Frame, DownFrames
    <2>3. toServer' \in Seq(DownFrames)
      BY <1>4, <2>2, AppendLast DEF AgentDataTooLong, TypeOK
    <2>4. QED
      BY <1>4, <2>1, <2>3 DEF AgentDataTooLong, TypeOK
  <1>5. CASE AgentData(c)
    <2>1. toAgent' \in Seq(UpFrames) /\ Head(toAgent).data \in Seq(1..MaxUp)
      BY <1>5, TakeType DEF AgentData, UpFrames
    <2>2. pending[c] \o Head(toAgent).data \in Seq(1..MaxUp)
      BY <2>1, AddBytes DEF TypeOK
    <2>3. local' \in [Conns -> Seq(0..MaxUp)] /\ upSpoilt' \in SUBSET Conns
      <3>1. CASE fwd[c] = "connected"
        BY <1>5, <2>1, <3>1, WritesLocalType DEF AgentData, Forward
      <3>2. CASE fwd[c] # "connected"
        BY <1>5, <3>2 DEF AgentData, Forward, TypeOK
      <3>3. QED
        BY <3>1, <3>2
    <2>4. QED
      BY <1>5, <2>1, <2>2, <2>3 DEF AgentData, Forward, TypeOK
  <1>6. QED
    BY <1>1, <1>2, <1>3, <1>4, <1>5 DEF FrameStep

(***************************************************************************)
(* So do the forwarder of the agent, the agent's connection and the        *)
(* clients.                                                                *)
(***************************************************************************)
LEMMA OtherType ==
  ASSUME TypeOK,
         \/ LinkStep
         \/ \E c \in Conns : LocalStep(c) \/ ClientSends(c) \/ ClientEnds(c)
  PROVE  TypeOK'
  <1>1. ASSUME NEW c \in Conns, LocalConnects(c) PROVE TypeOK'
    <2>1. local' \in [Conns -> Seq(0..MaxUp)] /\ upSpoilt' \in SUBSET Conns
      BY <1>1, WritesLocalType DEF LocalConnects, TypeOK
    <2>2. pending' \in [Conns -> Seq(1..MaxUp)]
      BY <1>1, EmptySeq DEF LocalConnects, TypeOK
    <2>3. QED
      BY <1>1, <2>1, <2>2 DEF LocalConnects, TypeOK
  <1>2. ASSUME NEW c \in Conns, LocalRefuses(c) \/ LocalEof(c) PROVE TypeOK'
    <2>1. Frame("CLOSE", c, <<>>) \in DownFrames /\ Frame("CLOSE", c, <<>>).type # "DATA"
      BY DEF Frame, DownFrames
    <2>2. toServer' \in Seq(DownFrames) /\ downSpoilt' \in SUBSET Conns
      BY <1>2, <2>1, ReplyType DEF LocalRefuses, LocalEof
    <2>3. QED
      BY <1>2, <2>2 DEF LocalRefuses, LocalEof, TypeOK
  <1>3. ASSUME NEW c \in Conns, LocalSends(c) PROVE TypeOK'
    <2>1. PICK n \in 1..Least(ReadMax, MaxDown - fed[c]) :
            /\ fed' = Set(fed, c, fed[c] + n)
            /\ Replies(Frame("DATA", c, Bytes(fed[c], n)))
      BY <1>3 DEF LocalSends
    <2>2. n \in Nat /\ fed[c] \in Nat /\ MaxDown \in Nat /\ fed[c] + n <= MaxDown
      <3>1. fed[c] \in 0..MaxDown /\ MaxDown \in Nat /\ ReadMax \in Nat
        BY SizesAssumption DEF TypeOK
      <3>2. QED
        BY <3>1 DEF Least
    <2>3. Bytes(fed[c], n) \in Seq(1..MaxDown)
      BY <2>2, BytesType
    <2>4. Frame("DATA", c, Bytes(fed[c], n)) \in DownFrames
      BY <2>3 DEF Frame, DownFrames
    <2>5. toServer' \in Seq(DownFrames) /\ downSpoilt' \in SUBSET Conns
      BY <2>1, <2>4, ReplyType DEF Frame
    <2>6. fed' \in [Conns -> 0..MaxDown]
      BY <2>1, <2>2 DEF TypeOK
    <2>7. QED
      BY <1>3, <2>5, <2>6 DEF LocalSends, TypeOK
  <1>4. ASSUME NEW c \in Conns, LocalWriteError(c) PROVE TypeOK'
    BY <1>4 DEF LocalWriteError, TypeOK
  <1>5. ASSUME NEW c \in Conns, ClientSends(c) \/ ClientEnds(c) PROVE TypeOK'
    <2>1. CASE ClientSends(c)
      <3>1. sent' \in [Conns -> 0..MaxUp]
        <4>1. /\ sent \in [Conns -> 0..MaxUp] /\ sent[c] \in 0..MaxUp /\ MaxUp \in Nat
          BY SizesAssumption DEF TypeOK
        <4>2. sent[c] < MaxUp /\ sent' = [sent EXCEPT ![c] = sent[c] + 1]
          BY <2>1 DEF ClientSends
        <4>3. sent[c] + 1 \in 0..MaxUp
          BY <4>1, <4>2
        <4>4. QED
          BY <4>1, <4>2, <4>3
      <3>2. QED
        BY <2>1, <3>1 DEF ClientSends, TypeOK
    <2>2. CASE ClientEnds(c)
      BY <2>2 DEF ClientEnds, TypeOK
    <2>3. QED
      BY <1>5, <2>1, <2>2
  <1>6. CASE AgentClose
    <2>1. toAgent' \in Seq(UpFrames)
      BY <1>6, TakeType DEF AgentClose
    <2>2. QED
      BY <1>6, <2>1 DEF AgentClose, TypeOK
  <1>7. CASE SessionEnds \/ AgentLeaves
    <2>1. \A S : <<>> \in Seq(S)
      BY EmptySeq
    <2>2. /\ toAgent' \in Seq(UpFrames) /\ toServer' \in Seq(DownFrames)
          /\ pending' \in [Conns -> Seq(1..MaxUp)]
          /\ fwd' \in [Conns -> {"none", "connecting", "connected", "failed", "closed"}]
      BY <1>7, <2>1 DEF SessionEnds, AgentLeaves, TypeOK
    <2>3. QED
      BY <1>7, <2>2 DEF SessionEnds, AgentLeaves, TypeOK
  <1>8. CASE Redial
    BY <1>8, SizesAssumption DEF Redial, TypeOK
  <1>9. QED
    BY <1>1, <1>2, <1>3, <1>4, <1>5, <1>6, <1>7, <1>8 DEF LinkStep, LocalStep

-----------------------------------------------------------------------------
(***************************************************************************)
(* close_connection() leaves a connection that is not stored alone, and    *)
(* takes the state of a stored one on.                                     *)
(***************************************************************************)
Closes(c) ==
  /\ \/ UNCHANGED <<state, connections>> /\ c \notin connections
     \/ /\ c \in connections
        /\ \E s \in {"CLOSING", "CLOSED"} : state' = [state EXCEPT ![c] = s]
        /\ connections' \in {connections, connections \ {c}}
  /\ reading' \in {reading, reading \ {c}}
  /\ UNCHANGED <<clientVars, upVars, active, server>>

\* TCPConnection::close() is such a step.
LEMMA CloseCloses ==
  ASSUME NEW c \in Conns, NEW graceful \in BOOLEAN, Close(c, graceful),
         reading' \in {reading, reading \ {c}},
         UNCHANGED <<clientVars, upVars, active, server>>
  PROVE  Closes(c)
  BY DEF Close, Closes

(***************************************************************************)
(* The steps of the proxy and of the clients; the frames, the agent and    *)
(* the forwarder leave the proxy's own account of a connection alone.      *)
(***************************************************************************)
LEMMA ProxySteps ==
  ASSUME [Next]_vars
  PROVE  \/ UNCHANGED <<clientVars, connVars, upVars, active>> /\ (Up' => Up)
         \/ \E c \in Conns :
              \/ Accept(c) \/ Refuse(c) \/ AcceptThrows(c) \/ Open(c)
              \/ ReadData(c) \/ Closes(c) \/ ClientSends(c) \/ ClientEnds(c)
  <1> DEFINE Still == UNCHANGED <<clientVars, connVars, upVars, active>> /\ (Up' => Up)
             Move(c) == \/ Accept(c) \/ Refuse(c) \/ AcceptThrows(c) \/ Open(c)
                        \/ ReadData(c) \/ Closes(c) \/ ClientSends(c) \/ ClientEnds(c)
  <1>1. ASSUME NEW c \in Conns, ReadEof(c) \/ ReadError(c) \/ FrameClose(c) \/ WriteError(c)
        PROVE  Move(c)
    BY <1>1, CloseCloses DEF ReadEof, ReadError, FrameClose, WriteError
  <1>2. ASSUME NEW c \in Conns, WriteDone(c) \/ FrameData(c) PROVE Still
    BY <1>2 DEF WriteDone, FrameData, TakesFrame
  <1>3. ASSUME NEW c \in Conns, AgentOpen(c) \/ AgentDataTooLong(c) \/ AgentData(c)
        PROVE  Still
    BY <1>3 DEF AgentOpen, AgentDataTooLong, AgentData
  <1>4. ASSUME NEW c \in Conns, LocalStep(c) PROVE Still
    BY <1>4 DEF LocalStep, LocalConnects, LocalRefuses, LocalSends, LocalEof,
                LocalWriteError
  <1>5. CASE LinkStep
    BY <1>5 DEF LinkStep, AgentClose, SessionEnds, AgentLeaves, Redial
  <1>6. CASE UNCHANGED vars
    BY <1>6
  <1>7. QED
    BY <1>1, <1>2, <1>3, <1>4, <1>5, <1>6 DEF Next, ProxyStep, FrameStep

(***************************************************************************)
(* A connection that was not opened yet is not stored and not read, and    *)
(* what was accepted for a connection that can still send is all that was  *)
(* read: send_buffer is full before the first byte is dropped.             *)
(***************************************************************************)
Unopened(c) ==
  /\ client[c] \in {"idle", "refused"} => state[c] = "none"
  /\ state[c] \in {"none", "checked"} =>
       taken[c] = 0 /\ c \notin reading /\ c \notin connections

Account(c) ==
  /\ accepted[c] <= taken[c] /\ taken[c] <= sent[c]
  /\ c \in connections /\ state[c] = "ESTABLISHED" /\ accepted[c] < Window
       => accepted[c] = taken[c]

Accounts == \A c \in Conns : Unopened(c) /\ Account(c)

\* A read from the client: what of it fits the window is accepted.
LEMMA AccountsRead ==
  ASSUME TypeOK, Accounts, NEW c \in Conns, ReadData(c)
  PROVE  /\ sent' = sent /\ state' = state /\ connections' = connections
         /\ taken'[c] <= sent[c] /\ accepted'[c] <= taken'[c]
         /\ taken'[c] >= taken[c] /\ accepted'[c] >= accepted[c]
         /\ \A d \in Conns \ {c} : taken'[d] = taken[d] /\ accepted'[d] = accepted[d]
         /\ c \in connections /\ state[c] = "ESTABLISHED" /\ accepted'[c] < Window
              => accepted'[c] = taken'[c]
  <1>1. PICK n \in 1..Least(ReadMax, sent[c] - taken[c]) :
          LET k == Least(n, Room(c)) IN
            /\ taken' = Set(taken, c, taken[c] + n)
            /\ accepted' = Set(accepted, c, accepted[c] + k)
    BY DEF ReadData
  <1> DEFINE k == Least(n, Room(c))
  <1>2. /\ taken[c] \in Nat /\ sent[c] \in Nat /\ accepted[c] \in 0..Window
        /\ Window \in Nat /\ ReadMax \in Nat
        /\ accepted[c] <= taken[c] /\ taken[c] <= sent[c]
    BY SizesAssumption DEF TypeOK, Accounts, Account
  <1>3. n \in Nat /\ n <= sent[c] - taken[c]
    BY <1>2 DEF Least
  <1>4. k \in Nat /\ k <= n /\ (k # n => k = Room(c))
    BY <1>2, <1>3, LeastBounds, RoomBounds DEF Least
  <1>5. /\ taken' = [taken EXCEPT ![c] = taken[c] + n]
        /\ accepted' = [accepted EXCEPT ![c] = accepted[c] + k]
    BY <1>1
  <1>6. /\ taken'[c] = taken[c] + n /\ accepted'[c] = accepted[c] + k
        /\ \A d \in Conns \ {c} : taken'[d] = taken[d] /\ accepted'[d] = accepted[d]
    <2>1. taken \in [Conns -> 0..MaxUp] /\ accepted \in [Conns -> 0..Window]
      BY DEF TypeOK
    <2> HIDE DEF k
    <2>2. QED
      BY <1>5, <2>1
  <1> HIDE DEF k
  <1>7. ASSUME c \in connections, state[c] = "ESTABLISHED", accepted'[c] < Window
        PROVE  accepted'[c] = taken'[c]
    <2>1. Room(c) = Window - accepted[c]
      BY <1>7 DEF Room
    <2>2. accepted[c] = taken[c]
      BY <1>2, <1>4, <1>6, <1>7 DEF Accounts, Account
    <2>3. k = n
      BY <1>2, <1>4, <1>6, <1>7, <2>1
    <2>4. QED
      BY <1>6, <2>2, <2>3
  <1>8. sent' = sent /\ state' = state /\ connections' = connections
    BY DEF ReadData
  <1>9. QED
    BY <1>2, <1>3, <1>4, <1>6, <1>7, <1>8

\* Every step keeps the accounts.
LEMMA AccountsStep == TypeOK /\ Accounts /\ [Next]_vars => Accounts'
  <1> SUFFICES ASSUME TypeOK, Accounts, [Next]_vars, NEW d \in Conns
               PROVE  Unopened(d)' /\ Account(d)'
    BY DEF Accounts
  <1>0. Unopened(d) /\ Account(d)
    BY DEF Accounts
  <1> USE DEF Unopened, Account
  <1>1. CASE UNCHANGED <<clientVars, connVars, upVars, active>>
    BY <1>0, <1>1
  <1>2. ASSUME NEW c \in Conns, Accept(c) \/ Refuse(c) \/ AcceptThrows(c)
        PROVE  Unopened(d)' /\ Account(d)'
    BY <1>0, <1>2 DEF Accept, Refuse, AcceptThrows, TypeOK
  <1>3. ASSUME NEW c \in Conns, Open(c) PROVE Unopened(d)' /\ Account(d)'
    <2>1. UNCHANGED <<clientVars, upVars>> /\ state[c] = "checked"
      BY <1>3 DEF Open, Opened, OpenFails, OpenNoAgent
    <2>2. /\ state'[d] = IF d = c THEN state'[c] ELSE state[d]
          /\ state'[c] \in {"ESTABLISHED", "CONNECTING"}
          /\ d # c => (d \in reading' <=> d \in reading)
          /\ d # c => (d \in connections' <=> d \in connections)
      BY <1>3 DEF Open, Opened, OpenFails, OpenNoAgent, TypeOK
    <2>3. d = c => taken[d] = 0 /\ accepted[d] = 0 /\ client[d] \notin {"idle", "refused"}
      BY <1>0, <2>1 DEF TypeOK
    <2>4. QED
      BY <1>0, <2>1, <2>2, <2>3
  <1>4. ASSUME NEW c \in Conns, ReadData(c) PROVE Unopened(d)' /\ Account(d)'
    <2>1. Unopened(d)'
      <3>1. c \in reading /\ reading' \in {reading, reading \ {c}}
        BY <1>4 DEF ReadData, ReadNext
      <3>2. UNCHANGED <<client, state, connections>>
        BY <1>4 DEF ReadData
      <3>3. d # c => taken'[d] = taken[d]
        BY <1>4, AccountsRead
      <3>4. QED
        BY <1>0, <3>1, <3>2, <3>3
    <2>2. Account(d)'
      BY <1>0, <1>4, AccountsRead
    <2>3. QED
      BY <2>1, <2>2
  <1>5. ASSUME NEW c \in Conns, Closes(c) PROVE Unopened(d)' /\ Account(d)'
    BY <1>0, <1>5 DEF Closes, TypeOK
  <1>6. ASSUME NEW c \in Conns, ClientSends(c) PROVE Unopened(d)' /\ Account(d)'
    BY <1>0, <1>6 DEF ClientSends, TypeOK
  <1>7. ASSUME NEW c \in Conns, ClientEnds(c) PROVE Unopened(d)' /\ Account(d)'
    BY <1>0, <1>7 DEF ClientEnds, TypeOK
  <1>8. QED
    BY <1>1, <1>2, <1>3, <1>4, <1>5, <1>6, <1>7, ProxySteps

-----------------------------------------------------------------------------
(***************************************************************************)
(* The initial state                                                       *)
(***************************************************************************)
LEMMA InitType == Init => TypeOK /\ Accounts
  <1> SUFFICES ASSUME Init PROVE TypeOK /\ Accounts
    OBVIOUS
  <1>1. \A S : <<>> \in Seq(S)
    BY EmptySeq
  <1>2. TypeOK
    BY <1>1, SizesAssumption DEF Init, TypeOK
  <1>3. Accounts
    BY SizesAssumption DEF Init, Accounts, Unopened, Account
  <1>4. QED
    BY <1>2, <1>3

(***************************************************************************)
(* Type correctness: the buffers, queues and counters of the proxy, the    *)
(* forwarder and the connection between them, whatever the sizes are.  The *)
(* bound of `accepted` says that no more than a window is ever sent.       *)
(***************************************************************************)
THEOREM TypeCorrect == Spec => []TypeOK
  <1>1. Init => TypeOK /\ Accounts
    BY InitType
  <1>2. TypeOK /\ Accounts /\ [Next]_vars => TypeOK' /\ Accounts'
    <2> SUFFICES ASSUME TypeOK, Accounts, [Next]_vars PROVE TypeOK' /\ Accounts'
      OBVIOUS
    <2>1. ReadWasSent
      BY DEF Accounts, Account, ReadWasSent
    <2>2. Accounts'
      BY AccountsStep
    <2>3. ASSUME UNCHANGED vars PROVE TypeOK'
      BY <2>3, SMTT(30) DEF TypeOK
    <2>4. ASSUME NEW c \in Conns,
                 Accept(c) \/ Refuse(c) \/ AcceptThrows(c) \/ ProxyStep(c)
          PROVE  TypeOK'
      BY <2>1, <2>4, ProxyType
    <2>5. ASSUME NEW c \in Conns, FrameStep(c) PROVE TypeOK'
      BY <2>5, FrameStepType
    <2>6. ASSUME NEW c \in Conns, LocalStep(c) \/ ClientSends(c) \/ ClientEnds(c)
          PROVE  TypeOK'
      BY <2>6, OtherType
    <2>7. ASSUME LinkStep PROVE TypeOK'
      BY <2>7, OtherType
    <2>8. TypeOK'
      BY <2>3, <2>4, <2>5, <2>6, <2>7 DEF Next
    <2>9. QED
      BY <2>2, <2>8
  <1>3. QED
    BY <1>1, <1>2, PTL DEF Spec

(***************************************************************************)
(* The account of every connection is right throughout.                    *)
(***************************************************************************)
LEMMA AccountsHold == Spec => []Accounts
  <1>1. Init => Accounts
    BY InitType
  <1>2. TypeOK /\ Accounts /\ [Next]_vars => Accounts'
    BY AccountsStep
  <1>3. QED
    BY <1>1, <1>2, TypeCorrect, PTL DEF Spec

-----------------------------------------------------------------------------
(***************************************************************************)
(* The reader of an established connection is never lost: whatever a       *)
(* handler does, it posts the next read or takes the state on.             *)
(***************************************************************************)
THEOREM ReaderNeverLost == Spec => []ReaderAttached
  <1>1. Init => ReaderAttached
    BY DEF Init, ReaderAttached
  <1>2. TypeOK /\ ReaderAttached /\ [Next]_vars => ReaderAttached'
    <2> SUFFICES ASSUME TypeOK, ReaderAttached, [Next]_vars, Up',
                        NEW d \in connections', state'[d] = "ESTABLISHED"
                 PROVE  d \in reading'
      BY DEF ReaderAttached
    <2> USE DEF ReaderAttached
    <2>0. d \in Conns => (d \in connections /\ state[d] = "ESTABLISHED" /\ Up => d \in reading)
      OBVIOUS
    <2>1. CASE UNCHANGED <<clientVars, connVars, upVars, active>> /\ (Up' => Up)
      BY <2>0, <2>1
    <2>2. ASSUME NEW c \in Conns, Accept(c) \/ Refuse(c) \/ AcceptThrows(c)
          PROVE  d \in reading'
      BY <2>0, <2>2 DEF Accept, Refuse, AcceptThrows, TypeOK
    <2>3. ASSUME NEW c \in Conns, Open(c) PROVE d \in reading'
      BY <2>0, <2>3, SMTT(30) DEF Open, Opened, OpenFails, OpenNoAgent, TypeOK
    <2>4. ASSUME NEW c \in Conns, ReadData(c) PROVE d \in reading'
      BY <2>0, <2>4 DEF ReadData, ReadNext, TypeOK
    <2>5. ASSUME NEW c \in Conns, Closes(c) PROVE d \in reading'
      <3>1. DOMAIN state = Conns /\ connections \subseteq Conns
        BY DEF TypeOK
      <3>2. CASE UNCHANGED <<state, connections>> /\ c \notin connections
        BY <2>0, <2>5, <3>1, <3>2 DEF Closes
      <3>3. CASE c \in connections
        BY <2>0, <2>5, <3>1, <3>3 DEF Closes
      <3>4. QED
        BY <2>5, <3>2, <3>3 DEF Closes
    <2>6. ASSUME NEW c \in Conns, ClientSends(c) \/ ClientEnds(c) PROVE d \in reading'
      BY <2>0, <2>6 DEF ClientSends, ClientEnds
    <2>7. QED
      BY <2>1, <2>2, <2>3, <2>4, <2>5, <2>6, ProxySteps
  <1>3. QED
    BY <1>1, <1>2, TypeCorrect, PTL DEF Spec

-----------------------------------------------------------------------------
(***************************************************************************)
(* The connections that active_connection_count_ must count: those inside  *)
(* create_connection(), and those that carry data.                         *)
(***************************************************************************)
Counts(c) == state[c] = "checked" \/ (c \in connections /\ state[c] = "ESTABLISHED")
Counted == {c \in Conns : Counts(c)}
AllCounted == active >= Cardinality(Counted)

(***************************************************************************)
(* Where no connection joins and the counter stays, it still suffices.     *)
(***************************************************************************)
LEMMA FewerCounted ==
  ASSUME TypeOK, AllCounted, Counted' \subseteq Counted, active' = active
  PROVE  AllCounted'
  <1>1. IsFiniteSet(Counted) /\ IsFiniteSet(Counted')
    BY ConnsAssumption, FS_Subset DEF Counted
  <1>2. Cardinality(Counted') <= Cardinality(Counted)
    BY <1>1, FS_Subset
  <1>3. Cardinality(Counted) \in Nat /\ Cardinality(Counted') \in Nat
    BY <1>1, FS_CardinalityType
  <1>4. QED
    BY <1>2, <1>3 DEF AllCounted, TypeOK

(***************************************************************************)
(* handle_accept() counts one connection more.                             *)
(***************************************************************************)
LEMMA AcceptCounts ==
  ASSUME TypeOK, Accounts, AllCounted, NEW c \in Conns, Accept(c)
  PROVE  AllCounted'
  <1>1. state[c] = "none"
    BY DEF Accept, Accounts, Unopened
  <1>2. Counted' = Counted \cup {c} /\ c \notin Counted
    <2>1. /\ state' = [state EXCEPT ![c] = "checked"] /\ connections' = connections
          /\ c \notin connections
      BY <1>1 DEF Accept, Accounts, Unopened
    <2>2. DOMAIN state = Conns
      BY DEF TypeOK
    <2>3. \A d \in Conns : Counts(d)' <=> Counts(d) \/ d = c
      BY <2>1, <2>2 DEF Counts
    <2>4. ~Counts(c)
      BY <1>1 DEF Counts
    <2>5. QED
      BY <2>3, <2>4 DEF Counted
  <1>3. IsFiniteSet(Counted)
    BY ConnsAssumption, FS_Subset DEF Counted
  <1>4. Cardinality(Counted') = Cardinality(Counted) + 1 /\ Cardinality(Counted) \in Nat
    BY <1>2, <1>3, FS_AddElement, FS_CardinalityType
  <1>5. active' = active + 1 /\ active \in Nat
    BY DEF Accept, TypeOK
  <1>6. QED
    BY <1>4, <1>5 DEF AllCounted

(***************************************************************************)
(* The close callback takes off a connection that was counted.             *)
(***************************************************************************)
LEMMA OpenFailsCounts ==
  ASSUME TypeOK, AllCounted, NEW c \in Conns, OpenFails(c)
  PROVE  AllCounted'
  <1>1. Counted' = Counted \ {c} /\ c \in Counted
    <2>1. /\ state' = [state EXCEPT ![c] = "CONNECTING"] /\ state[c] = "checked"
          /\ connections' = connections \cup {c}
      BY DEF OpenFails
    <2>2. DOMAIN state = Conns
      BY DEF TypeOK
    <2>3. \A d \in Conns : Counts(d)' <=> Counts(d) /\ d # c
      BY <2>1, <2>2 DEF Counts
    <2>4. Counts(c)
      BY <2>1 DEF Counts
    <2>5. QED
      BY <2>3, <2>4 DEF Counted
  <1>2. IsFiniteSet(Counted)
    BY ConnsAssumption, FS_Subset DEF Counted
  <1>3. Cardinality(Counted') = Cardinality(Counted) - 1 /\ Cardinality(Counted) \in Nat
    BY <1>1, <1>2, FS_RemoveElement, FS_CardinalityType
  <1>4. IsFiniteSet(Counted')
    BY <1>1, <1>2, FS_Subset
  <1>5. Cardinality(Counted') \in Nat
    BY <1>4, FS_CardinalityType
  <1>6. active \in Nat /\ active' = IF active > 0 THEN active - 1 ELSE 0
    BY DEF OpenFails, TypeOK
  <1>7. QED
    BY <1>3, <1>5, <1>6 DEF AllCounted

(***************************************************************************)
(* active_connection_count_ is never lower than the number of ESTABLISHED  *)
(* connections, for any number of connections: the failed open of one does *)
(* not take away the count of another.  Entries left CONNECTING by a       *)
(* failed open are in the map and not in this number.                      *)
(***************************************************************************)
THEOREM CounterCoversEstablished == Spec => []CounterCovers
  <1>1. Init => AllCounted
    <2> SUFFICES ASSUME Init PROVE AllCounted
      OBVIOUS
    <2>1. Counted = {}
      BY DEF Init, Counted, Counts
    <2>2. QED
      BY <2>1, FS_EmptySet DEF Init, AllCounted
  <1>2. TypeOK /\ Accounts /\ AllCounted /\ [Next]_vars => AllCounted'
    <2> SUFFICES ASSUME TypeOK, Accounts, AllCounted, [Next]_vars PROVE AllCounted'
      OBVIOUS
    <2>1. CASE UNCHANGED <<clientVars, connVars, upVars, active>>
      <3>1. Counted' = Counted /\ active' = active
        BY <2>1 DEF Counted, Counts
      <3>2. QED
        BY <3>1, FewerCounted
    <2>2. ASSUME NEW c \in Conns, Refuse(c) \/ AcceptThrows(c) \/ ReadData(c)
                                  \/ ClientSends(c) \/ ClientEnds(c)
          PROVE  AllCounted'
      <3>1. Counted' = Counted /\ active' = active
        BY <2>2 DEF Counted, Counts, Refuse, AcceptThrows, ReadData, ClientSends, ClientEnds
      <3>2. QED
        BY <3>1, FewerCounted
    <2>3. ASSUME NEW c \in Conns, Opened(c) \/ OpenNoAgent(c) PROVE AllCounted'
      <3>1. Counted' \subseteq Counted /\ active' = active
        <4>1. /\ state' = [state EXCEPT ![c] = "ESTABLISHED"] /\ state[c] = "checked"
              /\ connections' \in {connections, connections \cup {c}}
              /\ active' = active
          BY <2>3 DEF Opened, OpenNoAgent
        <4>2. DOMAIN state = Conns
          BY DEF TypeOK
        <4>3. \A d \in Conns : Counts(d)' => Counts(d)
          BY <4>1, <4>2 DEF Counts
        <4>4. QED
          BY <4>1, <4>3 DEF Counted
      <3>2. QED
        BY <3>1, FewerCounted
    <2>4. ASSUME NEW c \in Conns, Closes(c) PROVE AllCounted'
      <3>1. Counted' \subseteq Counted /\ active' = active
        BY <2>4 DEF Counted, Counts, Closes, TypeOK
      <3>2. QED
        BY <3>1, FewerCounted
    <2>5. ASSUME NEW c \in Conns, Accept(c) PROVE AllCounted'
      BY <2>5, AcceptCounts
    <2>6. ASSUME NEW c \in Conns, OpenFails(c) PROVE AllCounted'
      BY <2>6, OpenFailsCounts
    <2>7. QED
      BY <2>1, <2>2, <2>3, <2>4, <2>5, <2>6, ProxySteps DEF Open
  <1>3. TypeOK /\ AllCounted => CounterCovers
    <2> SUFFICES ASSUME TypeOK, AllCounted PROVE CounterCovers
      OBVIOUS
    <2> DEFINE Carrying == {c \in connections : state[c] = "ESTABLISHED"}
    <2>1. Carrying \subseteq Counted
      BY DEF Counted, Counts, TypeOK
    <2>2. IsFiniteSet(Counted)
      BY ConnsAssumption, FS_Subset DEF Counted
    <2>3. /\ IsFiniteSet(Carrying)
          /\ Cardinality(Carrying) <= Cardinality(Counted)
      BY <2>1, <2>2, FS_Subset
    <2>4. Cardinality(Carrying) \in Nat /\ Cardinality(Counted) \in Nat
      BY <2>2, <2>3, FS_CardinalityType
    <2>5. QED
      BY <2>3, <2>4 DEF AllCounted, CounterCovers, TypeOK
  <1>4. QED
    BY <1>1, <1>2, <1>3, TypeCorrect, AccountsHold, PTL DEF Spec

-----------------------------------------------------------------------------
(***************************************************************************)
(* The frames of one connection among those under way on the agent's TLS   *)
(* stream.  Ordered: each is a run of consecutive bytes, between low and   *)
(* high, and those of a later frame come later.  Covered: no byte between  *)
(* low and high is missing.                                                *)
(***************************************************************************)
Carries(f, c) == f.type = "DATA" /\ f.conn = c
IsRun(d) == Len(d) > 0 /\ \A j \in 1..Len(d) : d[j] = d[1] + j - 1
Last(d) == d[1] + Len(d) - 1

Ordered(q, c, low, high) ==
  \A i \in 1..Len(q) : Carries(q[i], c) =>
    /\ IsRun(q[i].data)
    /\ low < q[i].data[1] /\ Last(q[i].data) <= high
    /\ \A j \in 1..Len(q) : Carries(q[j], c) /\ i < j => Last(q[i].data) < q[j].data[1]

Covered(q, c, low, high) ==
  \A b \in low + 1..high :
    \E i \in 1..Len(q) : Carries(q[i], c) /\ q[i].data[1] <= b /\ b <= Last(q[i].data)

\* Frames whose data are bytes
FrameSet(S) == \A f \in S : f.data \in Seq(Nat)

\* The data of all frames under way are bytes.
LEMMA FrameSets == FrameSet(UpFrames) /\ FrameSet(DownFrames)
  <1>1. 1..MaxUp \subseteq Nat /\ 1..MaxDown \subseteq Nat
    BY SizesAssumption
  <1>2. ASSUME NEW f \in UpFrames PROVE f.data \in Seq(Nat)
    <2>1. f.data \in Seq(1..MaxUp)
      BY DEF UpFrames
    <2>2. QED
      BY <1>1, <2>1, WiderBytes, Zenon
  <1>3. ASSUME NEW f \in DownFrames PROVE f.data \in Seq(Nat)
    <2>1. f.data \in Seq(1..MaxDown)
      BY DEF DownFrames
    <2>2. QED
      BY <1>1, <2>1, WiderBytes, Zenon
  <1>4. QED
    BY <1>2, <1>3 DEF FrameSet

(***************************************************************************)
(* Where a run begins and ends                                             *)
(***************************************************************************)
LEMMA RunBounds ==
  ASSUME NEW d \in Seq(Nat), IsRun(d)
  PROVE  d[1] \in Nat /\ Len(d) \in Nat \ {0} /\ Last(d) \in Nat /\ d[1] <= Last(d)
         /\ Last(d) = d[1] + Len(d) - 1
  BY DEF IsRun, Last

(***************************************************************************)
(* Taking a frame off: the rest is in order, and nothing of it comes       *)
(* before the bytes that were taken.                                       *)
(***************************************************************************)
LEMMA OrderedTail ==
  ASSUME NEW S, FrameSet(S), NEW q \in Seq(S), q # <<>>, NEW c,
         NEW low \in Nat, NEW high \in Nat, Ordered(q, c, low, high)
  PROVE  /\ Ordered(Tail(q), c, low, high)
         /\ Carries(Head(q), c) =>
              /\ IsRun(Head(q).data)
              /\ low < Head(q).data[1] /\ Last(Head(q).data) <= high
              /\ Ordered(Tail(q), c, Last(Head(q).data), high)
  <1>1. /\ Head(q) = q[1] /\ Len(q) \in Nat \ {0}
        /\ Len(Tail(q)) = Len(q) - 1
        /\ \A i \in 1..Len(q) - 1 : Tail(q)[i] = q[i + 1]
    BY TakeFirst
  <1>2. \A i \in 1..Len(Tail(q)) : i + 1 \in 1..Len(q) /\ Tail(q)[i] = q[i + 1]
    BY <1>1
  <1>3. \A i, j \in 1..Len(Tail(q)) : i < j => i + 1 < j + 1
    BY <1>1
  <1>4. Ordered(Tail(q), c, low, high)
    BY <1>2, <1>3 DEF Ordered
  <1>5. ASSUME Carries(Head(q), c)
        PROVE  /\ IsRun(Head(q).data)
               /\ low < Head(q).data[1] /\ Last(Head(q).data) <= high
               /\ Ordered(Tail(q), c, Last(Head(q).data), high)
    <2>1. /\ IsRun(q[1].data) /\ low < q[1].data[1] /\ Last(q[1].data) <= high
          /\ \A j \in 1..Len(q) : Carries(q[j], c) /\ 1 < j => Last(q[1].data) < q[j].data[1]
      BY <1>1, <1>5 DEF Ordered
    <2>2. \A i \in 1..Len(Tail(q)) :
            Carries(Tail(q)[i], c) => Last(q[1].data) < Tail(q)[i].data[1]
      <3> SUFFICES ASSUME NEW i \in 1..Len(Tail(q)), Carries(Tail(q)[i], c)
                   PROVE  Last(q[1].data) < Tail(q)[i].data[1]
        OBVIOUS
      <3>1. i + 1 \in 1..Len(q) /\ Tail(q)[i] = q[i + 1] /\ 1 < i + 1
        BY <1>1, <1>2
      <3>2. QED
        BY <2>1, <3>1
    <2>3. QED
      BY <1>1, <1>4, <2>1, <2>2 DEF Ordered
  <1>6. QED
    BY <1>4, <1>5

(***************************************************************************)
(* Writing a frame of another connection, or one without data              *)
(***************************************************************************)
LEMMA AppendOther ==
  ASSUME NEW S, NEW q \in Seq(S), NEW f \in S, NEW c, ~Carries(f, c),
         NEW low, NEW high
  PROVE  /\ Ordered(q, c, low, high) => Ordered(Append(q, f), c, low, high)
         /\ Covered(q, c, low, high) => Covered(Append(q, f), c, low, high)
  <1>1. /\ Len(Append(q, f)) = Len(q) + 1 /\ Len(q) \in Nat
        /\ \A i \in 1..Len(q) : Append(q, f)[i] = q[i]
        /\ Append(q, f)[Len(q) + 1] = f
    BY AppendLast
  <1>2. \A i \in 1..Len(Append(q, f)) :
          Carries(Append(q, f)[i], c) => i \in 1..Len(q) /\ Append(q, f)[i] = q[i]
    <2> SUFFICES ASSUME NEW i \in 1..Len(Append(q, f)), Carries(Append(q, f)[i], c)
                 PROVE  i \in 1..Len(q) /\ Append(q, f)[i] = q[i]
      OBVIOUS
    <2>1. i # Len(q) + 1
      BY <1>1
    <2>2. QED
      BY <1>1, <2>1
  <1>3. 1..Len(q) \subseteq 1..Len(Append(q, f))
    BY <1>1
  <1>4. Ordered(q, c, low, high) => Ordered(Append(q, f), c, low, high)
    BY <1>2 DEF Ordered
  <1>5. Covered(q, c, low, high) => Covered(Append(q, f), c, low, high)
    BY <1>1, <1>3 DEF Covered
  <1>6. QED
    BY <1>4, <1>5

(***************************************************************************)
(* Writing the bytes that follow                                           *)
(***************************************************************************)
LEMMA AppendNext ==
  ASSUME NEW S, FrameSet(S), NEW q \in Seq(S), NEW f \in S, NEW c, Carries(f, c),
         NEW low \in Nat, NEW high \in Nat, low <= high,
         IsRun(f.data), f.data[1] = high + 1
  PROVE  /\ Ordered(q, c, low, high) => Ordered(Append(q, f), c, low, Last(f.data))
         /\ Covered(q, c, low, high) => Covered(Append(q, f), c, low, Last(f.data))
  <1>1. /\ Len(Append(q, f)) = Len(q) + 1 /\ Len(q) \in Nat
        /\ \A i \in 1..Len(q) : Append(q, f)[i] = q[i]
        /\ Append(q, f)[Len(q) + 1] = f
    BY AppendLast
  <1>2. f.data \in Seq(Nat) /\ \A i \in 1..Len(q) : q[i].data \in Seq(Nat)
    BY DEF FrameSet
  <1>3. Last(f.data) \in Nat /\ high < Last(f.data) /\ high < f.data[1]
    BY <1>2, RunBounds
  <1>4. ASSUME Ordered(q, c, low, high) PROVE Ordered(Append(q, f), c, low, Last(f.data))
    <2> DEFINE p == Append(q, f)
    <2> SUFFICES ASSUME NEW i \in 1..Len(p), Carries(p[i], c)
                 PROVE  /\ IsRun(p[i].data)
                        /\ low < p[i].data[1] /\ Last(p[i].data) <= Last(f.data)
                        /\ \A j \in 1..Len(p) :
                             Carries(p[j], c) /\ i < j => Last(p[i].data) < p[j].data[1]
      BY DEF Ordered
    <2>1. CASE i = Len(q) + 1
      <3>1. p[i] = f /\ ~ \E j \in 1..Len(p) : i < j
        BY <1>1, <2>1
      <3>2. QED
        BY <1>2, <1>3, <3>1, RunBounds
    <2>2. CASE i \in 1..Len(q)
      <3>1. p[i] = q[i]
        BY <1>1, <2>2
      <3>2. /\ IsRun(q[i].data) /\ low < q[i].data[1] /\ Last(q[i].data) <= high
            /\ \A j \in 1..Len(q) : Carries(q[j], c) /\ i < j => Last(q[i].data) < q[j].data[1]
        BY <1>4, <2>2, <3>1 DEF Ordered
      <3>3. Last(q[i].data) \in Nat
        BY <1>2, <2>2, <3>2, RunBounds
      <3>4. Last(q[i].data) < f.data[1] /\ Last(q[i].data) <= Last(f.data)
        BY <1>3, <3>2, <3>3
      <3>5. ASSUME NEW j \in 1..Len(p), Carries(p[j], c), i < j
            PROVE  Last(q[i].data) < p[j].data[1]
        <4>1. CASE j \in 1..Len(q)
          BY <1>1, <3>2, <3>5, <4>1
        <4>2. CASE j = Len(q) + 1
          BY <1>1, <3>4, <4>2
        <4>3. QED
          BY <1>1, <4>1, <4>2
      <3>6. QED
        BY <3>1, <3>2, <3>4, <3>5
    <2>3. QED
      BY <1>1, <2>1, <2>2
  <1>5. ASSUME Covered(q, c, low, high) PROVE Covered(Append(q, f), c, low, Last(f.data))
    <2> DEFINE p == Append(q, f)
    <2> SUFFICES ASSUME NEW b \in low + 1..Last(f.data)
                 PROVE  \E i \in 1..Len(p) : /\ Carries(p[i], c)
                                             /\ p[i].data[1] <= b /\ b <= Last(p[i].data)
      BY DEF Covered
    <2>1. CASE b <= high
      <3>1. PICK i \in 1..Len(q) :
              Carries(q[i], c) /\ q[i].data[1] <= b /\ b <= Last(q[i].data)
        BY <1>3, <1>5, <2>1 DEF Covered
      <3>2. i \in 1..Len(p) /\ p[i] = q[i]
        BY <1>1
      <3>3. QED
        BY <3>1, <3>2
    <2>2. CASE high < b
      <3>1. Len(q) + 1 \in 1..Len(p) /\ p[Len(q) + 1] = f
        BY <1>1
      <3>2. f.data[1] <= b /\ b <= Last(f.data)
        BY <1>3, <2>2
      <3>3. QED
        BY <3>1, <3>2
    <2>3. QED
      BY <1>3, <2>1, <2>2
  <1>6. QED
    BY <1>4, <1>5

(***************************************************************************)
(* The next frame of a connection of which nothing is missing holds the    *)
(* next bytes, and nothing is missing behind it.                           *)
(***************************************************************************)
LEMMA CoveredTail ==
  ASSUME NEW S, FrameSet(S), NEW q \in Seq(S), q # <<>>, NEW c,
         NEW low \in Nat, NEW high \in Nat,
         Ordered(q, c, low, high), Covered(q, c, low, high)
  PROVE  /\ ~Carries(Head(q), c) => Covered(Tail(q), c, low, high)
         /\ Carries(Head(q), c) =>
              /\ Head(q).data[1] = low + 1
              /\ Covered(Tail(q), c, Last(Head(q).data), high)
  <1>1. /\ Head(q) = q[1] /\ Len(q) \in Nat \ {0}
        /\ Len(Tail(q)) = Len(q) - 1
        /\ \A i \in 1..Len(q) - 1 : Tail(q)[i] = q[i + 1]
    BY TakeFirst
  <1>2. \A i \in 1..Len(q) : q[i].data \in Seq(Nat)
    BY DEF FrameSet
  <1>3. ASSUME NEW b \in low + 1..high, ~(Carries(q[1], c) /\ b <= Last(q[1].data))
        PROVE  \E i \in 1..Len(Tail(q)) : /\ Carries(Tail(q)[i], c)
                                          /\ Tail(q)[i].data[1] <= b
                                          /\ b <= Last(Tail(q)[i].data)
    <2>1. PICK i \in 1..Len(q) :
            Carries(q[i], c) /\ q[i].data[1] <= b /\ b <= Last(q[i].data)
      BY DEF Covered
    <2>2. i # 1
      BY <1>3, <2>1
    <2>3. i - 1 \in 1..Len(Tail(q)) /\ Tail(q)[i - 1] = q[i]
      BY <1>1, <2>2
    <2>4. QED
      BY <2>1, <2>3
  <1>4. ~Carries(Head(q), c) => Covered(Tail(q), c, low, high)
    BY <1>1, <1>3 DEF Covered
  <1>5. ASSUME Carries(Head(q), c)
        PROVE  /\ Head(q).data[1] = low + 1
               /\ Covered(Tail(q), c, Last(Head(q).data), high)
    <2>1. /\ IsRun(q[1].data) /\ low < q[1].data[1] /\ Last(q[1].data) <= high
          /\ \A j \in 1..Len(q) : Carries(q[j], c) /\ 1 < j => Last(q[1].data) < q[j].data[1]
      BY <1>1, <1>5 DEF Ordered
    <2>2. /\ q[1].data[1] \in Nat /\ Last(q[1].data) \in Nat
          /\ q[1].data[1] <= Last(q[1].data)
      BY <1>1, <1>2, <2>1, RunBounds
    <2>3. q[1].data[1] = low + 1
      <3>1. PICK i \in 1..Len(q) :
              Carries(q[i], c) /\ q[i].data[1] <= low + 1 /\ low + 1 <= Last(q[i].data)
        BY <2>1, <2>2 DEF Covered
      <3>2. low < q[i].data[1] /\ IsRun(q[i].data)
        BY <3>1 DEF Ordered
      <3>3. q[i].data[1] \in Nat
        BY <1>2, <3>2, RunBounds
      <3>4. q[i].data[1] = low + 1
        BY <3>1, <3>2, <3>3
      <3>5. i = 1
        BY <1>1, <2>1, <2>2, <3>1, <3>4
      <3>6. QED
        BY <3>4, <3>5
    <2>4. \A b \in Last(q[1].data) + 1..high : b \in low + 1..high /\ ~(b <= Last(q[1].data))
      BY <2>1, <2>2
    <2>5. QED
      BY <1>1, <1>3, <2>3, <2>4 DEF Covered
  <1>6. QED
    BY <1>4, <1>5

(***************************************************************************)
(* Without frames nothing is out of order, and nothing can be missing.     *)
(***************************************************************************)
LEMMA NoFrames ==
  ASSUME NEW q, NEW c, ~ \E i \in 1..Len(q) : Carries(q[i], c),
         NEW low \in Nat, NEW high \in Nat
  PROVE  /\ Ordered(q, c, low, high)
         /\ high <= low => Covered(q, c, low, high)
         /\ Covered(q, c, low, high) => high <= low
  BY DEF Ordered, Covered

\* An order between two bounds is one between wider bounds.
LEMMA Widen ==
  ASSUME NEW S, FrameSet(S), NEW q \in Seq(S), NEW c,
         NEW low \in Nat, NEW high \in Nat, NEW lower \in Nat, NEW higher \in Nat,
         lower <= low, high <= higher, Ordered(q, c, low, high)
  PROVE  Ordered(q, c, lower, higher)
  <1> SUFFICES ASSUME NEW i \in 1..Len(q), Carries(q[i], c)
               PROVE  lower < q[i].data[1] /\ Last(q[i].data) <= higher
    BY DEF Ordered
  <1>1. q[i].data \in Seq(Nat)
    BY DEF FrameSet
  <1>2. IsRun(q[i].data) /\ low < q[i].data[1] /\ Last(q[i].data) <= high
    BY DEF Ordered
  <1>3. q[i].data[1] \in Nat /\ Last(q[i].data) \in Nat
    BY <1>1, <1>2, RunBounds
  <1>4. QED
    BY <1>2, <1>3

-----------------------------------------------------------------------------
(***************************************************************************)
(* The frame that carries n bytes behind the first k of a connection       *)
(***************************************************************************)
LEMMA DataFrame ==
  ASSUME NEW c, NEW k \in Nat, NEW n \in Nat, n # 0,
         NEW f, f = Frame("DATA", c, Bytes(k, n))
  PROVE  /\ Carries(f, c) /\ (\A d : d # c => ~Carries(f, d))
         /\ IsRun(f.data) /\ f.data[1] = k + 1 /\ Last(f.data) = k + n
         /\ f.data = Bytes(k, n) /\ Len(f.data) = n
  <1>1. Len(Bytes(k, n)) = n /\ \A i \in 1..n : Bytes(k, n)[i] = k + i
    BY DEF Bytes
  <1>2. Bytes(k, n)[1] = k + 1
    BY <1>1
  <1>3. IsRun(Bytes(k, n)) /\ Last(Bytes(k, n)) = k + n
    BY <1>1, <1>2 DEF IsRun, Last
  <1>4. QED
    BY <1>1, <1>2, <1>3 DEF Frame, Carries

(***************************************************************************)
(* send_data(): what it takes is the bytes that follow those taken before, *)
(* and only a frame for an agent that is gone is lost.                     *)
(***************************************************************************)
LEMMA ReadDataSends ==
  ASSUME TypeOK, Accounts, NEW c \in Conns, ReadData(c)
  PROVE  /\ \A d \in Conns \ {c} : accepted'[d] = accepted[d]
         /\ \E k \in Nat :
              /\ accepted'[c] = accepted[c] + k
              /\ k = 0 => toAgent' = toAgent
              /\ k # 0 =>
                   /\ Frame("DATA", c, Bytes(accepted[c], k)) \in UpFrames
                   /\ \/ /\ agent = "connected"
                         /\ toAgent' = Append(toAgent, Frame("DATA", c, Bytes(accepted[c], k)))
                      \/ agent # "connected" /\ toAgent' = toAgent
  <1>1. PICK n \in 1..Least(ReadMax, sent[c] - taken[c]) :
          LET k == Least(n, Room(c)) IN
            /\ taken' = Set(taken, c, taken[c] + n)
            /\ accepted' = Set(accepted, c, accepted[c] + k)
            /\ IF k = 0
                 THEN UNCHANGED toAgent
                 ELSE \/ Sends(Frame("DATA", c, Bytes(taken[c], k)))
                      \/ SendFails
                      \/ NoAgent
    BY DEF ReadData
  <1> DEFINE k == Least(n, Room(c))
  <1>2. /\ taken[c] \in Nat /\ sent[c] \in Nat /\ accepted[c] \in 0..Window
        /\ Window \in Nat /\ ReadMax \in Nat /\ MaxUp \in Nat /\ sent[c] <= MaxUp
        /\ accepted[c] <= taken[c] /\ taken[c] <= sent[c]
    BY SizesAssumption DEF TypeOK, Accounts, Account
  <1>3. n \in Nat /\ n <= sent[c] - taken[c]
    BY <1>2 DEF Least
  <1>4. k \in Nat /\ k <= n /\ k <= Room(c) /\ Room(c) \in Nat
    BY <1>2, <1>3, LeastBounds, RoomBounds
  <1>5. accepted' = [accepted EXCEPT ![c] = accepted[c] + k]
    BY <1>1
  <1>6. k # 0 => accepted[c] = taken[c]
    BY <1>2, <1>4 DEF Room, Accounts, Account
  <1>7. k # 0 => Frame("DATA", c, Bytes(taken[c], k)) \in UpFrames
    <2>1. taken[c] + k <= MaxUp
      BY <1>2, <1>3, <1>4
    <2>2. Bytes(taken[c], k) \in Seq(1..MaxUp)
      BY <1>2, <1>4, <2>1, BytesType
    <2>3. QED
      BY <2>2 DEF Frame, UpFrames
  <1>8. k = 0 => toAgent' = toAgent
    BY <1>1
  <1>9. k # 0 => \/ /\ agent = "connected"
                    /\ toAgent' = Append(toAgent, Frame("DATA", c, Bytes(taken[c], k)))
                 \/ agent # "connected" /\ toAgent' = toAgent
    BY <1>1 DEF Sends, SendFails, NoAgent
  <1> HIDE DEF k
  <1>10. /\ accepted'[c] = accepted[c] + k
         /\ \A d \in Conns \ {c} : accepted'[d] = accepted[d]
    <2>1. accepted \in [Conns -> 0..Window]
      BY DEF TypeOK
    <2>2. QED
      BY <1>5, <2>1
  <1>11. QED
    BY <1>4, <1>6, <1>7, <1>8, <1>9, <1>10

(***************************************************************************)
(* The steps that concern the way from the proxy to the local service.     *)
(***************************************************************************)
CloseFrame == Frame("CLOSE", Garbled, <<>>)

UpQuiet ==
  /\ UNCHANGED <<agent, fwd, pending, local, upSpoilt, upVars>>
  /\ toAgent' \in {toAgent, Append(toAgent, CloseFrame)}

Shuts(c) ==
  /\ fwd[c] \in {"connecting", "connected"}
  /\ \E s \in {"failed", "closed"} : fwd' = [fwd EXCEPT ![c] = s]
  /\ UNCHANGED <<agent, toAgent, pending, local, upSpoilt, upVars>>

\* What a step may do to the bytes from the client
LEMMA UpSteps ==
  ASSUME [Next]_vars
  PROVE  \/ UpQuiet \/ LinkStep
         \/ \E c \in Conns :
              \/ Shuts(c) \/ Opened(c) \/ ReadData(c) \/ AgentOpen(c)
              \/ AgentDataTooLong(c) \/ AgentData(c) \/ LocalConnects(c)
  <1> USE DEF UpQuiet, CloseFrame
  <1>1. ASSUME NEW c \in Conns, NEW graceful \in BOOLEAN, Close(c, graceful)
        PROVE  toAgent' \in {toAgent, Append(toAgent, CloseFrame)}
    BY <1>1 DEF Close, SendClose, Sends, SendFails, NoAgent
  <1>2. ASSUME NEW c \in Conns, ReadEof(c) \/ ReadError(c) \/ FrameClose(c) \/ WriteError(c)
        PROVE  UpQuiet
    <2>1. \E graceful \in BOOLEAN : Close(c, graceful)
      BY <1>2 DEF ReadEof, ReadError, FrameClose, WriteError
    <2>2. QED
      BY <1>1, <1>2, <2>1 DEF ReadEof, ReadError, FrameClose, WriteError
  <1>3. ASSUME NEW c \in Conns, Accept(c) \/ Refuse(c) \/ AcceptThrows(c)
        PROVE  UpQuiet
    BY <1>3 DEF Accept, Refuse, AcceptThrows
  <1>4. ASSUME NEW c \in Conns, OpenFails(c) \/ OpenNoAgent(c) PROVE UpQuiet
    BY <1>4 DEF OpenFails, OpenNoAgent, SendFails, NoAgent
  <1>5. ASSUME NEW c \in Conns, WriteDone(c) \/ FrameData(c) PROVE UpQuiet
    BY <1>5 DEF WriteDone, FrameData, TakesFrame
  <1>6. ASSUME NEW c \in Conns, LocalRefuses(c) \/ LocalEof(c) \/ LocalWriteError(c)
        PROVE  Shuts(c)
    BY <1>6 DEF LocalRefuses, LocalEof, LocalWriteError, Shuts
  <1>7. ASSUME NEW c \in Conns, LocalSends(c) \/ ClientSends(c) \/ ClientEnds(c)
        PROVE  UpQuiet
    BY <1>7 DEF LocalSends, ClientSends, ClientEnds
  <1>8. CASE UNCHANGED vars
    BY <1>8
  <1>9. QED
    BY <1>2, <1>3, <1>4, <1>5, <1>6, <1>7, <1>8
    DEF Next, ProxyStep, FrameStep, LocalStep, Open

-----------------------------------------------------------------------------
(***************************************************************************)
(* What the local service was given and what waits at the agent come       *)
(* before the bytes of the frames under way, and those before the window   *)
(* that is used up.                                                        *)
(***************************************************************************)
Queued(c) == Len(local[c]) + Len(pending[c])
Windowed(c) == Queued(c) <= accepted[c] /\ Ordered(toAgent, c, Queued(c), accepted[c])
AllWindowed == \A c \in Conns : Windowed(c)

\* The types that the window rests on
LEMMA QueuedType ==
  ASSUME TypeOK, NEW c \in Conns
  PROVE  Queued(c) \in Nat /\ Len(local[c]) \in Nat /\ Len(pending[c]) \in Nat
         /\ accepted[c] \in Nat /\ toAgent \in Seq(UpFrames)
         /\ local[c] \in Seq(0..MaxUp) /\ pending[c] \in Seq(1..MaxUp)
  BY SizesAssumption DEF TypeOK, Queued

(***************************************************************************)
(* What the forwarder adds to what waits or was delivered is as long as    *)
(* the data of the frame.                                                  *)
(***************************************************************************)
LEMMA WritesLocalLen ==
  ASSUME TypeOK, NEW c \in Conns, NEW d \in Seq(1..MaxUp), WritesLocal(c, d)
  PROVE  /\ Len(local'[c]) = Len(local[c]) + Len(d)
         /\ \A e \in Conns \ {c} : local'[e] = local[e]
  <1>1. d \in Seq(0..MaxUp)
    BY SizesAssumption
  <1>2. local[c] \in Seq(0..MaxUp) /\ local \in [Conns -> Seq(0..MaxUp)]
    BY DEF TypeOK
  <1> DEFINE z == [i \in DOMAIN d |-> 0]
  <1>3. z \in Seq(0..MaxUp) /\ Len(z) = Len(d)
    BY SizesAssumption
  <1>4. Len(local[c] \o d) = Len(local[c]) + Len(d)
    BY <1>1, <1>2
  <1>5. Len(local[c] \o z) = Len(local[c]) + Len(d)
    <2> HIDE DEF z
    <2>1. local[c] \in Seq(0..MaxUp) /\ z \in Seq(0..MaxUp)
      BY <1>2, <1>3
    <2>2. Len(local[c] \o z) = Len(local[c]) + Len(z)
      BY ONLY <2>1
    <2>3. QED
      BY <1>3, <2>2
  <1>6. \/ local' = [local EXCEPT ![c] = local[c] \o d]
        \/ local' = [local EXCEPT ![c] = local[c] \o z]
    BY DEF WritesLocal
  <1> HIDE DEF z
  <1>7. QED
    BY <1>2, <1>4, <1>5, <1>6

\* Every step keeps the frames under way within the window.
LEMMA WindowStep == TypeOK /\ Accounts /\ AllWindowed /\ [Next]_vars => AllWindowed'
  <1> SUFFICES ASSUME TypeOK, Accounts, AllWindowed, [Next]_vars, NEW d \in Conns
               PROVE  Windowed(d)'
    BY DEF AllWindowed
  <1>0. /\ Queued(d) <= accepted[d] /\ Ordered(toAgent, d, Queued(d), accepted[d])
        /\ Queued(d) \in Nat /\ accepted[d] \in Nat /\ toAgent \in Seq(UpFrames)
        /\ Len(local[d]) \in Nat /\ Len(pending[d]) \in Nat
    BY QueuedType DEF AllWindowed, Windowed
  <1>a. PICK lo \in Nat, pe \in Nat : Len(local[d]) = lo /\ Len(pending[d]) = pe
    BY <1>0
  <1>b. Queued(d) = lo + pe
    BY <1>a DEF Queued
  <1>1. CASE UpQuiet
    <2>1. Queued(d)' = Queued(d) /\ accepted'[d] = accepted[d]
      BY <1>1 DEF UpQuiet, Queued
    <2>2. CloseFrame \in UpFrames /\ ~Carries(CloseFrame, d)
      BY DEF CloseFrame, Frame, UpFrames, Carries
    <2>3. Ordered(toAgent', d, Queued(d), accepted[d])
      BY <1>0, <1>1, <2>2, AppendOther DEF UpQuiet
    <2>4. QED
      BY <1>0, <2>1, <2>3 DEF Windowed
  <1>2. ASSUME NEW c \in Conns, Shuts(c) PROVE Windowed(d)'
    BY <1>0, <1>2 DEF Shuts, Windowed, Queued
  <1>3. ASSUME NEW c \in Conns, Opened(c) PROVE Windowed(d)'
    <2>1. Queued(d)' = Queued(d) /\ accepted'[d] = accepted[d]
      BY <1>3 DEF Opened, Queued
    <2> DEFINE f == Frame("OPEN", c, <<>>)
    <2>2. f \in UpFrames /\ ~Carries(f, d)
      BY DEF Frame, UpFrames, Carries
    <2>3. toAgent' \in {toAgent, Append(toAgent, f)}
      BY <1>3 DEF Opened, Sends
    <2> HIDE DEF f
    <2>4. Ordered(toAgent', d, Queued(d), accepted[d])
      BY <1>0, <2>2, <2>3, AppendOther
    <2>5. QED
      BY <1>0, <2>1, <2>4 DEF Windowed
  <1>4. ASSUME NEW c \in Conns, ReadData(c) PROVE Windowed(d)'
    <2>1. Queued(d)' = Queued(d)
      BY <1>4 DEF ReadData, Queued
    <2>2. PICK k \in Nat :
            /\ accepted'[c] = accepted[c] + k
            /\ k = 0 => toAgent' = toAgent
            /\ k # 0 =>
                 /\ Frame("DATA", c, Bytes(accepted[c], k)) \in UpFrames
                 /\ \/ /\ agent = "connected"
                       /\ toAgent' = Append(toAgent, Frame("DATA", c, Bytes(accepted[c], k)))
                    \/ agent # "connected" /\ toAgent' = toAgent
      BY <1>4, ReadDataSends
    <2>3. \A e \in Conns \ {c} : accepted'[e] = accepted[e]
      BY <1>4, ReadDataSends
    <2> DEFINE f == Frame("DATA", c, Bytes(accepted[c], k))
    <2>a. f = Frame("DATA", c, Bytes(accepted[c], k))
      OBVIOUS
    <2> HIDE DEF f
    <2>4. accepted[c] \in Nat
      BY QueuedType
    <2>5. k # 0 => /\ Carries(f, c) /\ (\A e : e # c => ~Carries(f, e))
                   /\ IsRun(f.data) /\ f.data[1] = accepted[c] + 1
                   /\ Last(f.data) = accepted[c] + k
      BY <2>4, <2>a, DataFrame
    <2>6. CASE toAgent' = toAgent
      <3>1. accepted[d] <= accepted'[d] /\ accepted'[d] \in Nat
        BY <1>0, <2>2, <2>3
      <3>2. Ordered(toAgent, d, Queued(d), accepted'[d])
        BY <1>0, <3>1, Widen, FrameSets
      <3>3. QED
        BY <1>0, <2>1, <2>6, <3>1, <3>2 DEF Windowed
    <2>7. CASE k # 0 /\ toAgent' = Append(toAgent, f) /\ d = c
      <3>1. f \in UpFrames
        BY <2>2, <2>7 DEF f
      <3>2. Ordered(Append(toAgent, f), c, Queued(c), Last(f.data))
        BY <1>0, <2>5, <2>7, <3>1, AppendNext, FrameSets
      <3>3. QED
        BY <1>0, <2>1, <2>2, <2>5, <2>7, <3>2 DEF Windowed
    <2>8. CASE k # 0 /\ toAgent' = Append(toAgent, f) /\ d # c
      <3>1. f \in UpFrames
        BY <2>2, <2>8 DEF f
      <3>2. Ordered(Append(toAgent, f), d, Queued(d), accepted[d])
        BY <1>0, <2>5, <2>8, <3>1, AppendOther
      <3>3. QED
        BY <1>0, <2>1, <2>3, <2>8, <3>2 DEF Windowed
    <2>9. QED
      BY <2>2, <2>6, <2>7, <2>8 DEF f
  <1>5. ASSUME toAgent # <<>>, toAgent' = Tail(toAgent), accepted'[d] = accepted[d],
               NEW m \in Nat, Queued(d)' = m,
               \/ m <= Queued(d)
               \/ Carries(Head(toAgent), d) /\ m <= Last(Head(toAgent).data)
        PROVE  Windowed(d)'
    <2>1. /\ Ordered(Tail(toAgent), d, Queued(d), accepted[d])
          /\ Carries(Head(toAgent), d) =>
               /\ IsRun(Head(toAgent).data)
               /\ Last(Head(toAgent).data) <= accepted[d]
               /\ Ordered(Tail(toAgent), d, Last(Head(toAgent).data), accepted[d])
      BY <1>0, <1>5, OrderedTail, FrameSets
    <2>2. Tail(toAgent) \in Seq(UpFrames) /\ Head(toAgent) \in UpFrames
      BY <1>0, <1>5, TakeFirst
    <2>3. CASE m <= Queued(d)
      <3>1. Ordered(Tail(toAgent), d, m, accepted[d])
        <4>1. accepted[d] <= accepted[d]
          BY <1>0
        <4>2. QED
          BY <1>0, <2>1, <2>2, <2>3, <4>1, Widen, FrameSets
      <3>2. QED
        BY <1>0, <1>5, <2>3, <3>1 DEF Windowed
    <2>4. CASE Carries(Head(toAgent), d) /\ m <= Last(Head(toAgent).data)
      <3>1. Head(toAgent).data \in Seq(Nat)
        BY <2>2, FrameSets DEF FrameSet
      <3>2. Last(Head(toAgent).data) \in Nat
        BY <2>1, <2>4, <3>1, RunBounds
      <3>3. Ordered(Tail(toAgent), d, m, accepted[d])
        <4>1. accepted[d] <= accepted[d]
          BY <1>0
        <4>2. QED
          BY <1>0, <2>1, <2>2, <2>4, <3>2, <4>1, Widen, FrameSets
      <3>4. QED
        BY <1>0, <1>5, <2>1, <2>4, <3>2, <3>3 DEF Windowed
    <2>5. QED
      BY <1>5, <2>3, <2>4
  <1>6. ASSUME NEW c \in Conns, AgentOpen(c) PROVE Windowed(d)'
    <2>1. /\ toAgent # <<>> /\ toAgent' = Tail(toAgent)
          /\ UNCHANGED <<accepted, local>> /\ pending' = [pending EXCEPT ![c] = <<>>]
      BY <1>6 DEF AgentOpen, AgentTakes
    <2>2. (d = c => pending'[d] = <<>>) /\ (d # c => pending'[d] = pending[d])
      BY <2>1 DEF TypeOK
    <2>3. Queued(d)' \in Nat /\ Queued(d)' <= Queued(d)
      <3>1. CASE d = c
        <4>1. Len(local'[d]) = lo /\ Len(pending'[d]) = 0
          BY <1>a, <2>1, <2>2, <3>1
        <4>2. Queued(d)' = lo + 0
          BY <4>1 DEF Queued
        <4>3. QED
          BY <1>b, <4>2
      <3>2. CASE d # c
        <4>1. Queued(d)' = lo + pe
          BY <1>a, <2>1, <2>2, <3>2 DEF Queued
        <4>2. QED
          BY <1>b, <4>1
      <3>3. QED
        BY <3>1, <3>2
    <2>4. QED
      BY <1>5, <2>1, <2>3
  <1>7. ASSUME \/ \E c \in Conns : AgentDataTooLong(c)
               \/ AgentClose
        PROVE  Windowed(d)'
    <2>1. /\ toAgent # <<>> /\ toAgent' = Tail(toAgent)
          /\ UNCHANGED <<accepted, local, pending>>
      BY <1>7 DEF AgentDataTooLong, AgentClose, AgentTakes
    <2>2. Queued(d)' = Queued(d)
      BY <2>1 DEF Queued
    <2>3. QED
      BY <1>0, <1>5, <2>1, <2>2
  <1>8. ASSUME NEW c \in Conns, AgentData(c) PROVE Windowed(d)'
    <2> DEFINE data == Head(toAgent).data
    <2>1. /\ toAgent # <<>> /\ toAgent' = Tail(toAgent) /\ accepted' = accepted
          /\ Carries(Head(toAgent), c) /\ Forward(c, data)
      BY <1>8 DEF AgentData, AgentTakes, Carries
    <2>2. data \in Seq(1..MaxUp)
      BY <1>8, TakeType DEF AgentData, UpFrames
    <2>3. \/ UNCHANGED <<local, pending>>
          \/ pending' = [pending EXCEPT ![c] = pending[c] \o data] /\ local' = local
          \/ WritesLocal(c, data) /\ pending' = pending
      BY <2>1 DEF Forward
    <2>4. CASE d # c
      <3>1. local'[d] = local[d]
        BY <2>2, <2>3, <2>4, WritesLocalLen
      <3>2. pending'[d] = pending[d]
        BY <2>3, <2>4 DEF TypeOK
      <3>3. Queued(d)' = Queued(d)
        BY <3>1, <3>2 DEF Queued
      <3>4. QED
        BY <1>0, <1>5, <2>1, <3>3
    <2>5. CASE d = c
      <3>1. Len(data) \in Nat /\ pending[c] \in Seq(1..MaxUp)
        <4>1. pending[c] \in Seq(1..MaxUp)
          BY DEF TypeOK
        <4> HIDE DEF data
        <4>2. QED
          BY <2>2, <4>1
      <3>n. \A x, y \in Nat : /\ x + (y + Len(data)) = (x + y) + Len(data)
                              /\ (x + Len(data)) + y = (x + y) + Len(data)
        <4>1. PICK n \in Nat : Len(data) = n
          BY <3>1
        <4>2. \A x, y \in Nat : x + (y + n) = (x + y) + n /\ (x + n) + y = (x + y) + n
          OBVIOUS
        <4> HIDE DEF data
        <4>3. QED
          BY <4>1, <4>2
      <3>2. Len(pending[c] \o data) = Len(pending[c]) + Len(data)
        BY <2>2, <3>1, AddBytes
      <3>3. CASE UNCHANGED <<local, pending>>
        <4>1. Queued(d)' = Queued(d)
          BY <3>3 DEF Queued
        <4>2. QED
          BY <1>0, <1>5, <2>1, <4>1
      <3>4. CASE ~UNCHANGED <<local, pending>>
        <4>1. Queued(d)' = Queued(d) + Len(data)
          <5>1. CASE pending' = [pending EXCEPT ![c] = pending[c] \o data] /\ local' = local
            <6>1. pending'[c] = pending[c] \o data
              BY <5>1 DEF TypeOK
            <6>2. Len(pending'[d]) = pe + Len(data) /\ Len(local'[d]) = lo
              BY <1>a, <2>5, <3>2, <5>1, <6>1
            <6>3. Queued(d)' = lo + (pe + Len(data))
              BY <6>2 DEF Queued
            <6>4. QED
              BY <1>b, <3>n, <6>3
          <5>2. CASE WritesLocal(c, data) /\ pending' = pending
            <6>1. Len(local'[c]) = Len(local[c]) + Len(data)
              BY <2>2, <5>2, WritesLocalLen
            <6>2. Len(pending'[d]) = pe /\ Len(local'[d]) = lo + Len(data)
              BY <1>a, <2>5, <5>2, <6>1
            <6>3. Queued(d)' = (lo + Len(data)) + pe
              BY <6>2 DEF Queued
            <6>4. QED
              BY <1>b, <3>n, <6>3
          <5>3. QED
            BY <2>3, <3>4, <5>1, <5>2
        <4>2. IsRun(data) /\ Queued(d) < data[1]
          BY <1>0, <2>1, <2>5, OrderedTail, FrameSets
        <4>3. data \in Seq(Nat)
          BY <1>0, <2>1, TakeFirst, FrameSets DEF FrameSet
        <4>4. Queued(d)' <= Last(data)
          BY <1>0, <4>1, <4>2, <4>3, RunBounds
        <4>5. Queued(d)' \in Nat
          BY <1>0, <3>1, <4>1
        <4>6. QED
          BY <1>5, <2>1, <2>5, <4>4, <4>5
      <3>5. QED
        BY <3>3, <3>4
    <2>6. QED
      BY <2>4, <2>5
  <1>9. ASSUME NEW c \in Conns, LocalConnects(c) PROVE Windowed(d)'
    <2>1. /\ WritesLocal(c, pending[c]) /\ pending' = [pending EXCEPT ![c] = <<>>]
          /\ UNCHANGED <<toAgent, accepted>>
      BY <1>9 DEF LocalConnects
    <2>2. pending[c] \in Seq(1..MaxUp) /\ pending \in [Conns -> Seq(1..MaxUp)]
      BY DEF TypeOK
    <2>3. /\ Len(local'[c]) = Len(local[c]) + Len(pending[c])
          /\ \A e \in Conns \ {c} : local'[e] = local[e]
      BY <2>1, <2>2, WritesLocalLen
    <2>4. Queued(d)' = Queued(d)
      <3>1. CASE d = c
        <4>1. Len(local'[d]) = lo + pe /\ Len(pending'[d]) = 0
          BY <1>a, <2>1, <2>2, <2>3, <3>1
        <4>2. Queued(d)' = (lo + pe) + 0
          BY <4>1 DEF Queued
        <4>3. QED
          BY <1>b, <4>2
      <3>2. CASE d # c
        BY <2>1, <2>2, <2>3, <3>2 DEF Queued
      <3>3. QED
        BY <3>1, <3>2
    <2>5. QED
      BY <1>0, <2>1, <2>4 DEF Windowed
  <1>10. CASE SessionEnds \/ AgentLeaves
    <2>1. /\ toAgent' = <<>> /\ pending' = [e \in Conns |-> <<>>]
          /\ UNCHANGED <<local, accepted>>
      BY <1>10 DEF SessionEnds, AgentLeaves
    <2>2. Queued(d)' \in Nat /\ Queued(d)' <= accepted[d]
      <3>1. Len(local'[d]) = lo /\ Len(pending'[d]) = 0
        BY <1>a, <2>1
      <3>2. Queued(d)' = lo + 0
        BY <3>1 DEF Queued
      <3>3. QED
        BY <1>0, <1>b, <3>2
    <2>3. Ordered(<<>>, d, Queued(d)', accepted[d])
      BY DEF Ordered
    <2>4. QED
      BY <2>1, <2>2, <2>3 DEF Windowed
  <1>11. CASE Redial
    BY <1>0, <1>11 DEF Redial, Windowed, Queued
  <1>12. QED
    BY <1>1, <1>2, <1>3, <1>4, <1>6, <1>7, <1>8, <1>9, <1>10, <1>11, UpSteps
    DEF LinkStep

(***************************************************************************)
(* The frames to the agent are always in order and within the window.      *)
(***************************************************************************)
LEMMA AlwaysWindowed == Spec => []AllWindowed
  <1>1. Init => AllWindowed
    BY DEF Init, AllWindowed, Windowed, Queued, Ordered
  <1>2. TypeOK /\ Accounts /\ AllWindowed /\ [Next]_vars => AllWindowed'
    BY WindowStep
  <1>3. QED
    BY <1>1, <1>2, TypeCorrect, AccountsHold, PTL DEF Spec

(***************************************************************************)
(* Whatever is lost, delayed or garbled on the way, a connection never     *)
(* brings the local service more than one window: what it received and     *)
(* what waits for it are within what send_data() accepted.                 *)
(***************************************************************************)
THEOREM WithinOneWindow == Spec => []OneWindowOnly
  <1>1. TypeOK /\ AllWindowed => OneWindowOnly
    BY SizesAssumption DEF TypeOK, AllWindowed, Windowed, Queued, OneWindowOnly
  <1>2. QED
    BY <1>1, TypeCorrect, AlwaysWindowed, PTL

-----------------------------------------------------------------------------
(***************************************************************************)
(* A sequence of the bytes that follow the first k.                        *)
(***************************************************************************)
InOrder(s, k) == \A j \in 1..Len(s) : s[j] = k + j

(***************************************************************************)
(* What was delivered earlier and what is delivered later, both in order,  *)
(* differ by the bytes that follow.                                        *)
(***************************************************************************)
LEMMA RunsOn ==
  ASSUME NEW s \in Seq(Nat), NEW t \in Seq(Nat), InOrder(s, 0), InOrder(t, 0),
         Len(s) <= Len(t)
  PROVE  t = s \o Bytes(Len(s), Len(t) - Len(s))
  <1>1. PICK m \in Nat, n \in Nat : Len(s) = m /\ Len(t) = n
    OBVIOUS
  <1>2. n - m \in Nat /\ m + (n - m) = n
    BY <1>1
  <1> DEFINE b == Bytes(m, n - m)
  <1>3. /\ b \in Seq(Nat) /\ Len(b) = n - m
        /\ \A i \in 1..n - m : b[i] = m + i
    BY <1>2 DEF Bytes
  <1> HIDE DEF b
  <1>4. /\ s \o b \in Seq(Nat) /\ Len(s \o b) = Len(s) + Len(b)
        /\ \A i \in 1..Len(s) : (s \o b)[i] = s[i]
        /\ \A i \in 1..Len(b) : (s \o b)[Len(s) + i] = b[i]
    BY <1>3
  <1>5. /\ Len(s \o b) = n
        /\ \A i \in 1..m : (s \o b)[i] = i
        /\ \A i \in 1..n - m : (s \o b)[m + i] = m + i
    BY <1>1, <1>2, <1>3, <1>4 DEF InOrder
  <1>6. ASSUME NEW i \in 1..n PROVE (s \o b)[i] = i
    <2>1. i \in 1..m \/ (i - m \in 1..n - m /\ m + (i - m) = i)
      BY <1>1
    <2>2. QED
      BY <1>5, <2>1
  <1>7. \A i \in 1..n : t[i] = i
    BY <1>1 DEF InOrder
  <1>8. t = s \o b
    BY <1>1, <1>4, <1>5, <1>6, <1>7, SeqEqual
  <1>9. QED
    BY <1>1, <1>8 DEF b

(***************************************************************************)
(* Adding the next bytes keeps the order.                                  *)
(***************************************************************************)
LEMMA AddsOn ==
  ASSUME NEW S, NEW s \in Seq(S), NEW d \in Seq(S), NEW k \in Nat,
         InOrder(s, k), InOrder(d, k + Len(s))
  PROVE  InOrder(s \o d, k)
  <1>1. PICK m \in Nat, n \in Nat : Len(s) = m /\ Len(d) = n
    OBVIOUS
  <1>a. /\ Len(s \o d) = Len(s) + Len(d)
        /\ \A i \in 1..Len(s) : (s \o d)[i] = s[i]
        /\ \A i \in 1..Len(d) : (s \o d)[Len(s) + i] = d[i]
    OBVIOUS
  <1>2. /\ Len(s \o d) = m + n
        /\ \A i \in 1..m : (s \o d)[i] = s[i]
        /\ \A i \in 1..n : (s \o d)[m + i] = d[i]
    BY <1>1, <1>a
  <1>3. /\ \A i \in 1..m : s[i] = k + i
        /\ \A i \in 1..n : d[i] = (k + m) + i
    BY <1>1 DEF InOrder
  <1>4. ASSUME NEW j \in 1..m + n PROVE (s \o d)[j] = k + j
    <2>1. j \in 1..m \/ (j - m \in 1..n /\ m + (j - m) = j /\ (k + m) + (j - m) = k + j)
      BY <1>1
    <2>2. QED
      BY <1>2, <1>3, <2>1
  <1>5. QED
    BY <1>2, <1>4 DEF InOrder

(***************************************************************************)
(* A run that begins behind the first k bytes                              *)
(***************************************************************************)
LEMMA RunInOrder ==
  ASSUME NEW d \in Seq(Nat), NEW k \in Nat, IsRun(d), d[1] = k + 1
  PROVE  InOrder(d, k) /\ Last(d) = k + Len(d)
  BY DEF IsRun, InOrder, Last

-----------------------------------------------------------------------------
(***************************************************************************)
(* TCP_OPEN of a connection among the frames to the agent: there is one at *)
(* most, and no data of the connection comes before it.                    *)
(***************************************************************************)
Opens(f, c) == f.type = "OPEN" /\ f.conn = c
Announced(q, c) == \E i \in 1..Len(q) : Opens(q[i], c)
OpenFirst(q, c) ==
  \A i \in 1..Len(q) : Opens(q[i], c) =>
    \A j \in 1..Len(q) : /\ Opens(q[j], c) => j = i
                         /\ Carries(q[j], c) => i < j

\* A frame that opens nothing for a connection leaves its order as it was.
LEMMA OpenAppend ==
  ASSUME NEW S, NEW q \in Seq(S), NEW f \in S, NEW c, ~Opens(f, c)
  PROVE  /\ Announced(Append(q, f), c) => Announced(q, c)
         /\ OpenFirst(q, c) => OpenFirst(Append(q, f), c)
  <1>1. PICK n \in Nat : Len(q) = n
    OBVIOUS
  <1>2. /\ Len(Append(q, f)) = n + 1
        /\ \A i \in 1..n : Append(q, f)[i] = q[i]
        /\ Append(q, f)[n + 1] = f
    BY <1>1, AppendLast
  <1>3. \A i \in 1..n + 1 : i \in 1..n \/ i = n + 1
    BY <1>1
  <1>4. \A i \in 1..n : i < n + 1
    BY <1>1
  <1>5. QED
    BY <1>1, <1>2, <1>3, <1>4 DEF Announced, OpenFirst

\* The OPEN of a connection that has no frame under way comes first.
LEMMA OpenNew ==
  ASSUME NEW S, NEW q \in Seq(S), NEW f \in S, NEW c, f.type = "OPEN",
         ~Announced(q, c), ~ \E i \in 1..Len(q) : Carries(q[i], c)
  PROVE  OpenFirst(Append(q, f), c)
  <1>1. PICK n \in Nat : Len(q) = n
    OBVIOUS
  <1>2. /\ Len(Append(q, f)) = n + 1
        /\ \A i \in 1..n : Append(q, f)[i] = q[i]
        /\ Append(q, f)[n + 1] = f
    BY <1>1, AppendLast
  <1>3. \A i \in 1..n + 1 : i \in 1..n \/ i = n + 1
    BY <1>1
  <1>4. QED
    BY <1>1, <1>2, <1>3 DEF Announced, OpenFirst, Carries

\* Taking the first frame keeps the OPEN before the data.
LEMMA OpenTail ==
  ASSUME NEW S, NEW q \in Seq(S), q # <<>>, NEW c, OpenFirst(q, c)
  PROVE  /\ Announced(Tail(q), c) => Announced(q, c)
         /\ OpenFirst(Tail(q), c)
         /\ Opens(Head(q), c) => ~Announced(Tail(q), c) /\ Announced(q, c)
         /\ Carries(Head(q), c) => ~Announced(q, c)
  <1>1. PICK n \in Nat : Len(q) = n + 1
    <2>1. Len(q) \in Nat \ {0}
      BY TakeFirst
    <2>2. QED
      BY <2>1
  <1>2. /\ Head(q) = q[1] /\ Len(Tail(q)) = n
        /\ \A i \in 1..n : Tail(q)[i] = q[i + 1]
    BY <1>1, TakeFirst
  <1>3. /\ 1 \in 1..n + 1
        /\ \A i \in 1..n : i + 1 \in 1..n + 1 /\ i + 1 # 1
        /\ \A i, j \in 1..n : (i + 1 = j + 1 <=> i = j) /\ (i + 1 < j + 1 <=> i < j)
        /\ \A i \in 1..n + 1 : ~(i < 1)
    BY <1>1
  <1>4. QED
    BY <1>1, <1>2, <1>3 DEF Announced, OpenFirst

-----------------------------------------------------------------------------
(***************************************************************************)
(* From the proxy to the local service.  A connection is linked while its  *)
(* TCP_OPEN is under way and from then on until the forwarder gives it up: *)
(* a linked connection has an agent, and no byte that send_data() accepted *)
(* for it is missing.  One that is new has left no trace at the agent.     *)
(***************************************************************************)
Linked(c) == Announced(toAgent, c) \/ fwd[c] \in {"connecting", "connected"}
NewAtAgent(c) == fwd[c] = "none" /\ local[c] = <<>> /\ pending[c] = <<>>

UpLink(c) ==
  /\ state[c] \in {"none", "checked"} => NewAtAgent(c) /\ ~Announced(toAgent, c)
  /\ Announced(toAgent, c) => NewAtAgent(c)
  /\ OpenFirst(toAgent, c)
  /\ Linked(c) => agent = "connected"

UpData(c) ==
  /\ InOrder(local[c], 0)
  /\ fwd[c] = "connecting" => InOrder(pending[c], Len(local[c]))
  /\ fwd[c] = "connected" => pending[c] = <<>>
  /\ Linked(c) => Covered(toAgent, c, Queued(c), accepted[c])

UpInv(c) == UpLink(c) /\ (c \in upSpoilt \/ UpData(c))
UpHolds == \A c \in Conns : UpInv(c)

(***************************************************************************)
(* A connection that has been opened never becomes new again.              *)
(***************************************************************************)
LEMMA StaysOpened ==
  ASSUME TypeOK, Accounts, [Next]_vars, NEW d \in Conns, state'[d] \in {"none", "checked"}
  PROVE  state[d] \in {"none", "checked"}
  <1>1. ASSUME NEW c \in Conns, Accept(c) PROVE state[d] \in {"none", "checked"}
    BY <1>1 DEF Accept, TypeOK, Accounts, Unopened
  <1>2. ASSUME NEW c \in Conns, Refuse(c) \/ AcceptThrows(c) \/ ReadData(c)
                                \/ ClientSends(c) \/ ClientEnds(c)
        PROVE  state[d] \in {"none", "checked"}
    BY <1>2 DEF Refuse, AcceptThrows, ReadData, ClientSends, ClientEnds
  <1>3. ASSUME NEW c \in Conns, Open(c) PROVE state[d] \in {"none", "checked"}
    BY <1>3 DEF Open, Opened, OpenFails, OpenNoAgent, TypeOK
  <1>4. ASSUME NEW c \in Conns, Closes(c) PROVE state[d] \in {"none", "checked"}
    BY <1>4 DEF Closes, TypeOK
  <1>5. QED
    BY <1>1, <1>2, <1>3, <1>4, ProxySteps

(***************************************************************************)
(* Steps that do not concern a connection: the frames of others come and   *)
(* go, and so do closing frames, which name no connection.                 *)
(***************************************************************************)
LEMMA UpUntouched ==
  ASSUME TypeOK, Accounts, AllWindowed, [Next]_vars, NEW d \in Conns, UpInv(d),
         local'[d] = local[d], pending'[d] = pending[d], fwd'[d] = fwd[d],
         accepted'[d] = accepted[d], d \in upSpoilt => d \in upSpoilt',
         agent = "connected" => agent' = "connected",
         \/ toAgent' = toAgent
         \/ \E f \in UpFrames : /\ toAgent' = Append(toAgent, f)
                                /\ ~Opens(f, d) /\ ~Carries(f, d)
         \/ /\ toAgent # <<>> /\ toAgent' = Tail(toAgent)
            /\ ~Carries(Head(toAgent), d)
  PROVE  UpInv(d)'
  <1>1. /\ toAgent \in Seq(UpFrames) /\ Queued(d) \in Nat /\ accepted[d] \in Nat
        /\ Ordered(toAgent, d, Queued(d), accepted[d])
    BY QueuedType DEF AllWindowed, Windowed
  <1>2. Queued(d)' = Queued(d)
    BY DEF Queued
  <1>3. /\ Announced(toAgent', d) => Announced(toAgent, d)
        /\ OpenFirst(toAgent', d)
        /\ Covered(toAgent, d, Queued(d), accepted[d])
             => Covered(toAgent', d, Queued(d), accepted[d])
    <2>1. OpenFirst(toAgent, d)
      BY DEF UpInv, UpLink
    <2>2. CASE toAgent' = toAgent
      BY <2>1, <2>2
    <2>3. ASSUME NEW f \in UpFrames, toAgent' = Append(toAgent, f),
                 ~Opens(f, d), ~Carries(f, d)
          PROVE  /\ Announced(toAgent', d) => Announced(toAgent, d)
                 /\ OpenFirst(toAgent', d)
                 /\ Covered(toAgent, d, Queued(d), accepted[d])
                      => Covered(toAgent', d, Queued(d), accepted[d])
      BY <1>1, <2>1, <2>3, OpenAppend, AppendOther
    <2>4. CASE toAgent # <<>> /\ toAgent' = Tail(toAgent) /\ ~Carries(Head(toAgent), d)
      BY <1>1, <2>1, <2>4, OpenTail, CoveredTail, FrameSets
    <2>5. QED
      BY <2>2, <2>3, <2>4
  <1>4. state'[d] \in {"none", "checked"} => state[d] \in {"none", "checked"}
    BY StaysOpened
  <1>5. /\ NewAtAgent(d)' <=> NewAtAgent(d)
        /\ Linked(d)' => Linked(d)
    BY <1>3 DEF NewAtAgent, Linked
  <1>6. UpLink(d)'
    BY <1>3, <1>4, <1>5 DEF UpInv, UpLink
  <1>7. UpData(d) => UpData(d)'
    BY <1>2, <1>3, <1>5 DEF UpData
  <1>8. QED
    BY <1>6, <1>7 DEF UpInv

(***************************************************************************)
(* create_connection(): the connection is linked once TCP_OPEN is sent.    *)
(***************************************************************************)
LEMMA UpOpened ==
  ASSUME TypeOK, Accounts, AllWindowed, [Next]_vars, NEW d \in Conns, UpInv(d), Opened(d)
  PROVE  UpInv(d)'
  <1> DEFINE f == Frame("OPEN", d, <<>>)
  <1>1. /\ state[d] = "checked" /\ state' = [state EXCEPT ![d] = "ESTABLISHED"]
        /\ UNCHANGED <<accepted, local, pending, fwd, agent, upSpoilt>>
        /\ \/ agent = "connected" /\ toAgent' = Append(toAgent, f)
           \/ agent # "connected" /\ toAgent' = toAgent
    BY DEF Opened, Sends
  <1>2. f \in UpFrames /\ f.type = "OPEN" /\ ~Carries(f, d)
    BY DEF Frame, UpFrames, Carries
  <1> HIDE DEF f
  <1>3. NewAtAgent(d) /\ ~Announced(toAgent, d) /\ OpenFirst(toAgent, d)
    BY <1>1 DEF UpInv, UpLink
  <1>4. accepted[d] = 0 /\ Queued(d) = 0 /\ toAgent \in Seq(UpFrames)
    <2>1. taken[d] = 0 /\ accepted[d] <= taken[d]
      BY <1>1 DEF Accounts, Unopened, Account
    <2>2. accepted[d] \in Nat /\ toAgent \in Seq(UpFrames)
      BY QueuedType
    <2>3. Len(local[d]) = 0 /\ Len(pending[d]) = 0
      BY <1>3 DEF NewAtAgent
    <2>4. QED
      BY <2>1, <2>2, <2>3 DEF Queued
  <1>5. ~ \E i \in 1..Len(toAgent) : Carries(toAgent[i], d)
    <2> SUFFICES ASSUME NEW i \in 1..Len(toAgent), Carries(toAgent[i], d) PROVE FALSE
      OBVIOUS
    <2>1. IsRun(toAgent[i].data) /\ 0 < toAgent[i].data[1] /\ Last(toAgent[i].data) <= 0
      BY <1>4 DEF AllWindowed, Windowed, Ordered
    <2>2. toAgent[i].data \in Seq(Nat)
      BY <1>4, FrameSets DEF FrameSet
    <2>3. QED
      BY <2>1, <2>2, RunBounds
  <1>6. OpenFirst(toAgent', d)
    BY <1>1, <1>2, <1>3, <1>4, <1>5, OpenNew
  <1>7. state'[d] = "ESTABLISHED"
    BY <1>1 DEF TypeOK
  <1>8. NewAtAgent(d)' /\ fwd'[d] = "none" /\ local'[d] = <<>>
    BY <1>1, <1>3 DEF NewAtAgent
  <1>9. Linked(d)' => agent' = "connected"
    BY <1>1, <1>3, <1>8 DEF Linked
  <1>10. UpLink(d)'
    BY <1>6, <1>7, <1>8, <1>9 DEF UpLink
  <1>11. Queued(d)' = 0 /\ accepted'[d] = 0
    BY <1>1, <1>4 DEF Queued
  <1>12. Covered(toAgent', d, 0, 0)
    BY DEF Covered
  <1>13. InOrder(<<>>, 0)
    BY DEF InOrder
  <1>14. UpData(d)'
    BY <1>8, <1>11, <1>12, <1>13 DEF UpData
  <1>15. QED
    BY <1>10, <1>14 DEF UpInv

(***************************************************************************)
(* send_data(): for a linked connection the frame is sent, with the bytes  *)
(* that follow.                                                            *)
(***************************************************************************)
LEMMA UpReadData ==
  ASSUME TypeOK, Accounts, AllWindowed, [Next]_vars, NEW d \in Conns, UpInv(d), ReadData(d)
  PROVE  UpInv(d)'
  <1>1. /\ UNCHANGED <<state, local, pending, fwd, agent, upSpoilt>>
        /\ Queued(d)' = Queued(d)
    BY DEF ReadData, Queued
  <1>2. PICK k \in Nat :
          /\ accepted'[d] = accepted[d] + k
          /\ k = 0 => toAgent' = toAgent
          /\ k # 0 =>
               /\ Frame("DATA", d, Bytes(accepted[d], k)) \in UpFrames
               /\ \/ /\ agent = "connected"
                     /\ toAgent' = Append(toAgent, Frame("DATA", d, Bytes(accepted[d], k)))
                  \/ agent # "connected" /\ toAgent' = toAgent
    BY ReadDataSends
  <1> DEFINE f == Frame("DATA", d, Bytes(accepted[d], k))
  <1>a. k # 0 => f \in UpFrames
    BY <1>2
  <1>d. f = Frame("DATA", d, Bytes(accepted[d], k))
    OBVIOUS
  <1>3. /\ toAgent \in Seq(UpFrames) /\ Queued(d) \in Nat /\ accepted[d] \in Nat
        /\ Queued(d) <= accepted[d]
    BY QueuedType DEF AllWindowed, Windowed
  <1>b. k # 0 /\ agent = "connected" => toAgent' = Append(toAgent, f)
    BY <1>2
  <1>c. toAgent' = toAgent \/ (k # 0 /\ toAgent' = Append(toAgent, f))
    BY <1>2
  <1> HIDE DEF f
  <1>4. k # 0 => /\ Carries(f, d) /\ IsRun(f.data) /\ f.data[1] = accepted[d] + 1
                 /\ Last(f.data) = accepted[d] + k
    <2>1. accepted[d] \in Nat
      BY <1>3
    <2>2. QED
      BY <1>d, <2>1, DataFrame
  <1>5. k # 0 => ~Opens(f, d)
    BY <1>4 DEF Carries, Opens
  <1>6. (Announced(toAgent', d) => Announced(toAgent, d)) /\ OpenFirst(toAgent', d)
    <2>1. OpenFirst(toAgent, d)
      BY DEF UpInv, UpLink
    <2>2. QED
      BY <1>3, <1>a, <1>c, <1>5, <2>1, OpenAppend
  <1>7. (NewAtAgent(d)' <=> NewAtAgent(d)) /\ (Linked(d)' => Linked(d))
    BY <1>1, <1>6 DEF NewAtAgent, Linked
  <1>8. UpLink(d)'
    BY <1>1, <1>6, <1>7 DEF UpInv, UpLink
  <1>9. ASSUME UpData(d), Linked(d)
        PROVE  Covered(toAgent', d, Queued(d), accepted'[d])
    <2>1. agent = "connected" /\ Covered(toAgent, d, Queued(d), accepted[d])
      BY <1>9 DEF UpData, UpInv, UpLink
    <2>2. CASE k = 0
      BY <1>2, <1>3, <2>1, <2>2
    <2>3. CASE k # 0
      <3>1. Covered(Append(toAgent, f), d, Queued(d), Last(f.data))
        BY <1>3, <1>4, <1>a, <2>1, <2>3, AppendNext, FrameSets
      <3>2. QED
        BY <1>2, <1>4, <1>b, <2>1, <2>3, <3>1
    <2>4. QED
      BY <2>2, <2>3
  <1>10. UpData(d) => UpData(d)'
    BY <1>1, <1>7, <1>9 DEF UpData
  <1>11. QED
    BY <1>1, <1>8, <1>10 DEF UpInv

(***************************************************************************)
(* TCP_OPEN reaches the agent: nothing of the connection came before it.   *)
(***************************************************************************)
LEMMA UpAgentOpen ==
  ASSUME TypeOK, Accounts, AllWindowed, [Next]_vars, NEW d \in Conns, UpInv(d), AgentOpen(d)
  PROVE  UpInv(d)'
  <1>1. /\ toAgent # <<>> /\ toAgent' = Tail(toAgent) /\ agent' = "connected"
        /\ Opens(Head(toAgent), d) /\ ~Carries(Head(toAgent), d)
        /\ UNCHANGED <<state, accepted, local, upSpoilt>>
        /\ fwd' = [fwd EXCEPT ![d] = "connecting"]
        /\ pending' = [pending EXCEPT ![d] = <<>>]
    BY DEF AgentOpen, AgentTakes, Opens, Carries, Serves
  <1>2. fwd'[d] = "connecting" /\ pending'[d] = <<>>
    BY <1>1 DEF TypeOK
  <1>3. /\ toAgent \in Seq(UpFrames) /\ Queued(d) \in Nat /\ accepted[d] \in Nat
        /\ Ordered(toAgent, d, Queued(d), accepted[d])
    BY QueuedType DEF AllWindowed, Windowed
  <1>4. /\ OpenFirst(toAgent', d) /\ ~Announced(toAgent', d) /\ Announced(toAgent, d)
    <2>1. OpenFirst(toAgent, d)
      BY DEF UpInv, UpLink
    <2>2. QED
      BY <1>1, <1>3, <2>1, OpenTail
  <1>5. NewAtAgent(d) /\ state[d] \notin {"none", "checked"} /\ Linked(d)
    BY <1>4 DEF UpInv, UpLink, Linked
  <1>6. UpLink(d)'
    BY <1>1, <1>4, <1>5 DEF UpLink
  <1>7. Queued(d)' = Queued(d)
    BY <1>1, <1>2, <1>5 DEF Queued, NewAtAgent
  <1>8. Covered(toAgent, d, Queued(d), accepted[d])
          => Covered(toAgent', d, Queued(d), accepted[d])
    BY <1>1, <1>3, CoveredTail, FrameSets
  <1>9. UpData(d) => UpData(d)'
    <2>1. InOrder(<<>>, Len(local'[d]))
      BY DEF InOrder
    <2>2. QED
      BY <1>1, <1>2, <1>5, <1>7, <1>8, <2>1 DEF UpData
  <1>10. QED
    BY <1>1, <1>6, <1>9 DEF UpInv

(***************************************************************************)
(* The forwarder gives a connection up: it is no longer linked.            *)
(***************************************************************************)
LEMMA UpShuts ==
  ASSUME TypeOK, Accounts, AllWindowed, [Next]_vars, NEW d \in Conns, UpInv(d), Shuts(d)
  PROVE  UpInv(d)'
  <1>1. /\ fwd[d] \in {"connecting", "connected"} /\ fwd'[d] \in {"failed", "closed"}
        /\ UNCHANGED <<agent, toAgent, pending, local, upSpoilt, upVars>>
    BY DEF Shuts, TypeOK
  <1>2. ~Announced(toAgent, d) /\ ~(state[d] \in {"none", "checked"})
    BY <1>1 DEF UpInv, UpLink, NewAtAgent
  <1>3. state'[d] \notin {"none", "checked"}
    BY <1>2, StaysOpened
  <1>4. ~Linked(d)'
    BY <1>1, <1>2 DEF Linked
  <1>5. UpLink(d)'
    BY <1>1, <1>2, <1>3, <1>4 DEF UpLink, UpInv
  <1>6. UpData(d) => UpData(d)'
    BY <1>1, <1>4 DEF UpData
  <1>7. QED
    BY <1>1, <1>5, <1>6 DEF UpInv

(***************************************************************************)
(* TCP_DATA reaches the agent: for a linked connection it holds the next   *)
(* bytes, which join those that wait or go to the local service.  One that *)
(* does not fit the agent's buffer spoils the connection.                  *)
(***************************************************************************)
LEMMA UpAgentData ==
  ASSUME TypeOK, Accounts, AllWindowed, [Next]_vars, NEW d \in Conns, UpInv(d),
         AgentData(d) \/ AgentDataTooLong(d)
  PROVE  UpInv(d)'
  <1> DEFINE data == Head(toAgent).data
  <1>1. /\ toAgent # <<>> /\ toAgent' = Tail(toAgent) /\ Carries(Head(toAgent), d)
        /\ UNCHANGED <<state, accepted, fwd>>
        /\ agent = "connected" /\ agent' = agent
    BY DEF AgentData, AgentDataTooLong, AgentTakes, Carries, Serves
  <1>2. /\ toAgent \in Seq(UpFrames) /\ Queued(d) \in Nat /\ accepted[d] \in Nat
        /\ Ordered(toAgent, d, Queued(d), accepted[d])
        /\ Len(local[d]) \in Nat /\ Len(pending[d]) \in Nat
    BY QueuedType DEF AllWindowed, Windowed
  <1>3. data \in Seq(1..MaxUp) /\ data \in Seq(Nat)
    <2>1. Head(toAgent) \in UpFrames
      BY <1>1, <1>2, TakeFirst
    <2>2. data \in Seq(1..MaxUp)
      BY <2>1 DEF UpFrames
    <2>3. data \in Seq(Nat)
      BY <2>1, FrameSets DEF FrameSet
    <2>4. QED
      BY <2>2, <2>3
  <1>4. OpenFirst(toAgent', d) /\ ~Announced(toAgent', d) /\ ~Announced(toAgent, d)
    <2>1. OpenFirst(toAgent, d)
      BY DEF UpInv, UpLink
    <2>2. QED
      BY <1>1, <1>2, <2>1, OpenTail
  <1>5. Linked(d)' <=> Linked(d)
    BY <1>1, <1>4 DEF Linked
  <1>6. \/ UNCHANGED <<local, pending, upSpoilt>>
        \/ d \in upSpoilt' /\ UNCHANGED <<local, pending>>
        \/ /\ fwd[d] = "connected" /\ WritesLocal(d, data) /\ pending' = pending
        \/ /\ fwd[d] \in {"connecting", "failed"} /\ UNCHANGED <<local, upSpoilt>>
           /\ pending' = [pending EXCEPT ![d] = pending[d] \o data]
    BY DEF AgentData, AgentDataTooLong, Forward
  <1>7. state[d] \in {"none", "checked"} => NewAtAgent(d)'
    <2>1. state[d] \in {"none", "checked"} => NewAtAgent(d)
      BY DEF UpInv, UpLink
    <2>2. QED
      BY <1>1, <1>6, <2>1 DEF NewAtAgent
  <1>8. UpLink(d)'
    <2>1. Linked(d) => agent = "connected"
      BY <1>1
    <2>2. QED
      BY <1>1, <1>4, <1>5, <1>7, <2>1 DEF UpLink
  <1>9. CASE d \in upSpoilt'
    BY <1>8, <1>9 DEF UpInv
  <1>10. CASE d \notin upSpoilt'
    <2>1. d \notin upSpoilt
      BY <1>6, <1>10 DEF WritesLocal
    <2>2. UpData(d)
      BY <2>1 DEF UpInv
    <2>3. CASE ~Linked(d)
      <3>1. fwd[d] \notin {"connecting", "connected"}
        BY <2>3 DEF Linked
      <3>2. UNCHANGED local
        BY <1>6, <1>10, <3>1
      <3>3. UpData(d)'
        BY <1>1, <1>5, <2>2, <2>3, <3>1, <3>2 DEF UpData
      <3>4. QED
        BY <1>8, <3>3 DEF UpInv
    <2>4. CASE Linked(d)
      <3>1. fwd[d] \in {"connecting", "connected"}
        BY <1>4, <2>4 DEF Linked
      <3>2. Covered(toAgent, d, Queued(d), accepted[d])
        BY <2>2, <2>4 DEF UpData
      <3>3. IsRun(data)
        BY <1>1, <1>2, OrderedTail, FrameSets
      <3>4. /\ data[1] = Queued(d) + 1
            /\ Covered(toAgent', d, Last(data), accepted[d])
        BY <1>1, <1>2, <3>2, CoveredTail, FrameSets
      <3> HIDE DEF data
      <3>5. InOrder(data, Queued(d)) /\ Last(data) = Queued(d) + Len(data)
        BY <1>2, <1>3, <3>3, <3>4, RunInOrder
      <3>6. PICK lo \in Nat, pe \in Nat, n \in Nat :
              Len(local[d]) = lo /\ Len(pending[d]) = pe /\ Len(data) = n
        BY <1>2, <1>3
      <3>7. Last(data) = lo + pe + n
        BY <3>5, <3>6 DEF Queued
      <3>8. UpData(d)'
        <4>1. CASE fwd[d] = "connecting"
          <5>1. pending' = [pending EXCEPT ![d] = pending[d] \o data] /\ local' = local
            <6>1. \/ UNCHANGED <<local, pending, upSpoilt>>
                  \/ pending' = [pending EXCEPT ![d] = pending[d] \o data] /\ local' = local
              BY <1>6, <1>10, <4>1 DEF data
            <6>2. AgentData(d)
              BY <1>10 DEF AgentDataTooLong
            <6>3. Forward(d, data)
              BY <6>2 DEF AgentData, data
            <6>4. QED
              BY <4>1, <6>3 DEF Forward
          <5>2. pending[d] \in Seq(1..MaxUp) /\ pending \in [Conns -> Seq(1..MaxUp)]
            BY DEF TypeOK
          <5>3. pending'[d] = pending[d] \o data
            BY <5>1, <5>2
          <5>4. InOrder(pending[d], lo) /\ InOrder(data, lo + pe)
            BY <2>2, <3>5, <3>6, <4>1 DEF UpData, Queued
          <5>5. InOrder(pending[d] \o data, lo)
            <6>1. InOrder(data, lo + Len(pending[d]))
              BY <3>6, <5>4
            <6>2. QED
              BY <1>3, <5>2, <5>4, <6>1, AddsOn
          <5>6. Len(pending'[d]) = pe + n
            <6>1. Len(pending[d] \o data) = Len(pending[d]) + Len(data)
              BY <1>3, <5>2
            <6>2. Len(pending[d] \o data) = pe + n
              BY <3>6, <6>1, Zenon
            <6>3. QED
              BY <5>3, <6>2, Zenon
          <5>7. Queued(d)' = lo + pe + n
            <6>1. Len(local'[d]) = lo
              BY <3>6, <5>1
            <6>2. Queued(d)' = lo + (pe + n)
              BY <5>6, <6>1 DEF Queued
            <6>3. QED
              BY <6>2
          <5>8. Covered(toAgent', d, Queued(d)', accepted'[d])
            BY <1>1, <3>4, <3>7, <5>7
          <5>9. InOrder(local'[d], 0) /\ InOrder(pending'[d], Len(local'[d]))
            BY <2>2, <3>6, <5>1, <5>3, <5>5 DEF UpData
          <5>10. fwd'[d] # "connected"
            BY <1>1, <4>1
          <5>11. QED
            BY <5>8, <5>9, <5>10 DEF UpData
        <4>2. CASE fwd[d] = "connected"
          <5>1. WritesLocal(d, data) /\ pending' = pending
            <6>1. AgentData(d)
              BY <1>10 DEF AgentDataTooLong
            <6>2. Forward(d, data)
              BY <6>1 DEF AgentData, data
            <6>3. QED
              BY <4>2, <6>2 DEF Forward
          <5>2. local' = [local EXCEPT ![d] = local[d] \o data]
            BY <1>10, <5>1 DEF WritesLocal
          <5>3. local[d] \in Seq(0..MaxUp) /\ local \in [Conns -> Seq(0..MaxUp)]
            BY DEF TypeOK
          <5>4. local'[d] = local[d] \o data
            BY <5>2, <5>3
          <5>5. pending[d] = <<>> /\ pe = 0
            BY <2>2, <3>6, <4>2 DEF UpData
          <5>6. InOrder(local[d], 0) /\ InOrder(data, lo)
            BY <2>2, <3>5, <3>6, <5>5 DEF UpData, Queued
          <5>7. data \in Seq(0..MaxUp)
            BY <1>3, SizesAssumption
          <5>8. InOrder(local[d] \o data, 0)
            BY <3>6, <5>3, <5>6, <5>7, AddsOn
          <5>9. Len(local'[d]) = lo + n
            BY <3>6, <5>3, <5>4, <5>7, AddBytes
          <5>10. Queued(d)' = lo + n + pe
            BY <3>6, <5>1, <5>9 DEF Queued
          <5>11. Covered(toAgent', d, Queued(d)', accepted'[d])
            BY <1>1, <3>4, <3>7, <5>5, <5>10
          <5>12. QED
            BY <1>1, <4>2, <5>1, <5>4, <5>5, <5>8, <5>11 DEF UpData
        <4>3. QED
          BY <3>1, <4>1, <4>2
      <3>9. QED
        BY <1>8, <3>8 DEF UpInv
    <2>5. QED
      BY <2>3, <2>4
  <1>11. QED
    BY <1>9, <1>10

(***************************************************************************)
(* The connection to the local service is made: what waited goes first.    *)
(***************************************************************************)
LEMMA UpLocalConnects ==
  ASSUME TypeOK, Accounts, AllWindowed, [Next]_vars, NEW d \in Conns, UpInv(d),
         LocalConnects(d)
  PROVE  UpInv(d)'
  <1>1. /\ fwd[d] = "connecting" /\ fwd' = [fwd EXCEPT ![d] = "connected"]
        /\ WritesLocal(d, pending[d]) /\ pending' = [pending EXCEPT ![d] = <<>>]
        /\ UNCHANGED <<state, toAgent, accepted, agent>> /\ agent = "connected"
    BY DEF LocalConnects, Serves
  <1>2. /\ fwd'[d] = "connected" /\ pending'[d] = <<>>
        /\ pending[d] \in Seq(1..MaxUp) /\ pending[d] \in Seq(0..MaxUp)
        /\ local[d] \in Seq(0..MaxUp) /\ local \in [Conns -> Seq(0..MaxUp)]
    BY <1>1, SizesAssumption DEF TypeOK
  <1>3. ~Announced(toAgent, d) /\ state[d] \notin {"none", "checked"} /\ Linked(d)
    BY <1>1 DEF UpInv, UpLink, NewAtAgent, Linked
  <1>4. UpLink(d)'
    BY <1>1, <1>3 DEF UpInv, UpLink
  <1>5. CASE d \in upSpoilt'
    BY <1>4, <1>5 DEF UpInv
  <1>6. CASE d \notin upSpoilt'
    <2>1. d \notin upSpoilt /\ local' = [local EXCEPT ![d] = local[d] \o pending[d]]
      BY <1>1, <1>6 DEF WritesLocal
    <2>2. UpData(d)
      BY <2>1 DEF UpInv
    <2>3. local'[d] = local[d] \o pending[d]
      BY <1>2, <2>1
    <2>4. PICK lo \in Nat, pe \in Nat : Len(local[d]) = lo /\ Len(pending[d]) = pe
      BY QueuedType
    <2>5. InOrder(local[d], 0) /\ InOrder(pending[d], lo)
      BY <1>1, <2>2, <2>4 DEF UpData
    <2>6. InOrder(local'[d], 0)
      BY <1>2, <2>3, <2>4, <2>5, AddsOn
    <2>7. Len(local'[d]) = lo + pe /\ Len(pending'[d]) = 0
      <3>1. Len(local[d] \o pending[d]) = Len(local[d]) + Len(pending[d])
        BY <1>2
      <3>2. QED
        BY <1>2, <2>3, <2>4, <3>1
    <2>8. Queued(d)' = Queued(d)
      BY <2>4, <2>7 DEF Queued
    <2>9. UpData(d)'
      BY <1>1, <1>2, <1>3, <2>2, <2>6, <2>8 DEF UpData
    <2>10. QED
      BY <1>4, <2>9 DEF UpInv
  <1>7. QED
    BY <1>5, <1>6

(***************************************************************************)
(* Steps of another connection                                             *)
(***************************************************************************)
LEMMA UpOthers ==
  ASSUME TypeOK, Accounts, AllWindowed, [Next]_vars, NEW d \in Conns, UpInv(d),
         NEW c \in Conns, c # d,
         \/ Shuts(c) \/ Opened(c) \/ ReadData(c) \/ AgentOpen(c)
         \/ AgentDataTooLong(c) \/ AgentData(c) \/ LocalConnects(c)
  PROVE  UpInv(d)'
  <1> USE DEF TypeOK
  <1>1. CASE Shuts(c)
    BY <1>1, UpUntouched DEF Shuts
  <1>2. CASE Opened(c)
    <2> DEFINE f == Frame("OPEN", c, <<>>)
    <2>1. /\ UNCHANGED <<accepted, local, pending, fwd, agent, upSpoilt>>
          /\ toAgent' \in {toAgent, Append(toAgent, f)}
      BY <1>2 DEF Opened, Sends
    <2>2. f \in UpFrames /\ ~Opens(f, d) /\ ~Carries(f, d)
      BY DEF Frame, UpFrames, Opens, Carries
    <2> HIDE DEF f
    <2>3. QED
      BY <2>1, <2>2, UpUntouched
  <1>3. CASE ReadData(c)
    <2>1. PICK k \in Nat :
            /\ accepted'[c] = accepted[c] + k
            /\ k = 0 => toAgent' = toAgent
            /\ k # 0 =>
                 /\ Frame("DATA", c, Bytes(accepted[c], k)) \in UpFrames
                 /\ \/ /\ agent = "connected"
                       /\ toAgent' = Append(toAgent, Frame("DATA", c, Bytes(accepted[c], k)))
                    \/ agent # "connected" /\ toAgent' = toAgent
      BY <1>3, ReadDataSends
    <2>2. accepted'[d] = accepted[d]
      BY <1>3, ReadDataSends
    <2> DEFINE f == Frame("DATA", c, Bytes(accepted[c], k))
    <2>3. ~Opens(f, d) /\ ~Carries(f, d)
      BY DEF Frame, Opens, Carries
    <2>4. toAgent' = toAgent \/ (f \in UpFrames /\ toAgent' = Append(toAgent, f))
      BY <2>1
    <2>5. UNCHANGED <<local, pending, fwd, agent, upSpoilt>>
      BY <1>3 DEF ReadData
    <2> HIDE DEF f
    <2>6. QED
      BY <2>2, <2>3, <2>4, <2>5, UpUntouched
  <1>4. CASE AgentOpen(c)
    <2>1. /\ toAgent # <<>> /\ toAgent' = Tail(toAgent) /\ ~Carries(Head(toAgent), d)
          /\ UNCHANGED <<accepted, local, agent, upSpoilt>>
          /\ fwd' = [fwd EXCEPT ![c] = "connecting"]
          /\ pending' = [pending EXCEPT ![c] = <<>>]
      BY <1>4 DEF AgentOpen, AgentTakes, Carries
    <2>2. fwd'[d] = fwd[d] /\ pending'[d] = pending[d]
      BY <2>1
    <2>3. QED
      BY <2>1, <2>2, UpUntouched
  <1>5. CASE AgentDataTooLong(c) \/ AgentData(c)
    <2>1. /\ toAgent # <<>> /\ toAgent' = Tail(toAgent) /\ ~Carries(Head(toAgent), d)
          /\ UNCHANGED <<accepted, agent, fwd>>
      BY <1>5 DEF AgentDataTooLong, AgentData, AgentTakes, Carries
    <2>2. /\ pending'[d] = pending[d] /\ local'[d] = local[d]
          /\ d \in upSpoilt => d \in upSpoilt'
      BY <1>5 DEF AgentDataTooLong, AgentData, Forward, WritesLocal
    <2>3. QED
      BY <2>1, <2>2, UpUntouched
  <1>6. CASE LocalConnects(c)
    <2>1. UNCHANGED <<accepted, agent, toAgent>>
      BY <1>6 DEF LocalConnects
    <2>2. /\ pending'[d] = pending[d] /\ local'[d] = local[d] /\ fwd'[d] = fwd[d]
          /\ d \in upSpoilt => d \in upSpoilt'
      BY <1>6 DEF LocalConnects, WritesLocal
    <2>3. QED
      BY <2>1, <2>2, UpUntouched
  <1>7. QED
    BY <1>1, <1>2, <1>3, <1>4, <1>5, <1>6

(***************************************************************************)
(* The agent's connection ends, and with it every link.                    *)
(***************************************************************************)
LEMMA UpEnds ==
  ASSUME TypeOK, Accounts, [Next]_vars, NEW d \in Conns, UpInv(d),
         SessionEnds \/ AgentLeaves
  PROVE  UpInv(d)'
  <1>1. /\ toAgent' = <<>> /\ fwd'[d] = "none" /\ pending'[d] = <<>>
        /\ UNCHANGED <<state, local, upSpoilt>>
    BY DEF SessionEnds, AgentLeaves
  <1>2. ~Announced(<<>>, d) /\ OpenFirst(<<>>, d)
    BY DEF Announced, OpenFirst
  <1>3. ~Linked(d)'
    BY <1>1, <1>2 DEF Linked
  <1>4. NewAtAgent(d) => NewAtAgent(d)'
    BY <1>1 DEF NewAtAgent
  <1>5. UpLink(d)'
    BY <1>1, <1>2, <1>3, <1>4 DEF UpInv, UpLink
  <1>6. UpData(d) => UpData(d)'
    BY <1>1, <1>3 DEF UpData
  <1>7. QED
    BY <1>1, <1>5, <1>6 DEF UpInv

\* Every step keeps the upstream invariant.
LEMMA UpStep ==
  TypeOK /\ Accounts /\ AllWindowed /\ UpHolds /\ [Next]_vars => UpHolds'
  <1> SUFFICES ASSUME TypeOK, Accounts, AllWindowed, UpHolds, [Next]_vars, NEW d \in Conns
               PROVE  UpInv(d)'
    BY DEF UpHolds
  <1>0. UpInv(d)
    BY DEF UpHolds
  <1>1. CASE UpQuiet
    <2>1. CloseFrame \in UpFrames /\ ~Opens(CloseFrame, d) /\ ~Carries(CloseFrame, d)
      BY DEF CloseFrame, Frame, UpFrames, Opens, Carries
    <2>2. QED
      BY <1>0, <1>1, <2>1, UpUntouched DEF UpQuiet
  <1>2. CASE AgentClose
    <2>1. /\ toAgent # <<>> /\ toAgent' = Tail(toAgent) /\ ~Carries(Head(toAgent), d)
          /\ UNCHANGED <<accepted, local, pending, fwd, agent, upSpoilt>>
      BY <1>2 DEF AgentClose, AgentTakes, Carries
    <2>2. QED
      BY <1>0, <2>1, UpUntouched
  <1>3. CASE SessionEnds \/ AgentLeaves
    BY <1>0, <1>3, UpEnds
  <1>4. CASE Redial
    BY <1>0, <1>4, UpUntouched DEF Redial
  <1>5. ASSUME NEW c \in Conns,
               \/ Shuts(c) \/ Opened(c) \/ ReadData(c) \/ AgentOpen(c)
               \/ AgentDataTooLong(c) \/ AgentData(c) \/ LocalConnects(c)
        PROVE  UpInv(d)'
    <2>1. CASE c # d
      BY <1>0, <1>5, <2>1, UpOthers
    <2>2. CASE c = d
      BY <1>0, <1>5, <2>2, UpShuts, UpOpened, UpReadData, UpAgentOpen, UpAgentData,
         UpLocalConnects
    <2>3. QED
      BY <2>1, <2>2
  <1>6. QED
    BY <1>1, <1>2, <1>3, <1>4, <1>5, UpSteps DEF LinkStep

(***************************************************************************)
(* Nothing is taken back: neither what the client sent, nor what the local *)
(* service received.                                                       *)
(***************************************************************************)
LEMMA UpGrows ==
  ASSUME TypeOK, Accounts, [Next]_vars, NEW d \in Conns
  PROVE  /\ upSpoilt \subseteq upSpoilt'
         /\ sent'[d] >= sent[d]
         /\ Len(local'[d]) >= Len(local[d])
  <1>0. PICK n \in Nat, m \in Nat : Len(local[d]) = n /\ sent[d] = m
    <2>1. Len(local[d]) \in Nat /\ sent[d] \in Nat
      BY SizesAssumption, QueuedType DEF TypeOK
    <2>2. QED
      BY <2>1
  <1>1. sent'[d] >= sent[d]
    <2>1. ASSUME NEW c \in Conns,
                 \/ Accept(c) \/ Refuse(c) \/ AcceptThrows(c) \/ Open(c)
                 \/ ReadData(c) \/ Closes(c) \/ ClientEnds(c)
          PROVE  sent' = sent
      BY <2>1 DEF Accept, Refuse, AcceptThrows, Open, Opened, OpenFails, OpenNoAgent,
         ReadData, Closes, ClientEnds
    <2>2. ASSUME NEW c \in Conns, ClientSends(c) PROVE sent'[d] \in {sent[d], sent[d] + 1}
      BY <2>2 DEF ClientSends, TypeOK
    <2>3. QED
      BY <1>0, <2>1, <2>2, ProxySteps
  <1>2. ASSUME UNCHANGED <<local, upSpoilt>>
        PROVE  upSpoilt \subseteq upSpoilt' /\ Len(local'[d]) >= Len(local[d])
    BY <1>0, <1>2
  <1>3. ASSUME NEW c \in Conns, NEW b \in Seq(1..MaxUp), WritesLocal(c, b)
        PROVE  upSpoilt \subseteq upSpoilt' /\ Len(local'[d]) >= Len(local[d])
    <2>1. /\ Len(local'[c]) = Len(local[c]) + Len(b)
          /\ \A e \in Conns \ {c} : local'[e] = local[e]
      BY <1>3, WritesLocalLen
    <2>2. Len(b) \in Nat
      BY LenProperties
    <2>3. Len(local'[d]) >= Len(local[d])
      BY <1>0, <2>1, <2>2
    <2>4. QED
      BY <1>3, <2>3 DEF WritesLocal
  <1>4. ASSUME NEW c \in Conns, AgentData(c)
        PROVE  upSpoilt \subseteq upSpoilt' /\ Len(local'[d]) >= Len(local[d])
    <2>1. Head(toAgent).data \in Seq(1..MaxUp)
      BY <1>4, TakeType DEF AgentData, UpFrames
    <2>2. UNCHANGED <<local, upSpoilt>> \/ WritesLocal(c, Head(toAgent).data)
      BY <1>4 DEF AgentData, Forward
    <2>3. QED
      BY <1>2, <1>3, <2>1, <2>2
  <1>5. ASSUME NEW c \in Conns, LocalConnects(c)
        PROVE  upSpoilt \subseteq upSpoilt' /\ Len(local'[d]) >= Len(local[d])
    BY <1>3, <1>5 DEF LocalConnects, TypeOK
  <1>6. ASSUME NEW c \in Conns, AgentDataTooLong(c)
        PROVE  upSpoilt \subseteq upSpoilt' /\ Len(local'[d]) >= Len(local[d])
    BY <1>0, <1>6 DEF AgentDataTooLong
  <1>7. ASSUME NEW c \in Conns, Shuts(c) \/ Opened(c) \/ ReadData(c) \/ AgentOpen(c)
        PROVE  upSpoilt \subseteq upSpoilt' /\ Len(local'[d]) >= Len(local[d])
    BY <1>2, <1>7 DEF Shuts, Opened, ReadData, AgentOpen
  <1>8. CASE UpQuiet \/ LinkStep
    BY <1>1, <1>2, <1>8 DEF UpQuiet, LinkStep, AgentClose, SessionEnds, AgentLeaves, Redial
  <1>9. QED
    BY <1>1, <1>4, <1>5, <1>6, <1>7, <1>8, UpSteps

(***************************************************************************)
(* Every step delivers to the local service the next bytes of the client,  *)
(* or none, or spoils the connection.                                      *)
(***************************************************************************)
LEMMA UpDelivers ==
  ASSUME TypeOK, Accounts, UpHolds, [Next]_vars,
         TypeOK', Accounts', OneWindowOnly', UpHolds'
  PROVE  Upstream!Next
  <1>1. ASSUME NEW c \in Conns, c \notin upSpoilt'
        PROVE  \E n \in 0..(sent'[c] - Len(local[c])) : Upstream!Deliver(c, n)
    <2>1. /\ upSpoilt \subseteq upSpoilt' /\ Len(local'[c]) >= Len(local[c])
      BY UpGrows
    <2>2. InOrder(local[c], 0) /\ InOrder(local'[c], 0)
      BY <1>1, <2>1 DEF UpHolds, UpInv, UpData
    <2>3. local[c] \in Seq(Nat) /\ local'[c] \in Seq(Nat)
      <3>1. local[c] \in Seq(0..MaxUp) /\ local'[c] \in Seq(0..MaxUp)
        BY DEF TypeOK
      <3>2. 0..MaxUp \subseteq Nat
        BY SizesAssumption
      <3>3. QED
        BY <3>1, <3>2, WiderBytes, Zenon
    <2>4. PICK m \in Nat, n \in Nat : Len(local[c]) = m /\ Len(local'[c]) = n
      BY <2>3
    <2>5. local'[c] = local[c] \o Bytes(m, n - m)
      BY <2>1, <2>2, <2>3, <2>4, RunsOn
    <2>6. n <= sent'[c] /\ sent'[c] \in Nat
      <3>1. PICK p \in Nat : Len(pending'[c]) = p
        BY DEF TypeOK
      <3>2. n + p <= accepted'[c]
        BY <2>4, <3>1 DEF OneWindowOnly
      <3>3. accepted'[c] <= taken'[c] /\ taken'[c] <= sent'[c]
        BY DEF Accounts, Account
      <3>4. accepted'[c] \in Nat /\ taken'[c] \in Nat /\ sent'[c] \in Nat
        BY SizesAssumption DEF TypeOK
      <3>5. QED
        BY <3>2, <3>3, <3>4
    <2>7. n - m \in 0..(sent'[c] - Len(local[c]))
      BY <2>1, <2>4, <2>6
    <2>8. Upstream!Deliver(c, n - m)
      BY <2>4, <2>5 DEF Upstream!Deliver, Upstream!Bytes, Bytes
    <2>9. QED
      BY <2>7, <2>8
  <1>2. upSpoilt \subseteq upSpoilt' /\ \A c \in Conns : sent'[c] >= sent[c]
    <2>1. CASE Conns = {}
      BY <2>1 DEF TypeOK
    <2>2. CASE Conns # {}
      BY <2>2, UpGrows
    <2>3. QED
      BY <2>1, <2>2
  <1>3. QED
    BY <1>1, <1>2 DEF Upstream!Next

\* Nothing is under way in the beginning.
LEMMA UpInit == Init => UpHolds /\ Upstream!Init
  <1> SUFFICES ASSUME Init PROVE UpHolds /\ Upstream!Init
    OBVIOUS
  <1>1. \A c \in Conns : ~Announced(<<>>, c) /\ OpenFirst(<<>>, c) /\ InOrder(<<>>, 0)
    BY DEF Announced, OpenFirst, InOrder
  <1>2. ASSUME NEW c \in Conns PROVE UpInv(c)
    BY <1>1 DEF Init, UpInv, UpLink, UpData, NewAtAgent, Linked
  <1>3. QED
    BY <1>2 DEF Init, UpHolds, Upstream!Init

(***************************************************************************)
(* Client to service: whatever frames, windows, closes and reconnections   *)
(* do, the local service receives the bytes of the client in order, none   *)
(* twice and none skipped, until a chunk is too long for the agent's       *)
(* buffer or the buffer of a write was freed.                              *)
(***************************************************************************)
THEOREM UpstreamImplementsStream == Spec => UpstreamInOrder
  <1>1. Init => UpHolds /\ Upstream!Init
    BY UpInit
  <1>2. TypeOK /\ Accounts /\ AllWindowed /\ UpHolds /\ [Next]_vars => UpHolds'
    BY UpStep
  <1>3. /\ TypeOK /\ Accounts /\ UpHolds /\ [Next]_vars
        /\ TypeOK' /\ Accounts' /\ OneWindowOnly' /\ UpHolds'
        => [Upstream!Next]_(Upstream!vars)
    BY UpDelivers
  <1>4. QED
    BY <1>1, <1>2, <1>3, TypeCorrect, AccountsHold, AlwaysWindowed, WithinOneWindow, PTL
    DEF Spec, UpstreamInOrder, Upstream!Spec

-----------------------------------------------------------------------------
(***************************************************************************)
(* From the local service to the client.  The local service has sent       *)
(* nothing on a connection that is new, announced or being connected.      *)
(***************************************************************************)
BeforeService(c) ==
  state[c] \in {"none", "checked"} \/ Announced(toAgent, c) \/ fwd[c] = "connecting"

NothingFed(c) == BeforeService(c) => fed[c] = 0

\* Only the local service feeds a connection.
LEMMA FedSteps == ASSUME [Next]_vars PROVE fed' = fed \/ \E c \in Conns : LocalSends(c)
  <1>1. ASSUME NEW c \in Conns, FrameStep(c) PROVE fed' = fed
    BY <1>1 DEF FrameStep, FrameData, FrameClose, AgentOpen, AgentDataTooLong, AgentData
  <1>2. ASSUME NEW c \in Conns, ProxyStep(c) PROVE fed' = fed
    BY <1>2 DEF ProxyStep, Open, Opened, OpenFails, OpenNoAgent, ReadData, ReadEof,
       ReadError, WriteDone, WriteError
  <1>3. ASSUME NEW c \in Conns, Accept(c) \/ Refuse(c) \/ AcceptThrows(c)
                                \/ ClientSends(c) \/ ClientEnds(c)
        PROVE  fed' = fed
    BY <1>3 DEF Accept, Refuse, AcceptThrows, ClientSends, ClientEnds
  <1>4. ASSUME NEW c \in Conns, LocalStep(c), ~LocalSends(c) PROVE fed' = fed
    BY <1>4 DEF LocalStep, LocalConnects, LocalRefuses, LocalEof, LocalWriteError
  <1>5. CASE LinkStep
    BY <1>5 DEF LinkStep, AgentClose, SessionEnds, AgentLeaves, Redial
  <1>6. CASE UNCHANGED vars
    BY <1>6
  <1>7. QED
    BY <1>1, <1>2, <1>3, <1>4, <1>5, <1>6 DEF Next

(***************************************************************************)
(* A connection gets there from nowhere else.                              *)
(***************************************************************************)
LEMMA BeforeStays ==
  ASSUME TypeOK, Accounts, [Next]_vars, NEW d \in Conns, UpInv(d), BeforeService(d)'
  PROVE  BeforeService(d)
  <1>1. state'[d] \in {"none", "checked"} => state[d] \in {"none", "checked"}
    BY StaysOpened
  <1>2. toAgent \in Seq(UpFrames) /\ OpenFirst(toAgent, d)
    BY DEF TypeOK, UpInv, UpLink
  <1>3. toAgent # <<>> => (Announced(Tail(toAgent), d) => Announced(toAgent, d))
    BY <1>2, OpenTail
  <1>4. ASSUME NEW f \in UpFrames, ~Opens(f, d), Announced(Append(toAgent, f), d)
        PROVE  Announced(toAgent, d)
    BY <1>2, <1>4, OpenAppend
  <1>5. CASE UpQuiet
    <2>1. CloseFrame \in UpFrames /\ ~Opens(CloseFrame, d)
      BY DEF CloseFrame, Frame, UpFrames, Opens
    <2>2. QED
      BY <1>1, <1>4, <1>5, <2>1 DEF UpQuiet, BeforeService
  <1>6. ASSUME NEW c \in Conns, Opened(c) PROVE BeforeService(d)
    <2> DEFINE f == Frame("OPEN", c, <<>>)
    <2>1. /\ state[c] = "checked" /\ fwd' = fwd
          /\ toAgent' \in {toAgent, Append(toAgent, f)}
      BY <1>6 DEF Opened, Sends
    <2>2. f \in UpFrames /\ (c # d => ~Opens(f, d))
      BY DEF Frame, UpFrames, Opens
    <2> HIDE DEF f
    <2>3. QED
      BY <1>1, <1>4, <2>1, <2>2 DEF BeforeService
  <1>7. ASSUME NEW c \in Conns, ReadData(c) PROVE BeforeService(d)
    <2>1. PICK k \in Nat :
            /\ k = 0 => toAgent' = toAgent
            /\ k # 0 =>
                 /\ Frame("DATA", c, Bytes(accepted[c], k)) \in UpFrames
                 /\ \/ /\ agent = "connected"
                       /\ toAgent' = Append(toAgent, Frame("DATA", c, Bytes(accepted[c], k)))
                    \/ agent # "connected" /\ toAgent' = toAgent
      BY <1>7, ReadDataSends
    <2> DEFINE f == Frame("DATA", c, Bytes(accepted[c], k))
    <2>2. ~Opens(f, d)
      BY DEF Frame, Opens
    <2>3. toAgent' = toAgent \/ (f \in UpFrames /\ toAgent' = Append(toAgent, f))
      BY <2>1
    <2>4. fwd' = fwd
      BY <1>7 DEF ReadData
    <2> HIDE DEF f
    <2>5. QED
      BY <1>1, <1>4, <2>2, <2>3, <2>4 DEF BeforeService
  <1>8. ASSUME NEW c \in Conns, AgentOpen(c) PROVE BeforeService(d)
    <2>1. /\ toAgent # <<>> /\ toAgent' = Tail(toAgent) /\ Opens(Head(toAgent), c)
          /\ fwd' = [fwd EXCEPT ![c] = "connecting"]
      BY <1>8 DEF AgentOpen, AgentTakes, Opens
    <2>2. c # d => fwd'[d] = fwd[d]
      BY <2>1 DEF TypeOK
    <2>3. c = d => Announced(toAgent, d)
      BY <1>2, <2>1, OpenTail
    <2>4. QED
      BY <1>1, <1>3, <2>1, <2>2, <2>3 DEF BeforeService
  <1>9. ASSUME NEW c \in Conns, AgentDataTooLong(c) \/ AgentData(c) PROVE BeforeService(d)
    BY <1>1, <1>3, <1>9 DEF AgentDataTooLong, AgentData, AgentTakes, BeforeService
  <1>10. ASSUME NEW c \in Conns, LocalConnects(c) \/ Shuts(c) PROVE BeforeService(d)
    BY <1>1, <1>10 DEF LocalConnects, Shuts, BeforeService, TypeOK
  <1>11. CASE AgentClose
    BY <1>1, <1>3, <1>11 DEF AgentClose, AgentTakes, BeforeService
  <1>12. CASE SessionEnds \/ AgentLeaves \/ Redial
    <2>1. ~Announced(<<>>, d)
      BY DEF Announced
    <2>2. QED
      BY <1>1, <1>12, <2>1 DEF SessionEnds, AgentLeaves, Redial, BeforeService
  <1>13. QED
    BY <1>5, <1>6, <1>7, <1>8, <1>9, <1>10, <1>11, <1>12, UpSteps DEF LinkStep

\* It feeds none that the forwarder has not connected.
LEMMA FedStep ==
  ASSUME TypeOK, Accounts, [Next]_vars, NEW d \in Conns, UpInv(d), NothingFed(d)
  PROVE  NothingFed(d)'
  <1>1. fed'[d] = fed[d] \/ LocalSends(d)
    <2>1. ASSUME NEW c \in Conns, LocalSends(c) PROVE c = d \/ fed'[d] = fed[d]
      BY <2>1 DEF LocalSends, TypeOK
    <2>2. QED
      BY <2>1, FedSteps
  <1>2. LocalSends(d) => ~BeforeService(d)
    BY DEF LocalSends, BeforeService, UpInv, UpLink, NewAtAgent
  <1>3. QED
    BY <1>1, <1>2, BeforeStays DEF NothingFed

(***************************************************************************)
(* The buffer to the client is empty, or one write of all of it is under   *)
(* way; a connection is carried while its client is there and bytes can    *)
(* still come or are under way, and then none is missing.                  *)
(***************************************************************************)
WholeWrite(c) ==
  \/ recv[c] = <<>> /\ writes[c] = <<>>
  \/ recv[c] # <<>> /\ writes[c] = <<Len(recv[c])>>

HasClient(c) == c \in connections /\ client[c] \in {"open", "eof"}

UnderWay(q, c) == \E i \in 1..Len(q) : Carries(q[i], c)

DownData(c) ==
  /\ InOrder(got[c], 0)
  /\ Len(got[c]) <= fed[c]
  /\ Ordered(toServer, c, Len(got[c]), fed[c])
  /\ client[c] # "gone" => WholeWrite(c)
  /\ HasClient(c) /\ (fwd[c] = "connected" \/ UnderWay(toServer, c))
       => Covered(toServer, c, Len(got[c]), fed[c])

DownInv(c) == NothingFed(c) /\ (c \in downSpoilt \/ DownData(c))
DownHolds == \A c \in Conns : DownInv(c)

\* The types that the downstream invariant rests on
LEMMA DownType ==
  ASSUME TypeOK, NEW c \in Conns
  PROVE  /\ toServer \in Seq(DownFrames) /\ fed[c] \in Nat /\ Len(got[c]) \in Nat
         /\ got[c] \in Seq(1..MaxDown) /\ recv[c] \in Seq(1..MaxDown)
         /\ writes[c] \in Seq(Nat \ {0})
  BY SizesAssumption DEF TypeOK

\* Taking a frame, or adding one of another kind, puts no data under way.
LEMMA UnderWayLess ==
  ASSUME NEW S, NEW q \in Seq(S), NEW c
  PROVE  /\ \A f \in S : ~Carries(f, c) /\ UnderWay(Append(q, f), c) => UnderWay(q, c)
         /\ q # <<>> => (UnderWay(Tail(q), c) => UnderWay(q, c))
  <1>1. ASSUME NEW f \in S, ~Carries(f, c), UnderWay(Append(q, f), c)
        PROVE  UnderWay(q, c)
    <2>1. /\ Len(Append(q, f)) = Len(q) + 1 /\ Len(q) \in Nat
          /\ \A i \in 1..Len(q) : Append(q, f)[i] = q[i]
          /\ Append(q, f)[Len(q) + 1] = f
      BY AppendLast
    <2>2. PICK i \in 1..Len(q) + 1 : Carries(Append(q, f)[i], c)
      BY <1>1, <2>1 DEF UnderWay
    <2>3. i # Len(q) + 1
      BY <1>1, <2>1, <2>2
    <2>4. i \in 1..Len(q)
      BY <2>1, <2>3
    <2>5. QED
      BY <2>1, <2>2, <2>4 DEF UnderWay
  <1>2. ASSUME q # <<>>, UnderWay(Tail(q), c) PROVE UnderWay(q, c)
    <2>1. /\ Len(q) \in Nat \ {0} /\ Len(Tail(q)) = Len(q) - 1
          /\ \A i \in 1..Len(q) - 1 : Tail(q)[i] = q[i + 1]
      BY <1>2, TakeFirst
    <2>2. PICK i \in 1..Len(q) - 1 : Carries(q[i + 1], c)
      BY <1>2, <2>1 DEF UnderWay
    <2>3. i + 1 \in 1..Len(q)
      BY <2>1
    <2>4. QED
      BY <2>2, <2>3 DEF UnderWay
  <1>3. QED
    BY <1>1, <1>2

(***************************************************************************)
(* A client comes with a connection that was just opened, and one that is  *)
(* gone does not come back; the local service comes with its connection.   *)
(***************************************************************************)
LEMMA ClientStays ==
  ASSUME TypeOK, Accounts, [Next]_vars, NEW d \in Conns
  PROVE  /\ HasClient(d)' => HasClient(d) \/ state[d] = "checked"
         /\ client[d] = "gone" => client'[d] = "gone"
  <1> USE DEF HasClient, TypeOK
  <1>0. /\ client[d] \in {"idle", "refused"} => d \notin connections
        /\ DOMAIN client = Conns
    BY DEF Accounts, Unopened
  <1>1. ASSUME NEW c \in Conns, Accept(c) \/ Refuse(c) \/ AcceptThrows(c)
        PROVE  /\ HasClient(d)' => HasClient(d)
               /\ client[d] = "gone" => client'[d] = "gone"
    BY <1>0, <1>1 DEF Accept, Refuse, AcceptThrows
  <1>2. ASSUME NEW c \in Conns, Open(c)
        PROVE  /\ HasClient(d)' => HasClient(d) \/ state[d] = "checked"
               /\ client[d] = "gone" => client'[d] = "gone"
    BY <1>2 DEF Open, Opened, OpenFails, OpenNoAgent
  <1>3. ASSUME NEW c \in Conns, ReadData(c) \/ Closes(c) \/ ClientSends(c)
        PROVE  /\ HasClient(d)' => HasClient(d)
               /\ client[d] = "gone" => client'[d] = "gone"
    BY <1>3 DEF ReadData, Closes, ClientSends
  <1>4. ASSUME NEW c \in Conns, ClientEnds(c)
        PROVE  /\ HasClient(d)' => HasClient(d)
               /\ client[d] = "gone" => client'[d] = "gone"
    BY <1>4 DEF ClientEnds
  <1>5. QED
    BY <1>1, <1>2, <1>3, <1>4, ProxySteps

\* The forwarder has the local service only from a connect on.
LEMMA ServiceStays ==
  ASSUME TypeOK, [Next]_vars, NEW d \in Conns, fwd'[d] = "connected"
  PROVE  fwd[d] \in {"connecting", "connected"}
  <1> USE DEF TypeOK
  <1>1. ASSUME NEW c \in Conns, Shuts(c) PROVE fwd[d] = "connected"
    BY <1>1 DEF Shuts
  <1>2. ASSUME NEW c \in Conns, Opened(c) \/ ReadData(c) PROVE fwd[d] = "connected"
    BY <1>2 DEF Opened, ReadData
  <1>3. ASSUME NEW c \in Conns, AgentOpen(c) \/ AgentDataTooLong(c) \/ AgentData(c)
        PROVE  fwd[d] = "connected"
    BY <1>3 DEF AgentOpen, AgentDataTooLong, AgentData
  <1>4. ASSUME NEW c \in Conns, LocalConnects(c)
        PROVE  fwd[d] \in {"connecting", "connected"}
    BY <1>4 DEF LocalConnects
  <1>5. CASE UpQuiet \/ LinkStep
    BY <1>5 DEF UpQuiet, LinkStep, AgentClose, SessionEnds, AgentLeaves, Redial
  <1>6. QED
    BY <1>1, <1>2, <1>3, <1>4, <1>5, UpSteps

(***************************************************************************)
(* Steps that do not concern the bytes to a client: frames without its     *)
(* bytes come and go, or all are lost with the agent.                      *)
(***************************************************************************)
Passes(d) ==
  \/ toServer' = toServer
  \/ \E f \in DownFrames : toServer' = Append(toServer, f) /\ ~Carries(f, d)
  \/ toServer # <<>> /\ toServer' = Tail(toServer) /\ ~Carries(Head(toServer), d)
  \/ toServer' = <<>> /\ fwd'[d] = "none"

DownIdle(d) ==
  /\ fed'[d] = fed[d] /\ got'[d] = got[d]
  /\ d \in downSpoilt => d \in downSpoilt'
  /\ client[d] = "gone" \/ (recv'[d] = recv[d] /\ writes'[d] = writes[d])
  /\ Passes(d)

\* A connection whose downstream state does not change keeps its invariant.
LEMMA DownUntouched ==
  ASSUME TypeOK, Accounts, [Next]_vars, NEW d \in Conns, UpInv(d), DownInv(d), DownIdle(d)
  PROVE  DownInv(d)'
  <1>1. /\ toServer \in Seq(DownFrames) /\ fed[d] \in Nat /\ Len(got[d]) \in Nat
    BY DownType
  <1>2. NothingFed(d)'
    BY FedStep DEF DownInv
  <1>3. CASE d \in downSpoilt'
    BY <1>2, <1>3 DEF DownInv
  <1>4. CASE d \notin downSpoilt'
    <2>1. DownData(d)
      BY <1>4 DEF DownInv, DownIdle
    <2>2. fed'[d] = fed[d] /\ got'[d] = got[d]
      BY DEF DownIdle
    <2>3. client'[d] # "gone" => WholeWrite(d)'
      BY <2>1, ClientStays DEF DownIdle, DownData, WholeWrite
    <2>4. /\ Ordered(toServer', d, Len(got[d]), fed[d])
          /\ Covered(toServer, d, Len(got[d]), fed[d]) =>
               \/ Covered(toServer', d, Len(got[d]), fed[d])
               \/ toServer' = <<>> /\ fwd'[d] = "none"
          /\ UnderWay(toServer', d) => UnderWay(toServer, d)
      <3>0. Ordered(toServer, d, Len(got[d]), fed[d])
        BY <2>1 DEF DownData
      <3>1. CASE toServer' = toServer
        BY <3>0, <3>1
      <3>2. ASSUME NEW f \in DownFrames, toServer' = Append(toServer, f), ~Carries(f, d)
            PROVE  /\ Ordered(toServer', d, Len(got[d]), fed[d])
                   /\ Covered(toServer, d, Len(got[d]), fed[d]) =>
                        Covered(toServer', d, Len(got[d]), fed[d])
                   /\ UnderWay(toServer', d) => UnderWay(toServer, d)
        <4>1. UnderWay(Append(toServer, f), d) => UnderWay(toServer, d)
          BY <1>1, <3>2, UnderWayLess
        <4>2. QED
          BY <1>1, <3>0, <3>2, <4>1, AppendOther
      <3>3. CASE toServer # <<>> /\ toServer' = Tail(toServer) /\ ~Carries(Head(toServer), d)
        <4>1. /\ Ordered(toServer', d, Len(got[d]), fed[d])
              /\ Covered(toServer, d, Len(got[d]), fed[d]) =>
                   Covered(toServer', d, Len(got[d]), fed[d])
          BY <1>1, <3>0, <3>3, OrderedTail, CoveredTail, FrameSets
        <4>2. UnderWay(Tail(toServer), d) => UnderWay(toServer, d)
          BY <1>1, <3>3, UnderWayLess
        <4>3. QED
          BY <3>3, <4>1, <4>2
      <3>4. CASE toServer' = <<>> /\ fwd'[d] = "none"
        BY <3>4 DEF Ordered, UnderWay
      <3>5. QED
        BY <3>1, <3>2, <3>3, <3>4 DEF DownIdle, Passes
    <2>5. ASSUME HasClient(d)', fwd'[d] = "connected" \/ UnderWay(toServer', d)
          PROVE  Covered(toServer', d, Len(got[d]), fed[d])
      <3>0. ~(toServer' = <<>> /\ fwd'[d] = "none")
        BY <2>5 DEF UnderWay
      <3>1. CASE fed[d] = 0
        BY <1>1, <3>1 DEF Covered
      <3>2. CASE fed[d] # 0
        <4>1. ~BeforeService(d)
          BY <3>2 DEF DownInv, NothingFed
        <4>2. HasClient(d)
          BY <2>5, <4>1, ClientStays DEF BeforeService
        <4>3. fwd[d] = "connected" \/ UnderWay(toServer, d)
          BY <2>4, <2>5, <4>1, ServiceStays DEF BeforeService
        <4>4. Covered(toServer, d, Len(got[d]), fed[d])
          BY <2>1, <4>2, <4>3 DEF DownData
        <4>5. QED
          BY <2>4, <3>0, <4>4
      <3>3. QED
        BY <3>1, <3>2
    <2>6. DownData(d)'
      BY <2>1, <2>2, <2>3, <2>4, <2>5 DEF DownData
    <2>7. QED
      BY <1>2, <2>6 DEF DownInv
  <1>5. QED
    BY <1>3, <1>4

(***************************************************************************)
(* write_to_client() concerns one connection only.                         *)
(***************************************************************************)
LEMMA WritesOthers ==
  ASSUME TypeOK, NEW c \in Conns, NEW buf, NEW queue, NEW spoils,
         StartWrite(c, buf, queue, spoils)
  PROVE  /\ downSpoilt \subseteq downSpoilt'
         /\ \A d \in Conns \ {c} :
              recv'[d] = recv[d] /\ writes'[d] = writes[d] /\ got'[d] = got[d]
  BY DEF StartWrite, TypeOK

(***************************************************************************)
(* The agent's frames that carry no bytes                                  *)
(***************************************************************************)
LEMMA RepliesPass ==
  ASSUME TypeOK, NEW d \in Conns, NEW f \in DownFrames, ~Carries(f, d), Replies(f)
  PROVE  /\ downSpoilt \subseteq downSpoilt'
         /\ toServer' = toServer \/ toServer' = Append(toServer, f)
  BY DEF Replies

(***************************************************************************)
(* Only three steps concern the bytes to a client.                         *)
(***************************************************************************)
LEMMA DownSteps ==
  ASSUME TypeOK, [Next]_vars, NEW d \in Conns
  PROVE  DownIdle(d) \/ FrameData(d) \/ WriteDone(d) \/ LocalSends(d)
  <1> DEFINE Quiet == UNCHANGED <<fed, recv, writes, got, downSpoilt, toServer>>
  <1>0. Quiet => DownIdle(d)
    BY DEF DownIdle, Passes
  <1>1. ASSUME NEW c \in Conns, AgentOpen(c) \/ AgentData(c) PROVE Quiet
    BY <1>1 DEF AgentOpen, AgentData
  <1>2. ASSUME NEW c \in Conns, Accept(c) \/ Refuse(c) \/ AcceptThrows(c)
                                \/ ClientSends(c) \/ ClientEnds(c)
        PROVE  Quiet
    BY <1>2 DEF Accept, Refuse, AcceptThrows, ClientSends, ClientEnds
  <1>3. ASSUME NEW c \in Conns, Open(c) \/ ReadData(c) \/ ReadEof(c) \/ ReadError(c)
        PROVE  Quiet
    BY <1>3 DEF Open, Opened, OpenFails, OpenNoAgent, ReadData, ReadEof, ReadError
  <1>4. ASSUME NEW c \in Conns, LocalConnects(c) \/ LocalWriteError(c) PROVE Quiet
    BY <1>4 DEF LocalConnects, LocalWriteError
  <1>5. CASE AgentClose \/ SessionEnds \/ Redial
    <2>1. Quiet
      BY <1>5 DEF AgentClose, SessionEnds, Redial
    <2>2. QED
      BY <1>0, <2>1
  <1>6. CASE AgentLeaves
    BY <1>6 DEF AgentLeaves, DownIdle, Passes
  <1>7. CASE UNCHANGED vars
    <2>1. Quiet
      BY <1>7
    <2>2. QED
      BY <1>0, <2>1
  <1> HIDE DEF Quiet
  <1>8. ASSUME NEW c \in Conns, AgentDataTooLong(c) PROVE DownIdle(d)
    <2> DEFINE f == Frame("GOAWAY", Garbled, <<>>)
    <2>1. f \in DownFrames /\ ~Carries(f, d)
      BY DEF Frame, DownFrames, Carries
    <2>2. /\ UNCHANGED <<fed, recv, writes, got, downSpoilt>>
          /\ toServer' = Append(toServer, f)
      BY <1>8 DEF AgentDataTooLong
    <2> HIDE DEF f
    <2>3. QED
      BY <2>1, <2>2 DEF DownIdle, Passes
  <1>9. ASSUME NEW c \in Conns, LocalRefuses(c) \/ LocalEof(c) PROVE DownIdle(d)
    <2> DEFINE f == Frame("CLOSE", c, <<>>)
    <2>1. f \in DownFrames /\ ~Carries(f, d)
      BY DEF Frame, DownFrames, Carries
    <2>2. Replies(f) /\ UNCHANGED <<fed, recv, writes, got>>
      BY <1>9 DEF LocalRefuses, LocalEof
    <2> HIDE DEF f
    <2>3. downSpoilt \subseteq downSpoilt' /\ (toServer' = toServer \/ toServer' = Append(toServer, f))
      BY <2>1, <2>2, RepliesPass
    <2>4. Passes(d)
      BY <2>1, <2>3 DEF Passes
    <2>5. QED
      BY <2>2, <2>3, <2>4 DEF DownIdle
  <1>10. ASSUME NEW c \in Conns, LocalSends(c), c # d PROVE DownIdle(d)
    <2>1. PICK n \in 1..Least(ReadMax, MaxDown - fed[c]) :
            /\ fed' = Set(fed, c, fed[c] + n)
            /\ Replies(Frame("DATA", c, Bytes(fed[c], n)))
      BY <1>10 DEF LocalSends
    <2>2. n \in Nat /\ fed[c] \in Nat /\ MaxDown \in Nat /\ fed[c] + n <= MaxDown
      <3>1. fed[c] \in 0..MaxDown /\ MaxDown \in Nat /\ ReadMax \in Nat
        BY SizesAssumption DEF TypeOK
      <3>2. QED
        BY <3>1 DEF Least
    <2>3. Bytes(fed[c], n) \in Seq(1..MaxDown)
      BY <2>2, BytesType
    <2> DEFINE f == Frame("DATA", c, Bytes(fed[c], n))
    <2>4. f \in DownFrames /\ ~Carries(f, d)
      BY <1>10, <2>3 DEF Frame, DownFrames, Carries
    <2>5. UNCHANGED <<recv, writes, got>> /\ fed'[d] = fed[d]
      BY <1>10, <2>1 DEF LocalSends, TypeOK
    <2>6. Replies(f)
      BY <2>1
    <2> HIDE DEF f
    <2>7. downSpoilt \subseteq downSpoilt' /\ (toServer' = toServer \/ toServer' = Append(toServer, f))
      BY <2>4, <2>6, RepliesPass
    <2>8. Passes(d)
      BY <2>4, <2>7 DEF Passes
    <2>9. QED
      BY <2>5, <2>7, <2>8 DEF DownIdle
  <1>11. ASSUME NEW c \in Conns, FrameData(c), c # d PROVE DownIdle(d)
    <2>1. /\ toServer # <<>> /\ toServer' = Tail(toServer) /\ ~Carries(Head(toServer), d)
          /\ fed' = fed
      BY <1>11 DEF FrameData, TakesFrame, Carries
    <2>2. \/ UNCHANGED downVars
          \/ \E buf, queue, spoils : StartWrite(c, buf, queue, spoils)
      BY <1>11 DEF FrameData, Receive
    <2>3. /\ recv'[d] = recv[d] /\ writes'[d] = writes[d] /\ got'[d] = got[d]
          /\ downSpoilt \subseteq downSpoilt'
      BY <1>11, <2>2, WritesOthers
    <2>4. QED
      BY <2>1, <2>3 DEF DownIdle, Passes
  <1>12. ASSUME NEW c \in Conns, WriteDone(c), c # d PROVE DownIdle(d)
    <2>1. UNCHANGED <<toServer, fed>>
      BY <1>12 DEF WriteDone
    <2>2. \E buf, queue, spoils : StartWrite(c, buf, queue, spoils)
      BY <1>12 DEF WriteDone
    <2>3. /\ recv'[d] = recv[d] /\ writes'[d] = writes[d] /\ got'[d] = got[d]
          /\ downSpoilt \subseteq downSpoilt'
      BY <1>12, <2>2, WritesOthers
    <2>4. QED
      BY <2>1, <2>3 DEF DownIdle, Passes
  <1>13. ASSUME NEW c \in Conns, FrameClose(c) PROVE DownIdle(d)
    <2>1. /\ toServer # <<>> /\ toServer' = Tail(toServer) /\ ~Carries(Head(toServer), d)
          /\ UNCHANGED <<fed, recv, writes, got, downSpoilt>>
      BY <1>13 DEF FrameClose, TakesFrame, Carries
    <2>2. QED
      BY <2>1 DEF DownIdle, Passes
  <1>14. ASSUME NEW c \in Conns, WriteError(c) PROVE DownIdle(d)
    <2>1. /\ UNCHANGED <<fed, recv, got, downSpoilt, toServer>> /\ client[c] = "gone"
          /\ writes' = [writes EXCEPT ![c] = Tail(writes[c])]
      BY <1>14 DEF WriteError
    <2>2. c = d \/ writes'[d] = writes[d]
      BY <2>1 DEF TypeOK
    <2>3. QED
      BY <2>1, <2>2 DEF DownIdle, Passes
  <1>15. QED
    BY <1>0, <1>1, <1>2, <1>3, <1>4, <1>5, <1>6, <1>7, <1>8, <1>9, <1>10, <1>11, <1>12,
       <1>13, <1>14
    DEF Next, LinkStep, FrameStep, ProxyStep, LocalStep

(***************************************************************************)
(* The local service sends the bytes that follow, in one frame, which      *)
(* joins the others or is lost.                                            *)
(***************************************************************************)
LEMMA DownSends ==
  ASSUME TypeOK, Accounts, [Next]_vars, NEW d \in Conns, UpInv(d), DownInv(d), LocalSends(d)
  PROVE  DownInv(d)'
  <1>1. PICK n \in 1..Least(ReadMax, MaxDown - fed[d]) :
          /\ fed' = Set(fed, d, fed[d] + n)
          /\ Replies(Frame("DATA", d, Bytes(fed[d], n)))
    BY DEF LocalSends
  <1>2. /\ toServer \in Seq(DownFrames) /\ fed[d] \in Nat /\ Len(got[d]) \in Nat
    BY DownType
  <1>3. n \in Nat \ {0} /\ fed[d] + n <= MaxDown /\ MaxDown \in Nat
    <2>1. fed[d] \in 0..MaxDown /\ MaxDown \in Nat /\ ReadMax \in Nat
      BY SizesAssumption DEF TypeOK
    <2>2. QED
      BY <2>1 DEF Least
  <1> DEFINE f == Frame("DATA", d, Bytes(fed[d], n))
  <1>4. f \in DownFrames
    <2>1. Bytes(fed[d], n) \in Seq(1..MaxDown)
      BY <1>2, <1>3, BytesType
    <2>2. QED
      BY <2>1 DEF Frame, DownFrames
  <1>a. f = Frame("DATA", d, Bytes(fed[d], n)) /\ f.conn = d /\ f.type = "DATA" /\ Replies(f)
    BY <1>1 DEF Frame
  <1> HIDE DEF f
  <1>5. /\ Carries(f, d) /\ IsRun(f.data) /\ f.data[1] = fed[d] + 1
        /\ Last(f.data) = fed[d] + n
    <2>1. fed[d] \in Nat /\ n \in Nat /\ n # 0
      BY <1>2, <1>3
    <2>2. f = Frame("DATA", d, Bytes(fed[d], n))
      BY <1>a
    <2>3. QED
      BY <2>1, <2>2, DataFrame
  <1>6. fed'[d] = fed[d] + n
    BY <1>1 DEF TypeOK
  <1>7. NothingFed(d)'
    BY FedStep DEF DownInv
  <1>8. /\ UNCHANGED <<client, connections, recv, writes, got, fwd>>
        /\ fwd[d] = "connected"
    BY DEF LocalSends
  <1>9. CASE d \in downSpoilt'
    BY <1>7, <1>9 DEF DownInv
  <1>10. CASE d \notin downSpoilt'
    <2>1. toServer' = Append(toServer, f) /\ d \notin downSpoilt
      BY <1>10, <1>a DEF Replies
    <2>2. DownData(d)
      BY <2>1 DEF DownInv
    <2>3. Len(got[d]) <= fed[d] /\ Ordered(toServer, d, Len(got[d]), fed[d])
      BY <2>2 DEF DownData
    <2>4. /\ Ordered(toServer', d, Len(got[d]), Last(f.data))
          /\ Covered(toServer, d, Len(got[d]), fed[d])
               => Covered(toServer', d, Len(got[d]), Last(f.data))
      BY <1>2, <1>4, <1>5, <2>1, <2>3, AppendNext, FrameSets
    <2>5. HasClient(d)' => HasClient(d)
      BY <1>8 DEF HasClient
    <2>6. HasClient(d) => Covered(toServer, d, Len(got[d]), fed[d])
      BY <1>8, <2>2 DEF DownData
    <2>7. Len(got[d]) <= fed'[d]
      BY <1>2, <1>3, <1>6, <2>3
    <2>8. WholeWrite(d)' <=> WholeWrite(d)
      BY <1>8 DEF WholeWrite
    <2>9. DownData(d)'
      BY <1>5, <1>6, <1>8, <2>2, <2>4, <2>5, <2>6, <2>7, <2>8 DEF DownData
    <2>10. QED
      BY <1>7, <2>9 DEF DownInv
  <1>11. QED
    BY <1>9, <1>10

(***************************************************************************)
(* The write to the client is done: nothing is left to write.              *)
(***************************************************************************)
LEMMA DownWritten ==
  ASSUME TypeOK, Accounts, [Next]_vars, NEW d \in Conns, UpInv(d), DownInv(d), WriteDone(d)
  PROVE  DownInv(d)'
  <1>1. NothingFed(d)'
    BY FedStep DEF DownInv
  <1>2. CASE d \in downSpoilt'
    BY <1>1, <1>2 DEF DownInv
  <1>3. CASE d \notin downSpoilt'
    <2>1. /\ writes[d] # <<>> /\ client[d] # "gone"
          /\ UNCHANGED <<client, connections, fwd, fed, toServer>>
      BY DEF WriteDone
    <2>2. d \notin downSpoilt
      BY <1>3 DEF WriteDone, StartWrite
    <2>3. DownData(d)
      BY <2>2 DEF DownInv
    <2>4. recv[d] # <<>> /\ writes[d] = <<Len(recv[d])>>
      BY <2>1, <2>3 DEF DownData, WholeWrite
    <2>5. recv[d] \in Seq(1..MaxDown) /\ Len(recv[d]) \in Nat
      BY DownType
    <2>6. Head(writes[d]) = Len(recv[d]) /\ Tail(writes[d]) = <<>>
      BY <2>4, <2>5
    <2>7. SubSeq(recv[d], Len(recv[d]) + 1, Len(recv[d])) = <<>>
      BY <2>5
    <2>8. ~(Len(recv[d]) > Len(recv[d]))
      BY <2>5
    <2>9. StartWrite(d, <<>>, <<>>, FALSE)
      BY <2>6, <2>7, <2>8 DEF WriteDone
    <2>10. recv'[d] = <<>> /\ writes'[d] = <<>>
      BY <2>9 DEF StartWrite, TypeOK
    <2>11. got'[d] = got[d]
      <3>1. got[d] \o <<>> = got[d]
        BY DownType
      <3>2. QED
        BY <2>9, <3>1 DEF StartWrite, TypeOK
    <2>12. WholeWrite(d)' /\ (HasClient(d)' <=> HasClient(d))
      BY <2>1, <2>10 DEF WholeWrite, HasClient
    <2>13. DownData(d)'
      BY <2>1, <2>3, <2>11, <2>12 DEF DownData
    <2>14. QED
      BY <1>1, <2>13 DEF DownInv
  <1>4. QED
    BY <1>2, <1>3

(***************************************************************************)
(* TCP_DATA reaches the proxy: for a carried connection it holds the next  *)
(* bytes, and they are written at once, or the connection is spoilt.       *)
(***************************************************************************)
LEMMA DownReceives ==
  ASSUME TypeOK, Accounts, [Next]_vars, NEW d \in Conns, UpInv(d), DownInv(d), FrameData(d)
  PROVE  DownInv(d)'
  <1> DEFINE data == Head(toServer).data
  <1>1. /\ toServer # <<>> /\ toServer' = Tail(toServer) /\ Carries(Head(toServer), d)
        /\ UNCHANGED <<client, connections, fwd, fed>>
    BY DEF FrameData, TakesFrame, Carries
  <1>2. /\ toServer \in Seq(DownFrames) /\ fed[d] \in Nat /\ Len(got[d]) \in Nat
        /\ got[d] \in Seq(1..MaxDown) /\ recv[d] \in Seq(1..MaxDown)
    BY DownType
  <1>3. data \in Seq(1..MaxDown) /\ data \in Seq(Nat)
    <2>1. Head(toServer) \in DownFrames
      BY <1>1, <1>2, TakeFirst
    <2>2. data \in Seq(1..MaxDown)
      BY <2>1 DEF DownFrames
    <2>3. data \in Seq(Nat)
      BY <2>1, FrameSets DEF FrameSet
    <2>4. QED
      BY <2>2, <2>3
  <1>4. NothingFed(d)'
    BY FedStep DEF DownInv
  <1>5. CASE d \in downSpoilt'
    BY <1>4, <1>5 DEF DownInv
  <1>6. CASE d \notin downSpoilt'
    <2>1. d \notin downSpoilt
      BY <1>6 DEF FrameData, Receive, StartWrite
    <2>2. DownData(d)
      BY <2>1 DEF DownInv
    <2>3. /\ Ordered(toServer', d, Len(got[d]), fed[d])
          /\ IsRun(data) /\ Last(data) <= fed[d]
          /\ Ordered(toServer', d, Last(data), fed[d])
      BY <1>1, <1>2, <2>2, OrderedTail, FrameSets DEF DownData
    <2>4. CASE d \notin connections
      <3>1. got' = got /\ recv' = recv /\ writes' = writes
        BY <2>4 DEF FrameData
      <3>2. DownData(d)'
        BY <1>1, <2>2, <2>3, <2>4, <3>1 DEF DownData, HasClient, WholeWrite
      <3>3. QED
        BY <1>4, <3>2 DEF DownInv
    <2>5. CASE d \in connections
      <3>1. /\ Receive(d, data)
        BY <2>5 DEF FrameData
      <3>2. CASE client[d] = "gone"
        <4>1. got'[d] = got[d]
          BY <3>1, <3>2 DEF Receive, StartWrite
        <4>2. ~HasClient(d)' /\ client'[d] = "gone"
          BY <1>1, <3>2 DEF HasClient
        <4>3. DownData(d)'
          BY <1>1, <2>2, <2>3, <4>1, <4>2 DEF DownData
        <4>4. QED
          BY <1>4, <4>3 DEF DownInv
      <3>3. CASE client[d] # "gone"
        <4>1. client[d] \in {"open", "eof"}
          <5>1. client[d] \notin {"idle", "refused"}
            BY <2>5 DEF Accounts, Unopened
          <5>2. QED
            BY <3>3, <5>1 DEF TypeOK
        <4>2. HasClient(d)
          BY <2>5, <4>1 DEF HasClient
        <4>3. UnderWay(toServer, d)
          <5>1. 1 \in 1..Len(toServer) /\ toServer[1] = Head(toServer)
            <6>1. Len(toServer) \in Nat \ {0} /\ Head(toServer) = toServer[1]
              BY <1>1, <1>2, TakeFirst
            <6>2. QED
              BY <6>1
          <5>2. QED
            BY <1>1, <5>1 DEF UnderWay
        <4>4. /\ data[1] = Len(got[d]) + 1
              /\ Covered(toServer', d, Last(data), fed[d])
          BY <1>1, <1>2, <2>2, <4>2, <4>3, CoveredTail, FrameSets DEF DownData
        <4> HIDE DEF data
        <4>5. /\ InOrder(data, Len(got[d])) /\ Last(data) = Len(got[d]) + Len(data)
              /\ Len(data) \in Nat \ {0}
          BY <1>2, <1>3, <2>3, <4>4, RunInOrder, RunBounds
        <4>6. WholeWrite(d)
          BY <2>2, <3>3 DEF DownData
        <4>7. StartWrite(d, recv[d] \o data, writes[d], FALSE)
          <5>1. Len(recv[d]) + Len(data) <= Window
            BY <1>6, <3>1 DEF Receive, StartWrite
          <5>2. QED
            BY <3>1, <5>1 DEF Receive
        <4>8. Len(recv[d] \o data) = Len(recv[d]) + Len(data)
          BY <1>2, <1>3
        <4>9. recv[d] \o data # <<>>
          <5>1. PICK x \in Nat, y \in Nat \ {0} : Len(recv[d]) = x /\ Len(data) = y
            BY <1>2, <4>5
          <5>2. Len(recv[d] \o data) = x + y
            BY <4>8, <5>1, Zenon
          <5>3. x + y # 0 /\ Len(<<>>) = 0
            BY <5>1
          <5>4. QED
            BY <5>2, <5>3
        <4>10. writes[d] = <<>>
          BY <1>6, <4>7, <4>9 DEF StartWrite
        <4>11. recv[d] = <<>>
          BY <4>6, <4>10 DEF WholeWrite
        <4>12. recv[d] \o data = data
          BY <1>3, <4>11
        <4>13. recv'[d] = data /\ data # <<>> /\ writes'[d] = <<Len(data)>>
          <5>1. recv'[d] = data /\ data # <<>>
            BY <4>7, <4>9, <4>12 DEF StartWrite, TypeOK
          <5>2. writes'[d] = Append(<<>>, Len(data))
            BY <4>7, <4>10, <4>12, <5>1 DEF StartWrite, TypeOK
          <5>3. QED
            BY <4>5, <5>1, <5>2
        <4>14. got'[d] = got[d] \o data
          BY <4>1, <4>7, <4>12 DEF StartWrite, TypeOK
        <4>15. Len(got'[d]) = Last(data)
          <5>1. Len(got[d] \o data) = Len(got[d]) + Len(data)
            BY <1>2, <1>3
          <5>2. QED
            BY <4>5, <4>14, <5>1
        <4>16. InOrder(got'[d], 0)
          <5>1. InOrder(got[d], 0)
            BY <2>2 DEF DownData
          <5>2. InOrder(data, 0 + Len(got[d]))
            BY <1>2, <4>5
          <5>3. QED
            BY <1>2, <1>3, <4>14, <5>1, <5>2, AddsOn
        <4>17. WholeWrite(d)'
          BY <4>13 DEF WholeWrite
        <4>18. DownData(d)'
          BY <1>1, <2>3, <4>4, <4>15, <4>16, <4>17 DEF DownData
        <4>19. QED
          BY <1>4, <4>18 DEF DownInv
      <3>4. QED
        BY <3>2, <3>3
    <2>6. QED
      BY <2>4, <2>5
  <1>7. QED
    BY <1>5, <1>6

\* Every step keeps the downstream invariant.
LEMMA DownStep ==
  TypeOK /\ Accounts /\ UpHolds /\ DownHolds /\ [Next]_vars => DownHolds'
  <1> SUFFICES ASSUME TypeOK, Accounts, UpHolds, DownHolds, [Next]_vars, NEW d \in Conns
               PROVE  DownInv(d)'
    BY DEF DownHolds
  <1>1. UpInv(d) /\ DownInv(d)
    BY DEF UpHolds, DownHolds
  <1>2. QED
    BY <1>1, DownSteps, DownUntouched, DownReceives, DownWritten, DownSends

(***************************************************************************)
(* Nothing is taken back: neither what the local service sent, nor what    *)
(* the client was given.                                                   *)
(***************************************************************************)
LEMMA DownGrows ==
  ASSUME TypeOK, [Next]_vars, NEW d \in Conns
  PROVE  /\ d \in downSpoilt => d \in downSpoilt'
         /\ fed'[d] >= fed[d]
         /\ Len(got'[d]) >= Len(got[d])
  <1>1. fed[d] \in Nat /\ Len(got[d]) \in Nat /\ got[d] \in Seq(1..MaxDown)
    BY DownType
  <1>2. CASE DownIdle(d)
    BY <1>1, <1>2 DEF DownIdle
  <1>3. ASSUME NEW buf \in Seq(1..MaxDown), NEW queue, NEW spoils,
               StartWrite(d, buf, queue, spoils), fed' = fed
        PROVE  /\ d \in downSpoilt => d \in downSpoilt'
               /\ fed'[d] >= fed[d]
               /\ Len(got'[d]) >= Len(got[d])
    <2>1. got'[d] \in {got[d], got[d] \o buf} /\ downSpoilt \subseteq downSpoilt'
      BY <1>3 DEF StartWrite, TypeOK
    <2>2. Len(got[d] \o buf) = Len(got[d]) + Len(buf) /\ Len(buf) \in Nat
      BY <1>1
    <2>3. PICK m \in Nat, n \in Nat : Len(got[d]) = m /\ Len(buf) = n
      BY <1>1, <2>2
    <2>4. Len(got[d] \o buf) = m + n
      BY <2>2, <2>3, Zenon
    <2>5. Len(got[d] \o buf) >= m
      BY <2>4
    <2>6. Len(got'[d]) >= m
      <3>1. CASE got'[d] = got[d]
        BY <2>3, <3>1
      <3>2. CASE got'[d] = got[d] \o buf
        BY <2>5, <3>2, Zenon
      <3>3. QED
        BY <2>1, <3>1, <3>2
    <2>7. QED
      BY <1>1, <1>3, <2>1, <2>3, <2>6
  <1>4. CASE WriteDone(d)
    <2>1. /\ writes[d] \in Seq(Nat \ {0}) /\ writes[d] # <<>>
          /\ recv[d] \in Seq(1..MaxDown) /\ fed' = fed
      BY <1>4, DownType DEF WriteDone
    <2>2. Head(writes[d]) \in Nat
      BY <2>1, TakeFirst
    <2>3. Head(writes[d]) <= Len(recv[d])
            => SubSeq(recv[d], Head(writes[d]) + 1, Len(recv[d])) \in Seq(1..MaxDown)
      BY <2>1, <2>2, DropFirst
    <2>4. <<>> \in Seq(1..MaxDown)
      BY EmptySeq
    <2>5. \E buf \in Seq(1..MaxDown) : \E queue, spoils : StartWrite(d, buf, queue, spoils)
      <3>1. CASE Head(writes[d]) <= Len(recv[d])
        <4> DEFINE buf == SubSeq(recv[d], Head(writes[d]) + 1, Len(recv[d]))
        <4>1. ~(Head(writes[d]) > Len(recv[d]))
          BY <2>1, <2>2, <3>1
        <4>2. StartWrite(d, buf, Tail(writes[d]), FALSE)
          BY <1>4, <4>1, Zenon DEF WriteDone
        <4>3. buf \in Seq(1..MaxDown)
          BY <2>3, <3>1
        <4> HIDE DEF buf
        <4>4. QED
          BY <4>2, <4>3
      <3>2. CASE ~(Head(writes[d]) <= Len(recv[d]))
        BY <1>4, <2>4, <3>2 DEF WriteDone
      <3>3. QED
        BY <3>1, <3>2
    <2>6. QED
      BY <1>3, <2>1, <2>5
  <1>5. CASE FrameData(d)
    <2>1. Head(toServer).data \in Seq(1..MaxDown) /\ fed' = fed
      BY <1>5, TakeType DEF FrameData, DownFrames
    <2>2. CASE d \in connections
      <3> DEFINE joined == recv[d] \o Head(toServer).data
                 fits == Len(recv[d]) + Len(Head(toServer).data) <= Window
      <3>1. recv[d] \in Seq(1..MaxDown)
        BY DownType
      <3>2. joined \in Seq(1..MaxDown)
        BY <2>1, <3>1
      <3>3. StartWrite(d, IF fits THEN joined ELSE recv[d], writes[d], ~fits)
        BY <1>5, <2>2 DEF FrameData, Receive
      <3> HIDE DEF joined, fits
      <3>4. QED
        BY <1>3, <2>1, <3>1, <3>2, <3>3
    <2>3. CASE d \notin connections
      BY <1>1, <1>5, <2>1, <2>3 DEF FrameData
    <2>4. QED
      BY <2>2, <2>3
  <1>6. CASE LocalSends(d)
    <2>1. PICK n \in 1..Least(ReadMax, MaxDown - fed[d]) :
            /\ fed' = Set(fed, d, fed[d] + n)
            /\ Replies(Frame("DATA", d, Bytes(fed[d], n)))
      BY <1>6 DEF LocalSends
    <2>2. fed'[d] = fed[d] + n /\ got' = got
      BY <1>6, <2>1 DEF LocalSends, TypeOK
    <2>3. n \in Nat
      <3>1. fed[d] \in 0..MaxDown /\ MaxDown \in Nat /\ ReadMax \in Nat
        BY SizesAssumption DEF TypeOK
      <3>2. QED
        BY <3>1 DEF Least
    <2>4. downSpoilt \subseteq downSpoilt'
      BY <2>1 DEF Replies
    <2>5. QED
      BY <1>1, <2>2, <2>3, <2>4
  <1>7. QED
    BY <1>2, <1>4, <1>5, <1>6, DownSteps

(***************************************************************************)
(* Every step gives the client the next bytes of the local service, or     *)
(* none, or spoils the connection.                                         *)
(***************************************************************************)
LEMMA DownDelivers ==
  ASSUME TypeOK, DownHolds, [Next]_vars, TypeOK', DownHolds'
  PROVE  Downstream!Next
  <1>1. ASSUME NEW c \in Conns, c \notin downSpoilt'
        PROVE  \E n \in 0..(fed'[c] - Len(got[c])) : Downstream!Deliver(c, n)
    <2>1. c \notin downSpoilt /\ Len(got'[c]) >= Len(got[c])
      BY <1>1, DownGrows
    <2>2. InOrder(got[c], 0) /\ InOrder(got'[c], 0) /\ Len(got'[c]) <= fed'[c]
      BY <1>1, <2>1 DEF DownHolds, DownInv, DownData
    <2>3. got[c] \in Seq(Nat) /\ got'[c] \in Seq(Nat)
      <3>1. got[c] \in Seq(1..MaxDown) /\ got'[c] \in Seq(1..MaxDown)
        BY DEF TypeOK
      <3>2. 1..MaxDown \subseteq Nat
        BY SizesAssumption
      <3>3. QED
        BY <3>1, <3>2, WiderBytes, Zenon
    <2>4. PICK m \in Nat, n \in Nat : Len(got[c]) = m /\ Len(got'[c]) = n
      BY <2>3
    <2>5. got'[c] = got[c] \o Bytes(m, n - m)
      BY <2>1, <2>2, <2>3, <2>4, RunsOn
    <2>6. fed'[c] \in Nat
      BY SizesAssumption DEF TypeOK
    <2>7. n - m \in 0..(fed'[c] - Len(got[c]))
      BY <2>1, <2>2, <2>4, <2>6
    <2>8. Downstream!Deliver(c, n - m)
      BY <2>4, <2>5 DEF Downstream!Deliver, Downstream!Bytes, Bytes
    <2>9. QED
      BY <2>7, <2>8
  <1>2. downSpoilt \subseteq downSpoilt' /\ \A c \in Conns : fed'[c] >= fed[c]
    BY DownGrows DEF TypeOK
  <1>3. QED
    BY <1>1, <1>2 DEF Downstream!Next

\* Nothing is sent in the beginning.
LEMMA DownInit == Init => DownHolds /\ Downstream!Init
  <1> SUFFICES ASSUME Init PROVE DownHolds /\ Downstream!Init
    OBVIOUS
  <1>1. \A c \in Conns : /\ ~UnderWay(<<>>, c) /\ Ordered(<<>>, c, 0, 0)
                         /\ InOrder(<<>>, 0)
    BY DEF UnderWay, Ordered, InOrder
  <1>2. ASSUME NEW c \in Conns PROVE DownInv(c)
    BY <1>1 DEF Init, DownInv, DownData, NothingFed, WholeWrite, HasClient
  <1>3. QED
    BY <1>2 DEF Init, DownHolds, Downstream!Init

(***************************************************************************)
(* Service to client: the client is given the bytes of the local service   *)
(* in order, none twice and none skipped, until the agent loses a frame,   *)
(* recv_buffer has no room, or a write starts while another is under way.  *)
(***************************************************************************)
THEOREM DownstreamImplementsStream == Spec => DownstreamInOrder
  <1>1. Init => UpHolds /\ DownHolds /\ Downstream!Init
    BY UpInit, DownInit
  <1>2. TypeOK /\ Accounts /\ AllWindowed /\ UpHolds /\ [Next]_vars => UpHolds'
    BY UpStep
  <1>3. TypeOK /\ Accounts /\ UpHolds /\ DownHolds /\ [Next]_vars => DownHolds'
    BY DownStep
  <1>4. TypeOK /\ DownHolds /\ [Next]_vars /\ TypeOK' /\ DownHolds'
        => [Downstream!Next]_(Downstream!vars)
    BY DownDelivers
  <1>5. QED
    BY <1>1, <1>2, <1>3, <1>4, TypeCorrect, AccountsHold, AlwaysWindowed, PTL
    DEF Spec, DownstreamInOrder, Downstream!Spec
=============================================================================
