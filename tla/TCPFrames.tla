------------------------------ MODULE TCPFrames ------------------------------
(***************************************************************************)
(* The bytes of the frames that carry TCP connections over the link of an  *)
(* agent: written and read by tcp_protocol.cpp (server), written and read  *)
(* by hand in TCPForwarder and HTTP2Session (agent) and in TCPProxy        *)
(* (server), and the other format of ProtocolMultiplexer.                  *)
(*                                                                         *)
(* A byte is a number below Base.  A connection id, 16 bytes that nobody   *)
(* looks into, is one symbol outside the bytes, so that the 19 bytes of an *)
(* OPEN are 4 symbols here, the 25 of a DATA header 10 and the 21 of an    *)
(* ERROR header 6.  An exception is the value Thrown.                      *)
(***************************************************************************)
EXTENDS Naturals, Sequences, SequencesExt, Powers

CONSTANTS
  Base,          \* values of a byte, 256 in the code
  LittleEndian,  \* whether htons() and htonl() swap, as they do on x86 and ARM
  MaxData        \* 65536, the longest DATA that the agent believes

\* the frame types are bytes themselves
ASSUME BaseAssumption == Base \in Nat /\ Base > 20
ASSUME HostAssumption == LittleEndian \in BOOLEAN /\ MaxData \in Nat

TCP_OPEN == 16
TCP_DATA == 17
TCP_CLOSE == 18
TCP_ERROR == 19
TCP_ACK == 20

MUX_DATA == 1
MUX_CLOSE == 2
MUX_ERROR == 3
MUX_WINDOW == 4

Thrown == [type |-> 0]

-----------------------------------------------------------------------------
\* Numbers of n bytes: the most significant byte first, in memory, and the
\* number that has the bytes of x in network order

Bytes(x, n) == [i \in 1..n |-> (x \div Power(Base, n - i)) % Base]
Number(bs) == FoldLeft(LAMBDA acc, b : acc * Base + b, 0, bs)
InMemory(x, n) == IF LittleEndian THEN Reverse(Bytes(x, n)) ELSE Bytes(x, n)
Net(x, n) == IF LittleEndian THEN Number(Reverse(Bytes(x, n))) ELSE x

\* n bytes from place i on
Field(bs, i, n) == Number(SubSeq(bs, i, i + n - 1))

-----------------------------------------------------------------------------
\* tcp_protocol: serialize().  All but DATA call hton and then write the high
\* byte first.

SerializeOpen(f) == <<TCP_OPEN, f.id>> \o Bytes(Net(f.port, 2), 2)

SerializeData(f) ==
  <<TCP_DATA, f.id>> \o Bytes(f.seq, 4) \o Bytes(Len(f.data), 4) \o f.data

SerializeClose(f) == <<TCP_CLOSE, f.id>> \o Bytes(Net(f.reason, 2), 2)

SerializeError(f) ==
  <<TCP_ERROR, f.id>> \o Bytes(Net(f.code, 2), 2) \o Bytes(Net(Len(f.message), 2), 2)
    \o f.message

SerializeAck(f) ==
  <<TCP_ACK, f.id>> \o Bytes(Net(f.seq, 4), 4) \o Bytes(Net(f.window, 4), 4)

Serialize(f) ==
  CASE f.type = TCP_OPEN  -> SerializeOpen(f)
    [] f.type = TCP_DATA  -> SerializeData(f)
    [] f.type = TCP_CLOSE -> SerializeClose(f)
    [] f.type = TCP_ERROR -> SerializeError(f)
    [] f.type = TCP_ACK   -> SerializeAck(f)

\* tcp_protocol: deserialize(), which puts the high byte first and then calls
\* ntoh.  It undoes serialize() of the frames above, but not that of DATA.

DeserializeOpen(bs) ==
  IF Len(bs) < 4 \/ bs[1] # TCP_OPEN THEN Thrown
  ELSE [type |-> TCP_OPEN, id |-> bs[2], port |-> Net(Field(bs, 3, 2), 2)]

DeserializeData(bs) ==
  IF Len(bs) < 10 \/ bs[1] # TCP_DATA THEN Thrown
  ELSE LET length == Net(Field(bs, 7, 4), 4)
       IN  IF Len(bs) < (10 + length) % Power(Base, 4) THEN Thrown
           ELSE [type |-> TCP_DATA, id |-> bs[2], seq |-> Net(Field(bs, 3, 4), 4),
                 data |-> SubSeq(bs, 11, 10 + length)]

DeserializeClose(bs) ==
  IF Len(bs) < 4 \/ bs[1] # TCP_CLOSE THEN Thrown
  ELSE [type |-> TCP_CLOSE, id |-> bs[2], reason |-> Net(Field(bs, 3, 2), 2)]

\* Faulty: the length is taken as it stands
FaultyDeserializeError(bs) ==
  IF Len(bs) < 6 \/ bs[1] # TCP_ERROR THEN Thrown
  ELSE LET length == Field(bs, 5, 2)
       IN  IF Len(bs) < 6 + length THEN Thrown
           ELSE [type |-> TCP_ERROR, id |-> bs[2], code |-> Net(Field(bs, 3, 2), 2),
                 message |-> SubSeq(bs, 7, 6 + length)]

DeserializeError(bs) ==
  IF Len(bs) < 6 \/ bs[1] # TCP_ERROR THEN Thrown
  ELSE LET length == Net(Field(bs, 5, 2), 2)
       IN  IF Len(bs) < 6 + length THEN Thrown
           ELSE [type |-> TCP_ERROR, id |-> bs[2], code |-> Net(Field(bs, 3, 2), 2),
                 message |-> SubSeq(bs, 7, 6 + length)]

DeserializeAck(bs) ==
  IF Len(bs) < 10 \/ bs[1] # TCP_ACK THEN Thrown
  ELSE [type |-> TCP_ACK, id |-> bs[2], seq |-> Net(Field(bs, 3, 4), 4),
        window |-> Net(Field(bs, 7, 4), 4)]

\* The caller chooses the reader by get_frame_type().
Deserialize(bs) ==
  CASE bs = <<>>           -> Thrown
    [] bs[1] = TCP_OPEN    -> DeserializeOpen(bs)
    [] bs[1] = TCP_DATA    -> DeserializeData(bs)
    [] bs[1] = TCP_CLOSE   -> DeserializeClose(bs)
    [] bs[1] = TCP_ERROR   -> DeserializeError(bs)
    [] bs[1] = TCP_ACK     -> DeserializeAck(bs)

-----------------------------------------------------------------------------
\* HTTP2Session of the agent: frames cut out of what one read brought

IsTcpFrame(bs) == bs # <<>> /\ bs[1] \in TCP_OPEN..TCP_ACK

\* 0 stands for a frame whose header is not complete or not believed.
\* Faulty: the length is expected where the sequence number is
FaultyFrameSize(bs) ==
  CASE bs[1] \in {TCP_OPEN, TCP_CLOSE} -> 4
    [] bs[1] = TCP_ACK -> 10
    [] bs[1] = TCP_DATA -> IF Len(bs) >= 10 /\ Field(bs, 3, 4) <= MaxData
                           THEN 10 + Field(bs, 3, 4) ELSE 0
    [] bs[1] = TCP_ERROR -> IF Len(bs) >= 6 THEN 6 + Field(bs, 5, 2) ELSE 0

FrameSize(bs) ==
  CASE bs[1] \in {TCP_OPEN, TCP_CLOSE} -> 4
    [] bs[1] = TCP_ACK -> 10
    [] bs[1] = TCP_DATA -> IF Len(bs) >= 10 /\ Field(bs, 7, 4) <= MaxData
                           THEN 10 + Field(bs, 7, 4) ELSE 0
    [] bs[1] = TCP_ERROR -> IF Len(bs) >= 6 THEN 6 + Field(bs, 5, 2) ELSE 0

\* handle_tcp_frame(): what the forwarder is told
Handled(bs) ==
  CASE bs[1] = TCP_OPEN  -> [type |-> TCP_OPEN, id |-> bs[2], port |-> Field(bs, 3, 2)]
    [] bs[1] = TCP_DATA  -> [type |-> TCP_DATA, id |-> bs[2],
                             data |-> SubSeq(bs, 11, 10 + Field(bs, 7, 4))]
    [] bs[1] = TCP_CLOSE -> [type |-> TCP_CLOSE, id |-> bs[2]]
    [] bs[1] = TCP_ERROR -> [type |-> TCP_ERROR, id |-> bs[2], code |-> Field(bs, 3, 2)]
    [] bs[1] = TCP_ACK   -> [type |-> TCP_ACK]

\* process_tcp_frames(): the frames handled, and the bytes they take
ProcessTcpFrames(bs) ==
  LET from[o \in 0..Len(bs)] ==
        LET rest == SubSeq(bs, o + 1, Len(bs))
            size == IF IsTcpFrame(rest) THEN FrameSize(rest) ELSE 0
        IN  IF size = 0 \/ Len(rest) < size
            THEN [consumed |-> o, frames |-> <<>>]
            ELSE [consumed |-> from[o + size].consumed,
                  frames |-> <<Handled(SubSeq(rest, 1, size))>> \o from[o + size].frames]
  IN  from[0]

-----------------------------------------------------------------------------
\* TCPForwarder of the agent: frames written from memory after hton

SendTcpDataFrame(f) ==
  <<TCP_DATA, f.id>> \o InMemory(Net(f.seq, 4), 4) \o InMemory(Net(Len(f.data), 4), 4)
    \o f.data

SendTcpCloseFrame(f) == <<TCP_CLOSE, f.id>> \o InMemory(Net(f.reason, 2), 2)

\* TCPProxy::handle_agent_tcp_frame(): one frame of what the server has read
HandleAgentTcpFrame(bs) ==
  CASE Len(bs) < 2 -> Thrown
    [] bs[1] = TCP_DATA /\ Len(bs) >= 10 ->
         LET length == Field(bs, 7, 4)
         IN  IF Len(bs) < (10 + length) % Power(Base, 4) THEN Thrown
             ELSE [type |-> TCP_DATA, id |-> bs[2], data |-> SubSeq(bs, 11, 10 + length)]
    [] bs[1] = TCP_CLOSE -> [type |-> TCP_CLOSE, id |-> bs[2]]
    [] bs[1] = TCP_ERROR /\ Len(bs) >= 6 ->
         [type |-> TCP_ERROR, id |-> bs[2], code |-> Field(bs, 3, 2)]
    [] OTHER -> Thrown

-----------------------------------------------------------------------------
\* ProtocolMultiplexer::TCPFrame: the id is a string with its length, and
\* every number has its high byte first

MuxSerialize(f) ==
  <<f.type>> \o Bytes(Len(f.id), 2) \o f.id \o Bytes(Len(f.payload), 4) \o f.payload

MuxDeserialize(bs) ==
  LET ids == Field(bs, 2, 2)
      size == Field(bs, 4 + ids, 4)
  IN  CASE Len(bs) < 7 -> Thrown
        [] Len(bs) >= 7 /\ 7 + ids > Len(bs) -> Thrown
        [] Len(bs) >= 7 /\ 7 + ids <= Len(bs) ->
             IF 7 + ids + size > Len(bs) THEN Thrown
             ELSE [type |-> bs[1], id |-> SubSeq(bs, 4, 3 + ids),
                   payload |-> SubSeq(bs, 8 + ids, 7 + ids + size)]

\* output_buffer_ after a frame was sent: data, an error text, nothing for a
\* close, four bytes for a window
MuxSendData(out, id, data) ==
  out \o MuxSerialize([type |-> MUX_DATA, id |-> id, payload |-> data])
MuxSendClose(out, id) ==
  out \o MuxSerialize([type |-> MUX_CLOSE, id |-> id, payload |-> <<>>])
MuxSendError(out, id, text) ==
  out \o MuxSerialize([type |-> MUX_ERROR, id |-> id, payload |-> text])
MuxSendWindow(out, id, window) ==
  out \o MuxSerialize([type |-> MUX_WINDOW, id |-> id, payload |-> Bytes(window, 4)])
=============================================================================
