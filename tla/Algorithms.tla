------------------------------ MODULE Algorithms ------------------------------
(***************************************************************************)
(* The pure parts of the server and the agent, each against a reference    *)
(* that says what it is for.  A step takes one sample of the inputs, or    *)
(* puts it back; the invariants speak of the sample taken.                 *)
(***************************************************************************)
EXTENDS TCPFrames, TunnelMatch, RateLimiter

CONSTANTS
  Frames,     \* frames that tcp_protocol.cpp writes and reads, but DATA
  MuxSends,   \* [id, data, window]
  Flows,      \* [frames, cut]: OPEN and DATA of the server, bytes that arrived
  Replies,    \* [frame, rest]: DATA or CLOSE of the agent, bytes that follow it
  Clients,    \* [entries, ip]
  Calls,      \* sequences of calls on the limiter of a tunnel
  Requests,   \* [headers, path, tunnels, gone, client, connected]
  Loads       \* [ops, sni]: certificates loaded and reloaded, a name asked for

\* The fields are as wide as those of the code, and so what is sent fits them:
\* texts of errors, buffers of one read, the 16 symbols of an id.
Uint(bytes) == 0..Power(Base, bytes) - 1
Payloads == Seq(0..Base - 1)
DataFrames == [type : {TCP_DATA}, id : Nat, seq : Uint(4), data : Payloads]
CloseFrames == [type : {TCP_CLOSE}, id : Nat, reason : Uint(2)]
ASSUME FramesAssumption ==
  \A f \in Frames :
    \/ f \in [type : {TCP_OPEN}, id : Nat, port : Uint(2)] \cup CloseFrames
    \/ f \in [type : {TCP_ACK}, id : Nat, seq : Uint(4), window : Uint(4)]
    \/ /\ f \in [type : {TCP_ERROR}, id : Nat, code : Uint(2), message : Payloads]
       /\ Len(f.message) \in Uint(2)
ASSUME MuxSendsAssumption ==
  \A s \in MuxSends :
    /\ s.id \in Payloads /\ Len(s.id) \in Uint(2)
    /\ s.data \in Payloads /\ Len(s.data) \in Uint(4)
    /\ s.window \in Uint(4)

\* what the server writes of some frames, one after the other; the agent is
\* never told a port, and a read of a client is shorter than MaxData
Written(frames) == FoldLeft(LAMBDA bs, f : bs \o Serialize(f), <<>>, frames)
OpenFrames == [type : {TCP_OPEN}, id : Nat, port : {0}]
ASSUME FlowsAssumption ==
  \A w \in Flows :
    /\ w.frames \in Seq(OpenFrames \cup DataFrames)
    /\ \A i \in DOMAIN w.frames :
         w.frames[i].type = TCP_DATA =>
           Len(w.frames[i].data) \in Uint(4) /\ Len(w.frames[i].data) <= MaxData
    /\ w.cut \in 0..Len(Written(w.frames))
ASSUME RepliesAssumption ==
  \A r \in Replies :
    /\ r.frame \in CloseFrames \cup DataFrames
    /\ r.frame.type = TCP_DATA => Len(r.frame.data) \in Uint(4)
    /\ r.rest \in Seq(Nat)

\* A call reads steady_clock while it holds the mutex.
LimiterCalls ==
  [op : {"allow", "set", "remove", "reset"}, rate : Int, burst : Nat, at : Nat]
ASSUME CallsAssumption ==
  \A calls \in Calls :
    /\ calls \in Seq(LimiterCalls)
    /\ \A i \in 2..Len(calls) : calls[i - 1].at <= calls[i].at

\* inet_pton() gives 4 bytes or 16, std::stoi() a number or an exception.
Octets == 0..Power(2, ByteBits) - 1
Addresses ==
  [type : {"v4"}, bytes : [1..V4Bytes -> Octets]]
    \cup [type : {"v6"}, bytes : [1..V6Bytes -> Octets]]
ListEntries == [ip : Addresses \cup {Unparsed}, prefix : Int \cup {NoPrefix, BadPrefix}]
ASSUME ClientsAssumption ==
  \A c \in Clients : c.entries \in Seq(ListEntries) /\ c.ip \in Addresses \cup {Unparsed}

\* A host name is a sequence of labels; the ids of the tunnels have one each.
HostNames == Seq(STRING)
ASSUME RequestsAssumption ==
  \A r \in Requests :
    /\ r.headers \in Seq([name : STRING, value : HostNames])
    /\ r.client \in Addresses \cup {Unparsed}
    /\ IsFiniteSet(DOMAIN r.tunnels)
    /\ \A id \in DOMAIN r.tunnels : id \in [1..1 -> STRING] /\ r.tunnels[id] \in Seq(ListEntries)

\* A certificate is for a name or for the names under one; "all" names none.
CertificateOps ==
  [op : {"load", "reload"}, domain : [wild : BOOLEAN, name : HostNames \ {NoName}], version : Nat]
    \cup [op : {"all"}, domain : {NoDomain}, version : Nat]
ASSUME LoadsAssumption ==
  \A l \in Loads : l.ops \in Seq(CertificateOps) /\ l.sni \in HostNames

VARIABLE sample

Nothing == [kind |-> "nothing"]

Take(kind, inputs) ==
  /\ sample = Nothing
  /\ \E x \in inputs : sample' = [kind |-> kind, of |-> x]

Init == sample = Nothing

Next ==
  \/ Take("frame", Frames)
  \/ Take("mux", MuxSends)
  \/ Take("flow", Flows)
  \/ Take("reply", Replies)
  \/ Take("client", Clients)
  \/ Take("calls", Calls)
  \/ Take("request", Requests)
  \/ Take("loads", Loads)
  \/ sample # Nothing /\ sample' = Nothing

Spec == Init /\ [][Next]_sample

Is(kind) == sample.kind = kind
x == sample.of

-----------------------------------------------------------------------------
\* Frames

\* what is told of a frame that was handled
Told(f) ==
  CASE f.type = TCP_OPEN  -> [type |-> TCP_OPEN, id |-> f.id, port |-> f.port]
    [] f.type = TCP_DATA  -> [type |-> TCP_DATA, id |-> f.id, data |-> f.data]
    [] f.type = TCP_CLOSE -> [type |-> TCP_CLOSE, id |-> f.id]

\* What serialize() wrote, deserialize() reads back, and every shorter piece
\* of it is refused: so the numbers that one side swaps twice are swapped
\* twice by the other.  DATA is not among the frames: its deserialize() undoes
\* a swap that serialize() did not make, and nothing calls it (the proxy and the
\* agent read DATA by their own code, see AgentReadsFrames).  The frames of ProtocolMultiplexer are read one after the other
\* out of the buffer they were queued in.
FramesReadBack ==
  /\ Is("frame") =>
       LET bs == Serialize(x)
       IN  /\ Deserialize(bs) = x
           /\ \A n \in 0..Len(bs) - 1 : Deserialize(SubSeq(bs, 1, n)) = Thrown
  /\ Is("mux") =>
       LET one == MuxSendData(<<>>, x.id, x.data)
           two == MuxSendWindow(one, x.id, x.window)
           three == MuxSendError(two, x.id, x.data)
           four == MuxSendClose(three, x.id)
           at(out) == MuxDeserialize(SubSeq(four, Len(out) + 1, Len(four)))
           mux(type, payload) == [type |-> type, id |-> x.id, payload |-> payload]
       IN  /\ at(<<>>) = mux(MUX_DATA, x.data)
           /\ at(one) = mux(MUX_WINDOW, Bytes(x.window, 4))
           /\ at(two) = mux(MUX_ERROR, x.data)
           /\ at(three) = mux(MUX_CLOSE, <<>>)
           /\ \A n \in 0..Len(one) - 1 : MuxDeserialize(SubSeq(one, 1, n)) = Thrown

\* However the bytes of the server's frames are cut by a read, the agent
\* handles exactly the frames that are complete, in their order and with
\* their data, and leaves the bytes of the others for the next read.  The
\* server reads what the agent writes, whatever bytes follow it.
AgentReadsFrames ==
  /\ Is("flow") =>
       LET whole == {n \in 0..Len(x.frames) : Len(Written(SubSeq(x.frames, 1, n))) <= x.cut}
           n == CHOOSE m \in whole : \A k \in whole : k <= m
           done == ProcessTcpFrames(SubSeq(Written(x.frames), 1, x.cut))
       IN  /\ done.consumed = Len(Written(SubSeq(x.frames, 1, n)))
           /\ done.frames = [i \in 1..n |-> Told(x.frames[i])]
  /\ Is("reply") =>
       LET f == x.frame
           bs == IF f.type = TCP_DATA THEN SendTcpDataFrame(f) ELSE SendTcpCloseFrame(f)
       IN  HandleAgentTcpFrame(bs \o x.rest) = Told(f)

-----------------------------------------------------------------------------
\* Allowlists

AddressNumber(bytes) == FoldLeft(LAMBDA acc, b : acc * Power(2, ByteBits) + b, 0, bytes)

WellFormed(entry) ==
  /\ entry.ip # Unparsed /\ entry.prefix # BadPrefix
  /\ entry.prefix # NoPrefix => entry.prefix \in 0..Bits(entry.ip.type)

\* the address is in the block of the entry: the same high bits, as numbers
Covers(entry, ip) ==
  /\ entry.ip.type = ip.type
  /\ LET prefix == IF entry.prefix = NoPrefix THEN Bits(ip.type) ELSE entry.prefix
         size == Power(2, Bits(ip.type) - prefix)
     IN  AddressNumber(entry.ip.bytes) \div size = AddressNumber(ip.bytes) \div size

LetsIn(entries, ip) ==
  \/ entries = <<>>
  \/ /\ \A i \in DOMAIN entries : WellFormed(entries[i])
     /\ ip # Unparsed
     /\ \E i \in DOMAIN entries : Covers(entries[i], ip)

\* The byte-wise masks and comparisons of IPAllowlist let in exactly the
\* addresses of the blocks, seen as numbers; an entry that is not a block
\* closes the whole list, and an empty list is open.
AllowlistExact == Is("client") => (ValidateIpAllowlist(x.entries, x.ip) <=> LetsIn(x.entries, x.ip))

-----------------------------------------------------------------------------
\* Rate limits

\* Whatever calls came before: the requests admitted between two moments are
\* at most the burst and what the rate gives in between, as long as nobody
\* sets, removes or resets the limit; one that comes a token's time after the
\* last is admitted; and check_limit() says what allow_request() will answer.
RateHonoured ==
  Is("calls") =>
    LET l == History(x)
        allows(i) == x[i].op = "allow"
        admitted(i) == allows(i) /\ Admits(l[i - 1], x[i].at)
    IN  \A i \in DOMAIN x :
          /\ allows(i) /\ l[i - 1] # NoLimiter =>
               (CheckLimit(l[i - 1], x[i].at) <=> admitted(i))
          /\ \A j \in i..Len(x) :
               (\A k \in i..j : allows(k)) =>
                 LET elapsed == (x[j].at - x[i].at) * l[i].rate
                 IN  /\ Cardinality({k \in i..j : admitted(k)}) * Second
                          <= l[i].burst * Second + elapsed
                     /\ j = i + 1 /\ elapsed >= Second => admitted(j)

-----------------------------------------------------------------------------
\* Routing of requests

\* With ids that have no dot in them, the order in which the cache is walked
\* does not matter: a request goes to the agent of the tunnel named by the
\* first label of its host, if that is there, lets the client in and has an
\* agent, and otherwise gets the answer for the first of these that fails.
RequestsDecided ==
  Is("request") =>
    LET host == PlainHost(x.headers)
        named == IF host = NoName THEN NoName ELSE <<host[1]>>
        found == [id \in DOMAIN x.tunnels \ x.gone |-> x.tunnels[id]]
        answer == CASE x.path = "/health" -> "health"
                    [] x.path # "/health" /\ named \notin DOMAIN x.tunnels -> "404"
                    [] x.path # "/health" /\ named \in DOMAIN x.tunnels ->
                         IF named \in x.gone THEN "500"
                         ELSE IF ~LetsIn(x.tunnels[named], x.client) THEN "403"
                         ELSE IF named \in x.connected THEN "agent" ELSE "503"
    IN  \A walk \in SetToSeqs(DOMAIN x.tunnels) :
          HandleRequest([path |-> x.path, host |-> host, client |-> x.client],
                        walk, found, x.connected) = answer

-----------------------------------------------------------------------------
\* Certificates

Loaded(m, op) ==
  CASE op.op = "load"   -> LoadCertificate(m, op.domain, op.version)
    [] op.op = "reload" -> ReloadCertificate(m, op.domain, op.version)
    [] op.op = "all"    -> ReloadAllCertificates(m, op.version)

\* A client that names a host gets the newest version that could be loaded of
\* the certificate of that host, or of the wildcard over its first label, and
\* has_certificate_for_domain() says which hosts these are.  The others get
\* the default, which is a certificate that was the only one when it came.
CertificateFresh ==
  Is("loads") =>
    LET own == -1
        m == FoldLeft(Loaded, NoCertificates(own), x.ops)
        good == {i \in DOMAIN x.ops : x.ops[i].version # Missing}
        known(n) == {x.ops[i].domain : i \in {k \in good : k <= n /\ x.ops[k].op = "load"}}
        all == known(Len(x.ops))
        wild == [wild |-> TRUE, name |-> IF x.sni = NoName THEN NoName ELSE Tail(x.sni)]
        mine == IF Exactly(x.sni) \in all THEN Exactly(x.sni)
                ELSE IF wild \in all THEN wild ELSE NoDomain
        fresh == {i \in good : mine \in known(i) /\ x.ops[i].domain \in {mine, NoDomain}}
        alone == {i \in good : Cardinality(known(i)) = 1 /\ x.ops[i].domain \in known(i) \cup {NoDomain}}
        newest(S) == x.ops[CHOOSE i \in S : \A k \in S : k <= i].version
    IN  \A walk \in SetToSeqs(DOMAIN m.certs) :
          /\ HasCertificateForDomain(walk, x.sni) <=> mine # NoDomain
          /\ GetClientContext(m, walk, x.sni) =
               IF mine # NoDomain THEN newest(fresh)
               ELSE IF alone # {} THEN newest(alone) ELSE own
=============================================================================
