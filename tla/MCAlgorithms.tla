----------------------------- MODULE MCAlgorithms -----------------------------
(***************************************************************************)
(* Samples of the inputs of Algorithms: all of them in small ranges, with  *)
(* bytes of 5 bits in the frames and of 2 bits in the addresses.           *)
(***************************************************************************)
EXTENDS Algorithms

UpTo(S, n) == UNION {[1..k -> S] : k \in 0..n}

-----------------------------------------------------------------------------
Ids == {Base + 1, Base + 2}
Long == [i \in 1..Base + 2 |-> i % Base]
Numbers2 == {0, 1, Base - 1, Base, Base + 1, 1000}
Numbers4 == Numbers2 \cup {Base^2, Base^3 + 5, 70000}
Texts == {<<>>, <<7>>, <<TCP_DATA, 0, 3>>, Long}

SomeFrames ==
  [type : {TCP_OPEN}, id : Ids, port : Numbers2]
    \cup [type : {TCP_CLOSE}, id : Ids, reason : 0..5]
    \cup [type : {TCP_ERROR}, id : Ids, code : 1..5, message : Texts]
    \cup [type : {TCP_ACK}, id : Ids, seq : Numbers4, window : Numbers4]

SomeMuxSends == [id : {<<>>, <<1>>, <<1, 2, 3>>, Long}, data : Texts, window : Numbers4]

ServerFrames ==
  [type : {TCP_OPEN}, id : Ids, port : {0}]
    \cup [type : {TCP_DATA}, id : {Base + 1}, seq : {0, Base + 3}, data : {<<>>, <<TCP_OPEN>>}]
    \cup [type : {TCP_DATA}, id : {Base + 2}, seq : {1}, data : {<<1, 2>>, Long}]

SomeFlows ==
  UNION {[frames : {fs}, cut : 0..Len(Written(fs))] : fs \in UpTo(ServerFrames, 3)}

AgentFrames ==
  [type : {TCP_DATA}, id : Ids, seq : Numbers4, data : Texts]
    \cup [type : {TCP_CLOSE}, id : Ids, reason : {0, 3}]
SomeReplies == [frame : AgentFrames, rest : {<<>>, <<TCP_OPEN, Base + 1, 0, 0>>, <<1>>}]

-----------------------------------------------------------------------------
V4 == [type : {"v4"}, bytes : [1..V4Bytes -> 0..2^ByteBits - 1]]
V6 == [type : {"v6"}, bytes : [1..V6Bytes -> {0, 2}]]
Ips == V4 \cup V6 \cup {Unparsed}
Entries ==
  [ip : V4, prefix : -1..Bits("v4") + 1 \cup {NoPrefix, BadPrefix}]
    \cup [ip : {[type |-> "v6", bytes |-> <<2, 2, 0>>]}, prefix : -1..Bits("v6") + 1]
    \cup [ip : {Unparsed}, prefix : {NoPrefix, 0, 2}]
Seconds ==
  [ip : {[type |-> "v4", bytes |-> <<2, 2>>], Unparsed}, prefix : {0, 3, NoPrefix, BadPrefix}]
SomeClients ==
  [entries : UpTo(Entries, 1) \cup {<<e, f>> : e \in Entries, f \in Seconds}, ip : Ips]

-----------------------------------------------------------------------------
Rising(n, last) == {t \in [1..n -> 0..last] : \A i \in 2..n : t[i - 1] <= t[i]}
Allow == [op |-> "allow", rate |-> 0, burst |-> 0]
Ops == {Allow, [op |-> "set", rate |-> 2, burst |-> 1], [op |-> "set", rate |-> 0, burst |-> 0],
        [op |-> "remove", rate |-> 0, burst |-> 0], [op |-> "reset", rate |-> 0, burst |-> 0]}
At(ops, times) ==
  [i \in DOMAIN ops |-> [op |-> ops[i].op, rate |-> ops[i].rate, burst |-> ops[i].burst, at |-> times[i]]]
SomeCalls ==
  {At(ops, times) : ops \in [1..4 -> Ops], times \in Rising(4, 4)}
    \cup {At(ops, times) : ops \in {<<set, Allow, Allow, Allow, Allow, Allow>> : set \in Ops},
                           times \in Rising(6, 5)}

-----------------------------------------------------------------------------
TunnelIds == {<<"api">>, <<"web">>, <<"api:tcp:80">>}
Lists == {<<>>, <<[ip |-> [type |-> "v4", bytes |-> <<2, 0>>], prefix |-> 1]>>,
          <<[ip |-> Unparsed, prefix |-> NoPrefix]>>}
Names == {<<>>, <<"api">>, <<"api", "ex">>, <<"web", "api">>, <<"api2", "ex">>, <<"api:tcp:80">>}
Headers == [name : {"Host", "host", "Accept"}, value : Names]
Twice == {<<[name |-> a, value |-> <<"api", "ex">>], [name |-> b, value |-> <<"web">>]>> :
            a \in {"Host", "host"}, b \in {"Host", "host"}}
SomeRequests ==
  [headers : UpTo(Headers, 1) \cup Twice, path : {"/", "/health"},
   tunnels : UNION {[S -> Lists] : S \in SUBSET TunnelIds}, gone : {{}, {<<"api">>}},
   client : {[type |-> "v4", bytes |-> <<3, 1>>], [type |-> "v4", bytes |-> <<0, 0>>]},
   connected : {{}, {<<"api">>, <<"web">>}}]

-----------------------------------------------------------------------------
Domains ==
  [wild : {FALSE}, name : {<<"x">>, <<"a", "x">>}] \cup [wild : {TRUE}, name : {<<"x">>, <<"a", "x">>}]
LoadOps == [op : {"load", "reload"}, domain : Domains] \cup [op : {"all"}, domain : {NoDomain}]
SomeLoads ==
  [ops : {[i \in DOMAIN ops |-> [op |-> ops[i].op, domain |-> ops[i].domain,
                                 version |-> IF i \in bad THEN Missing ELSE i]] :
            ops \in UpTo(LoadOps, 3), bad \in {{}, {2}, {3}}},
   sni : {<<>>, <<"x">>, <<"a", "x">>, <<"b", "x">>, <<"b", "a", "x">>, <<"", "x">>}]
=============================================================================
