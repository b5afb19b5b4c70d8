------------------------------ MODULE ByteStream ------------------------------
(***************************************************************************)
(* What a tunnelled TCP connection promises in one direction: the bytes    *)
(* one end has put in come out at the other end in order, none twice, none *)
(* skipped, though perhaps not all of them.  A stream that is spoilt       *)
(* promises nothing any more, and it stays spoilt.  Byte number k of a     *)
(* stream is the number k.                                                 *)
(***************************************************************************)
EXTENDS Naturals, Sequences

CONSTANT Conns

VARIABLES
  offered,    \* how many bytes have been put in
  delivered,  \* the bytes that came out
  spoilt      \* connections whose stream is no longer in order

vars == <<offered, delivered, spoilt>>

Init ==
  /\ offered = [c \in Conns |-> 0]
  /\ delivered = [c \in Conns |-> <<>>]
  /\ spoilt = {}

\* The n bytes that follow the first k
Bytes(k, n) == [i \in 1..n |-> k + i]

Deliver(c, n) ==
  delivered'[c] = delivered[c] \o Bytes(Len(delivered[c]), n)

Next ==
  /\ spoilt \subseteq spoilt'
  /\ \A c \in Conns :
       /\ offered'[c] >= offered[c]
       /\ c \in spoilt' \/ \E n \in 0..(offered'[c] - Len(delivered[c])) : Deliver(c, n)

Spec == Init /\ [][Next]_vars
=============================================================================
