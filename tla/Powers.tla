-------------------------------- MODULE Powers --------------------------------
(***************************************************************************)
(* What shifts and places come to: b << n is b * Power(2, n), and byte n   *)
(* of a number, from the right, counts Power(256, n) times.  A product of  *)
(* n factors, where b^n would have no law that a proof could use.          *)
(***************************************************************************)
EXTENDS Naturals

Power(b, n) ==
  LET product[k \in 0..n] == IF k = 0 THEN 1 ELSE b * product[k - 1]
  IN  product[n]
==============================================================================
