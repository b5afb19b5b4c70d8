--------------------------- MODULE MCTunnelRegistry ---------------------------
(***************************************************************************)
(* An instance of TunnelRegistry for TLC.                                  *)
(***************************************************************************)
EXTENDS TunnelRegistry

TunnelSymmetry == Permutations(Tunnels)
=============================================================================
