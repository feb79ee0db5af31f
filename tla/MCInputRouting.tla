--------------------------- MODULE MCInputRouting ---------------------------
(* The instance of InputRouting that TLC checks. *)
EXTENDS InputRouting, TLC

Conns == Permutations(ConnId)
=============================================================================
