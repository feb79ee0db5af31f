--------------------------- MODULE MCServerLocks ---------------------------
(* ServerLocks for TLC: the connections are interchangeable. *)
EXTENDS ServerLocks, TLC

Conns == Permutations(ConnId)
=============================================================================
