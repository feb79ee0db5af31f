------------------------------ MODULE MCRelay ------------------------------
(* RelayPool for TLC: three names for every party. *)
EXTENDS RelayPool

Names == Party \X (1 .. 3)
OwnerOf == [c \in Names |-> c[1]]
OfWorkers == Worker \X (1 .. 3)
=============================================================================
