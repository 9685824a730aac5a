------------------------------- MODULE MCMsh -------------------------------
(* Msh on small instances.                                                 *)
EXTENDS MshProperties

\* Every pool entry names its own shared object.
OwnLib == [s \in Scavs |-> s]

\* The first two pool entries name the same object.
SharedLib == [s \in Scavs |-> IF s = 0 THEN 1 ELSE s]

=============================================================================
