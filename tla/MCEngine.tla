------------------------------ MODULE MCEngine ------------------------------
(* Instances of Engine for TLC. *)
EXTENDS Engine, TLC

Symmetry == Permutations(Workers)

NoCaps == [c \in Collections |-> NoCap]
CapOne == [c \in Collections |-> 1]

=============================================================================
