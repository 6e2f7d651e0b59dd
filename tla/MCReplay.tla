------------------------------ MODULE MCReplay ------------------------------
(* Instance of Replay: every log up to MaxLog entries over one document and *)
(* two interchangeable transaction ids.                                     *)
EXTENDS Replay

Symmetry == Permutations(TxIds)

=============================================================================
