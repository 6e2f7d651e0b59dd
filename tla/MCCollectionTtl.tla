-------------------------- MODULE MCCollectionTtl --------------------------
(* Instances of CollectionTtl for TLC. *)
EXTENDS CollectionTtl

=============================================================================
