--------------------------- MODULE MCDiskStorage ---------------------------
(* Instances of DiskStorage for TLC. *)
EXTENDS DiskStorage

=============================================================================
