--------------------------- MODULE MCConflictView ---------------------------
(***************************************************************************)
(* Instances of ConflictView for TLC.                                      *)
(***************************************************************************)
EXTENDS ConflictView, TLC

Symmetry == Permutations(Record) \cup Permutations(Slot)
=============================================================================
