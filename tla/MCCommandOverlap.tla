-------------------------- MODULE MCCommandOverlap --------------------------
(* The instances of MCProtectedCommand, with the history of overlaps.      *)
EXTENDS MCProtectedCommand, CommandOverlap

=============================================================================
