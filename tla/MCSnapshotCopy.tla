---------------------------- MODULE MCSnapshotCopy ----------------------------
(* Model values for SnapshotCopy.                                           *)
EXTENDS SnapshotCopy, TLC

CONSTANTS i1, i2, x, y

TwoItems == {i1, i2}
Bytes == {x, y}
ItemsAndBytes == Permutations(TwoItems) \cup Permutations(Bytes)

=============================================================================
