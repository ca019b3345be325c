---------------------------- MODULE MCImportParse ----------------------------
(* Model values and bounds for ImportParse.                                *)
EXTENDS ImportParse, TLC

CONSTANTS b1, b2, i1, i2, i3, k1, k2

TwoBatches == {b1, b2}
ThreeItems == {i1, i2, i3}
TwoContents == {k1, k2}
ThreeContents == {i1, i2, i3}

(* Two files with the same content, and a third one.                       *)
Duplicates == [i \in Item |-> IF i = i3 THEN k2 ELSE k1]

(* Every file a content of its own, named like the file.                   *)
AllDistinct == [i \in Item |-> i]

FirstTwo == {i1, i2}
Everything == {"cancel", "fault", "restart"}
OnlyCancel == {"cancel"}
CancelAndFault == {"cancel", "fault"}
Nothing == {}

=============================================================================
