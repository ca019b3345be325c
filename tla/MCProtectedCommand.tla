------------------------- MODULE MCProtectedCommand -------------------------
(* Model values and bounds for ProtectedCommand.                           *)
EXTENDS RecoveryReconciliation, TLC

CONSTANTS c1, c2, c3, e1

ThreeCommands == {c1, c2, c3}
TwoCommands == {c1, c2}
OneEntity == {e1}
Everything == {"cancel", "fault", "restart"}
Nothing == {}

(* Commands are interchangeable: no definition orders or names them.       *)
CommandSymmetry == Permutations(Command)

=============================================================================
