----------------------------- MODULE MCMonitoring -----------------------------
(* Model values and bounds for Monitoring.                                 *)
EXTENDS Monitoring, TLC

CONSTANTS r1, p1, p2, u1

OneRoot == {r1}
OnePath == {p1}
TwoPaths == {p1, p2}
OneRun == {u1}
SameRoot == [p \in Path |-> r1]

(* What may happen besides the normal course.                              *)
ChecksAndUser == {"crash", "fault", "user", "unplug", "import"}
FaultsAndHealth == {"crash", "fault", "health"}
CrashesOnly == {"crash"}
CrashesAndChecks == {"crash", "import"}

=============================================================================
