--------------------------- MODULE MCDataDirectory ---------------------------
(* Model values for DataDirectory.                                          *)
EXTENDS DataDirectory

CONSTANTS p, q, home, d1, d2

OneProcess == {p}
TwoProcesses == {p, q}
HomeAndTwo == {home, d1, d2}

=============================================================================
