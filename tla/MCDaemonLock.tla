---------------------------- MODULE MCDaemonLock ----------------------------
(* DaemonLock on a small instance. *)
EXTENDS DaemonLock, TLC

CONSTANTS p1, p2, p3, p4

MCThree == {p1, p2, p3}
MCFour == {p1, p2, p3, p4}
SymmetryFour == Permutations(MCFour)

\* The lock of a daemon that died while it ran.
MCStale == {Lock(Ghost, TRUE)}
MCNoLock == {None}
=============================================================================
