---------------------------- MODULE MCNotification ----------------------------
(* Two CPUs race in the kernel; the third thread is the one they wake.      *)
EXTENDS Notification, TLC

CONSTANTS p1, p2, t1, t2, t3

MCCPU == {p1, p2}
MCThread3 == {t1, t2, t3}
=============================================================================
