--------------------------- MODULE MCTicketLock ---------------------------
(* Three CPUs and counters of five values: the counters wrap many times.   *)
EXTENDS TicketLock

CONSTANTS c1, c2, c3

MCCPU == {c1, c2, c3}
=============================================================================
