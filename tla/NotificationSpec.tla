--------------------------- MODULE NotificationSpec ---------------------------
(***************************************************************************)
(* What a notification promises: a counter of signals nobody has taken yet, *)
(* and a first-come first-served queue of threads that wait for the next    *)
(* signal, which they may also leave by a timeout.  Every operation is one  *)
(* step.  Notification.tla, with the locks of the kernel, implements it.    *)
(***************************************************************************)
EXTENDS Naturals, Sequences, SequencesExt

CONSTANT Thread

VARIABLES
  count,   \* signals not delivered
  queue,   \* waiting threads, in the order in which they blocked
  valid    \* not yet stopped by the recycler

vars == <<count, queue, valid>>

Init == count = 0 /\ queue = <<>> /\ valid = TRUE

(* A waiter finds a signal, or blocks; it may block only if there is none. *)
Take == valid /\ count > 0 /\ count' = count - 1 /\ UNCHANGED <<queue, valid>>
Block(t) ==
  /\ valid /\ count = 0 /\ t \notin ToSet(queue)
  /\ queue' = Append(queue, t)
  /\ UNCHANGED <<count, valid>>

(* A signal wakes the first waiter, or is counted if there is none. *)
Signal ==
  /\ valid
  /\ \/ queue = <<>> /\ count' = count + 1 /\ UNCHANGED queue
     \/ queue # <<>> /\ queue' = Tail(queue) /\ UNCHANGED count
  /\ UNCHANGED valid

Timeout(t) ==
  /\ valid /\ t \in ToSet(queue)
  /\ queue' = SelectSeq(queue, LAMBDA u : u # t)
  /\ UNCHANGED <<count, valid>>

Stop == valid' = FALSE /\ UNCHANGED <<count, queue>>

Next == Take \/ Signal \/ Stop \/ \E t \in Thread : Block(t) \/ Timeout(t)

Spec == Init /\ [][Next]_vars
=============================================================================
