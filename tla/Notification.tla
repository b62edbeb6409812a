----------------------------- MODULE Notification -----------------------------
(***************************************************************************)
(* Notifications and sleeping: kernel/ipc/notification.c with the sleep      *)
(* lists of kernel/irq/timer.c, lock by lock.                               *)
(*                                                                         *)
(* A waiting thread can be woken by a signal and by its timeout.  Signals   *)
(* take notifc_lock, then the thread's queue_lock, then its sleep list's    *)
(* lock; the timer interrupt takes them in the opposite order.  The code    *)
(* avoids the deadlock by try_lock() on the signal's side and -EAGAIN.      *)
(*                                                                         *)
(* The module is written for any set of CPUs.  A CPU in the kernel has      *)
(* interrupts masked, so its timer interrupt comes when it runs in user     *)
(* mode or idles.  A step is what a CPU does between two acquisitions.      *)
(***************************************************************************)
EXTENDS Naturals, Sequences, FiniteSets, SequencesExt

CONSTANTS
  CPU, Thread,
  NoThread, NoCPU,   \* model values
  MaxSignal          \* bound on the number of signals sent

ASSUME NotificationAssumption ==
  /\ NoThread \notin Thread /\ NoCPU \notin CPU
  /\ MaxSignal \in Nat

VARIABLES
  state,          \* notifc->state
  not_delivered,  \* notifc->not_delivered_notifc_count
  waiting,        \* notifc->waiting_threads
  waiting_count,  \* notifc->waiting_threads_count
  tstate,         \* running: on a CPU; ready: in a ready queue; waiting
  cb,             \* sleep_state.cb
  pending,        \* threads with sleep_state.pending_notific # NULL
  sleep_list,     \* per CPU, as a set: which sleepers are due is left open
  notifc_lock, queue_lock, sleep_list_lock,   \* owner CPU of each lock
  pc, cur, tgt,   \* per CPU: position, current_thread, thread worked on
  timed,          \* per CPU: the wait in progress has a timeout
  sigs, got,      \* history: signals accepted, signals received
  panic           \* a BUG_ON fired, or a thread was woken that did not wait

notif == <<state, not_delivered, waiting, waiting_count>>
sleep == <<cb, pending, sleep_list>>
locks == <<notifc_lock, queue_lock, sleep_list_lock>>
vars == <<notif, tstate, sleep, locks, pc, cur, tgt, timed, sigs, got, panic>>

TypeOK ==
  /\ state \in {"VALID", "INVALID"}
  /\ not_delivered \in 0 .. MaxSignal
  /\ waiting \in Seq(Thread)
  /\ waiting_count \in 0 .. Cardinality(Thread)
  /\ tstate \in [Thread -> {"running", "ready", "waiting"}]
  /\ cb \in [Thread -> {"none", "notific", "sleep"}]
  /\ pending \subseteq Thread
  /\ sleep_list \in [CPU -> SUBSET Thread]
  /\ notifc_lock \in CPU \cup {NoCPU}
  /\ queue_lock \in [Thread -> CPU \cup {NoCPU}]
  /\ sleep_list_lock \in [CPU -> CPU \cup {NoCPU}]
  /\ pc \in [CPU -> {"user", "w_lock", "w_queue", "w_sleep", "s_lock", "s_cb",
                     "s_wake", "n_queue", "n_sleep", "t_lock", "t_scan",
                     "t_queue", "t_notif"}]
  /\ cur \in [CPU -> Thread \cup {NoThread}]
  /\ tgt \in [CPU -> Thread \cup {NoThread}]
  /\ timed \in [CPU -> BOOLEAN]
  /\ sigs \in 0 .. MaxSignal /\ got \in 0 .. MaxSignal
  /\ panic \in BOOLEAN

(* init_notific() and timer_init() *)
Init ==
  /\ state = "VALID" /\ not_delivered = 0 /\ waiting = <<>> /\ waiting_count = 0
  /\ tstate = [t \in Thread |-> "ready"]
  /\ cb = [t \in Thread |-> "none"] /\ pending = {}
  /\ sleep_list = [c \in CPU |-> {}]
  /\ notifc_lock = NoCPU
  /\ queue_lock = [t \in Thread |-> NoCPU]
  /\ sleep_list_lock = [c \in CPU |-> NoCPU]
  /\ pc = [c \in CPU |-> "user"]
  /\ cur = [c \in CPU |-> NoThread] /\ tgt = [c \in CPU |-> NoThread]
  /\ timed = [c \in CPU |-> FALSE]
  /\ sigs = 0 /\ got = 0
  /\ panic = FALSE

-----------------------------------------------------------------------------
Goto(c, l) == pc' = [pc EXCEPT ![c] = l]

(* state = TS_INTER; sched_enqueue().  Waking a thread that does not wait    *)
(* puts it into the ready queue twice.                                      *)
Wake(t) == tstate' = [tstate EXCEPT ![t] = "ready"]

Without(s, t) == SelectSeq(s, LAMBDA u : u # t)

(* The scheduler: an idle CPU takes a ready thread, and may preempt it. *)
Dispatch(c) ==
  /\ pc[c] = "user" /\ cur[c] = NoThread
  /\ \E t \in Thread :
       /\ tstate[t] = "ready"
       /\ tstate' = [tstate EXCEPT ![t] = "running"]
       /\ cur' = [cur EXCEPT ![c] = t]
  /\ UNCHANGED <<notif, sleep, locks, pc, tgt, timed, sigs, got, panic>>

Preempt(c) ==
  /\ pc[c] = "user" /\ cur[c] # NoThread
  /\ tstate' = [tstate EXCEPT ![cur[c]] = "ready"]
  /\ cur' = [cur EXCEPT ![c] = NoThread]
  /\ UNCHANGED <<notif, sleep, locks, pc, tgt, timed, sigs, got, panic>>

(* The bound on signals counts those on their way. *)
Signalling == {c \in CPU : pc[c] \in {"s_lock", "s_cb", "s_wake"}}

(* A thread enters wait_notific(), signal_notific() or sys_clock_nanosleep() *)
Enter(c) ==
  /\ pc[c] = "user" /\ cur[c] # NoThread
  /\ \E l \in {"w_lock", "s_lock", "n_queue"} :
       /\ l = "s_lock" => sigs + Cardinality(Signalling) < MaxSignal
       /\ Goto(c, l)
       /\ \E b \in BOOLEAN : timed' = [timed EXCEPT ![c] = b /\ l = "w_lock"]
  /\ UNCHANGED <<notif, tstate, sleep, locks, cur, tgt, sigs, got, panic>>

-----------------------------------------------------------------------------
(* Mutant of WaitLock: the signal taken is not subtracted *)
WaitLockFree(c) ==
  /\ pc[c] = "w_lock"
  /\ notifc_lock = NoCPU
  /\ \/ /\ state = "INVALID"
        /\ Goto(c, "user")
        /\ UNCHANGED <<not_delivered, got, notifc_lock>>
     \/ /\ state = "VALID" /\ not_delivered > 0
        /\ not_delivered' = not_delivered
        /\ got' = got + 1
        /\ Goto(c, "user")
        /\ UNCHANGED notifc_lock
     \/ /\ state = "VALID" /\ not_delivered = 0
        /\ notifc_lock' = c
        /\ Goto(c, "w_queue")
        /\ UNCHANGED <<not_delivered, got>>
  /\ timed' = [timed EXCEPT ![c] = @ /\ pc'[c] = "w_queue"]
  /\ UNCHANGED <<state, waiting, waiting_count, tstate, sleep, queue_lock,
                 sleep_list_lock, cur, tgt, sigs, panic>>

(* wait_notific(): fail, take a signal, or go on to block with notifc_lock.  *)
(* A call with is_block false returns -EAGAIN instead, changing nothing.    *)
WaitLock(c) ==
  /\ pc[c] = "w_lock"
  /\ notifc_lock = NoCPU
  /\ \/ /\ state = "INVALID"
        /\ Goto(c, "user")
        /\ UNCHANGED <<not_delivered, got, notifc_lock>>
     \/ /\ state = "VALID" /\ not_delivered > 0
        /\ not_delivered' = not_delivered - 1
        /\ got' = got + 1
        /\ Goto(c, "user")
        /\ UNCHANGED notifc_lock
     \/ /\ state = "VALID" /\ not_delivered = 0
        /\ notifc_lock' = c
        /\ Goto(c, "w_queue")
        /\ UNCHANGED <<not_delivered, got>>
  /\ timed' = [timed EXCEPT ![c] = @ /\ pc'[c] = "w_queue"]
  /\ UNCHANGED <<state, waiting, waiting_count, tstate, sleep, queue_lock,
                 sleep_list_lock, cur, tgt, sigs, panic>>

(* Mutant of WaitQueue: waiting_threads_count is not increased *)
WaitQueueUncounted(c) ==
  LET t == cur[c] IN
  /\ pc[c] = "w_queue"
  /\ queue_lock[t] = NoCPU
  /\ waiting' = Append(waiting, t)
  /\ waiting_count' = waiting_count
  /\ tstate' = [tstate EXCEPT ![t] = "waiting"]
  /\ IF timed[c]
     THEN /\ queue_lock' = [queue_lock EXCEPT ![t] = c]
          /\ pending' = pending \cup {t}
          /\ Goto(c, "w_sleep")
          /\ UNCHANGED <<notifc_lock, cur>>
     ELSE /\ notifc_lock' = NoCPU
          /\ cur' = [cur EXCEPT ![c] = NoThread]
          /\ Goto(c, "user")
          /\ UNCHANGED <<queue_lock, pending>>
  /\ UNCHANGED <<state, not_delivered, cb, sleep_list, sleep_list_lock, tgt,
                 timed, sigs, got, panic>>

(* Mutant of WaitQueue: list_add() instead of list_append() *)
WaitQueueFront(c) ==
  LET t == cur[c] IN
  /\ pc[c] = "w_queue"
  /\ queue_lock[t] = NoCPU
  /\ waiting' = <<t>> \o waiting
  /\ waiting_count' = waiting_count + 1
  /\ tstate' = [tstate EXCEPT ![t] = "waiting"]
  /\ IF timed[c]
     THEN /\ queue_lock' = [queue_lock EXCEPT ![t] = c]
          /\ pending' = pending \cup {t}
          /\ Goto(c, "w_sleep")
          /\ UNCHANGED <<notifc_lock, cur>>
     ELSE /\ notifc_lock' = NoCPU
          /\ cur' = [cur EXCEPT ![c] = NoThread]
          /\ Goto(c, "user")
          /\ UNCHANGED <<queue_lock, pending>>
  /\ UNCHANGED <<state, not_delivered, cb, sleep_list, sleep_list_lock, tgt,
                 timed, sigs, got, panic>>

(* wait_notific(): block; without a timeout it is done and releases its locks *)
WaitQueue(c) ==
  LET t == cur[c] IN
  /\ pc[c] = "w_queue"
  /\ queue_lock[t] = NoCPU
  /\ waiting' = Append(waiting, t)
  /\ waiting_count' = waiting_count + 1
  /\ tstate' = [tstate EXCEPT ![t] = "waiting"]
  /\ IF timed[c]
     THEN /\ queue_lock' = [queue_lock EXCEPT ![t] = c]
          /\ pending' = pending \cup {t}
          /\ Goto(c, "w_sleep")
          /\ UNCHANGED <<notifc_lock, cur>>
     ELSE /\ notifc_lock' = NoCPU
          /\ cur' = [cur EXCEPT ![c] = NoThread]
          /\ Goto(c, "user")
          /\ UNCHANGED <<queue_lock, pending>>
  /\ UNCHANGED <<state, not_delivered, cb, sleep_list, sleep_list_lock, tgt,
                 timed, sigs, got, panic>>

(* wait_notific(): enqueue_sleeper() on this CPU, sched(), release the locks *)
WaitSleep(c) ==
  LET t == cur[c] IN
  /\ pc[c] = "w_sleep"
  /\ sleep_list_lock[c] = NoCPU
  /\ sleep_list' = [sleep_list EXCEPT ![c] = @ \cup {t}]
  /\ cb' = [cb EXCEPT ![t] = "notific"]
  /\ queue_lock' = [queue_lock EXCEPT ![t] = NoCPU]
  /\ notifc_lock' = NoCPU
  /\ cur' = [cur EXCEPT ![c] = NoThread]
  /\ timed' = [timed EXCEPT ![c] = FALSE]
  /\ Goto(c, "user")
  /\ UNCHANGED <<notif, tstate, pending, sleep_list_lock, tgt, sigs, got, panic>>

-----------------------------------------------------------------------------
(* Mutant of SignalLock: a busy waiter is left asleep and the signal counted *)
SignalLockCount(c) ==
  LET t == Head(waiting) IN
  /\ pc[c] = "s_lock"
  /\ notifc_lock = NoCPU
  /\ \/ /\ state = "INVALID"
        /\ Goto(c, "user")
        /\ UNCHANGED <<not_delivered, sigs, notifc_lock, queue_lock, tgt>>
     \/ /\ state = "VALID" /\ (not_delivered > 0 \/ waiting_count = 0)
        /\ not_delivered' = not_delivered + 1
        /\ sigs' = sigs + 1
        /\ Goto(c, "user")
        /\ UNCHANGED <<notifc_lock, queue_lock, tgt>>
     \/ /\ state = "VALID" /\ not_delivered = 0 /\ waiting_count > 0
        /\ queue_lock[t] # NoCPU
        /\ not_delivered' = not_delivered + 1
        /\ sigs' = sigs + 1
        /\ Goto(c, "user")
        /\ UNCHANGED <<notifc_lock, queue_lock, tgt>>
     \/ /\ state = "VALID" /\ not_delivered = 0 /\ waiting_count > 0
        /\ queue_lock[t] = NoCPU
        /\ notifc_lock' = c
        /\ queue_lock' = [queue_lock EXCEPT ![t] = c]
        /\ tgt' = [tgt EXCEPT ![c] = t]
        /\ Goto(c, "s_cb")
        /\ UNCHANGED <<not_delivered, sigs>>
  /\ UNCHANGED <<state, waiting, waiting_count, tstate, sleep, sleep_list_lock,
                 cur, timed, got, panic>>

(* signal_notific(): fail; count the signal; or try the first waiter's       *)
(* queue_lock and give up with -EAGAIN if it is taken                       *)
SignalLock(c) ==
  LET t == Head(waiting) IN
  /\ pc[c] = "s_lock"
  /\ notifc_lock = NoCPU
  /\ \/ /\ state = "INVALID"
        /\ Goto(c, "user")
        /\ UNCHANGED <<not_delivered, sigs, notifc_lock, queue_lock, tgt>>
     \/ /\ state = "VALID" /\ (not_delivered > 0 \/ waiting_count = 0)
        /\ not_delivered' = not_delivered + 1
        /\ sigs' = sigs + 1
        /\ Goto(c, "user")
        /\ UNCHANGED <<notifc_lock, queue_lock, tgt>>
     \/ /\ state = "VALID" /\ not_delivered = 0 /\ waiting_count > 0
        /\ queue_lock[t] # NoCPU
        /\ Goto(c, "user")
        /\ UNCHANGED <<not_delivered, sigs, notifc_lock, queue_lock, tgt>>
     \/ /\ state = "VALID" /\ not_delivered = 0 /\ waiting_count > 0
        /\ queue_lock[t] = NoCPU
        /\ notifc_lock' = c
        /\ queue_lock' = [queue_lock EXCEPT ![t] = c]
        /\ tgt' = [tgt EXCEPT ![c] = t]
        /\ Goto(c, "s_cb")
        /\ UNCHANGED <<not_delivered, sigs>>
  /\ UNCHANGED <<state, waiting, waiting_count, tstate, sleep, sleep_list_lock,
                 cur, timed, got, panic>>

(* The sleep list that holds t: sleep_cpu of its sleep_state *)
SleepCPU(t) == CHOOSE k \in CPU : t \in sleep_list[k]

(* Mutant of SignalDequeue: the waiter stays in its sleep list *)
SignalDequeueNot(c) ==
  LET t == tgt[c]
      k == SleepCPU(t)
  IN
  /\ pc[c] = "s_cb"
  /\ \/ /\ cb[t] = "none"
        /\ Goto(c, "s_wake")
        /\ UNCHANGED <<sleep, notifc_lock, queue_lock>>
     \/ /\ cb[t] # "none" /\ sleep_list_lock[k] = NoCPU
        /\ Goto(c, "s_wake")
        /\ UNCHANGED <<sleep, notifc_lock, queue_lock>>
     \/ /\ cb[t] # "none" /\ sleep_list_lock[k] # NoCPU
        /\ queue_lock' = [queue_lock EXCEPT ![t] = NoCPU]
        /\ notifc_lock' = NoCPU
        /\ Goto(c, "user")
        /\ UNCHANGED sleep
  /\ tgt' = [tgt EXCEPT ![c] = IF pc'[c] = "user" THEN NoThread ELSE @]
  /\ UNCHANGED <<notif, tstate, sleep_list_lock, cur, timed, sigs, got, panic>>

(* signal_notific(): try_dequeue_sleeper() if the waiter has a timeout; give  *)
(* up with -EAGAIN if that list's lock is taken                             *)
SignalDequeue(c) ==
  LET t == tgt[c]
      k == SleepCPU(t)
  IN
  /\ pc[c] = "s_cb"
  /\ \/ /\ cb[t] = "none"
        /\ Goto(c, "s_wake")
        /\ UNCHANGED <<sleep, notifc_lock, queue_lock>>
     \/ /\ cb[t] # "none" /\ sleep_list_lock[k] = NoCPU
        /\ sleep_list' = [sleep_list EXCEPT ![k] = @ \ {t}]
        /\ cb' = [cb EXCEPT ![t] = "none"]
        /\ Goto(c, "s_wake")
        /\ UNCHANGED <<pending, notifc_lock, queue_lock>>
     \/ /\ cb[t] # "none" /\ sleep_list_lock[k] # NoCPU
        /\ queue_lock' = [queue_lock EXCEPT ![t] = NoCPU]
        /\ notifc_lock' = NoCPU
        /\ Goto(c, "user")
        /\ UNCHANGED sleep
  /\ tgt' = [tgt EXCEPT ![c] = IF pc'[c] = "user" THEN NoThread ELSE @]
  /\ UNCHANGED <<notif, tstate, sleep_list_lock, cur, timed, sigs, got, panic>>

(* signal_notific(): take the waiter off the queue and wake it *)
SignalWake(c) ==
  LET t == tgt[c] IN
  /\ pc[c] = "s_wake"
  /\ waiting' = Without(waiting, t)
  /\ waiting_count' = waiting_count - 1
  /\ Wake(t)
  /\ panic' = (panic \/ tstate[t] # "waiting")
  /\ sigs' = sigs + 1 /\ got' = got + 1
  /\ queue_lock' = [queue_lock EXCEPT ![t] = NoCPU]
  /\ notifc_lock' = NoCPU
  /\ tgt' = [tgt EXCEPT ![c] = NoThread]
  /\ Goto(c, "user")
  /\ UNCHANGED <<state, not_delivered, sleep, sleep_list_lock, cur, timed>>

-----------------------------------------------------------------------------
(* sys_clock_nanosleep(): queue_lock, then the local sleep list *)
NanosleepQueue(c) ==
  /\ pc[c] = "n_queue"
  /\ queue_lock[cur[c]] = NoCPU
  /\ queue_lock' = [queue_lock EXCEPT ![cur[c]] = c]
  /\ Goto(c, "n_sleep")
  /\ UNCHANGED <<notif, tstate, sleep, notifc_lock, sleep_list_lock, cur, tgt,
                 timed, sigs, got, panic>>

NanosleepSleep(c) ==
  LET t == cur[c] IN
  /\ pc[c] = "n_sleep"
  /\ sleep_list_lock[c] = NoCPU
  /\ sleep_list' = [sleep_list EXCEPT ![c] = @ \cup {t}]
  /\ cb' = [cb EXCEPT ![t] = "sleep"]
  /\ queue_lock' = [queue_lock EXCEPT ![t] = NoCPU]
  /\ tstate' = [tstate EXCEPT ![t] = "waiting"]
  /\ cur' = [cur EXCEPT ![c] = NoThread]
  /\ Goto(c, "user")
  /\ UNCHANGED <<notif, pending, notifc_lock, sleep_list_lock, tgt, timed, sigs,
                 got, panic>>

-----------------------------------------------------------------------------
(* handle_timer_irq(): comes in user mode or idle, takes the local list's lock *)
TimerIrq(c) ==
  /\ pc[c] = "user"
  /\ Goto(c, "t_lock")
  /\ UNCHANGED <<notif, tstate, sleep, locks, cur, tgt, timed, sigs, got, panic>>

TimerLock(c) ==
  /\ pc[c] = "t_lock"
  /\ sleep_list_lock[c] = NoCPU
  /\ sleep_list_lock' = [sleep_list_lock EXCEPT ![c] = c]
  /\ Goto(c, "t_scan")
  /\ UNCHANGED <<notif, tstate, sleep, notifc_lock, queue_lock, cur, tgt, timed,
                 sigs, got, panic>>

(* The loop of handle_timer_irq(): the next sleeper is due ... *)
TimerDue(c, t) ==
  /\ pc[c] = "t_scan"
  /\ t \in sleep_list[c]
  /\ tgt' = [tgt EXCEPT ![c] = t]
  /\ Goto(c, "t_queue")
  /\ UNCHANGED <<notif, tstate, sleep, locks, cur, timed, sigs, got, panic>>

(* ... or the others are not due yet *)
TimerDone(c) ==
  /\ pc[c] = "t_scan"
  /\ sleep_list_lock' = [sleep_list_lock EXCEPT ![c] = NoCPU]
  /\ Goto(c, "user")
  /\ UNCHANGED <<notif, tstate, sleep, notifc_lock, queue_lock, cur, tgt, timed,
                 sigs, got, panic>>

(* Mutant of TimerQueue: the sleeper stays in the list that is scanned *)
TimerQueueStays(c) ==
  LET t == tgt[c] IN
  /\ pc[c] = "t_queue"
  /\ queue_lock[t] = NoCPU
  /\ sleep_list' = sleep_list
  /\ panic' = (\/ panic \/ cb[t] = "none"
               \/ cb[t] = "sleep" /\ tstate[t] # "waiting"
               \/ cb[t] = "notific" /\ t \notin pending)
  /\ IF cb[t] = "sleep"
     THEN /\ Wake(t)
          /\ cb' = [cb EXCEPT ![t] = "none"]
          /\ tgt' = [tgt EXCEPT ![c] = NoThread]
          /\ Goto(c, "t_scan")
          /\ UNCHANGED <<pending, queue_lock>>
     ELSE /\ pending' = pending \ {t}
          /\ queue_lock' = [queue_lock EXCEPT ![t] = c]
          /\ Goto(c, "t_notif")
          /\ UNCHANGED <<tstate, cb, tgt>>
  /\ UNCHANGED <<notif, notifc_lock, sleep_list_lock, cur, timed, sigs, got>>

(* handle_timer_irq(): with the sleeper's queue_lock, take it off the list   *)
(* and run its callback; sleep_timer_cb() wakes it at once                  *)
TimerQueue(c) ==
  LET t == tgt[c] IN
  /\ pc[c] = "t_queue"
  /\ queue_lock[t] = NoCPU
  /\ sleep_list' = [sleep_list EXCEPT ![c] = @ \ {t}]
  /\ panic' = (\/ panic \/ cb[t] = "none"
               \/ cb[t] = "sleep" /\ tstate[t] # "waiting"
               \/ cb[t] = "notific" /\ t \notin pending)
  /\ IF cb[t] = "sleep"
     THEN /\ Wake(t)
          /\ cb' = [cb EXCEPT ![t] = "none"]
          /\ tgt' = [tgt EXCEPT ![c] = NoThread]
          /\ Goto(c, "t_scan")
          /\ UNCHANGED <<pending, queue_lock>>
     ELSE /\ pending' = pending \ {t}
          /\ queue_lock' = [queue_lock EXCEPT ![t] = c]
          /\ Goto(c, "t_notif")
          /\ UNCHANGED <<tstate, cb, tgt>>
  /\ UNCHANGED <<notif, notifc_lock, sleep_list_lock, cur, timed, sigs, got>>

(* notific_timer_cb() with notifc_lock: leave the thread to the recycler if   *)
(* the notification was stopped, do nothing if it was signalled, else wake it *)
TimerNotific(c) ==
  LET t == tgt[c] IN
  /\ pc[c] = "t_notif"
  /\ notifc_lock = NoCPU
  /\ IF state = "VALID" /\ tstate[t] = "waiting"
     THEN /\ waiting' = Without(waiting, t)
          /\ waiting_count' = waiting_count - 1
          /\ panic' = (panic \/ waiting_count = 0)
          /\ Wake(t)
     ELSE UNCHANGED <<waiting, waiting_count, panic, tstate>>
  /\ cb' = [cb EXCEPT ![t] = "none"]
  /\ queue_lock' = [queue_lock EXCEPT ![t] = NoCPU]
  /\ tgt' = [tgt EXCEPT ![c] = NoThread]
  /\ Goto(c, "t_scan")
  /\ UNCHANGED <<state, not_delivered, pending, sleep_list, notifc_lock,
                 sleep_list_lock, cur, timed, sigs, got>>

(* stop_notification() by the recycler, which then drops the threads *)
StopNotification ==
  /\ notifc_lock = NoCPU
  /\ state = "VALID"
  /\ state' = "INVALID"
  /\ UNCHANGED <<not_delivered, waiting, waiting_count, tstate, sleep, locks, pc,
                 cur, tgt, timed, sigs, got, panic>>

Step(c) ==
  \/ WaitLock(c) \/ WaitQueue(c) \/ WaitSleep(c)
  \/ SignalLock(c) \/ SignalDequeue(c) \/ SignalWake(c)
  \/ NanosleepQueue(c) \/ NanosleepSleep(c)
  \/ TimerLock(c) \/ TimerQueue(c) \/ TimerNotific(c)

Next ==
  \/ \E c \in CPU : Dispatch(c) \/ Preempt(c) \/ Enter(c) \/ Step(c)
                    \/ TimerIrq(c) \/ TimerDone(c)
  \/ \E c \in CPU, t \in Thread : TimerDue(c, t)
  \/ StopNotification

Spec == Init /\ [][Next]_vars

(***************************************************************************)
(* A CPU in the kernel goes on, and the ticket locks are first come first   *)
(* served (TicketLock), so an acquisition that is possible again and again  *)
(* is made.  Nothing is assumed about the timer or about the threads.       *)
(***************************************************************************)
Fairness == \A c \in CPU : SF_vars(Step(c)) /\ WF_vars(TimerDone(c))

FairSpec == Spec /\ Fairness
-----------------------------------------------------------------------------
(***************************************************************************)
(* "We guarantee that a thread is not awoken for twice": no step wakes a    *)
(* thread that is not waiting, and no BUG_ON of the two files fires.        *)
(***************************************************************************)
AwokenOnce == ~ panic

(***************************************************************************)
(* No signal is lost or made up: the accepted ones are those received and   *)
(* those still counted.                                                     *)
(***************************************************************************)
SignalsConserved == sigs = got + not_delivered

(***************************************************************************)
(* No thread waits while an undelivered signal is counted, and              *)
(* waiting_threads_count is the length of the queue.                        *)
(***************************************************************************)
NoMissedSignal ==
  /\ not_delivered > 0 => waiting = <<>>
  /\ waiting_count = Len(waiting)

(***************************************************************************)
(* A callback is armed only for a waiting thread: a thread that was woken   *)
(* by a signal has left its sleep list, so the timer cannot wake a later,   *)
(* unrelated wait of it.  The exception is the callback the timer runs now. *)
(***************************************************************************)
NoStaleTimer ==
  \A t \in Thread :
    /\ (\E c \in CPU : t \in sleep_list[c]) => cb[t] # "none" /\ tstate[t] = "waiting"
    /\ Cardinality({c \in CPU : t \in sleep_list[c]}) <= 1

(***************************************************************************)
(* A CPU that enters one of these paths leaves it: no order in which the    *)
(* other CPUs take and try the locks keeps it in the kernel for ever.       *)
(***************************************************************************)
KernelPathEnds == \A c \in CPU : pc[c] # "user" ~> pc[c] = "user"

(***************************************************************************)
(* The lock protocol implements the atomic notification.                    *)
(***************************************************************************)
Abstract == INSTANCE NotificationSpec
              WITH count <- not_delivered, queue <- waiting, valid <- (state = "VALID")
ImplementsNotification == Abstract!Spec
=============================================================================
