----------------------------- MODULE TicketLock -----------------------------
(***************************************************************************)
(* The ticket spinlock of kernel/arch/aarch64/sync/ticket.c.               *)
(*                                                                         *)
(* lock_impl has two u32 counters, next and owner.  lock() draws a ticket  *)
(* with an atomic increment of next and spins until owner reaches it,      *)
(* try_lock() takes a ticket only if it would be served at once, unlock()  *)
(* advances owner.  The counters wrap at 2^32: here at Modulus.            *)
(*                                                                         *)
(* The exclusive load/store pair of try_lock() is modelled step by step:   *)
(* excl[c] is c's exclusive monitor on next, lost when any CPU writes it.  *)
(***************************************************************************)
EXTENDS Naturals, FiniteSets

CONSTANTS
  CPU,      \* the CPUs that share the lock
  Modulus   \* number of values of a ticket counter (2^32 in the code)

(* At most one ticket per CPU is outstanding: they never exhaust a counter *)
ASSUME LockAssumption ==
  /\ IsFiniteSet(CPU)
  /\ Modulus \in Nat \ {0}
  /\ Cardinality(CPU) < Modulus

VARIABLES
  owner,    \* the ticket being served
  next,     \* the next ticket to hand out
  pc,       \* where each CPU is in lock(), try_lock() or unlock()
  lockval,  \* w0: the ticket each CPU read from next
  excl      \* the exclusive monitor of each CPU on next

vars == <<owner, next, pc, lockval, excl>>

Ticket == 0 .. (Modulus - 1)

(* Mutant of Inc: a counter that does not wrap. *)
IncUnbounded(t) == t + 1

(* add w, w, #1 on a u32 *)
Inc(t) == IF t = Modulus - 1 THEN 0 ELSE t + 1

PC == {"idle", "spin", "try_owner", "try_store", "held", "unlock"}

TypeOK ==
  /\ owner \in Ticket
  /\ next \in Ticket
  /\ pc \in [CPU -> PC]
  /\ lockval \in [CPU -> Ticket]
  /\ excl \in [CPU -> BOOLEAN]

(* lock_init() *)
Init ==
  /\ owner = 0
  /\ next = 0
  /\ pc = [c \in CPU |-> "idle"]
  /\ lockval = [c \in CPU |-> 0]
  /\ excl = [c \in CPU |-> FALSE]

(* A store to next by c: every exclusive monitor on it is lost. *)
StoreNext(v) ==
  /\ next' = v
  /\ excl' = [d \in CPU |-> FALSE]

-----------------------------------------------------------------------------
(* lock(): the ldaxr/add/stxr loop, which retries until it is atomic *)
LockDraw(c) ==
  /\ pc[c] = "idle"
  /\ lockval' = [lockval EXCEPT ![c] = next]
  /\ StoreNext(Inc(next))
  /\ pc' = [pc EXCEPT ![c] = "spin"]
  /\ UNCHANGED owner

(* lock(): ldar owner, cmp, b.ne: leave the loop when the ticket is served *)
LockServed(c) ==
  /\ pc[c] = "spin"
  /\ owner = lockval[c]
  /\ pc' = [pc EXCEPT ![c] = "held"]
  /\ UNCHANGED <<owner, next, lockval, excl>>

(* try_lock(): ldaxr next *)
TryLoadNext(c) ==
  /\ pc[c] = "idle"
  /\ lockval' = [lockval EXCEPT ![c] = next]
  /\ excl' = [excl EXCEPT ![c] = TRUE]
  /\ pc' = [pc EXCEPT ![c] = "try_owner"]
  /\ UNCHANGED <<owner, next>>

(* Mutant of TryCompare: the comparison is dropped, try_lock() barges in. *)
TryCompareNothing(c) ==
  /\ pc[c] = "try_owner"
  /\ pc' = [pc EXCEPT ![c] = "try_store"]
  /\ UNCHANGED <<owner, next, lockval, excl>>

(* try_lock(): ldar owner, cmp: give up (return -1) unless it is our turn *)
TryCompare(c) ==
  /\ pc[c] = "try_owner"
  /\ pc' = [pc EXCEPT ![c] = IF owner = lockval[c] THEN "try_store" ELSE "idle"]
  /\ UNCHANGED <<owner, next, lockval, excl>>

(* Mutant of TryStore: a plain store instead of an exclusive one. *)
TryStorePlain(c) ==
  /\ pc[c] = "try_store"
  /\ StoreNext(Inc(lockval[c]))
  /\ pc' = [pc EXCEPT ![c] = "held"]
  /\ UNCHANGED <<owner, lockval>>

(* try_lock(): stxr with the monitor still held: the ticket is ours *)
TryStore(c) ==
  /\ pc[c] = "try_store"
  /\ excl[c]
  /\ StoreNext(Inc(lockval[c]))
  /\ pc' = [pc EXCEPT ![c] = "held"]
  /\ UNCHANGED <<owner, lockval>>

(* try_lock(): stxr fails, the monitor being lost: cbnz 1b, load again *)
TryRetry(c) ==
  /\ pc[c] = "try_store"
  /\ ~ excl[c]
  /\ lockval' = [lockval EXCEPT ![c] = next]
  /\ excl' = [excl EXCEPT ![c] = TRUE]
  /\ pc' = [pc EXCEPT ![c] = "try_owner"]
  /\ UNCHANGED <<owner, next>>

(* unlock(): the barrier, then the load of owner (into w0, kept in lockval) *)
UnlockLoad(c) ==
  /\ pc[c] = "held"
  /\ lockval' = [lockval EXCEPT ![c] = owner]
  /\ pc' = [pc EXCEPT ![c] = "unlock"]
  /\ UNCHANGED <<owner, next, excl>>

(* Mutant of UnlockStore: owner jumps to next, skipping the CPUs in line. *)
UnlockStoreNext(c) ==
  /\ pc[c] = "unlock"
  /\ owner' = next
  /\ pc' = [pc EXCEPT ![c] = "idle"]
  /\ UNCHANGED <<next, lockval, excl>>

(* Mutant of UnlockStore: the increment is lost. *)
UnlockStoreLost(c) ==
  /\ pc[c] = "unlock"
  /\ pc' = [pc EXCEPT ![c] = "idle"]
  /\ UNCHANGED <<owner, next, lockval, excl>>

(* unlock(): the store of owner + 1 *)
UnlockStore(c) ==
  /\ pc[c] = "unlock"
  /\ owner' = Inc(lockval[c])
  /\ pc' = [pc EXCEPT ![c] = "idle"]
  /\ UNCHANGED <<next, lockval, excl>>

(* Mutant of is_locked: an off-by-one comparison. *)
is_locked_or_free == owner <= next

(* is_locked(): an unsigned comparison, not a circular one *)
is_locked == owner < next

-----------------------------------------------------------------------------
Step(c) ==
  \/ LockDraw(c)
  \/ LockServed(c)
  \/ TryLoadNext(c)
  \/ TryCompare(c)
  \/ TryStore(c)
  \/ TryRetry(c)
  \/ UnlockLoad(c)
  \/ UnlockStore(c)

Next == \E c \in CPU : Step(c)

Spec == Init /\ [][Next]_vars

(* A CPU in the kernel keeps executing (interrupts are masked), and every   *)
(* critical section of the kernel ends: no step of a CPU inside lock(),     *)
(* try_lock() or unlock() is postponed for ever.                            *)
Fairness ==
  \A c \in CPU :
    WF_vars(LockServed(c) \/ TryCompare(c) \/ TryStore(c) \/ TryRetry(c)
            \/ UnlockLoad(c) \/ UnlockStore(c))

FairSpec == Spec /\ Fairness

-----------------------------------------------------------------------------
Holders == {c \in CPU : pc[c] \in {"held", "unlock"}}

(* CPUs with a ticket that has not been served to the end *)
Waiting == {c \in CPU : pc[c] \in {"spin", "held", "unlock"}}

(* Number of tickets from owner up to t, going round the counter *)
Ahead(t) == IF t >= owner THEN t - owner ELSE t + Modulus - owner

(***************************************************************************)
(* Mutual exclusion: at most one CPU is between a successful lock() or      *)
(* try_lock() and the store of unlock(), also across a wrap of the counters *)
(* and with a try_lock() interleaved with draws and releases.               *)
(***************************************************************************)
MutualExclusion == \A c, d \in Holders : c = d

(***************************************************************************)
(* The tickets from owner to next are exactly those of the CPUs that hold   *)
(* or wait for the lock: none is skipped (the lock would never be served    *)
(* again) and none is handed out twice.                                     *)
(***************************************************************************)
TicketsConsistent ==
  /\ Cardinality(Waiting) = Ahead(next)
  /\ \A c \in Waiting : Ahead(lockval[c]) < Ahead(next)
  /\ \A c, d \in Waiting : c # d => lockval[c] # lockval[d]

(***************************************************************************)
(* is_locked(), on which recycle.c relies with BUG_ON(is_locked(...)),      *)
(* never reports a lock that nobody holds or waits for.                     *)
(***************************************************************************)
IsLockedSound == is_locked => Waiting # {}

(***************************************************************************)
(* First come, first served: a CPU that waits is overtaken by no CPU that   *)
(* drew its ticket later, so try_lock() cannot barge in.                    *)
(***************************************************************************)
FirstComeFirstServed ==
  [][\A c, d \in CPU :
       /\ pc[c] = "spin" /\ pc'[c] = "spin"
       /\ d \notin Holders /\ d \in Holders'
       => /\ pc[d] = "spin"
          /\ Ahead(lockval[d]) < Ahead(lockval[c])]_vars

(* Every CPU that enters lock() gets the lock. *)
LockServedEventually ==
  \A c \in CPU : pc[c] = "spin" ~> pc[c] = "held"
=============================================================================
