-------------------------- MODULE TicketLockProof --------------------------
(***************************************************************************)
(* Mutual exclusion of the ticket lock for every finite set of CPUs smaller *)
(* than the number of values of a counter.                                  *)
(*                                                                         *)
(* The argument: the outstanding tickets are counted by the distance from   *)
(* owner to next (TicketsConsistent), a holder's ticket is the one being    *)
(* served, and a try_lock() whose monitor is intact sees a free lock.       *)
(***************************************************************************)
EXTENDS TicketLock, FiniteSetTheorems, TLAPS

(* A CPU that holds the lock is the one being served. *)
HolderIsServed == \A c \in Holders : lockval[c] = owner

(* A CPU inside try_lock() with an intact monitor has read the current next; *)
(* once it has compared it with owner the lock is free.                      *)
MonitorExact ==
  \A c \in CPU :
    excl[c] => /\ pc[c] = "try_owner" => lockval[c] = next
               /\ pc[c] = "try_store" => lockval[c] = next /\ owner = next

IInv == TypeOK /\ TicketsConsistent /\ HolderIsServed /\ MonitorExact

-----------------------------------------------------------------------------
(* The increment of a u32 stays in range; distances move by one with it. *)
LEMMA IncTicket ==
  ASSUME NEW t \in Ticket PROVE Inc(t) \in Ticket
BY LockAssumption DEF Ticket, Inc

(* The set of CPUs with a ticket is finite and no larger than CPU. *)
LEMMA WaitingFinite ==
  /\ IsFiniteSet(Waiting)
  /\ Cardinality(Waiting) \in Nat
<1>1. Waiting \subseteq CPU
  BY DEF Waiting
<1>2. IsFiniteSet(Waiting)
  BY <1>1, LockAssumption, FS_Subset
<1> QED
  BY <1>2, FS_CardinalityType

(* While some CPU has no ticket, one more can be drawn without exhausting  *)
(* the counter.                                                            *)
LEMMA RoomForTicket ==
  ASSUME NEW c \in CPU, c \notin Waiting
  PROVE  /\ Cardinality(Waiting) + 1 < Modulus
         /\ Cardinality(Waiting \cup {c}) = Cardinality(Waiting) + 1
<1>1. IsFiniteSet(Waiting)
  BY WaitingFinite
<1>2. Cardinality(Waiting \cup {c}) = Cardinality(Waiting) + 1
  BY <1>1, FS_AddElement
<1>3. Waiting \cup {c} \subseteq CPU
  BY DEF Waiting
<1>4. /\ Cardinality(Waiting \cup {c}) <= Cardinality(CPU)
      /\ Cardinality(CPU) \in Nat
  BY <1>3, LockAssumption, FS_Subset, FS_CardinalityType
<1> QED
  BY <1>2, <1>4, WaitingFinite, LockAssumption

(* Initially no CPU has a ticket. *)
LEMMA InitIInv == Init => IInv
<1> SUFFICES ASSUME Init PROVE IInv
  OBVIOUS
<1>1. TypeOK
  BY LockAssumption DEF Init, TypeOK, Ticket, PC
<1>2. Waiting = {} /\ Holders = {}
  BY DEF Init, Waiting, Holders
<1>3. TicketsConsistent
  BY <1>2, FS_EmptySet DEF Init, TicketsConsistent, Ahead
<1>4. HolderIsServed /\ MonitorExact
  BY <1>2 DEF Init, HolderIsServed, MonitorExact
<1> QED
  BY <1>1, <1>3, <1>4 DEF IInv

(* Handing out the ticket next to a CPU that has none, by either way in. *)
LEMMA DrawTicket ==
  ASSUME IInv, NEW c \in CPU, c \notin Waiting,
         next' = Inc(next), owner' = owner,
         Waiting' = Waiting \cup {c},
         lockval'[c] = next,
         \A d \in CPU : d # c => lockval'[d] = lockval[d]
  PROVE  TicketsConsistent'
<1> DEFINE W == Waiting
<1>1. /\ Cardinality(W) + 1 < Modulus
      /\ Cardinality(Waiting') = Cardinality(W) + 1
      /\ Cardinality(W) \in Nat
  BY RoomForTicket, WaitingFinite
<1>2. /\ owner \in Ticket /\ next \in Ticket
      /\ Cardinality(W) = Ahead(next)
  BY DEF IInv, TypeOK, TicketsConsistent
<1>3. Ahead(next)' = Ahead(next) + 1
  BY <1>1, <1>2, LockAssumption DEF Ahead, Ticket, Inc
<1>4. \A d \in W : d \in CPU /\ d # c /\ lockval[d] \in Ticket
  BY DEF IInv, TypeOK, Waiting
<1>5. \A d \in W : /\ Ahead(lockval[d])' = Ahead(lockval[d])
                   /\ Ahead(lockval[d]) < Ahead(next)
                   /\ Ahead(lockval[d]) \in Nat
                   /\ lockval'[d] = lockval[d]
  BY <1>2, <1>4, LockAssumption DEF Ahead, IInv, TicketsConsistent, Ticket
<1>6. Ahead(lockval[c])' = Ahead(next)
  BY DEF Ahead
<1>7. Ahead(next) \in Nat
  BY <1>1, <1>2
<1>8. \A d \in Waiting' : Ahead(lockval[d])' < Ahead(next)'
  BY <1>3, <1>5, <1>6, <1>7
<1>9. \A d \in W : lockval'[d] # lockval'[c]
  BY <1>5, <1>2, <1>4, <1>7
<1>10. \A d, e \in Waiting' : d # e => lockval'[d] # lockval'[e]
  BY <1>5, <1>9 DEF IInv, TicketsConsistent
<1> QED
  BY <1>1, <1>2, <1>3, <1>8, <1>10 DEF TicketsConsistent

(* Releasing the ticket being served. *)
LEMMA ReleaseTicket ==
  ASSUME IInv, NEW c \in CPU, UnlockStore(c)
  PROVE  /\ TicketsConsistent'
         /\ owner # next
         /\ owner' \in Ticket
<1>1. /\ owner \in Ticket /\ next \in Ticket /\ pc[c] = "unlock"
      /\ c \in Waiting /\ c \in Holders
  BY DEF IInv, TypeOK, UnlockStore, Waiting, Holders
<1>2. lockval[c] = owner /\ owner' = Inc(owner) /\ next' = next /\ lockval' = lockval
  BY <1>1 DEF IInv, HolderIsServed, UnlockStore
<1>3. Waiting' = Waiting \ {c}
  BY DEF UnlockStore, Waiting, IInv, TypeOK
<1>4. /\ Cardinality(Waiting') = Cardinality(Waiting) - 1
      /\ Cardinality(Waiting) \in Nat
  BY <1>1, <1>3, WaitingFinite, FS_RemoveElement
<1>5. Ahead(lockval[c]) < Ahead(next) /\ Cardinality(Waiting) = Ahead(next)
  BY <1>1 DEF IInv, TicketsConsistent
<1>6. Ahead(lockval[c]) = 0
  BY <1>1, <1>2 DEF Ahead, Ticket
<1>7. owner # next
  BY <1>1, <1>5, <1>6 DEF Ahead, Ticket
<1>8. Ahead(next)' = Ahead(next) - 1
  BY <1>1, <1>2, <1>7, LockAssumption DEF Ahead, Ticket, Inc
<1>9. ASSUME NEW d \in Waiting'
      PROVE  Ahead(lockval[d])' < Ahead(next)'
  <2>1. d \in Waiting /\ d # c /\ lockval[d] \in Ticket
    BY <1>3, <1>9 DEF Waiting, IInv, TypeOK
  <2>2. lockval[d] # owner /\ Ahead(lockval[d]) < Ahead(next)
    BY <1>1, <1>2, <2>1 DEF IInv, TicketsConsistent
  <2>3. Ahead(lockval[d])' = Ahead(lockval[d]) - 1
    BY <1>1, <1>2, <2>1, <2>2, LockAssumption DEF Ahead, Ticket, Inc
  <2>4. Ahead(lockval[d]) \in Int /\ Ahead(next) \in Int
    BY <1>1, <2>1, LockAssumption DEF Ahead, Ticket
  <2> QED
    BY <1>8, <2>2, <2>3, <2>4
<1>10. \A d, e \in Waiting' : d # e => lockval'[d] # lockval'[e]
  BY <1>2, <1>3 DEF IInv, TicketsConsistent
<1> QED
  BY <1>1, <1>2, <1>4, <1>5, <1>7, <1>8, <1>9, <1>10, IncTicket DEF TicketsConsistent

(* Every step of the lock preserves the inductive invariant. *)
LEMMA NextIInv == IInv /\ [Next]_vars => IInv'
<1> SUFFICES ASSUME IInv, [Next]_vars PROVE IInv'
  OBVIOUS
<1> USE DEF PC
<1>u. CASE UNCHANGED vars
  <2>1. Waiting' = Waiting /\ Holders' = Holders
    BY <1>u DEF vars, Waiting, Holders
  <2> QED
    BY <1>u, <2>1 DEF vars, IInv, TypeOK, TicketsConsistent, HolderIsServed,
                      MonitorExact, Ahead
<1>1. ASSUME NEW c \in CPU, LockDraw(c) PROVE IInv'
  <2>1. /\ Waiting' = Waiting \cup {c} /\ c \notin Waiting
        /\ Holders' = Holders /\ c \notin Holders
    BY <1>1 DEF LockDraw, StoreNext, Waiting, Holders, IInv, TypeOK
  <2>2. TypeOK'
    BY <1>1, IncTicket DEF IInv, TypeOK, LockDraw, StoreNext
  <2>3. TicketsConsistent'
    BY <1>1, <2>1, DrawTicket DEF LockDraw, StoreNext, IInv, TypeOK
  <2>4. HolderIsServed'
    BY <1>1, <2>1 DEF HolderIsServed, LockDraw, StoreNext, IInv, TypeOK, Holders
  <2>5. MonitorExact'
    BY <1>1 DEF MonitorExact, LockDraw, StoreNext
  <2> QED
    BY <2>2, <2>3, <2>4, <2>5 DEF IInv
<1>2. ASSUME NEW c \in CPU, LockServed(c) PROVE IInv'
  <2>1. Waiting' = Waiting /\ Holders' = Holders \cup {c}
    BY <1>2 DEF LockServed, Waiting, Holders, IInv, TypeOK
  <2>2. TypeOK'
    BY <1>2 DEF IInv, TypeOK, LockServed
  <2>3. TicketsConsistent'
    BY <1>2, <2>1 DEF TicketsConsistent, Ahead, LockServed, IInv
  <2>4. HolderIsServed'
    BY <1>2, <2>1 DEF HolderIsServed, LockServed, IInv
  <2>5. MonitorExact'
    BY <1>2 DEF MonitorExact, LockServed, IInv, TypeOK
  <2> QED
    BY <2>2, <2>3, <2>4, <2>5 DEF IInv
<1>3. ASSUME NEW c \in CPU, TryLoadNext(c) \/ TryRetry(c) PROVE IInv'
  <2>1. /\ Waiting' = Waiting /\ Holders' = Holders
        /\ c \notin Waiting /\ c \notin Holders
        /\ owner' = owner /\ next' = next
    BY <1>3 DEF TryLoadNext, TryRetry, Waiting, Holders, IInv, TypeOK
  <2>2. TypeOK'
    BY <1>3 DEF IInv, TypeOK, TryLoadNext, TryRetry
  <2>3. \A d \in CPU : d # c => lockval'[d] = lockval[d] /\ pc'[d] = pc[d] /\ excl'[d] = excl[d]
    BY <1>3 DEF TryLoadNext, TryRetry, IInv, TypeOK
  <2>4. Waiting \subseteq CPU /\ Holders \subseteq CPU
    BY DEF Waiting, Holders
  <2>5. TicketsConsistent'
    BY <2>1, <2>3, <2>4 DEF TicketsConsistent, Ahead, IInv
  <2>6. HolderIsServed'
    BY <2>1, <2>3, <2>4 DEF HolderIsServed, IInv
  <2>7. pc'[c] = "try_owner" /\ lockval'[c] = next
    BY <1>3 DEF TryLoadNext, TryRetry, IInv, TypeOK
  <2>8. MonitorExact'
    BY <2>1, <2>3, <2>7 DEF MonitorExact, IInv
  <2> QED
    BY <2>2, <2>5, <2>6, <2>8 DEF IInv
<1>4. ASSUME NEW c \in CPU, TryCompare(c) PROVE IInv'
  <2>1. Waiting' = Waiting /\ Holders' = Holders
    BY <1>4 DEF TryCompare, Waiting, Holders, IInv, TypeOK
  <2>2. TypeOK'
    BY <1>4 DEF IInv, TypeOK, TryCompare
  <2>3. TicketsConsistent' /\ HolderIsServed'
    BY <1>4, <2>1 DEF TicketsConsistent, HolderIsServed, Ahead, TryCompare, IInv
  <2>4. MonitorExact'
    BY <1>4 DEF MonitorExact, TryCompare, IInv, TypeOK
  <2> QED
    BY <2>2, <2>3, <2>4 DEF IInv
<1>5. ASSUME NEW c \in CPU, TryStore(c) PROVE IInv'
  <2>1. /\ Waiting' = Waiting \cup {c} /\ c \notin Waiting
        /\ Holders' = Holders \cup {c}
    BY <1>5 DEF TryStore, StoreNext, Waiting, Holders, IInv, TypeOK
  <2>2. lockval[c] = next /\ owner = next
    BY <1>5 DEF TryStore, IInv, MonitorExact
  <2>3. TypeOK'
    BY <1>5, IncTicket DEF IInv, TypeOK, TryStore, StoreNext
  <2>4. TicketsConsistent'
    BY <1>5, <2>1, <2>2, DrawTicket DEF TryStore, StoreNext
  <2>5. HolderIsServed'
    BY <1>5, <2>1, <2>2 DEF HolderIsServed, TryStore, StoreNext, IInv
  <2>6. MonitorExact'
    BY <1>5 DEF MonitorExact, TryStore, StoreNext
  <2> QED
    BY <2>3, <2>4, <2>5, <2>6 DEF IInv
<1>6. ASSUME NEW c \in CPU, UnlockLoad(c) PROVE IInv'
  <2>1. Waiting' = Waiting /\ Holders' = Holders /\ c \in Holders
    BY <1>6 DEF UnlockLoad, Waiting, Holders, IInv, TypeOK
  <2>2. lockval' = lockval
    BY <1>6, <2>1 DEF UnlockLoad, IInv, TypeOK, HolderIsServed
  <2>3. TypeOK'
    BY <1>6 DEF IInv, TypeOK, UnlockLoad
  <2>4. TicketsConsistent' /\ HolderIsServed'
    BY <1>6, <2>1, <2>2 DEF TicketsConsistent, HolderIsServed, Ahead, UnlockLoad, IInv
  <2>5. MonitorExact'
    BY <1>6, <2>2 DEF MonitorExact, UnlockLoad, IInv, TypeOK
  <2> QED
    BY <2>3, <2>4, <2>5 DEF IInv
<1>7. ASSUME NEW c \in CPU, UnlockStore(c) PROVE IInv'
  <2>1. TicketsConsistent' /\ owner # next /\ owner' \in Ticket
    BY <1>7, ReleaseTicket
  <2>2. TypeOK'
    BY <1>7, <2>1 DEF IInv, TypeOK, UnlockStore
  <2>3. c \in Holders /\ Holders \subseteq Waiting
    BY <1>7 DEF UnlockStore, Holders, Waiting
  <2>4. Holders' = {}
    BY <1>7, <2>3 DEF UnlockStore, Holders, IInv, TypeOK, HolderIsServed, TicketsConsistent
  <2>5. HolderIsServed'
    BY <2>4 DEF HolderIsServed
  <2>6. MonitorExact'
    BY <1>7, <2>1 DEF MonitorExact, UnlockStore, IInv, TypeOK
  <2> QED
    BY <2>1, <2>2, <2>5, <2>6 DEF IInv
<1> QED
  BY <1>u, <1>1, <1>2, <1>3, <1>4, <1>5, <1>6, <1>7 DEF Next, Step

(***************************************************************************)
(* The inductive invariant of the ticket lock holds in every reachable      *)
(* state, for every number of CPUs below the counter's modulus.             *)
(***************************************************************************)
THEOREM Invariance == Spec => []IInv
BY InitIInv, NextIInv, PTL DEF Spec

(***************************************************************************)
(* lock()/try_lock()/unlock() keep at most one CPU in the critical section. *)
(***************************************************************************)
THEOREM MutexCorrect == Spec => []MutualExclusion
<1>1. IInv => MutualExclusion
  BY DEF IInv, MutualExclusion, HolderIsServed, TicketsConsistent, Holders, Waiting
<1> QED
  BY <1>1, Invariance, PTL

(***************************************************************************)
(* No ticket is lost or handed out twice, whatever the interleaving.        *)
(***************************************************************************)
THEOREM TicketsCorrect == Spec => []TicketsConsistent
BY Invariance, PTL DEF IInv

(***************************************************************************)
(* is_locked() never reports a lock that is free and that nobody wants.     *)
(***************************************************************************)
THEOREM IsLockedCorrect == Spec => []IsLockedSound
<1>1. IInv => IsLockedSound
  <2> SUFFICES ASSUME IInv, is_locked, Waiting = {} PROVE FALSE
    BY DEF IsLockedSound
  <2>1. Ahead(next) = 0
    BY FS_EmptySet DEF IInv, TicketsConsistent
  <2> QED
    BY <2>1 DEF is_locked, Ahead, IInv, TypeOK, Ticket
<1> QED
  BY <1>1, Invariance, PTL

(***************************************************************************)
(* The lock is fair: no CPU that spins is overtaken, neither by a CPU with  *)
(* a later ticket nor by a try_lock().                                      *)
(***************************************************************************)
THEOREM FairCorrect == Spec => FirstComeFirstServed
<1> DEFINE A(c, d) == /\ pc[c] = "spin" /\ pc'[c] = "spin"
                      /\ d \notin Holders /\ d \in Holders'
                      => /\ pc[d] = "spin"
                         /\ Ahead(lockval[d]) < Ahead(lockval[c])
<1>1. IInv /\ [Next]_vars => [\A c, d \in CPU : A(c, d)]_vars
  <2> SUFFICES ASSUME IInv, Next, NEW c \in CPU, NEW d \in CPU,
                      pc[c] = "spin", pc'[c] = "spin",
                      d \notin Holders, d \in Holders'
               PROVE  pc[d] = "spin" /\ Ahead(lockval[d]) < Ahead(lockval[c])
    OBVIOUS
  <2>1. /\ c \in Waiting /\ owner \in Ticket /\ next \in Ticket
        /\ lockval[c] \in Ticket /\ lockval[d] \in Ticket
    BY DEF Waiting, IInv, TypeOK
  <2>2. Ahead(lockval[c]) < Ahead(next)
    BY <2>1 DEF IInv, TicketsConsistent
  <2>3. owner # next
    BY <2>1, <2>2, LockAssumption DEF Ahead, Ticket
  <2>4. ~ TryStore(d)
    BY <2>3 DEF TryStore, IInv, MonitorExact
  <2>5. LockServed(d)
    BY <2>4 DEF Next, Step, LockDraw, LockServed, TryLoadNext, TryCompare, TryStore,
                TryRetry, UnlockLoad, UnlockStore, Holders, IInv, TypeOK, PC
  <2>6. pc[d] = "spin" /\ lockval[d] = owner /\ d \in Waiting /\ c # d
    BY <2>5 DEF LockServed, Waiting, IInv, TypeOK, PC
  <2>7. lockval[c] # owner
    BY <2>1, <2>6 DEF IInv, TicketsConsistent
  <2> QED
    BY <2>1, <2>6, <2>7, LockAssumption DEF Ahead, Ticket
<1> QED
  BY <1>1, Invariance, PTL DEF Spec, FirstComeFirstServed
=============================================================================
