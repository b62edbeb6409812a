------------------------------ MODULE Capability ------------------------------
(***************************************************************************)
(* Capabilities and the life of kernel objects: kernel/object/capability.c, *)
(* kernel/object/cap_group.c, and the second phase of                        *)
(* sys_cap_group_recycle() in kernel/object/recycle.c.                       *)
(*                                                                         *)
(* A capability is a slot of a cap group's table that points to an object;   *)
(* the object lists the slots that point to it (copies) and counts them      *)
(* together with the references the kernel holds (refcount).  A cap group    *)
(* is an object itself.  One CPU: a system call is one step; a kernel        *)
(* reference that lives longer (a ready queue, a call in progress) is taken  *)
(* and dropped by steps of its own.                                         *)
(***************************************************************************)
EXTENDS Integers, FiniteSets

CONSTANTS
  Group,          \* cap groups (processes)
  Manager,        \* the group of the process manager: root_cap_group
  Vmspace, vmOf,  \* address spaces, and the one of each group
  Thread,         \* thread objects
  Other,          \* objects of the other types
  Connection,     \* the IPC connections among them
  Word,           \* BITS_PER_LONG
  MaxWords,       \* bound: words of a slot table
  MaxRef,         \* bound: references of the kernel to each object
  MaxCopy,        \* bound: capabilities of each object that is copied
  None

Obj == Group \cup Vmspace \cup Thread \cup Other
SlotId == 0 .. MaxWords * Word - 1
Cap == Group \X SlotId

CAP_GROUP_OBJ_ID == 0
VMSPACE_OBJ_ID == 1

ASSUME CapabilityAssumption ==
  /\ Word \in Nat /\ Word > 1 /\ MaxWords \in Nat /\ MaxWords > 0
  /\ IsFiniteSet(Group) /\ Manager \in Group
  /\ vmOf \in [Group -> Vmspace]
  /\ \A g, h \in Group : vmOf[g] = vmOf[h] => g = h
  /\ Group \cap Vmspace = {} /\ Thread \cap (Group \cup Vmspace) = {}
  /\ Other \cap (Group \cup Vmspace \cup Thread) = {} /\ Connection \subseteq Other
  /\ MaxRef \in [Obj -> Nat] /\ MaxCopy \in [Obj -> Nat] /\ None \notin Obj

VARIABLES
  objects,   \* objects that are allocated
  refcount,  \* object->refcount
  copies,    \* object->copies_head: the slots that point to the object
  slots,     \* slot_table->slots of every group (and its slots_bmp)
  full,      \* slot_table->full_slots_bmp: words of slots_bmp that are full
  size,      \* slot_table->slots_size, in words
  home,      \* thread->cap_group
  refs       \* references taken with obj_get() or obj_ref() and not yet put

vars == <<objects, refcount, copies, slots, full, size, home, refs>>

Words == 0 .. MaxWords - 1
IdsOf(w) == w * Word .. (w + 1) * Word - 1

TypeOK ==
  /\ objects \subseteq Obj
  /\ refcount \in [Obj -> Nat] /\ refs \in [Obj -> Nat]
  /\ copies \in [Obj -> SUBSET Cap]
  /\ slots \in [Cap -> Obj \cup {None}]
  /\ full \in [Group -> SUBSET Words]
  /\ size \in [Group -> 1 .. MaxWords]
  /\ home \in [Thread -> Group]

(* create_root_cap_group(): its caps 0 and 1 are itself and its vmspace *)
RootCap(c) ==
  CASE c = <<Manager, CAP_GROUP_OBJ_ID>> -> Manager
    [] c = <<Manager, VMSPACE_OBJ_ID>> -> vmOf[Manager]
    [] OTHER -> None
Init ==
  /\ objects = {Manager, vmOf[Manager]}
  /\ slots = [c \in Cap |-> RootCap(c)]
  /\ copies = [o \in Obj |-> {c \in Cap : RootCap(c) = o}]
  /\ refcount = [o \in Obj |-> IF o \in objects THEN 1 ELSE 0]
  /\ full = [g \in Group |-> IF g = Manager /\ Word = 2 THEN {0} ELSE {}]
  /\ size = [g \in Group |-> 1]
  /\ home = [t \in Thread |-> Manager]
  /\ refs = [o \in Obj |-> 0]

-----------------------------------------------------------------------------
(* A group that exists and was not recycled: it holds the cap of itself *)
Active(g) == g \in objects /\ slots[<<g, CAP_GROUP_OBJ_ID>>] = g

(* alloc_slot_id() in a table of n words: the first free id from the first   *)
(* word on that is not marked full                                          *)
FirstFree(g, n, i) ==
  \E w \in 0 .. n - 1 :
    /\ i \in w * Word .. n * Word - 1
    /\ slots[<<g, i>>] = None
    /\ w \notin full[g] /\ \A x \in 0 .. w - 1 : x \in full[g]
    /\ \A j \in w * Word .. i - 1 : slots[<<g, j>>] # None

(* alloc_slot_id() with expand_slot_table() when there is none *)
AllocSlotId(g, i, n) ==
  \/ n = size[g] /\ FirstFree(g, n, i)
  \/ /\ n = size[g] + 1 /\ n <= MaxWords /\ FirstFree(g, n, i)
     /\ \A j \in SlotId : ~ FirstFree(g, size[g], j)

(* install_slot() for the caps in C, which point to o; set_bit() of the      *)
(* words that became full                                                   *)
Install(C, o, sl) == [c \in Cap |-> IF c \in C THEN o ELSE sl[c]]
Fill(C, sl) ==
  [g \in Group |->
     full[g] \cup {w \in Words : /\ \E i \in IdsOf(w) : <<g, i>> \in C
                                 /\ \A i \in IdsOf(w) : sl[<<g, i>>] # None}]

(* obj_alloc() and cap_alloc(), with the copies cap_copy() adds at once and   *)
(* the r references the kernel takes                                        *)
NewObject(o, C, r) ==
  /\ o \in Obj \ objects
  /\ objects' = objects \cup {o}
  /\ slots' = Install(C, o, slots)
  /\ full' = Fill(C, slots')
  /\ copies' = [copies EXCEPT ![o] = C]
  /\ refcount' = [refcount EXCEPT ![o] = Cardinality(C) + r]
  /\ refs' = [refs EXCEPT ![o] = r]

(* A system call that creates an object of its own group: a pmo, a           *)
(* notification, a channel...                                               *)
Create(g, o) ==
  /\ Active(g) /\ o \in Other \ objects
  /\ \E i \in SlotId, n \in 1 .. MaxWords :
       /\ AllocSlotId(g, i, n)
       /\ NewObject(o, {<<g, i>>}, 0)
       /\ size' = [size EXCEPT ![g] = n]
  /\ UNCHANGED home

(* sys_create_thread() in group d by group g: a second cap for g if it        *)
(* differs.  A user thread is queued as ready, a shadow or register thread   *)
(* waits; the queue holds a reference.                                      *)
CreateThread(g, d, t, queued) ==
  /\ Active(g) /\ Active(d)
  /\ \E c \in Cap : c[1] = g /\ slots[c] = d
  /\ t \notin objects /\ queued <= MaxRef[t]
  /\ \E i \in SlotId, n \in 1 .. MaxWords : /\ AllocSlotId(d, i, n)
     /\ \E j \in SlotId, m \in 1 .. MaxWords :
          /\ AllocSlotId(g, j, m)
          /\ NewObject(t, {<<d, i>>, <<g, j>>}, queued)
          /\ size' = [size EXCEPT ![d] = n, ![g] = m]
  /\ home' = [home EXCEPT ![t] = d]

(* sys_create_cap_group() by the process manager: the group in a slot of the *)
(* manager and in its own first slot, its vmspace in the second             *)
CreateCapGroup(n) ==
  LET v == vmOf[n]
      own == {<<n, VMSPACE_OBJ_ID>>}
  IN
  /\ Active(Manager) /\ n \in Group \ objects /\ v \notin objects
  /\ \E i \in SlotId, m \in 1 .. MaxWords :
       LET C == {<<Manager, i>>, <<n, CAP_GROUP_OBJ_ID>>} IN
       /\ AllocSlotId(Manager, i, m)
       /\ objects' = objects \cup {n, v}
       /\ slots' = Install(own, v, Install(C, n, slots))
       /\ full' = Fill(C \cup own, slots')
       /\ copies' = [copies EXCEPT ![n] = C, ![v] = own]
       /\ refcount' = [refcount EXCEPT ![n] = 2, ![v] = 1]
       /\ size' = [size EXCEPT ![Manager] = m, ![n] = 1]
  /\ UNCHANGED <<home, refs>>

(* Mutant of CapCopy: the reference is not counted *)
CapCopyUncounted(c, d) ==
  LET o == slots[c] IN
  /\ Active(c[1]) /\ Active(d) /\ o # None
  /\ Cardinality(copies[o]) < MaxCopy[o]
  /\ \E i \in SlotId, n \in 1 .. MaxWords :
       /\ AllocSlotId(d, i, n)
       /\ slots' = Install({<<d, i>>}, o, slots)
       /\ full' = Fill({<<d, i>>}, slots')
       /\ copies' = [copies EXCEPT ![o] = @ \cup {<<d, i>>}]
       /\ size' = [size EXCEPT ![d] = n]
  /\ UNCHANGED <<objects, refcount, home, refs>>

(* Mutant of CapCopy: the slot is not added to copies *)
CapCopyUnlisted(c, d) ==
  LET o == slots[c] IN
  /\ Active(c[1]) /\ Active(d) /\ o # None
  /\ Cardinality(copies[o]) < MaxCopy[o]
  /\ \E i \in SlotId, n \in 1 .. MaxWords :
       /\ AllocSlotId(d, i, n)
       /\ slots' = Install({<<d, i>>}, o, slots)
       /\ full' = Fill({<<d, i>>}, slots')
       /\ size' = [size EXCEPT ![d] = n]
  /\ refcount' = [refcount EXCEPT ![o] = @ + 1]
  /\ UNCHANGED <<objects, copies, home, refs>>

(* cap_copy() to a group d, in sys_transfer_caps() or with a message *)
CapCopy(c, d) ==
  LET o == slots[c] IN
  /\ Active(c[1]) /\ Active(d) /\ o # None
  /\ Cardinality(copies[o]) < MaxCopy[o]
  /\ \E i \in SlotId, n \in 1 .. MaxWords :
       /\ AllocSlotId(d, i, n)
       /\ slots' = Install({<<d, i>>}, o, slots)
       /\ full' = Fill({<<d, i>>}, slots')
       /\ copies' = [copies EXCEPT ![o] = @ \cup {<<d, i>>}]
       /\ size' = [size EXCEPT ![d] = n]
  /\ refcount' = [refcount EXCEPT ![o] = @ + 1]
  /\ UNCHANGED <<objects, home, refs>>

-----------------------------------------------------------------------------
(* Mutant of CapFree: full_slots_bmp is not cleared *)
CapFreeStaysFull(C) ==
  /\ slots' = [c \in Cap |-> IF c \in C THEN None ELSE slots[c]]
  /\ copies' = [o \in Obj |-> copies[o] \ C]
  /\ refcount' = [o \in Obj |-> refcount[o] - Cardinality(copies[o] \cap C)]
  /\ objects' = {o \in objects : refcount'[o] > 0}
  /\ UNCHANGED <<full, size, home, refs>>

(* __cap_free() of the caps in C: free_slot_id(), unlink them from copies,   *)
(* drop their references, and free every object that has none left.         *)
CapFree(C) ==
  /\ slots' = [c \in Cap |-> IF c \in C THEN None ELSE slots[c]]
  /\ full' = [g \in Group |->
                {w \in full[g] : \A i \in IdsOf(w) : <<g, i>> \notin C}]
  /\ copies' = [o \in Obj |-> copies[o] \ C]
  /\ refcount' = [o \in Obj |-> refcount[o] - Cardinality(copies[o] \cap C)]
  /\ objects' = {o \in objects : refcount'[o] > 0}
  /\ UNCHANGED <<size, home, refs>>

(* Mutant of Revocable: the own group and vmspace may be revoked *)
RevocableOwn(c) ==
  /\ Active(c[1])
  /\ slots[c] \notin {None} \cup Thread

(* sys_revoke_cap(): not the cap of one's own group or vmspace.  Programs     *)
(* revoke no thread caps.                                                   *)
Revocable(c) ==
  /\ Active(c[1])
  /\ slots[c] \notin {None, c[1], vmOf[c[1]]} \cup Thread

RevokeCap(c) == Revocable(c) /\ CapFree({c})

(* cap_free_all(): every cap of the object.  The only caller with            *)
(* revoke_copy set revokes a pmo.                                           *)
RevokeAll(c) == Revocable(c) /\ slots[c] \in Other /\ CapFree(copies[slots[c]])

(* obj_get() or obj_ref() by a path that keeps the reference *)
ObjGet(o) ==
  /\ o \in objects
  /\ refs[o] < MaxRef[o]
  /\ refs' = [refs EXCEPT ![o] = @ + 1]
  /\ refcount' = [refcount EXCEPT ![o] = @ + 1]
  /\ UNCHANGED <<objects, copies, slots, full, size, home>>

(* Mutant of ObjPut: the reference is dropped twice *)
ObjPutTwice(o) ==
  /\ refs[o] > 0
  /\ refs' = [refs EXCEPT ![o] = @ - 1]
  /\ refcount' = [refcount EXCEPT ![o] = @ - 2]
  /\ objects' = {x \in objects : refcount'[x] > 0}
  /\ UNCHANGED <<copies, slots, full, size, home>>

ObjPut(o) ==
  /\ refs[o] > 0
  /\ refs' = [refs EXCEPT ![o] = @ - 1]
  /\ refcount' = [refcount EXCEPT ![o] = @ - 1]
  /\ objects' = {x \in objects : refcount'[x] > 0}
  /\ UNCHANGED <<copies, slots, full, size, home>>

(* The recycler comes to cap d of group g while the slot still holds it.  For *)
(* a connection it has freed two slots of g: its own, and the one numbered    *)
(* shm_cap_in_client.  In a server that number belongs to another table, and  *)
(* a client may have revoked its shm and used the number again: any slot.    *)
Visited(g, d, shm) ==
  /\ d[1] = g
  /\ \A k \in 0 .. d[2] - 1 :
       slots[<<g, k>>] \in Connection => shm[slots[<<g, k>>]] # d[2]

(* sys_cap_group_recycle(), phase 2: every cap of g, all the caps of its own  *)
(* threads, and all the caps of g itself                                    *)
CapGroupRecycle(g, shm) ==
  /\ Active(Manager) /\ Active(g) /\ g # Manager
  /\ \E c \in Cap : c[1] = Manager /\ slots[c] = g
  /\ CapFree({c \in Cap : \/ c[1] = g
                          \/ slots[c] = g
                          \/ /\ slots[c] \in Thread /\ home[slots[c]] = g
                             /\ \E d \in Cap : slots[d] = slots[c] /\ Visited(g, d, shm)})

Next ==
  \/ \E g \in Group, o \in Obj : Create(g, o)
  \/ \E g, d \in Group, t \in Thread, queued \in 0 .. 1 : CreateThread(g, d, t, queued)
  \/ \E g \in Group : CreateCapGroup(g)
  \/ \E g \in Group, shm \in [Connection -> SlotId] : CapGroupRecycle(g, shm)
  \/ \E c \in Cap : RevokeCap(c) \/ RevokeAll(c) \/ \E d \in Group : CapCopy(c, d)
  \/ \E o \in Obj : ObjGet(o) \/ ObjPut(o)

Spec == Init /\ [][Next]_vars

-----------------------------------------------------------------------------
(* The copies list of an object holds exactly the slots that point to it, in  *)
(* whatever table, and only allocated objects are pointed to: no capability  *)
(* reaches freed memory, and cap_free_all() misses none.                     *)
CopiesExact ==
  \A o \in Obj :
    /\ copies[o] = {c \in Cap : slots[c] = o}
    /\ o \notin objects => copies[o] = {} /\ refs[o] = 0

(* refcount is the number of capabilities plus the references in use; the     *)
(* object is freed exactly when it is zero.                                 *)
RefcountExact ==
  \A o \in Obj :
    /\ o \in objects => refcount[o] = Cardinality(copies[o]) + refs[o] /\ refcount[o] > 0

(* A cap group that still runs keeps the caps of itself and of its vmspace   *)
(* in their fixed slots, whatever others revoke; one that was recycled, or   *)
(* freed, holds no capability.                                              *)
OwnCapsKept ==
  \A g \in Group :
    IF Active(g)
    THEN slots[<<g, VMSPACE_OBJ_ID>>] = vmOf[g]
    ELSE \A i \in SlotId : slots[<<g, i>>] = None

(* A new capability gets the lowest id that is free, so the table grows only  *)
(* when it is full.                                                         *)
LowestIdFirst ==
  [][\A g \in Group, i \in SlotId :
       Active(g) /\ slots[<<g, i>>] = None /\ slots'[<<g, i>>] # None =>
         \A j \in 0 .. i - 1 : slots[<<g, j>>] # None]_vars
=============================================================================
