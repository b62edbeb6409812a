--------------------------- MODULE CapabilityProof ---------------------------
(***************************************************************************)
(* Proofs about Capability, for any number of groups, threads and objects    *)
(* and tables of any size: the lists of copies and the reference counts are   *)
(* exact, and a live group keeps its own two capabilities.                   *)
(***************************************************************************)
EXTENDS Capability, FiniteSetTheorems, TLAPS

(* The inductive invariant.  Exact counts need exact lists, which need the    *)
(* own caps of a group: a new group's table must be empty.                   *)
CapInv == TypeOK /\ CopiesExact /\ RefcountExact /\ OwnCapsKept

-----------------------------------------------------------------------------
(* There are finitely many slots, so every list of copies is finite. *)
LEMMA CapFinite == IsFiniteSet(Cap)
<1>1. MaxWords * Word - 1 \in Int
  BY CapabilityAssumption
<1>2. IsFiniteSet(SlotId)
  BY <1>1, FS_Interval DEF SlotId
<1> QED
  BY <1>2, FS_Product, CapabilityAssumption DEF Cap

LEMMA SubsetFinite ==
  ASSUME NEW C \in SUBSET Cap
  PROVE  IsFiniteSet(C) /\ Cardinality(C) \in Nat
BY CapFinite, FS_Subset, FS_CardinalityType

(* The first two slots of a table and their place in Cap *)
LEMMA FixedSlots ==
  /\ CAP_GROUP_OBJ_ID \in SlotId /\ VMSPACE_OBJ_ID \in SlotId
  /\ \A g \in Group, i \in SlotId : <<g, i>> \in Cap
<1>1. MaxWords * Word >= 2
  <2>1. MaxWords >= 1 /\ Word >= 2 /\ MaxWords \in Nat /\ Word \in Nat
    BY CapabilityAssumption
  <2> QED
    BY <2>1
<1>2. MaxWords * Word \in Int
  BY CapabilityAssumption
<1> QED
  BY <1>1, <1>2 DEF CAP_GROUP_OBJ_ID, VMSPACE_OBJ_ID, SlotId, Cap

(* alloc_slot_id() returns the id of an empty slot. *)
LEMMA AllocatedIsFree ==
  ASSUME NEW g \in Group, NEW i \in SlotId, NEW n, AllocSlotId(g, i, n)
  PROVE  slots[<<g, i>>] = None
BY DEF AllocSlotId, FirstFree

(* Objects of the different kinds are different. *)
LEMMA Kinds ==
  /\ \A g \in Group : g \in Obj /\ g \notin Vmspace /\ g \notin Thread /\ g \notin Other /\ g # None
  /\ \A g \in Group : /\ vmOf[g] \in Vmspace /\ vmOf[g] \in Obj /\ vmOf[g] \notin Group
                      /\ vmOf[g] \notin Thread /\ vmOf[g] \notin Other /\ vmOf[g] # None
  /\ \A t \in Thread : t \in Obj /\ t # None
  /\ \A o \in Other : o \in Obj /\ o # None
BY CapabilityAssumption DEF Obj

-----------------------------------------------------------------------------
(* __cap_free() of any set of slots leaves lists and counts exact: every      *)
(* object loses as many references as it loses slots.                        *)
LEMMA CapFreeExact ==
  ASSUME TypeOK, CopiesExact, RefcountExact, NEW C \in SUBSET Cap, CapFree(C)
  PROVE  TypeOK' /\ CopiesExact' /\ RefcountExact'
<1>1. \A o \in Obj : /\ Cardinality(copies[o]) \in Nat
                     /\ Cardinality(copies[o] \cap C) \in Nat
                     /\ Cardinality(copies[o] \ C) \in Nat
                     /\ Cardinality(copies[o] \ C)
                          = Cardinality(copies[o]) - Cardinality(copies[o] \cap C)
  <2> TAKE o \in Obj
  <2>1. copies[o] \in SUBSET Cap /\ copies[o] \cap C \in SUBSET Cap /\ copies[o] \ C \in SUBSET Cap
    BY DEF TypeOK
  <2> QED
    BY <2>1, SubsetFinite, FS_Difference
<1>2. \A o \in Obj : o \notin objects => /\ copies[o] = {} /\ refs[o] = 0
                                        /\ Cardinality(copies[o] \cap C) = 0
  BY FS_EmptySet DEF CopiesExact
<1>3. \A o \in Obj : refcount'[o] \in Nat /\ copies'[o] = copies[o] \ C /\ refs'[o] = refs[o]
  <2> TAKE o \in Obj
  <2> DEFINE all == Cardinality(copies[o])
             gone == Cardinality(copies[o] \cap C)
             left == Cardinality(copies[o] \ C)
  <2>1. refcount'[o] = refcount[o] - gone
    BY DEF CapFree
  <2>2. refcount[o] \in Nat /\ refs[o] \in Nat
    BY DEF TypeOK
  <2>3. all \in Nat /\ gone \in Nat /\ left \in Nat /\ left = all - gone
    BY <1>1
  <2>4. o \in objects => refcount[o] = all + refs[o]
    BY DEF RefcountExact
  <2>5. o \notin objects => gone = 0
    BY <1>2
  <2>6. copies'[o] = copies[o] \ C /\ refs'[o] = refs[o]
    BY DEF CapFree
  <2> HIDE DEF all, gone, left
  <2>7. refcount'[o] \in Nat
    BY <2>1, <2>2, <2>3, <2>4, <2>5
  <2> QED
    BY <2>6, <2>7
<1>4. TypeOK'
  <2>1. refcount' \in [Obj -> Nat]
    BY <1>3 DEF CapFree
  <2>2. copies' \in [Obj -> SUBSET Cap] /\ slots' \in [Cap -> Obj \cup {None}]
    BY DEF CapFree, TypeOK
  <2>3. full' \in [Group -> SUBSET Words]
    BY DEF CapFree, TypeOK
  <2> QED
    BY <2>1, <2>2, <2>3 DEF CapFree, TypeOK
<1>5. \A o \in Obj : o \in objects =>
         refcount'[o] = Cardinality(copies'[o]) + refs'[o]
  <2> TAKE o \in Obj
  <2> HAVE o \in objects
  <2> DEFINE all == Cardinality(copies[o])
             gone == Cardinality(copies[o] \cap C)
             left == Cardinality(copies[o] \ C)
  <2>1. refcount'[o] = refcount[o] - gone
    BY DEF CapFree
  <2>2. refcount[o] = all + refs[o] /\ refs[o] \in Nat
    BY DEF RefcountExact, TypeOK
  <2>3. all \in Nat /\ gone \in Nat /\ left \in Nat /\ left = all - gone
    BY <1>1
  <2>4. Cardinality(copies'[o]) = left /\ refs'[o] = refs[o]
    BY <1>3
  <2> HIDE DEF all, gone, left
  <2> QED
    BY <2>1, <2>2, <2>3, <2>4
<1>6. RefcountExact'
  BY <1>5 DEF RefcountExact, CapFree
<1>7. CopiesExact'
  <2> SUFFICES ASSUME NEW o \in Obj
               PROVE  /\ copies'[o] = {c \in Cap : slots'[c] = o}
                      /\ o \notin objects' => copies'[o] = {} /\ refs'[o] = 0
    BY DEF CopiesExact
  <2>1. copies'[o] = {c \in Cap : slots'[c] = o}
    <3>1. \A c \in Cap : slots'[c] = IF c \in C THEN None ELSE slots[c]
      BY DEF CapFree
    <3>2. o # None
      BY CapabilityAssumption
    <3>3. copies[o] = {c \in Cap : slots[c] = o}
      BY DEF CopiesExact
    <3> QED
      BY <1>3, <3>1, <3>2, <3>3
  <2>2. CASE o \notin objects
    BY <1>2, <1>3, <2>1, <2>2
  <2>3. CASE o \in objects /\ o \notin objects'
    <3>1. refcount'[o] = 0
      BY <1>3, <2>3 DEF CapFree
    <3>2. Cardinality(copies'[o]) = 0 /\ refs'[o] = 0
      <4>1. Cardinality(copies'[o]) \in Nat /\ refs'[o] \in Nat
        BY <1>1, <1>3, <1>4 DEF TypeOK
      <4> QED
        BY <1>5, <2>3, <3>1, <4>1
    <3>3. IsFiniteSet(copies'[o])
      <4>1. copies'[o] \in SUBSET Cap
        BY <1>4 DEF TypeOK
      <4> QED
        BY <4>1, SubsetFinite
    <3> QED
      BY <2>1, <3>2, <3>3, FS_EmptySet
  <2> QED
    BY <2>1, <2>2, <2>3
<1> QED
  BY <1>4, <1>6, <1>7

(* The own caps of the groups survive when none of them is freed, except     *)
(* together with the whole table of the group.                              *)
LEMMA CapFreeOwn ==
  ASSUME CapInv, NEW C \in SUBSET Cap, CapFree(C),
         \A g \in Group : Active(g) =>
            \/ <<g, CAP_GROUP_OBJ_ID>> \notin C /\ <<g, VMSPACE_OBJ_ID>> \notin C
            \/ \A i \in SlotId : <<g, i>> \in C
  PROVE  CapInv'
<1>1. TypeOK' /\ CopiesExact' /\ RefcountExact'
  BY CapFreeExact DEF CapInv
<1>2. \A g \in Group, i \in SlotId :
        slots'[<<g, i>>] = IF <<g, i>> \in C THEN None ELSE slots[<<g, i>>]
  BY FixedSlots DEF CapFree
<1>3. ASSUME NEW g \in Group
      PROVE  IF Active(g)' THEN slots'[<<g, VMSPACE_OBJ_ID>>] = vmOf[g]
                           ELSE \A i \in SlotId : slots'[<<g, i>>] = None
  <2>1. CASE ~ Active(g) \/ \A i \in SlotId : <<g, i>> \in C
    <3>1. \A i \in SlotId : slots'[<<g, i>>] = None
      BY <1>2, <2>1 DEF CapInv, OwnCapsKept
    <3>2. ~ Active(g)'
      BY <3>1, FixedSlots, Kinds DEF Active
    <3> QED
      BY <3>1, <3>2
  <2>2. CASE /\ Active(g)
             /\ <<g, CAP_GROUP_OBJ_ID>> \notin C /\ <<g, VMSPACE_OBJ_ID>> \notin C
    <3>1. slots'[<<g, CAP_GROUP_OBJ_ID>>] = g /\ slots'[<<g, VMSPACE_OBJ_ID>>] = vmOf[g]
      BY <1>2, <2>2, FixedSlots DEF CapInv, OwnCapsKept, Active
    <3>2. <<g, CAP_GROUP_OBJ_ID>> \in copies'[g] /\ g \in Obj
      BY <1>1, <3>1, FixedSlots, Kinds DEF CopiesExact
    <3>3. g \in objects'
      BY <1>1, <3>2 DEF CopiesExact
    <3> QED
      BY <3>1, <3>3 DEF Active
  <2> QED
    BY <2>1, <2>2
<1> QED
  BY <1>1, <1>3 DEF CapInv, OwnCapsKept

-----------------------------------------------------------------------------
(* Slots of live groups that were empty and get a capability: the own caps   *)
(* stay where they are, and a table that was to be empty stays empty.        *)
LEMMA InstallOwn ==
  ASSUME CapInv, NEW o \in Obj, NEW C \in SUBSET Cap,
         \A c \in C : slots[c] = None /\ Active(c[1]),
         slots' = Install(C, o, slots), objects \subseteq objects'
  PROVE  OwnCapsKept'
<1> SUFFICES ASSUME NEW g \in Group
             PROVE  IF Active(g)' THEN slots'[<<g, VMSPACE_OBJ_ID>>] = vmOf[g]
                                  ELSE \A i \in SlotId : slots'[<<g, i>>] = None
  BY DEF OwnCapsKept
<1>1. \A i \in SlotId :
        slots'[<<g, i>>] = IF <<g, i>> \in C THEN o ELSE slots[<<g, i>>]
  BY FixedSlots DEF Install
<1>2. CASE Active(g)
  <2>1. slots[<<g, CAP_GROUP_OBJ_ID>>] = g /\ slots[<<g, VMSPACE_OBJ_ID>>] = vmOf[g]
    BY <1>2 DEF Active, CapInv, OwnCapsKept
  <2>2. <<g, CAP_GROUP_OBJ_ID>> \notin C /\ <<g, VMSPACE_OBJ_ID>> \notin C
    BY <2>1, Kinds
  <2> QED
    BY <1>1, <1>2, <2>1, <2>2, FixedSlots DEF Active
<1>3. CASE ~ Active(g)
  <2>1. \A i \in SlotId : <<g, i>> \notin C
    <3>1. \A i \in SlotId : <<g, i>>[1] = g
      OBVIOUS
    <3> QED
      BY <1>3, <3>1
  <2>2. \A i \in SlotId : slots'[<<g, i>>] = None
    BY <1>1, <1>3, <2>1 DEF CapInv, OwnCapsKept
  <2> QED
    BY <2>2, FixedSlots, Kinds DEF Active
<1> QED
  BY <1>2, <1>3

(* A new object with its first capabilities in empty slots of live groups *)
LEMMA NewObjectInv ==
  ASSUME CapInv, NEW o, NEW C \in SUBSET Cap, C # {}, NEW r \in Nat, NewObject(o, C, r),
         \A c \in C : slots[c] = None /\ Active(c[1]),
         size' \in [Group -> 1 .. MaxWords], home' \in [Thread -> Group]
  PROVE  CapInv'
<1>1. o \in Obj /\ o \notin objects /\ o # None /\ objects' = objects \cup {o}
  BY CapabilityAssumption DEF NewObject
<1>2. Cardinality(C) \in Nat /\ Cardinality(C) > 0
  BY SubsetFinite, FS_EmptySet
<1>3. TypeOK'
  <2>1. full' \in [Group -> SUBSET Words]
    BY DEF NewObject, Fill, CapInv, TypeOK
  <2>2. refcount' \in [Obj -> Nat] /\ refs' \in [Obj -> Nat]
    BY <1>1, <1>2 DEF NewObject, CapInv, TypeOK
  <2>3. copies' \in [Obj -> SUBSET Cap] /\ slots' \in [Cap -> Obj \cup {None}]
    BY <1>1 DEF NewObject, Install, CapInv, TypeOK
  <2> QED
    BY <1>1, <2>1, <2>2, <2>3 DEF CapInv, TypeOK
<1>4. \A x \in Obj : /\ copies'[x] = IF x = o THEN C ELSE copies[x]
                     /\ refs'[x] = IF x = o THEN r ELSE refs[x]
                     /\ refcount'[x] = IF x = o THEN Cardinality(C) + r ELSE refcount[x]
  BY DEF NewObject, CapInv, TypeOK
<1>5. CopiesExact'
  <2>1. \A c \in Cap : slots'[c] = IF c \in C THEN o ELSE slots[c]
    BY DEF NewObject, Install
  <2>2. \A x \in Obj : copies[x] = {c \in Cap : slots[c] = x}
    BY DEF CapInv, CopiesExact
  <2>3. copies[o] = {}
    BY <1>1 DEF CapInv, CopiesExact
  <2>4. \A x \in Obj : copies'[x] = {c \in Cap : slots'[c] = x}
    <3> TAKE x \in Obj
    <3>1. CASE x = o
      BY <1>4, <2>1, <2>2, <2>3, <3>1
    <3>2. CASE x # o
      <4>1. x # None
        BY CapabilityAssumption
      <4> QED
        BY <1>4, <2>1, <2>2, <3>2, <4>1
    <3> QED
      BY <3>1, <3>2
  <2> QED
    BY <1>1, <1>4, <2>4 DEF CapInv, CopiesExact
<1>6. RefcountExact'
  BY <1>1, <1>2, <1>4 DEF CapInv, RefcountExact
<1>7. OwnCapsKept'
  BY <1>1, InstallOwn DEF NewObject
<1> QED
  BY <1>3, <1>5, <1>6, <1>7 DEF CapInv

-----------------------------------------------------------------------------
(* create_root_cap_group() establishes the invariant. *)
LEMMA InitInv == Init => CapInv
<1> SUFFICES ASSUME Init PROVE CapInv
  OBVIOUS
<1> DEFINE a == <<Manager, CAP_GROUP_OBJ_ID>>
           b == <<Manager, VMSPACE_OBJ_ID>>
           v == vmOf[Manager]
<1>1. a \in Cap /\ b \in Cap /\ a # b /\ Manager \in Group /\ Manager \in Obj /\ v \in Obj /\ v # Manager
  BY FixedSlots, Kinds, CapabilityAssumption DEF CAP_GROUP_OBJ_ID, VMSPACE_OBJ_ID
<1>2. /\ RootCap(a) = Manager /\ RootCap(b) = v
      /\ \A c \in Cap : c # a /\ c # b => RootCap(c) = None
  BY <1>1 DEF RootCap
<1>3. Manager # None /\ v # None /\ None \notin Obj
  BY <1>1, Kinds, CapabilityAssumption
<1>4. \A o \in Obj : copies[o] = IF o = Manager THEN {a} ELSE IF o = v THEN {b} ELSE {}
  BY <1>1, <1>2, <1>3 DEF Init
<1>5. TypeOK
  <2>1. slots \in [Cap -> Obj \cup {None}]
    BY <1>1, <1>2 DEF Init
  <2>2. 1 \in 1 .. MaxWords /\ 0 \in Words
    BY CapabilityAssumption DEF Words
  <2>3. copies \in [Obj -> SUBSET Cap]
    BY DEF Init
  <2>4. objects \subseteq Obj /\ refcount \in [Obj -> Nat] /\ refs \in [Obj -> Nat]
    BY <1>1 DEF Init
  <2>5. full \in [Group -> SUBSET Words] /\ size \in [Group -> 1 .. MaxWords]
    BY <2>2 DEF Init
  <2>6. home \in [Thread -> Group]
    BY <1>1 DEF Init
  <2> QED
    BY <2>1, <2>3, <2>4, <2>5, <2>6 DEF TypeOK
<1>6. CopiesExact
  <2>1. \A o \in Obj : copies[o] = {c \in Cap : slots[c] = o}
    BY DEF Init
  <2>2. \A o \in Obj : o \notin objects => copies[o] = {} /\ refs[o] = 0
    BY <1>4 DEF Init
  <2> QED
    BY <2>1, <2>2 DEF CopiesExact
<1>7. RefcountExact
  <2>1. Cardinality({a}) = 1 /\ Cardinality({b}) = 1
    BY FS_Singleton
  <2>2. \A o \in objects : Cardinality(copies[o]) = 1 /\ refcount[o] = 1 /\ refs[o] = 0
    BY <1>1, <1>4, <2>1 DEF Init
  <2> QED
    BY <2>2 DEF RefcountExact
<1>8. OwnCapsKept
  <2>1. \A g \in Group, i \in SlotId : slots[<<g, i>>] = RootCap(<<g, i>>)
    BY FixedSlots DEF Init
  <2>2. slots[a] = Manager /\ slots[b] = v /\ Manager \in objects
    BY <1>1, <1>2 DEF Init
  <2>3. \A g \in Group : g # Manager => \A i \in SlotId : slots[<<g, i>>] = None
    BY <1>2, <2>1, FixedSlots
  <2>4. \A g \in Group : g # Manager => ~ Active(g)
    BY <2>3, FixedSlots, Kinds DEF Active
  <2> QED
    BY <2>2, <2>3, <2>4 DEF OwnCapsKept, Active
<1> QED
  BY <1>5, <1>6, <1>7, <1>8 DEF CapInv

-----------------------------------------------------------------------------
(* Creating an object or a thread *)
LEMMA CreateInv ==
  ASSUME CapInv, NEW g \in Group, NEW o \in Obj, Create(g, o)
  PROVE  CapInv'
<1>1. PICK i \in SlotId, n \in 1 .. MaxWords :
         AllocSlotId(g, i, n) /\ NewObject(o, {<<g, i>>}, 0) /\ size' = [size EXCEPT ![g] = n]
  BY DEF Create
<1>2. {<<g, i>>} \in SUBSET Cap /\ slots[<<g, i>>] = None
  BY <1>1, FixedSlots, AllocatedIsFree
<1>3. Active(g) /\ size' \in [Group -> 1 .. MaxWords] /\ home' \in [Thread -> Group]
  BY <1>1 DEF Create, CapInv, TypeOK
<1>4. \A c \in {<<g, i>>} : slots[c] = None /\ Active(c[1])
  BY <1>2, <1>3
<1> QED
  BY <1>1, <1>2, <1>3, <1>4, NewObjectInv

LEMMA CreateThreadInv ==
  ASSUME CapInv, NEW g \in Group, NEW d \in Group, NEW t \in Thread,
         NEW queued \in 0 .. 1, CreateThread(g, d, t, queued)
  PROVE  CapInv'
<1>1. PICK i \in SlotId, n \in 1 .. MaxWords, j \in SlotId, m \in 1 .. MaxWords :
         /\ AllocSlotId(d, i, n) /\ AllocSlotId(g, j, m)
         /\ NewObject(t, {<<d, i>>, <<g, j>>}, queued)
         /\ size' = [size EXCEPT ![d] = n, ![g] = m]
  BY DEF CreateThread
<1> DEFINE C == {<<d, i>>, <<g, j>>}
<1>2. C \in SUBSET Cap /\ slots[<<d, i>>] = None /\ slots[<<g, j>>] = None
  BY <1>1, FixedSlots, AllocatedIsFree
<1>3. /\ Active(g) /\ Active(d) /\ queued \in Nat
      /\ size' \in [Group -> 1 .. MaxWords] /\ home' \in [Thread -> Group]
  BY <1>1 DEF CreateThread, CapInv, TypeOK
<1>4. C # {} /\ \A c \in C : slots[c] = None /\ Active(c[1])
  BY <1>2, <1>3
<1> HIDE DEF C
<1>5. NewObject(t, C, queued)
  BY <1>1 DEF C
<1> QED
  BY <1>2, <1>3, <1>4, <1>5, NewObjectInv

(* Copying a capability to an empty slot of a live group *)
LEMMA CapCopyInv ==
  ASSUME CapInv, NEW c \in Cap, NEW d \in Group, CapCopy(c, d)
  PROVE  CapInv'
<1> DEFINE o == slots[c]
<1>1. PICK i \in SlotId, n \in 1 .. MaxWords :
         /\ AllocSlotId(d, i, n)
         /\ slots' = Install({<<d, i>>}, o, slots)
         /\ full' = Fill({<<d, i>>}, slots')
         /\ copies' = [copies EXCEPT ![o] = @ \cup {<<d, i>>}]
         /\ size' = [size EXCEPT ![d] = n]
  BY DEF CapCopy
<1> DEFINE e == <<d, i>>
<1>2. e \in Cap /\ slots[e] = None /\ Active(d)
  BY <1>1, FixedSlots, AllocatedIsFree DEF CapCopy
<1>3. o \in Obj /\ o # None /\ c \in copies[o] /\ o \in objects
  <2>1. o \in Obj /\ o # None
    BY DEF CapCopy, CapInv, TypeOK
  <2>2. c \in copies[o]
    BY <2>1 DEF CapInv, CopiesExact
  <2> QED
    BY <2>1, <2>2 DEF CapInv, CopiesExact
<1>4. e \notin copies[o] /\ copies[o] \in SUBSET Cap
  BY <1>2, <1>3 DEF CapInv, CopiesExact, TypeOK
<1>5. /\ refcount' = [refcount EXCEPT ![o] = @ + 1]
      /\ objects' = objects /\ home' = home /\ refs' = refs
  BY DEF CapCopy
<1> HIDE DEF o, e
<1>6. /\ slots' = Install({e}, o, slots)
      /\ copies' = [copies EXCEPT ![o] = @ \cup {e}]
      /\ full' = Fill({e}, slots')
  BY <1>1 DEF e
<1>7. Cardinality(copies[o] \cup {e}) = Cardinality(copies[o]) + 1 /\ Cardinality(copies[o]) \in Nat
  BY <1>4, SubsetFinite, FS_AddElement
<1>8. TypeOK'
  <2>1. full' \in [Group -> SUBSET Words]
    BY <1>6 DEF Fill, CapInv, TypeOK
  <2>2. refcount' \in [Obj -> Nat]
    BY <1>3, <1>5 DEF CapInv, TypeOK
  <2>3. copies' \in [Obj -> SUBSET Cap] /\ slots' \in [Cap -> Obj \cup {None}]
    BY <1>2, <1>3, <1>6 DEF Install, CapInv, TypeOK
  <2>4. size' \in [Group -> 1 .. MaxWords]
    BY <1>1 DEF CapInv, TypeOK
  <2> QED
    BY <1>5, <2>1, <2>2, <2>3, <2>4 DEF CapInv, TypeOK
<1>9. CopiesExact'
  <2>1. \A x \in Cap : slots'[x] = IF x = e THEN o ELSE slots[x]
    BY <1>6 DEF Install
  <2>2. \A x \in Obj : copies'[x] = IF x = o THEN copies[x] \cup {e} ELSE copies[x]
    BY <1>6 DEF CapInv, TypeOK
  <2>3. \A x \in Obj : copies[x] = {y \in Cap : slots[y] = x} /\ x # None
    BY CapabilityAssumption DEF CapInv, CopiesExact
  <2>4. \A x \in Obj : copies'[x] = {y \in Cap : slots'[y] = x}
    <3> TAKE x \in Obj
    <3>1. copies[x] = {y \in Cap : slots[y] = x} /\ x # None
      BY <2>3
    <3>2. CASE x = o
      <4>1. copies'[x] = {y \in Cap : slots[y] = x} \cup {e}
        BY <2>2, <3>1, <3>2
      <4>2. \A y \in Cap : slots'[y] = x <=> slots[y] = x \/ y = e
        BY <2>1, <3>2
      <4> QED
        BY <1>2, <4>1, <4>2
    <3>3. CASE x # o
      <4>1. \A y \in Cap : slots'[y] = x <=> slots[y] = x
        BY <1>2, <2>1, <3>1, <3>3
      <4> QED
        BY <2>2, <3>1, <3>3, <4>1
    <3> QED
      BY <3>2, <3>3
  <2> QED
    BY <1>3, <1>5, <2>2, <2>4 DEF CapInv, CopiesExact
<1>10. RefcountExact'
  <2>1. \A x \in Obj : /\ x # o => copies'[x] = copies[x] /\ refcount'[x] = refcount[x]
                       /\ refs'[x] = refs[x]
    BY <1>5, <1>6 DEF CapInv, TypeOK
  <2>2. /\ copies'[o] = copies[o] \cup {e} /\ refcount'[o] = refcount[o] + 1
        /\ refs[o] \in Nat /\ refcount[o] \in Nat
    BY <1>3, <1>5, <1>6 DEF CapInv, TypeOK
  <2>3. refcount[o] = Cardinality(copies[o]) + refs[o]
    BY <1>3 DEF CapInv, RefcountExact
  <2>4. refcount'[o] = Cardinality(copies'[o]) + refs'[o] /\ refcount'[o] > 0
    BY <1>3, <1>7, <2>1, <2>2, <2>3
  <2> QED
    BY <1>5, <2>1, <2>4 DEF CapInv, RefcountExact
<1>11. OwnCapsKept'
  <2>1. {e} \in SUBSET Cap /\ \A x \in {e} : slots[x] = None /\ Active(x[1])
    BY <1>2 DEF e
  <2> QED
    BY <1>3, <1>5, <1>6, <2>1, InstallOwn
<1> QED
  BY <1>8, <1>9, <1>10, <1>11 DEF CapInv

(* The three ways to free capabilities spare the own caps of live groups. *)
LEMMA RevokeCapInv ==
  ASSUME CapInv, NEW c \in Cap, RevokeCap(c)
  PROVE  CapInv'
<1>1. CapFree({c}) /\ {c} \in SUBSET Cap
  BY DEF RevokeCap
<1>2. slots[c] # c[1] /\ slots[c] # vmOf[c[1]]
  BY DEF RevokeCap, Revocable
<1>3. ASSUME NEW g \in Group, Active(g)
      PROVE  <<g, CAP_GROUP_OBJ_ID>> \notin {c} /\ <<g, VMSPACE_OBJ_ID>> \notin {c}
  <2>1. slots[<<g, CAP_GROUP_OBJ_ID>>] = g /\ slots[<<g, VMSPACE_OBJ_ID>>] = vmOf[g]
    BY <1>3 DEF Active, CapInv, OwnCapsKept
  <2> QED
    BY <1>2, <2>1
<1> QED
  BY <1>1, <1>3, CapFreeOwn

LEMMA RevokeAllInv ==
  ASSUME CapInv, NEW c \in Cap, RevokeAll(c)
  PROVE  CapInv'
<1> DEFINE C == copies[slots[c]]
<1>1. CapFree(C) /\ slots[c] \in Other /\ slots[c] \in Obj
  BY Kinds DEF RevokeAll
<1>2. C \in SUBSET Cap /\ \A x \in C : slots[x] \in Other
  BY <1>1 DEF CapInv, TypeOK, CopiesExact
<1>3. ASSUME NEW g \in Group, Active(g)
      PROVE  <<g, CAP_GROUP_OBJ_ID>> \notin C /\ <<g, VMSPACE_OBJ_ID>> \notin C
  <2>1. slots[<<g, CAP_GROUP_OBJ_ID>>] = g /\ slots[<<g, VMSPACE_OBJ_ID>>] = vmOf[g]
    BY <1>3 DEF Active, CapInv, OwnCapsKept
  <2> QED
    BY <1>2, <2>1, Kinds
<1> QED
  BY <1>1, <1>2, <1>3, CapFreeOwn

LEMMA RecycleInv ==
  ASSUME CapInv, NEW g \in Group, NEW shm, CapGroupRecycle(g, shm)
  PROVE  CapInv'
<1>1. PICK C \in SUBSET Cap :
         /\ CapFree(C)
         /\ \A c \in C : c[1] = g \/ slots[c] = g \/ slots[c] \in Thread
         /\ \A c \in Cap : c[1] = g => c \in C
  BY DEF CapGroupRecycle
<1>2. ASSUME NEW h \in Group, Active(h)
      PROVE  \/ <<h, CAP_GROUP_OBJ_ID>> \notin C /\ <<h, VMSPACE_OBJ_ID>> \notin C
             \/ \A i \in SlotId : <<h, i>> \in C
  <2>1. CASE h = g
    BY <1>1, <2>1, FixedSlots
  <2>2. CASE h # g
    <3>1. slots[<<h, CAP_GROUP_OBJ_ID>>] = h /\ slots[<<h, VMSPACE_OBJ_ID>>] = vmOf[h]
      BY <1>2 DEF Active, CapInv, OwnCapsKept
    <3>2. <<h, CAP_GROUP_OBJ_ID>>[1] = h /\ <<h, VMSPACE_OBJ_ID>>[1] = h
      OBVIOUS
    <3>3. h # g /\ h \notin Thread /\ vmOf[h] # g /\ vmOf[h] \notin Thread
      BY <2>2, Kinds
    <3> QED
      BY <1>1, <3>1, <3>2, <3>3
  <2> QED
    BY <2>1, <2>2
<1> QED
  BY <1>1, <1>2, CapFreeOwn

(* Taking and dropping a reference: dropping the last one frees an object     *)
(* that no slot points to.                                                  *)
LEMMA ObjGetInv ==
  ASSUME CapInv, NEW o \in Obj, ObjGet(o)
  PROVE  CapInv'
<1>1. TypeOK' /\ CopiesExact' /\ OwnCapsKept'
  BY DEF ObjGet, CapInv, TypeOK, CopiesExact, OwnCapsKept, Active
<1>2. \A x \in Obj : /\ refcount'[x] = IF x = o THEN refcount[x] + 1 ELSE refcount[x]
                     /\ refs'[x] = IF x = o THEN refs[x] + 1 ELSE refs[x]
                     /\ Cardinality(copies[x]) \in Nat /\ refs[x] \in Nat
                     /\ copies'[x] = copies[x]
  BY SubsetFinite DEF ObjGet, CapInv, TypeOK
<1>3. RefcountExact'
  <2>1. objects' = objects
    BY DEF ObjGet
  <2> QED
    BY <1>2, <2>1 DEF CapInv, RefcountExact
<1> QED
  BY <1>1, <1>3 DEF CapInv

LEMMA ObjPutInv ==
  ASSUME CapInv, NEW o \in Obj, ObjPut(o)
  PROVE  CapInv'
<1>1. \A x \in Obj : /\ refcount'[x] = IF x = o THEN refcount[x] - 1 ELSE refcount[x]
                     /\ refs'[x] = IF x = o THEN refs[x] - 1 ELSE refs[x]
                     /\ Cardinality(copies[x]) \in Nat /\ refs[x] \in Nat /\ refcount[x] \in Nat
  BY SubsetFinite DEF ObjPut, CapInv, TypeOK
<1>2. o \in objects /\ refs[o] > 0 /\ refcount[o] = Cardinality(copies[o]) + refs[o]
  BY <1>1 DEF ObjPut, CapInv, CopiesExact, RefcountExact
<1>3. copies' = copies /\ slots' = slots /\ objects' = {x \in objects : refcount'[x] > 0}
  BY DEF ObjPut
<1>4. refcount'[o] \in Nat /\ refs'[o] \in Nat /\ refcount'[o] = Cardinality(copies[o]) + refs'[o]
  BY <1>1, <1>2
<1>5. \A x \in objects \ objects' : x = o
  BY <1>1, <1>3 DEF CapInv, RefcountExact, TypeOK
<1>6. o \notin objects' => copies[o] = {} /\ refs'[o] = 0
  <2>1. IsFiniteSet(copies[o])
    BY SubsetFinite DEF CapInv, TypeOK
  <2>2. o \notin objects' => Cardinality(copies[o]) = 0 /\ refs'[o] = 0
    BY <1>1, <1>2, <1>3, <1>4
  <2> QED
    BY <2>1, <2>2, FS_EmptySet
<1>7. TypeOK'
  BY <1>1, <1>3, <1>4 DEF ObjPut, CapInv, TypeOK
<1>8. CopiesExact'
  BY <1>1, <1>2, <1>3, <1>5, <1>6 DEF CapInv, CopiesExact
<1>9. RefcountExact'
  BY <1>1, <1>3, <1>4 DEF CapInv, RefcountExact
<1>10. OwnCapsKept'
  <2>1. \A g \in Group : Active(g) => g \in objects'
    <3> TAKE g \in Group
    <3> HAVE Active(g)
    <3>1. <<g, CAP_GROUP_OBJ_ID>> \in copies[g]
      BY FixedSlots, Kinds DEF Active, CapInv, CopiesExact
    <3> QED
      BY <1>5, <1>6, <3>1 DEF Active
  <2> QED
    BY <1>3, <2>1 DEF CapInv, OwnCapsKept, Active
<1> QED
  BY <1>7, <1>8, <1>9, <1>10 DEF CapInv

(* A new process: its table was empty, and gets its group and vmspace. *)
LEMMA CreateCapGroupInv ==
  ASSUME CapInv, NEW n \in Group, CreateCapGroup(n)
  PROVE  CapInv'
<1> DEFINE v == vmOf[n]
           a == <<n, CAP_GROUP_OBJ_ID>>
           b == <<n, VMSPACE_OBJ_ID>>
<1>1. PICK i \in SlotId, m \in 1 .. MaxWords :
         /\ AllocSlotId(Manager, i, m)
         /\ objects' = objects \cup {n, v}
         /\ slots' = Install({b}, v, Install({<<Manager, i>>, a}, n, slots))
         /\ full' = Fill({<<Manager, i>>, a} \cup {b}, slots')
         /\ copies' = [copies EXCEPT ![n] = {<<Manager, i>>, a}, ![v] = {b}]
         /\ refcount' = [refcount EXCEPT ![n] = 2, ![v] = 1]
         /\ size' = [size EXCEPT ![Manager] = m, ![n] = 1]
  BY DEF CreateCapGroup
<1> DEFINE e == <<Manager, i>>
<1>2. /\ Manager \in Group /\ n \notin objects /\ v \notin objects /\ Active(Manager) /\ n # Manager
      /\ home' = home /\ refs' = refs
  BY CapabilityAssumption DEF CreateCapGroup, Active
<1>3. /\ e \in Cap /\ a \in Cap /\ b \in Cap /\ e # a /\ e # b /\ a # b
      /\ n \in Obj /\ v \in Obj /\ n # v /\ n # None /\ v # None
  BY <1>2, FixedSlots, Kinds DEF CAP_GROUP_OBJ_ID, VMSPACE_OBJ_ID
<1>4. ~ Active(n) /\ \A j \in SlotId : slots[<<n, j>>] = None
  BY <1>2 DEF Active, CapInv, OwnCapsKept
<1>5. slots[e] = None /\ slots[a] = None /\ slots[b] = None
  BY <1>1, <1>2, <1>4, AllocatedIsFree, FixedSlots
<1>6. /\ copies[n] = {} /\ copies[v] = {} /\ refs[n] = 0 /\ refs[v] = 0
  BY <1>2, <1>3 DEF CapInv, CopiesExact
<1>7. \A c \in Cap : slots'[c] = IF c = b THEN v ELSE IF c = e \/ c = a THEN n ELSE slots[c]
  BY <1>1 DEF Install
<1>8. \A x \in Obj : /\ copies'[x] = IF x = v THEN {b} ELSE IF x = n THEN {e, a} ELSE copies[x]
                     /\ refcount'[x] = IF x = v THEN 1 ELSE IF x = n THEN 2 ELSE refcount[x]
  BY <1>1, <1>3 DEF CapInv, TypeOK
<1>9. TypeOK'
  <2>1. full' \in [Group -> SUBSET Words]
    BY <1>1 DEF Fill, CapInv, TypeOK
  <2>2. refcount' \in [Obj -> Nat]
    BY <1>1 DEF CapInv, TypeOK
  <2>3. copies' \in [Obj -> SUBSET Cap]
    BY <1>1, <1>3 DEF CapInv, TypeOK
  <2>4. slots' \in [Cap -> Obj \cup {None}]
    BY <1>1, <1>3 DEF Install, CapInv, TypeOK
  <2>5. size' \in [Group -> 1 .. MaxWords]
    BY <1>1, CapabilityAssumption DEF CapInv, TypeOK
  <2>6. objects' \subseteq Obj
    BY <1>1, <1>3 DEF CapInv, TypeOK
  <2> QED
    BY <1>2, <2>1, <2>2, <2>3, <2>4, <2>5, <2>6 DEF CapInv, TypeOK
<1> HIDE DEF a, b, e, v
<1>10. CopiesExact'
  <2>1. ASSUME NEW x \in Obj PROVE copies'[x] = {c \in Cap : slots'[c] = x}
    <3>1. copies[x] = {c \in Cap : slots[c] = x} /\ x # None
      BY CapabilityAssumption DEF CapInv, CopiesExact
    <3>2. CASE x = v
      <4>1. \A c \in Cap : slots'[c] = x <=> c = b
        BY <1>3, <1>6, <1>7, <3>1, <3>2
      <4> QED
        BY <1>3, <1>8, <3>2, <4>1
    <3>3. CASE x = n
      <4>1. \A c \in Cap : slots'[c] = x <=> c = e \/ c = a
        BY <1>3, <1>6, <1>7, <3>1, <3>3
      <4> QED
        BY <1>3, <1>8, <3>3, <4>1
    <3>4. CASE x # v /\ x # n
      <4>1. \A c \in Cap : slots'[c] = x <=> slots[c] = x
        BY <1>5, <1>7, <3>1, <3>4
      <4> QED
        BY <1>8, <3>1, <3>4, <4>1
    <3> QED
      BY <3>2, <3>3, <3>4
  <2>2. \A x \in Obj : x \notin objects' => copies'[x] = {} /\ refs'[x] = 0
    <3>1. n \in objects' /\ v \in objects' /\ objects \subseteq objects'
      BY <1>1 DEF v
    <3> QED
      BY <1>2, <1>8, <3>1 DEF CapInv, CopiesExact
  <2> QED
    BY <2>1, <2>2 DEF CopiesExact
<1>11. RefcountExact'
  <2>1. Cardinality({b}) = 1 /\ Cardinality({e, a}) = 2
    <3>1. IsFiniteSet({e}) /\ Cardinality({e}) = 1 /\ Cardinality({b}) = 1
      BY FS_Singleton
    <3>2. Cardinality({e} \cup {a}) = 2
      <4>1. a \notin {e}
        BY <1>3
      <4>2. Cardinality({e} \cup {a}) = Cardinality({e}) + 1
        BY <3>1, <4>1, FS_AddElement
      <4> QED
        BY <3>1, <4>2
    <3>3. {e} \cup {a} = {e, a}
      OBVIOUS
    <3> QED
      BY <3>1, <3>2, <3>3
  <2>2. \A x \in objects' : x = n \/ x = v \/ x \in objects
    BY <1>1 DEF v
  <2> QED
    BY <1>2, <1>3, <1>6, <1>8, <2>1, <2>2 DEF CapInv, RefcountExact
<1>12. OwnCapsKept'
  <2>1. \A g \in Group, j \in SlotId : <<g, j>> \in Cap /\ (g # n => <<g, j>> # a /\ <<g, j>> # b)
    BY FixedSlots DEF a, b
  <2>2. ASSUME NEW g \in Group, g # n
        PROVE  IF Active(g)' THEN slots'[<<g, VMSPACE_OBJ_ID>>] = vmOf[g]
                             ELSE \A j \in SlotId : slots'[<<g, j>>] = None
    <3>1. CASE Active(g)
      <4>1. slots[<<g, CAP_GROUP_OBJ_ID>>] = g /\ slots[<<g, VMSPACE_OBJ_ID>>] = vmOf[g]
        BY <3>1 DEF Active, CapInv, OwnCapsKept
      <4>2. <<g, CAP_GROUP_OBJ_ID>> # e /\ <<g, VMSPACE_OBJ_ID>> # e
        BY <1>5, <4>1, Kinds
      <4>3. slots'[<<g, CAP_GROUP_OBJ_ID>>] = g /\ slots'[<<g, VMSPACE_OBJ_ID>>] = vmOf[g]
        BY <1>7, <2>1, <2>2, <4>1, <4>2, FixedSlots
      <4>4. g \in objects'
        BY <1>1, <3>1 DEF Active
      <4> QED
        BY <4>3, <4>4 DEF Active
    <3>2. CASE ~ Active(g)
      <4>1. g # Manager /\ \A j \in SlotId : <<g, j>> # e
        BY <1>2, <3>2 DEF e
      <4>2. \A j \in SlotId : slots'[<<g, j>>] = None
        BY <1>7, <2>1, <2>2, <3>2, <4>1 DEF CapInv, OwnCapsKept
      <4> QED
        BY <4>2, FixedSlots, Kinds DEF Active
    <3> QED
      BY <3>1, <3>2
  <2>3. slots'[a] = n /\ slots'[b] = v /\ n \in objects'
    BY <1>1, <1>3, <1>7
  <2>4. Active(n)' /\ slots'[<<n, VMSPACE_OBJ_ID>>] = vmOf[n]
    BY <2>3 DEF Active, a, b, v
  <2> QED
    BY <2>2, <2>4 DEF OwnCapsKept
<1> QED
  BY <1>9, <1>10, <1>11, <1>12 DEF CapInv

-----------------------------------------------------------------------------
(* Every step preserves the invariant. *)
LEMMA NextInv == CapInv /\ [Next]_vars => CapInv'
<1> SUFFICES ASSUME CapInv, [Next]_vars PROVE CapInv'
  OBVIOUS
<1>1. CASE UNCHANGED vars
  BY <1>1 DEF vars, CapInv, TypeOK, CopiesExact, RefcountExact, OwnCapsKept, Active
<1>2. CASE \E g \in Group, o \in Obj : Create(g, o)
  BY <1>2, CreateInv
<1>3. CASE \E g, d \in Group, t \in Thread, queued \in 0 .. 1 : CreateThread(g, d, t, queued)
  BY <1>3, CreateThreadInv
<1>4. CASE \E g \in Group : CreateCapGroup(g)
  BY <1>4, CreateCapGroupInv
<1>5. CASE \E g \in Group, shm \in [Connection -> SlotId] : CapGroupRecycle(g, shm)
  BY <1>5, RecycleInv
<1>6. CASE \E c \in Cap : RevokeCap(c) \/ RevokeAll(c) \/ \E d \in Group : CapCopy(c, d)
  BY <1>6, RevokeCapInv, RevokeAllInv, CapCopyInv
<1>7. CASE \E o \in Obj : ObjGet(o) \/ ObjPut(o)
  BY <1>7, ObjGetInv, ObjPutInv
<1> QED
  BY <1>1, <1>2, <1>3, <1>4, <1>5, <1>6, <1>7 DEF Next

(* The invariant of kernel/object/capability.c: in every reachable state the  *)
(* lists of copies, the reference counts and the groups' own caps are right. *)
THEOREM CapabilityInvariance == Spec => []CapInv
BY InitInv, NextInv, PTL DEF Spec

(* cap_alloc(), cap_copy() and __cap_free() keep copies_head exact: no slot    *)
(* points to a freed object, and no slot escapes cap_free_all().             *)
THEOREM CopiesCorrect == Spec => []CopiesExact
<1>1. CapInv => CopiesExact
  BY DEF CapInv
<1> QED
  BY <1>1, CapabilityInvariance, PTL

(* object->refcount counts the slots and the references in use, so           *)
(* __cap_free() and obj_put() free an object at its last one, never earlier.  *)
THEOREM RefcountCorrect == Spec => []RefcountExact
<1>1. CapInv => RefcountExact
  BY DEF CapInv
<1> QED
  BY <1>1, CapabilityInvariance, PTL

(* No revocation, recycling or creation elsewhere takes CAP_GROUP_OBJ_ID and   *)
(* VMSPACE_OBJ_ID from a live group, and a dead one holds nothing.           *)
THEOREM OwnCapsCorrect == Spec => []OwnCapsKept
<1>1. CapInv => OwnCapsKept
  BY DEF CapInv
<1> QED
  BY <1>1, CapabilityInvariance, PTL
=============================================================================
