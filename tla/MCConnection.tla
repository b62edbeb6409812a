----------------------------- MODULE MCConnection -----------------------------
(* Instances of Connection: a client process pa, a server pb and, in a chain, *)
(* a server pc that the handler of pb calls.                                *)
EXTENDS Connection

CONSTANTS pa, pb, pc, t1, t2, h1, h2, r1, r2, k1, k2, pm

(* Two threads of pa share one connection with pb *)
SharedProc == [x \in {t1, t2, h1, r1} |-> IF x \in {t1, t2} THEN pa ELSE pb]
SharedOwner == k1 :> pa
SharedHandler == k1 :> h1
SharedRegister == k1 :> r1
SharedSlots == <<r1, k1>>

(* A thread of pa calls pb over k1, whose handler calls pc over k2; a thread *)
(* of pb uses k2 too                                                        *)
ChainProc == t1 :> pa @@ t2 :> pb @@ h1 :> pb @@ r1 :> pb @@ h2 :> pc @@ r2 :> pc
ChainOwner == k1 :> pa @@ k2 :> pb
ChainHandler == k1 :> h1 @@ k2 :> h2
ChainRegister == k1 :> r1 @@ k2 :> r2
ChainSlots == <<r1, r2, k1, k2>>

(* Two threads of pa, each with a connection of its own to pb *)
TwoProc == [x \in {t1, t2, h1, h2, r1} |-> IF x \in {t1, t2} THEN pa ELSE pb]
TwoOwner == [k \in {k1, k2} |-> pa]
TwoHandler == k1 :> h1 @@ k2 :> h2
TwoRegister == [k \in {k1, k2} |-> r1]
TwoSlots == <<r1, k1, k2>>
=============================================================================
