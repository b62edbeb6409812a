----------------------------- MODULE MCCapability -----------------------------
(* The process manager m and a process g1, with a thread t1 and a connection  *)
(* o1, and slot tables of two words of three ids.  The kernel takes           *)
(* references to g1, the thread and the connection.                          *)
EXTENDS Capability, TLC

CONSTANTS m, g1, v0, v1, t1, o1

MCvmOf == m :> v0 @@ g1 :> v1
MCMaxCopy == m :> 1 @@ v0 :> 1 @@ v1 :> 1 @@ g1 :> 3 @@ t1 :> 2 @@ o1 :> 2
MCMaxRef == m :> 0 @@ v0 :> 0 @@ v1 :> 0 @@ g1 :> 1 @@ t1 :> 1 @@ o1 :> 1
=============================================================================
