------------------------------ MODULE MCProcMgr ------------------------------
(* Small instances of ProcMgr: one handler for each client.  The root process *)
(* launches p1, which launches and waits; p3 is launched by either.           *)
EXTENDS ProcMgr

CONSTANTS proot, p1, p2, p3, p4, hr, ha

MCClientOf == (hr :> proot) @@ (ha :> p1)
MCPrograms == (hr :> <<p1, p3>>) @@ (ha :> <<p2, p3>>)

(* A burst of exits: no calls but launches *)
MCBurstClient == hr :> proot
MCBurst == hr :> <<p1, p2, p3, p4>>
=============================================================================
