------------------------------ MODULE Connection ------------------------------
(***************************************************************************)
(* Connection IPC: kernel/ipc/connection.c with the recycling of processes  *)
(* in kernel/object/recycle.c and the scheduler's treatment of exiting      *)
(* threads.                                                                 *)
(*                                                                         *)
(* A client thread migrates into a handler (shadow) thread of the server:   *)
(* it lends it its scheduling context and sleeps until the handler returns. *)
(* A connection is locked (ownership) from the call to the return, and so   *)
(* is the handler (ipc_lock); both are taken by try_lock only.              *)
(*                                                                         *)
(* There is one CPU and interrupts are masked in the kernel: a system call  *)
(* is one step of current_thread.  The scheduler may run any ready thread.  *)
(***************************************************************************)
EXTENDS Naturals, Sequences, FiniteSets, SequencesExt

CONSTANTS
  Proc,                     \* client and server processes (cap groups)
  User, Handler, Register,  \* threads of TYPE_USER, TYPE_SHADOW, TYPE_REGISTER
  ProcMgr,                  \* the recycler thread of the process manager
  procOf,                   \* process of each thread but ProcMgr
  Conn,                     \* connections
  slotOrder,                \* connections and registration threads, in the
                            \* order of their slots in the cap tables
  owner, handlerOf, registerOf,  \* client process, handler and registration
                            \* thread of each connection
  Single,                   \* handlers made by register_cb_single(): they
                            \* serve many connections and never exit
  Established,              \* connections that exist in the initial state
  Killable,                 \* processes that exit or are killed
  None

Shared == User \cup Handler \cup Register
Thread == Shared \cup {ProcMgr}
serverOf(k) == procOf[handlerOf[k]]

ASSUME ConnectionAssumption ==
  /\ procOf \in [Shared -> Proc]
  /\ IsInjective(slotOrder) /\ ToSet(slotOrder) = Conn \cup Register
  /\ Conn \cap Register = {}
  /\ owner \in [Conn -> Proc]
  /\ handlerOf \in [Conn -> Handler] /\ registerOf \in [Conn -> Register]
  /\ \A k \in Conn : procOf[registerOf[k]] = serverOf(k) /\ owner[k] # serverOf(k)
  /\ Single \subseteq Handler
  /\ \A k, l \in Conn : handlerOf[k] = handlerOf[l] /\ k # l => handlerOf[k] \in Single
  /\ Established \subseteq Conn /\ Killable \subseteq Proc
  /\ None \notin Thread \cup Conn /\ ProcMgr \notin Shared

VARIABLES
  cur,            \* current_thread
  tstate,         \* none: not created; ready, running, wait, exit; freed
  exit_state,     \* thread_exit_state
  sc,             \* the scheduling context in use, named by its first owner
  conn,           \* the fields of each struct ipc_connection
  ipc_lock,       \* handler_config->ipc_lock
  active_conn,    \* handler_config->active_conn
  register_lock,  \* register_cb_config->register_lock
  building,       \* the connection a registration thread is building
  leaving,        \* handlers that run their exit routine
  killed,         \* processes with notify_recycler set
  recycled,       \* processes whose sys_cap_group_recycle() succeeded
  panic           \* a BUG_ON fired or a freed thread was used

threads == <<cur, tstate, exit_state, sc>>
ipc == <<conn, ipc_lock, active_conn, register_lock, building, leaving>>
vars == <<threads, ipc, killed, recycled, panic>>

(* ownership is "over" after an unlock() of a lock that nobody held: the     *)
(* ticket lock's owner has passed next, and no try_lock() succeeds again.    *)
ConnState ==
  [is_valid : BOOLEAN, client : Thread \cup {None}, server : Handler \cup {None},
   ownership : {"free", "held", "over"}, inClient : BOOLEAN, inServer : BOOLEAN]

TypeOK ==
  /\ cur \in Thread
  /\ tstate \in [Thread -> {"none", "ready", "running", "wait", "exit", "freed"}]
  /\ exit_state \in [Thread -> {"RUNNING", "EXITING", "EXITED"}]
  /\ sc \in [Thread -> Thread \cup {None}]
  /\ conn \in [Conn -> ConnState]
  /\ ipc_lock \in [Handler -> BOOLEAN]
  /\ active_conn \in [Handler -> Conn \cup {None}]
  /\ register_lock \in [Register -> BOOLEAN]
  /\ building \in [Register -> Conn \cup {None}]
  /\ leaving \subseteq Handler
  /\ recycled \subseteq killed /\ killed \subseteq Killable
  /\ panic \in BOOLEAN

Init ==
  /\ cur = ProcMgr
  /\ tstate = [t \in Thread |->
                 CASE t = ProcMgr -> "running"
                   [] t \in User -> "ready"
                   [] t \in Register -> "wait"
                   [] t \in Handler -> IF \E k \in Established : handlerOf[k] = t
                                       THEN "wait" ELSE "none"]
  /\ exit_state = [t \in Thread |-> "RUNNING"]
  /\ sc = [t \in Thread |-> IF t \in User \cup {ProcMgr} THEN t ELSE None]
  /\ conn = [k \in Conn |->
               LET e == k \in Established IN
               [is_valid |-> e, client |-> None, ownership |-> "free",
                server |-> IF e THEN handlerOf[k] ELSE None,
                inClient |-> e, inServer |-> e]]
  /\ ipc_lock = [h \in Handler |-> FALSE]
  /\ active_conn = [h \in Handler |-> None]
  /\ register_lock = [r \in Register |-> FALSE]
  /\ building = [r \in Register |-> None]
  /\ leaving = {}
  /\ killed = {} /\ recycled = {}
  /\ panic = FALSE

-----------------------------------------------------------------------------
(* sched(): run any ready thread that is not exiting, given the states ts    *)
Sched(ts, es) ==
  \E t \in Thread :
    /\ ts[t] = "ready" /\ es[t] = "RUNNING"
    /\ cur' = t
    /\ tstate' = [ts EXCEPT ![t] = "running"]

(* sched_to_thread(): switch to t directly, exiting or not; BUG_ON if it     *)
(* does not wait                                                            *)
SwitchTo(ts, t) ==
  /\ cur' = t
  /\ tstate' = [ts EXCEPT ![t] = "running"]
  /\ panic' = (ts[t] # "wait")

(* pbrr_sched(): an exiting thread that gives up the CPU becomes TS_EXIT *)
Descheduled(t, es) ==
  IF es[t] = "RUNNING" THEN [tstate EXCEPT ![t] = "ready"]
                       ELSE [tstate EXCEPT ![t] = "exit"]

(* A timer tick, sys_yield(), or the end of an exiting thread *)
Yield ==
  /\ ~ panic
  /\ Sched(Descheduled(cur, exit_state), exit_state)
  /\ exit_state' = IF exit_state[cur] = "EXITING"
                   THEN [exit_state EXCEPT ![cur] = "EXITED"] ELSE exit_state
  /\ UNCHANGED <<sc, ipc, killed, recycled, panic>>

(* pbrr_sched_choose_thread(): an exiting thread taken from a ready queue is  *)
(* dropped                                                                  *)
Drop(t) ==
  /\ ~ panic
  /\ tstate[t] = "ready" /\ exit_state[t] # "RUNNING"
  /\ tstate' = [tstate EXCEPT ![t] = "exit"]
  /\ exit_state' = [exit_state EXCEPT ![t] = "EXITED"]
  /\ UNCHANGED <<cur, sc, ipc, killed, recycled, panic>>

-----------------------------------------------------------------------------
(* Mutant of RegisterClient: the client is not marked TS_WAITING *)
RegisterClientAwake(k) ==
  LET r == registerOf[k] IN
  /\ ~ panic
  /\ cur \in User \cup Handler /\ owner[k] = procOf[cur]
  /\ serverOf(k) \notin recycled
  /\ ~ conn[k].inClient /\ ~ conn[k].inServer
  /\ conn[k].client = None /\ conn[k].ownership = "free"
  /\ ~ register_lock[r]
  /\ register_lock' = [register_lock EXCEPT ![r] = TRUE]
  /\ building' = [building EXCEPT ![r] = k]
  /\ conn' = [conn EXCEPT ![k] = [@ EXCEPT !.client = cur, !.inClient = TRUE,
                                           !.inServer = TRUE]]
  /\ sc' = [sc EXCEPT ![r] = sc[cur]]
  /\ SwitchTo([tstate EXCEPT ![cur] = "ready"], r)
  /\ UNCHANGED <<exit_state, ipc_lock, active_conn, leaving, killed, recycled>>

(* sys_register_client(): with register_lock (-EIPCRETRY if it is taken),    *)
(* create the connection and migrate to the registration thread             *)
RegisterClient(k) ==
  LET r == registerOf[k] IN
  /\ ~ panic
  /\ cur \in User \cup Handler /\ owner[k] = procOf[cur]
  /\ serverOf(k) \notin recycled
  /\ ~ conn[k].inClient /\ ~ conn[k].inServer
  /\ conn[k].client = None /\ conn[k].ownership = "free"
  /\ ~ register_lock[r]
  /\ register_lock' = [register_lock EXCEPT ![r] = TRUE]
  /\ building' = [building EXCEPT ![r] = k]
  /\ conn' = [conn EXCEPT ![k] = [@ EXCEPT !.client = cur, !.inClient = TRUE,
                                           !.inServer = TRUE]]
  /\ sc' = [sc EXCEPT ![r] = sc[cur]]
  /\ SwitchTo([tstate EXCEPT ![cur] = "wait"], r)
  /\ UNCHANGED <<exit_state, ipc_lock, active_conn, leaving, killed, recycled>>

(* register_cb() creates the handler in the server.  create_thread() creates *)
(* none for an exiting thread, which exits instead: that is Yield.          *)
CreateHandler ==
  /\ ~ panic
  /\ cur \in Register /\ building[cur] # None
  /\ exit_state[cur] # "EXITING"
  /\ tstate[handlerOf[building[cur]]] = "none"
  /\ tstate' = [tstate EXCEPT ![handlerOf[building[cur]]] = "wait"]
  /\ UNCHANGED <<cur, exit_state, sc, ipc, killed, recycled, panic>>

(* sys_ipc_register_cb_return(): bind the handler, make the connection valid  *)
(* and go back to the client, whatever became of it                         *)
RegisterCbReturn ==
  LET r == cur
      k == building[r]
      h == handlerOf[k]
      c == conn[k].client
  IN
  /\ ~ panic
  /\ cur \in Register /\ k # None
  /\ tstate[h] # "none"
  /\ conn' = [conn EXCEPT ![k] = [@ EXCEPT !.is_valid = TRUE, !.client = None,
                                           !.server = h]]
  /\ register_lock' = [register_lock EXCEPT ![r] = FALSE]
  /\ building' = [building EXCEPT ![r] = None]
  /\ sc' = [sc EXCEPT ![r] = None]
  /\ SwitchTo([tstate EXCEPT ![r] = "wait"], c)
  /\ UNCHANGED <<exit_state, ipc_lock, active_conn, leaving, killed, recycled>>

(* Mutant of IpcCall: ipc_lock is not taken *)
IpcCallUnlocked(k) ==
  LET h == conn[k].server IN
  /\ ~ panic
  /\ cur \in User \cup Handler /\ owner[k] = procOf[cur] /\ conn[k].inClient
  /\ conn[k].ownership = "free" /\ conn[k].is_valid
  /\ ~ ipc_lock[h]
  /\ conn' = [conn EXCEPT ![k] = [@ EXCEPT !.ownership = "held", !.client = cur]]
  /\ active_conn' = [active_conn EXCEPT ![h] = k]
  /\ sc' = [sc EXCEPT ![h] = sc[cur]]
  /\ SwitchTo([tstate EXCEPT ![cur] = "wait"], h)
  /\ UNCHANGED <<ipc_lock, exit_state, register_lock, building, leaving, killed, recycled>>

(* sys_ipc_call(): with ownership and the handler's ipc_lock, migrate to the *)
(* handler.  It returns -EIPCRETRY if one of them is taken, -EINVAL if the   *)
(* connection is invalid, and leaves everything as it was.                  *)
IpcCall(k) ==
  LET h == conn[k].server IN
  /\ ~ panic
  /\ cur \in User \cup Handler /\ owner[k] = procOf[cur] /\ conn[k].inClient
  /\ conn[k].ownership = "free" /\ conn[k].is_valid
  /\ ~ ipc_lock[h]
  /\ conn' = [conn EXCEPT ![k] = [@ EXCEPT !.ownership = "held", !.client = cur]]
  /\ ipc_lock' = [ipc_lock EXCEPT ![h] = TRUE]
  /\ active_conn' = [active_conn EXCEPT ![h] = k]
  /\ sc' = [sc EXCEPT ![h] = sc[cur]]
  /\ SwitchTo([tstate EXCEPT ![cur] = "wait"], h)
  /\ UNCHANGED <<exit_state, register_lock, building, leaving, killed, recycled>>

Unlocked(o) == IF o = "held" THEN "free" ELSE "over"

(* Mutant of IpcReturn: the handler reschedules instead of switching to the client *)
IpcReturnAsleep ==
  LET h == cur
      k == active_conn[h]
      c == conn[k].client
      es == [exit_state EXCEPT ![h] = IF @ = "EXITING" THEN "EXITED" ELSE @]
      clientExits == exit_state[c] = "EXITING"
      dropClient == clientExits /\ c \notin Handler
      ts == [tstate EXCEPT ![h] = "wait"]
  IN
  /\ ~ panic
  /\ cur \in Handler /\ k # None
  /\ conn' = [conn EXCEPT ![k] =
                [@ EXCEPT !.is_valid = @ /\ es[h] # "EXITED" /\ ~ clientExits,
                          !.ownership = Unlocked(@)]]
  /\ active_conn' = [active_conn EXCEPT ![h] = None]
  /\ ipc_lock' = [ipc_lock EXCEPT ![h] = FALSE]
  /\ sc' = [sc EXCEPT ![h] = None]
  /\ exit_state' = IF dropClient THEN [es EXCEPT ![c] = "EXITED"] ELSE es
  /\ IF dropClient
     THEN Sched([ts EXCEPT ![c] = "exit"], exit_state') /\ UNCHANGED panic
     ELSE Sched(ts, exit_state') /\ UNCHANGED panic
  /\ UNCHANGED <<register_lock, building, leaving, killed, recycled>>

(* Mutant of IpcReturn: ownership is not unlocked *)
IpcReturnLocked ==
  LET h == cur
      k == active_conn[h]
      c == conn[k].client
      es == [exit_state EXCEPT ![h] = IF @ = "EXITING" THEN "EXITED" ELSE @]
      clientExits == exit_state[c] = "EXITING"
      dropClient == clientExits /\ c \notin Handler
      ts == [tstate EXCEPT ![h] = "wait"]
  IN
  /\ ~ panic
  /\ cur \in Handler /\ k # None
  /\ conn' = [conn EXCEPT ![k] =
                [@ EXCEPT !.is_valid = @ /\ es[h] # "EXITED" /\ ~ clientExits]]
  /\ active_conn' = [active_conn EXCEPT ![h] = None]
  /\ ipc_lock' = [ipc_lock EXCEPT ![h] = FALSE]
  /\ sc' = [sc EXCEPT ![h] = None]
  /\ exit_state' = IF dropClient THEN [es EXCEPT ![c] = "EXITED"] ELSE es
  /\ IF dropClient
     THEN Sched([ts EXCEPT ![c] = "exit"], exit_state') /\ UNCHANGED panic
     ELSE SwitchTo(ts, c)
  /\ UNCHANGED <<register_lock, building, leaving, killed, recycled>>

(* sys_ipc_return().  Step-1: an exiting handler invalidates the connection   *)
(* and is exited.  Step-2: so does an exiting client, which is exited here   *)
(* unless it is itself a handler in a chain of calls.                       *)
IpcReturn ==
  LET h == cur
      k == active_conn[h]
      c == conn[k].client
      es == [exit_state EXCEPT ![h] = IF @ = "EXITING" THEN "EXITED" ELSE @]
      clientExits == exit_state[c] = "EXITING"
      dropClient == clientExits /\ c \notin Handler
      ts == [tstate EXCEPT ![h] = "wait"]
  IN
  /\ ~ panic
  /\ cur \in Handler /\ k # None
  /\ conn' = [conn EXCEPT ![k] =
                [@ EXCEPT !.is_valid = @ /\ es[h] # "EXITED" /\ ~ clientExits,
                          !.ownership = Unlocked(@)]]
  /\ active_conn' = [active_conn EXCEPT ![h] = None]
  /\ ipc_lock' = [ipc_lock EXCEPT ![h] = FALSE]
  /\ sc' = [sc EXCEPT ![h] = None]
  /\ exit_state' = IF dropClient THEN [es EXCEPT ![c] = "EXITED"] ELSE es
  /\ IF dropClient
     THEN Sched([ts EXCEPT ![c] = "exit"], exit_state') /\ UNCHANGED panic
     ELSE SwitchTo(ts, c)
  /\ UNCHANGED <<register_lock, building, leaving, killed, recycled>>

-----------------------------------------------------------------------------
(* recycle_server_shadow_thread() for the connections K: a handler that does *)
(* not exit runs its exit routine, with a context of its own; BUG_ON if it   *)
(* has one or is locked.  An exiting one becomes TS_EXIT.                    *)
ServersOf(K) == {conn[k].server : k \in K} \ {None}
RunsExit(K) == {h \in ServersOf(K) : exit_state[h] = "RUNNING"}
ShadowBug(K) ==
  \E h \in RunsExit(K) :
    \/ sc[h] # None \/ ipc_lock[h]
    \/ Cardinality({k \in K : conn[k].server = h}) > 1
ShadowState(K, ts) ==
  [t \in Thread |-> CASE t \in RunsExit(K) -> "ready"
                      [] t \in ServersOf(K) \ RunsExit(K) -> "exit"
                      [] OTHER -> ts[t]]
ShadowContext(K) == [t \in Thread |-> IF t \in RunsExit(K) THEN t ELSE sc[t]]
(* Mutant of ShadowLock: the handler is not locked for its exit routine *)
ShadowLockFree(K) == [h \in Handler |-> ipc_lock[h]]

ShadowLock(K) == [h \in Handler |-> ipc_lock[h] \/ h \in RunsExit(K)]

(* sys_ipc_close_connection() by the client, which learns the capability when *)
(* the registration returns: -EAGAIN while a call is in progress             *)
CloseConnection(k) ==
  /\ ~ panic
  /\ cur \in User \cup Handler /\ owner[k] = procOf[cur]
  /\ conn[k].inClient /\ k \notin {building[r] : r \in Register}
  /\ conn[k].is_valid => conn[k].ownership = "free"
  /\ conn' = [conn EXCEPT ![k] =
                [@ EXCEPT !.ownership = IF conn[k].is_valid THEN "held" ELSE @,
                          !.is_valid = FALSE, !.inClient = FALSE,
                          !.inServer = @ /\ conn[k].server = None]]
  /\ panic' = ShadowBug({k})
  /\ tstate' = ShadowState({k}, tstate)
  /\ sc' = ShadowContext({k})
  /\ ipc_lock' = ShadowLock({k})
  /\ leaving' = leaving \cup RunsExit({k})
  /\ UNCHANGED <<cur, exit_state, active_conn, register_lock, building, killed,
                 recycled>>

(* The end of the exit routine of a handler of register_cb_single():         *)
(* sys_ipc_exit_routine_return() frees its context and unlocks it, but       *)
(* thread_ctx->sc keeps its value                                           *)
ExitRoutineReturn ==
  LET exits == exit_state[cur] = "EXITING" IN
  /\ ~ panic
  /\ cur \in leaving \cap Single
  /\ leaving' = leaving \ {cur}
  /\ ipc_lock' = [ipc_lock EXCEPT ![cur] = FALSE]
  /\ exit_state' = [exit_state EXCEPT ![cur] = IF exits THEN "EXITED" ELSE @]
  /\ Sched([tstate EXCEPT ![cur] = IF exits THEN "exit" ELSE "wait"], exit_state')
  /\ UNCHANGED <<sc, conn, active_conn, register_lock, building, killed, recycled,
                 panic>>

(* The end of the exit routine of any other handler: sys_thread_exit() *)
ThreadExit ==
  /\ ~ panic
  /\ cur \in leaving \ Single
  /\ leaving' = leaving \ {cur}
  /\ exit_state' = [exit_state EXCEPT ![cur] = "EXITED"]
  /\ Sched([tstate EXCEPT ![cur] = "exit"], exit_state')
  /\ UNCHANGED <<sc, conn, ipc_lock, active_conn, register_lock, building,
                 killed, recycled, panic>>

-----------------------------------------------------------------------------
Exiting(p) ==
  [t \in Thread |-> IF t # ProcMgr /\ procOf[t] = p /\ exit_state[t] = "RUNNING"
                    THEN "EXITING" ELSE exit_state[t]]

(* sys_kill_group() by the process manager *)
KillGroup(p) ==
  /\ ~ panic
  /\ cur = ProcMgr
  /\ p \in Killable \ killed
  /\ killed' = killed \cup {p}
  /\ exit_state' = Exiting(p)
  /\ UNCHANGED <<cur, tstate, sc, ipc, recycled, panic>>

(* sys_exit_group(), by the process or by a fault of one of its threads *)
ExitGroup ==
  LET p == procOf[cur] IN
  /\ ~ panic
  /\ cur # ProcMgr
  /\ p \in Killable
  /\ killed' = killed \cup {p}
  /\ exit_state' = [Exiting(p) EXCEPT ![cur] = "EXITED"]
  /\ Sched([tstate EXCEPT ![cur] = "exit"], exit_state')
  /\ UNCHANGED <<sc, ipc, recycled, panic>>

(* The connections in the cap table of p *)
InTable(p) == {k \in Conn : \/ owner[k] = p /\ conn[k].inClient
                            \/ serverOf(k) = p /\ conn[k].inServer}
Busy(k) == conn[k].is_valid /\ conn[k].ownership # "free"

Registering(p) == {r \in Register : /\ procOf[r] = p /\ exit_state[r] # "EXITED"
                                    /\ register_lock[r]}

(* Mutant of StopRet: -EAGAIN is not passed on *)
StopRetIgnored(p) == FALSE

(* Does the first pass over the slots of p end with -EAGAIN?                 *)
(* stop_connection() stores its result whatever an earlier slot returned;    *)
(* stop_ipc_registration() stores one only if a registration is going on.   *)
StopRet(p) ==
  LET set == SelectSeq(slotOrder, LAMBDA x : x \in InTable(p) \cup Registering(p)) IN
  set # <<>> /\ (Last(set) \in Conn => Busy(Last(set)))

(* sys_cap_group_recycle(), first pass: stop the connections that are not    *)
(* busy and the registration threads that are not in use                    *)
StopConns(p) ==
  [k \in Conn |->
     IF k \in InTable(p) /\ conn[k].is_valid /\ ~ Busy(k)
     THEN [conn[k] EXCEPT !.is_valid = FALSE, !.ownership = "held"] ELSE conn[k]]
StopRegisters(p) ==
  {r \in Register : procOf[r] = p /\ exit_state[r] # "EXITED" /\ ~ register_lock[r]}

Threads(p) == {t \in Shared : procOf[t] = p /\ tstate[t] # "none"}
(* Second pass: threads that wait and shadow threads are exited at once *)
Stoppable(p) == {t \in Threads(p) : t \in Handler \/ tstate[t] = "wait"}

(* Mutant of RecycleAgain: no return before the threads are exited *)
RecycleAgainThreads(p) ==
  LET stop == StopRegisters(p) \cup Stoppable(p) IN
  /\ ~ panic
  /\ cur = ProcMgr
  /\ p \in killed \ recycled
  /\ \/ StopRet(p)
     \/ \E t \in Threads(p) \ stop : exit_state[t] # "EXITED"
  /\ conn' = StopConns(p)
  /\ register_lock' = [r \in Register |-> register_lock[r] \/ r \in StopRegisters(p)]
  /\ exit_state' = [t \in Thread |-> IF t \in stop THEN "EXITED" ELSE exit_state[t]]
  /\ tstate' = [t \in Thread |->
                  IF t \in stop /\ exit_state[t] # "EXITED" THEN "exit" ELSE tstate[t]]
  /\ UNCHANGED <<cur, sc, ipc_lock, active_conn, building, leaving, killed,
                 recycled, panic>>

(* sys_cap_group_recycle() that ends with -EAGAIN *)
RecycleAgain(p) ==
  LET stop == StopRegisters(p) \cup (IF StopRet(p) THEN {} ELSE Stoppable(p)) IN
  /\ ~ panic
  /\ cur = ProcMgr
  /\ p \in killed \ recycled
  /\ \/ StopRet(p)
     \/ \E t \in Threads(p) \ stop : exit_state[t] # "EXITED"
  /\ conn' = StopConns(p)
  /\ register_lock' = [r \in Register |-> register_lock[r] \/ r \in StopRegisters(p)]
  /\ exit_state' = [t \in Thread |-> IF t \in stop THEN "EXITED" ELSE exit_state[t]]
  /\ tstate' = [t \in Thread |->
                  IF t \in stop /\ exit_state[t] # "EXITED" THEN "exit" ELSE tstate[t]]
  /\ UNCHANGED <<cur, sc, ipc_lock, active_conn, building, leaving, killed,
                 recycled, panic>>

(* sys_cap_group_recycle() that succeeds: recycle_connection() for every     *)
(* connection, BUG_ON a valid one, and all threads and caps freed            *)
Recycle(p) ==
  LET own == {k \in InTable(p) : owner[k] = p}
      srv == InTable(p) \ own
      stopped == StopConns(p)
  IN
  /\ ~ panic
  /\ cur = ProcMgr
  /\ p \in killed \ recycled
  /\ ~ StopRet(p)
  /\ \A t \in Threads(p) \ (StopRegisters(p) \cup Stoppable(p)) : exit_state[t] = "EXITED"
  /\ panic' = \/ ShadowBug(own)
              \/ \E k \in InTable(p) : stopped[k].is_valid
  /\ conn' = [k \in Conn |->
       CASE k \in own -> [stopped[k] EXCEPT !.inClient = FALSE,
                                            !.inServer = @ /\ conn[k].server = None]
         [] k \in srv -> [stopped[k] EXCEPT !.server = None, !.inServer = FALSE,
                                            !.ownership = Unlocked(@)]
         [] OTHER -> conn[k]]
  /\ tstate' = ShadowState(own, [t \in Thread |-> IF t \in Threads(p) THEN "freed"
                                                  ELSE tstate[t]])
  /\ sc' = ShadowContext(own)
  /\ ipc_lock' = ShadowLock(own)
  /\ leaving' = leaving \cup RunsExit(own)
  /\ exit_state' = [t \in Thread |-> IF t \in Threads(p) THEN "EXITED" ELSE exit_state[t]]
  /\ register_lock' = [r \in Register |-> register_lock[r] \/ r \in StopRegisters(p)]
  /\ recycled' = recycled \cup {p}
  /\ UNCHANGED <<cur, active_conn, building, killed>>

Next ==
  \/ Yield \/ CreateHandler \/ RegisterCbReturn \/ IpcReturn
  \/ ExitRoutineReturn \/ ThreadExit \/ ExitGroup
  \/ \E t \in Thread : Drop(t)
  \/ \E k \in Conn : RegisterClient(k) \/ IpcCall(k) \/ CloseConnection(k)
  \/ \E p \in Proc : KillGroup(p) \/ RecycleAgain(p) \/ Recycle(p)

Spec == Init /\ [][Next]_vars

(***************************************************************************)
(* Scheduling.  pbrr queues threads of one priority in FIFO order, so a      *)
(* ready thread runs once those before it block or yield.  The kernel has no *)
(* timer interrupt on any platform: that threads do yield, and that handlers *)
(* return, is what is assumed of the programs.  The process manager retries  *)
(* sys_cap_group_recycle() as long as it fails with -EAGAIN.                 *)
(***************************************************************************)
Dispatch(t) == Yield /\ cur' = t
Serves(h) == cur = h /\ (IpcReturn \/ ThreadExit \/ ExitRoutineReturn)
Registers(r) == cur = r /\ (CreateHandler \/ RegisterCbReturn)
Fairness ==
  /\ \A t \in Thread : SF_vars(Dispatch(t)) /\ WF_vars(Drop(t))
  /\ \A h \in Handler : SF_vars(Serves(h))
  /\ \A r \in Register : SF_vars(Registers(r))
  /\ \A p \in Proc : SF_vars(RecycleAgain(p) \/ Recycle(p))
FairSpec == Spec /\ Fairness

-----------------------------------------------------------------------------
Runnable == {t \in Thread : tstate[t] \in {"ready", "running"}}

(* No BUG_ON of the connection, recycling and direct-switch code fires, and  *)
(* no thread that was freed is switched to.                                 *)
NoPanic == ~ panic

(* A scheduling context passes from the caller to the handler and back: at   *)
(* no time do two runnable threads run on the same one, and none runs on     *)
(* none.                                                                    *)
ContextUsedOnce ==
  /\ \A t \in Runnable : sc[t] # None
  /\ \A t, u \in Runnable : sc[t] = sc[u] => t = u

(* While a handler serves a connection, whoever is killed meanwhile, both    *)
(* locks are held, the handler runs on its caller's context, and the caller  *)
(* is still there, asleep, for sys_ipc_return() to switch to.                *)
CallHoldsAll ==
  \A h \in Handler :
    LET k == active_conn[h] IN
    k # None /\ tstate[h] # "freed" =>
      /\ conn[k].server = h /\ conn[k].ownership = "held" /\ ipc_lock[h]
      /\ tstate[conn[k].client] = "wait"
      /\ sc[h] = sc[conn[k].client]

(* A client thread that sleeps is the caller of one connection only, which a *)
(* handler serves or a registration thread builds: nobody else wakes it.     *)
SleeperHasCall ==
  \A t \in User :
    tstate[t] = "wait" =>
      Cardinality({h \in Handler : active_conn[h] # None /\ conn[active_conn[h]].client = t}
            \cup {r \in Register : building[r] # None /\ conn[building[r]].client = t}) = 1

(* While a handler runs its exit routine nobody can call it.                 *)
ExitRoutineAlone ==
  \A h \in leaving : active_conn[h] = None /\ (tstate[h] # "freed" => ipc_lock[h])

ServersAlive(p) == \A k \in Conn : owner[k] = p => serverOf(k) \notin killed

(* As long as the servers live, a call or a registration comes back to its   *)
(* client even if other threads of the client exit.                         *)
CallReturns ==
  \A t \in User : tstate[t] = "wait" ~> tstate[t] # "wait" \/ ~ ServersAlive(procOf[t])

(* As long as its servers live, a process that exits and serves nobody is     *)
(* recycled, whatever its threads were doing.                               *)
ClientRecycled ==
  \A p \in {owner[k] : k \in Conn} \ {serverOf(k) : k \in Conn} :
    p \in killed ~> p \in recycled \/ ~ ServersAlive(p)

(* A process that exits is recycled in the end, whatever its threads were    *)
(* doing.                                                                   *)
ExitedIsRecycled == \A p \in Proc : p \in killed ~> p \in recycled
=============================================================================
