------------------------------- MODULE ProcMgr -------------------------------
(***************************************************************************)
(* The process manager: procmgr.c, proc_node.c, srvmgr.c and recycle.c of    *)
(* user/system-services/system-servers/procmgr, with the buffer in which the *)
(* kernel announces exits (notify_user_recycler() of kernel/object/recycle.c *)
(* and kernel/lib/ring_buffer.c).                                            *)
(*                                                                         *)
(* A client thread that calls the process manager runs one of its handler   *)
(* threads; handlers and the recycler thread are preempted anywhere, so a   *)
(* step is what a thread does between two acquisitions of a lock.  Sections  *)
(* under proc_nodes_lock alone are part of a step.                          *)
(*                                                                         *)
(* A process is launched once; pids and slots of the manager's cap table are *)
(* used again.  The kernel recycles a process only when none of its calls is *)
(* in progress (module Connection).                                         *)
(***************************************************************************)
EXTENDS Integers, FiniteSets, SequencesExt

CONSTANTS
  Proc,        \* processes, each with its proc_node
  Root,        \* the process manager itself
  Handler,     \* handler threads of the process manager, one per client thread
  clientOf,    \* process of the client thread of each handler
  programs,    \* processes that each client launches, in this order
  Pid, Slot,   \* pids, and slots of the manager's table for process caps
  BufSize,     \* slots of the ring buffer, one of which stays empty
  Waits,       \* processes that wait for children
  Killable,    \* processes named in kill requests
  AnyPid, None

ASSUME ProcMgrAssumption ==
  /\ Root \in Proc /\ clientOf \in [Handler -> Proc]
  /\ \A h \in Handler : programs[h] \in Seq(Proc \ {Root})
  /\ Pid \subseteq Nat /\ BufSize \in Nat /\ BufSize > 1
  /\ Waits \subseteq Proc /\ Killable \subseteq Proc \ {Root}
  /\ None \notin Proc \cup Handler \cup Pid \cup Slot /\ AnyPid \notin Pid

VARIABLES
  kern,          \* the process in the kernel
  state, parent, children, pid, proc_cap,  \* fields of proc_node
  lock, wait_lock,                         \* holders of the node's mutexes
  recycle_lock,
  table,         \* process whose cap is in each slot of the manager's table
  pc, arg, want, \* of each handler: program point, node, pid or new_proc_cap
  buf, over, signals,  \* recycle_msg_buffer, recycle_msg_head, notification
  rpc, rcur,     \* program point and node of the recycler thread
  wrong          \* "panic": an assertion failed or a freed node was used;
                 \* "misfire": a kill hit another process than it named

nodes == <<state, parent, children, pid, proc_cap>>
locks == <<lock, wait_lock, recycle_lock>>
handlers == <<pc, arg, want>>
recycler == <<buf, over, signals, rpc, rcur>>
vars == <<kern, nodes, locks, table, handlers, recycler, wrong>>

Recycler == "recycler"
WaitPoints == {"wait", "wait_child", "wait_cv", "wait_relock", "wait_reap"}

TypeOK ==
  /\ kern \in [Proc -> {"none", "running", "exit", "gone"}]
  /\ state \in [Proc -> {"none", "INIT", "RUNNING", "EXIT", "freed"}]
  /\ parent \in [Proc -> Proc \cup {None}]
  /\ children \in [Proc -> Seq(Proc)]
  /\ pid \in [Proc -> Pid \cup {None}]
  /\ proc_cap \in [Proc -> Slot \cup {None}]
  /\ lock \in [Proc -> Handler \cup {None}]
  /\ wait_lock \in [Proc -> Handler \cup {None}]
  /\ recycle_lock \in {Recycler, None}
  /\ table \in [Slot -> Proc \cup {None}]
  /\ pc \in [Handler -> {"idle", "launch", "launched", "kill"} \cup WaitPoints]
  /\ arg \in [Handler -> Proc \cup {None}]
  /\ want \in [Handler -> Pid \cup Slot \cup {AnyPid, None}]
  /\ buf \in Seq(Proc) /\ over \in Seq(Proc) /\ signals \in Nat
  /\ rpc \in {"wait", "get", "lock", "mark", "recycle", "del"}
  /\ rcur \in Proc \cup {None}
  /\ wrong \in {"no", "panic", "misfire"}

(* After init_root_proc_node(): the manager has the first pid *)
Init ==
  /\ kern = [p \in Proc |-> IF p = Root THEN "running" ELSE "none"]
  /\ state = [p \in Proc |-> IF p = Root THEN "INIT" ELSE "none"]
  /\ parent = [p \in Proc |-> None]
  /\ children = [p \in Proc |-> <<>>]
  /\ pid = [p \in Proc |-> IF p = Root THEN Min(Pid) ELSE None]
  /\ proc_cap = [p \in Proc |-> None]
  /\ lock = [p \in Proc |-> None] /\ wait_lock = [p \in Proc |-> None]
  /\ recycle_lock = None
  /\ table = [s \in Slot |-> None]
  /\ pc = [h \in Handler |-> "idle"] /\ arg = [h \in Handler |-> None]
  /\ want = [h \in Handler |-> None]
  /\ buf = <<>> /\ over = <<>> /\ signals = 0
  /\ rpc = "wait" /\ rcur = None
  /\ wrong = "no"

-----------------------------------------------------------------------------
(* Nodes in badge2proc and pid2proc *)
Known == {p \in Proc : state[p] \in {"INIT", "RUNNING", "EXIT"}}

(* A client thread in user mode: it can make a call *)
Calls(h) == wrong = "no" /\ pc[h] = "idle" /\ kern[clientOf[h]] = "running"
At(h, l) == wrong = "no" /\ pc[h] = l
Goto(h, l, p) == pc' = [pc EXCEPT ![h] = l] /\ arg' = [arg EXCEPT ![h] = p]
Return(h) == Goto(h, "idle", None) /\ want' = [want EXCEPT ![h] = None]
Busy(p) == \E h \in Handler : clientOf[h] = p /\ pc[h] # "idle"

-----------------------------------------------------------------------------
(* Mutant of Notify: a message set aside stays in the list when it is moved *)
NotifyTwice(p) ==
  LET room == BufSize - 1 - Len(buf)
  IN IF room = 0
     THEN over' = <<p>> \o over /\ UNCHANGED <<buf, signals>>
     ELSE /\ buf' = Append(buf, p) \o SubSeq(over, 1, Min({room - 1, Len(over)}))
          /\ signals' = signals + 1 /\ UNCHANGED over

(* notify_user_recycler(): into the buffer, or aside when it is full.  The   *)
(* messages set aside, newest first, follow the next one that finds room.    *)
Notify(p) ==
  LET room == BufSize - 1 - Len(buf)
      moved == SubSeq(over, 1, Min({room - 1, Len(over)}))
  IN IF room = 0
     THEN over' = <<p>> \o over /\ UNCHANGED <<buf, signals>>
     ELSE /\ buf' = Append(buf, p) \o moved
          /\ over' = SubSeq(over, Len(moved) + 1, Len(over))
          /\ signals' = signals + 1

(* sys_exit_group(), by a process none of whose threads is inside a call.    *)
(* Processes exit after do_launch_process() has stored their capability.     *)
ExitGroup(p) ==
  /\ wrong = "no" /\ p # Root /\ ~ Busy(p)
  /\ kern[p] = "running" /\ state[p] = "RUNNING"
  /\ kern' = [kern EXCEPT ![p] = "exit"]
  /\ Notify(p)
  /\ UNCHANGED <<nodes, locks, table, handlers, rpc, rcur, wrong>>

-----------------------------------------------------------------------------
(* new_proc_node() for a child c of the client: the lowest free pid, the     *)
(* head of the parent's child list, both hash tables.                        *)
NewProcNode(h, c) ==
  LET p == clientOf[h]
      free == Pid \ {pid[q] : q \in Known}
  IN /\ Calls(h) /\ state[c] = "none" /\ lock[p] = None /\ free # {}
     /\ state' = [state EXCEPT ![c] = "INIT"]
     /\ parent' = [parent EXCEPT ![c] = p]
     /\ children' = [children EXCEPT ![p] = <<c>> \o @]
     /\ pid' = [pid EXCEPT ![c] = Min(free)]
     /\ Goto(h, "launch", c)
     /\ UNCHANGED <<kern, proc_cap, locks, table, want, recycler, wrong>>

(* launch_process_with_pmos_caps(): the cap group and its main thread.  The  *)
(* slot depends on the other caps of the manager: any free one.              *)
LaunchProcess(h, s) ==
  /\ At(h, "launch") /\ table[s] = None
  /\ table' = [table EXCEPT ![s] = arg[h]]
  /\ kern' = [kern EXCEPT ![arg[h]] = "running"]
  /\ Goto(h, "launched", arg[h])
  /\ want' = [want EXCEPT ![h] = s]
  /\ UNCHANGED <<nodes, locks, recycler, wrong>>

(* It fails: the request is answered with -1 and the node stays *)
LaunchFails(h) ==
  /\ At(h, "launch")
  /\ Return(h)
  /\ UNCHANGED <<kern, nodes, locks, table, recycler, wrong>>

(* Mutant of LaunchDone: proc_cap is not assigned *)
LaunchStateOnly(h) ==
  LET c == arg[h]
  IN /\ At(h, "launched")
     /\ state' = [state EXCEPT ![c] = "RUNNING"]
     /\ Return(h)
     /\ UNCHANGED <<kern, parent, children, pid, proc_cap, locks, table, recycler, wrong>>

(* The end of do_launch_process(), and the reply with the pid *)
LaunchDone(h) ==
  LET c == arg[h]
  IN /\ At(h, "launched")
     /\ state' = [state EXCEPT ![c] = "RUNNING"]
     /\ proc_cap' = [proc_cap EXCEPT ![c] = want[h]]
     /\ Return(h)
     /\ UNCHANGED <<kern, parent, children, pid, locks, table, recycler, wrong>>

-----------------------------------------------------------------------------
(* handle_kill(): get_proc_node_by_pid().  The pid of a process is known to  *)
(* the others once it is launched.                                           *)
KillFind(h, x) ==
  /\ Calls(h) /\ x \in Killable /\ state[x] \in {"RUNNING", "EXIT"}
  /\ Goto(h, "kill", x)
  /\ UNCHANGED <<kern, nodes, locks, table, want, recycler, wrong>>

(* The capability read from a node: anything when the node is freed or its   *)
(* proc_cap was never assigned                                               *)
CapRead(x) == IF state[x] = "freed" \/ proc_cap[x] = None THEN Slot ELSE {proc_cap[x]}

(* Mutant of KillGroup: notify_recycler is not tested *)
KillAgain(h, s) ==
  LET x == arg[h]
      t == table[s]
  IN /\ At(h, "kill") /\ s \in CapRead(x)
     /\ IF t # None
        THEN kern' = [kern EXCEPT ![t] = "exit"] /\ Notify(t)
        ELSE UNCHANGED <<kern, buf, over, signals>>
     /\ wrong' = IF t \notin {None, x} THEN "misfire" ELSE wrong
     /\ Return(h)
     /\ UNCHANGED <<nodes, locks, table, rpc, rcur>>

(* proc_cap is read after proc_nodes_lock is released, for sys_kill_group() *)
KillGroup(h, s) ==
  LET x == arg[h]
      t == table[s]
  IN /\ At(h, "kill") /\ s \in CapRead(x)
     /\ IF t # None /\ kern[t] = "running"
        THEN kern' = [kern EXCEPT ![t] = "exit"] /\ Notify(t)
        ELSE UNCHANGED <<kern, buf, over, signals>>
     /\ wrong' = IF t \notin {None, x} THEN "misfire" ELSE wrong
     /\ Return(h)
     /\ UNCHANGED <<nodes, locks, table, rpc, rcur>>

-----------------------------------------------------------------------------
(* handle_wait(), for a pid or for any child *)
WaitCall(h, w) ==
  /\ Calls(h) /\ clientOf[h] \in Waits
  /\ wrong' = IF clientOf[h] \in Known THEN wrong ELSE "panic"
  /\ Goto(h, "wait", None)
  /\ want' = [want EXCEPT ![h] = w]
  /\ UNCHANGED <<kern, nodes, locks, table, recycler>>

(* Under the client's lock: the first child in the list that matches *)
WaitFind(h) ==
  LET p == clientOf[h]
      match == SelectSeq(children[p], LAMBDA c : want[h] \in {pid[c], AnyPid})
  IN /\ At(h, "wait") /\ lock[p] = None
     /\ IF match = <<>>
        THEN Return(h) /\ UNCHANGED lock
        ELSE /\ lock' = [lock EXCEPT ![p] = h]
             /\ Goto(h, "wait_child", Head(match)) /\ UNCHANGED want
     /\ UNCHANGED <<kern, nodes, wait_lock, recycle_lock, table, recycler, wrong>>

(* Under the child's wait_lock: reap it, or release both locks and sleep *)
WaitChild(h) ==
  LET x == arg[h]
  IN /\ At(h, "wait_child") /\ wait_lock[x] = None
     /\ IF state[x] = "EXIT"
        THEN /\ wait_lock' = [wait_lock EXCEPT ![x] = h] /\ UNCHANGED lock
             /\ Goto(h, "wait_reap", x)
        ELSE /\ lock' = [lock EXCEPT ![clientOf[h]] = None] /\ UNCHANGED wait_lock
             /\ Goto(h, "wait_cv", x)
     /\ wrong' = IF state[x] = "freed" THEN "panic" ELSE wrong
     /\ UNCHANGED <<kern, nodes, recycle_lock, table, want, recycler>>

(* pthread_cond_wait() takes wait_lock again before it returns *)
WaitRelock(h) ==
  /\ At(h, "wait_relock") /\ wait_lock[arg[h]] = None
  /\ wrong' = IF state[arg[h]] = "freed" THEN "panic" ELSE wrong
  /\ Goto(h, "wait", None)
  /\ UNCHANGED <<kern, nodes, locks, table, want, recycler>>

(* Mutant of Reap: list_del() is forgotten *)
ReapStillListed(h) ==
  LET x == arg[h]
  IN /\ state' = [state EXCEPT ![x] = "freed"]
     /\ lock' = [lock EXCEPT ![clientOf[h]] = None]
     /\ wait_lock' = [wait_lock EXCEPT ![x] = None]
     /\ Return(h)
     /\ UNCHANGED <<kern, parent, children, pid, proc_cap, recycle_lock, table, recycler, wrong>>

(* list_del() and free_proc_node_resource() under recycle_lock, the unlocks  *)
(* and the reply                                                             *)
Reap(h) ==
  LET x == arg[h]
      p == clientOf[h]
  IN /\ state' = [state EXCEPT ![x] = "freed"]
     /\ children' = [children EXCEPT ![p] = Remove(@, x)]
     /\ lock' = [lock EXCEPT ![p] = None]
     /\ wait_lock' = [wait_lock EXCEPT ![x] = None]
     /\ wrong' = IF state[x] = "freed" THEN "panic" ELSE wrong
     /\ Return(h)
     /\ UNCHANGED <<kern, parent, pid, proc_cap, recycle_lock, table, recycler>>

(* Mutant of WaitReap: without recycle_lock *)
WaitReapUnlocked(h) == At(h, "wait_reap") /\ Reap(h)

(* The exit status is set: take recycle_lock, so that the recycler is done   *)
(* with the child, and reap it.                                              *)
WaitReap(h) == At(h, "wait_reap") /\ recycle_lock = None /\ Reap(h)

-----------------------------------------------------------------------------
(* recycle_routine() *)
RAt(l) == wrong = "no" /\ rpc = l

(* usys_wait() on the recycler's notification *)
RWait ==
  /\ RAt("wait") /\ signals > 0
  /\ signals' = signals - 1 /\ rpc' = "get"
  /\ UNCHANGED <<kern, nodes, locks, table, handlers, buf, over, rcur, wrong>>

(* get_one_msg() and get_proc_node(), whose result is asserted *)
RGet ==
  /\ RAt("get")
  /\ IF buf = <<>>
     THEN rpc' = "wait" /\ UNCHANGED <<buf, rcur, wrong>>
     ELSE /\ rpc' = "lock" /\ buf' = Tail(buf) /\ rcur' = Head(buf)
          /\ wrong' = IF Head(buf) \in Known THEN wrong ELSE "panic"
  /\ UNCHANGED <<kern, nodes, locks, table, handlers, over, signals>>

RLock ==
  /\ RAt("lock") /\ recycle_lock = None
  /\ recycle_lock' = Recycler /\ rpc' = "mark"
  /\ UNCHANGED <<kern, nodes, lock, wait_lock, table, handlers, buf, over, signals, rcur, wrong>>

(* Under wait_lock: PROC_STATE_EXIT and the broadcast *)
Mark(woken) ==
  /\ RAt("mark") /\ wait_lock[rcur] = None
  /\ state' = [state EXCEPT ![rcur] = "EXIT"]
  /\ wrong' = IF state[rcur] = "freed" THEN "panic" ELSE wrong
  /\ pc' = [h \in Handler |-> IF h \in woken THEN "wait_relock" ELSE pc[h]]
  /\ rpc' = "recycle"
  /\ UNCHANGED <<kern, parent, children, pid, proc_cap, locks, table, arg, want,
                 buf, over, signals, rcur>>

(* Mutant of RMark: no broadcast *)
RMarkSilently == Mark({})

RMark == Mark({h \in Handler : pc[h] = "wait_cv" /\ arg[h] = rcur})

(* usys_cap_group_recycle(), repeated while it returns -EAGAIN *)
Recycled(s) ==
  LET t == table[s]
  IN /\ s \in CapRead(rcur)
     /\ t # None => ~ Busy(t)
     /\ kern' = [p \in Proc |-> IF p = t THEN "gone" ELSE kern[p]]
     /\ table' = [table EXCEPT ![s] = None]
RRecycle(s) ==
  /\ RAt("recycle") /\ Recycled(s)
  /\ rpc' = "del"
  /\ UNCHANGED <<nodes, locks, handlers, buf, over, signals, rcur, wrong>>

(* del_proc_node(): children become orphans, exited ones are freed, and so   *)
(* is the node if it is an orphan; then recycle_lock is released.            *)
Del(keep, next) ==
  LET kids == ToSet(children[rcur])
      dead == {c \in kids : state[c] = "EXIT"} \cup
              {p \in {rcur} : parent[p] = None}
  IN /\ RAt("del")
     /\ wrong' = IF state[rcur] # "EXIT" \/ \E c \in kids : state[c] = "freed"
                 THEN "panic" ELSE wrong
     /\ state' = [p \in Proc |-> IF p \in dead THEN "freed" ELSE state[p]]
     /\ parent' = [p \in Proc |-> IF p \in kids THEN None ELSE parent[p]]
     /\ recycle_lock' = keep /\ rpc' = next /\ rcur' = None
     /\ UNCHANGED <<kern, children, pid, proc_cap, lock, wait_lock, table, handlers,
                    buf, over, signals>>

(* Mutant of RDel: recycle_lock is not released *)
RDelLocked == Del(Recycler, "get")

(* Mutant of RDel: one message for each signal *)
RDelOne == Del(None, "wait")

RDel == Del(None, "get")

-----------------------------------------------------------------------------
Launches(h) == \/ LaunchFails(h) \/ LaunchDone(h)
               \/ \E s \in Slot : LaunchProcess(h, s)
Kills(h) == \E s \in Slot : KillGroup(h, s)
Waiting(h) == WaitFind(h) \/ WaitChild(h) \/ WaitRelock(h) \/ WaitReap(h)
Handle(h) == Launches(h) \/ Kills(h) \/ Waiting(h)
Recycle == \/ RWait \/ RGet \/ RLock \/ RMark \/ RDel
           \/ \E s \in Slot : RRecycle(s)
NextProgram(h) == LET new == SelectSeq(programs[h], LAMBDA c : state[c] = "none")
                  IN IF new = <<>> THEN {} ELSE {Head(new)}
Request(h) == \/ \E c \in NextProgram(h) : NewProcNode(h, c)
              \/ \E x \in Proc : KillFind(h, x)
              \/ \E w \in Pid \cup {AnyPid} : WaitCall(h, w)

Next == \/ \E p \in Proc : ExitGroup(p)
        \/ \E h \in Handler : Request(h) \/ Handle(h)
        \/ Recycle

Spec == Init /\ [][Next]_vars

(* The threads of the process manager are scheduled; nobody has to make a    *)
(* request or to exit.                                                       *)
FairSpec == /\ Spec /\ WF_vars(Recycle)
            /\ \A h \in Handler : WF_vars(Handle(h))

-----------------------------------------------------------------------------
(* As long as every kill request hits the process it names: no assertion of  *)
(* the handlers and the recycler fails (get_proc_node() finds the node of a  *)
(* message, del_proc_node() an exited one) and no thread uses a freed node.  *)
NoPanic == wrong # "panic"

(* The capability that the recycler passes to usys_cap_group_recycle() is    *)
(* that of the process whose node it is about to delete.                     *)
RecyclesNamed ==
  wrong = "no" /\ rpc = "recycle" => \A s \in CapRead(rcur) : table[s] = rcur

(* The pcid of a process is free for another one only when the kernel has    *)
(* recycled the process, whoever frees the node: its parent's wait, the      *)
(* recycler, or the recycler of the parent.                                  *)
PcidFreedAfterRecycle == \A p \in Proc : state[p] = "freed" => kern[p] = "gone"

Copies(p) == Cardinality({i \in DOMAIN buf : buf[i] = p})
             + Cardinality({i \in DOMAIN over : over[i] = p})
             + (IF rcur = p THEN 1 ELSE 0)

(* The exit of a process is announced once, also when the buffer is full: an *)
(* exited process that is not recycled is in the buffer, in the list of the  *)
(* kernel, or with the recycler, and nobody else is.                         *)
MessagesDelivered ==
  \A p \in Proc : (kern[p] = "exit" => Copies(p) = 1)
                  /\ (kern[p] \in {"none", "running"} => Copies(p) = 0)

(* The list in which a running process looks for children holds no freed     *)
(* node, and each node once.                                                 *)
ChildrenLive ==
  \A p \in Proc : kern[p] = "running" =>
    /\ IsInjective(children[p])
    /\ \A c \in ToSet(children[p]) : state[c] # "freed" /\ parent[c] = p

(* A thread of an exited process is inside a wait for a child *)
KilledInWait == \E h \in Handler : kern[clientOf[h]] = "exit" /\ pc[h] \in WaitPoints

(* An announced exit is recycled, unless a process is killed inside a wait   *)
(* or the message is set aside in the kernel.                                *)
RecycledEventually ==
  \A p \in Proc :
    kern[p] = "exit" /\ p \notin ToSet(over)
      ~> kern[p] = "gone" \/ p \in ToSet(over) \/ KilledInWait \/ wrong # "no"

(* chcore_waitpid() returns once the child is recycled, whether the exit     *)
(* came before, during or after the search, unless a process is killed       *)
(* inside a wait.                                                            *)
WaitReturns ==
  \A h \in Handler :
    pc[h] \in WaitPoints /\ arg[h] # None /\ kern[arg[h]] = "gone"
      ~> pc[h] = "idle" \/ KilledInWait \/ wrong # "no"

(* A process that exits or is killed while the buffer has room is recycled *)
ExitedIsRecycled ==
  \A p \in Proc : kern[p] = "exit" /\ p \notin ToSet(over)
                    ~> kern[p] = "gone" \/ p \in ToSet(over) \/ wrong # "no"
=============================================================================
