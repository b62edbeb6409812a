------------------------------- MODULE Channel -------------------------------
(***************************************************************************)
(* Message channels of kernel/ipc/channel.c: the client/server IPC used by  *)
(* trusted applications, with the part of kernel/object/recycle.c that      *)
(* closes a channel when a process at either end is recycled.               *)
(*                                                                         *)
(* The kernel runs on one CPU (PLAT_CPU_NUM is 1 on every platform) with    *)
(* interrupts masked, so a system call is one step up to the context switch *)
(* in which it ends.  Which runnable thread runs next is left open.         *)
(*                                                                         *)
(* One channel, created by the process of the Server threads.  Every Client *)
(* thread is a process of its own.  A message handle belongs to one server  *)
(* thread (libohtee keeps it in thread-local storage).                      *)
(***************************************************************************)
EXTENDS Naturals, Sequences, FiniteSets, SequencesExt

CONSTANTS
  Server,     \* threads of the process that created the channel
  Client,     \* threads of other processes that hold the channel's cap
  MaxMsg,     \* bound on the number of messages sent
  MaxClose,   \* bound on the number of close_channel() by the creator's side
  MaxKill     \* bound on the number of client processes killed

ASSUME ChannelAssumption ==
  /\ Server \cap Client = {}
  /\ MaxMsg \in Nat /\ MaxClose \in Nat /\ MaxKill \in Nat

VARIABLES
  st,            \* run: can execute; call, recv: TS_WAITING in the channel;
                 \* other: TS_WAITING elsewhere; exit: TS_EXIT; freed
  exiting,       \* threads with thread_exit_state TE_EXITING
  state,         \* channel->state
  msg_queue,     \* channel->msg_queue
  thread_queue,  \* channel->thread_queue, its nodes named by their server
  msg_hdl,       \* client_msg_record of each server's handle
  cur,           \* history: the last call of each client
  sent,          \* history: messages sent so far; their numbers identify them
  lost,          \* history: calls a server dropped by reusing its handle
  stranded,      \* history: servers taken off thread_queue by a failed send
  closes, kills, \* bounds
  panic          \* a BUG_ON fired or freed memory was used

vars == <<st, exiting, state, msg_queue, thread_queue, msg_hdl, cur, sent,
          lost, stranded, closes, kills, panic>>

Thread == Server \cup Client
Waiting == {"call", "recv", "other"}       \* thread_ctx->state = TS_WAITING
NoClient == "none"
MsgType == {"INVALID", "NOTIF", "CALL"}
Record == [client : Client \cup {NoClient}, type : MsgType, id : 0 .. MaxMsg]
NoRecord == [client |-> NoClient, type |-> "INVALID", id |-> 0]

TypeOK ==
  /\ st \in [Thread -> {"run", "exit", "freed"} \cup Waiting]
  /\ exiting \subseteq Thread
  /\ state \in {"VALID", "INVALID"}
  /\ msg_queue \in Seq(Record)
  /\ thread_queue \in Seq(Server)
  /\ msg_hdl \in [Server -> Record]
  /\ cur \in [Client -> 0 .. MaxMsg]
  /\ sent \in 0 .. MaxMsg
  /\ lost \subseteq 1 .. MaxMsg
  /\ stranded \subseteq Server
  /\ closes \in 0 .. MaxClose
  /\ kills \in 0 .. MaxKill
  /\ panic \in BOOLEAN

(* sys_tee_msg_create_channel(), and a handle for each server thread *)
Init ==
  /\ st = [t \in Thread |-> "run"]
  /\ exiting = {}
  /\ state = "VALID"
  /\ msg_queue = <<>>
  /\ thread_queue = <<>>
  /\ msg_hdl = [s \in Server |-> NoRecord]
  /\ cur = [c \in Client |-> 0]
  /\ sent = 0
  /\ lost = {}
  /\ stranded = {}
  /\ closes = 0 /\ kills = 0
  /\ panic = FALSE

(* A thread that can enter the kernel: the scheduler drops exiting ones. *)
Runs(t) == ~ panic /\ st[t] = "run" /\ t \notin exiting

(* A handle is overwritten: a call it still held will never be answered. *)
Overwritten(s) == IF msg_hdl[s].type = "CALL" THEN {msg_hdl[s].id} ELSE {}

-----------------------------------------------------------------------------
(* Mutant of ReceiveBlock: blocks without looking at msg_queue *)
ReceiveBlockUnchecked(s) ==
  /\ Runs(s)
  /\ state = "VALID"
  /\ thread_queue' = Append(thread_queue, s)
  /\ st' = [st EXCEPT ![s] = "recv"]
  /\ UNCHANGED <<exiting, state, msg_queue, msg_hdl, cur, sent, lost, stranded,
                 closes, kills, panic>>

(* __tee_msg_receive(), nothing queued: block until a client delivers *)
ReceiveBlock(s) ==
  /\ Runs(s)
  /\ state = "VALID"
  /\ msg_queue = <<>>
  /\ thread_queue' = Append(thread_queue, s)
  /\ st' = [st EXCEPT ![s] = "recv"]
  /\ UNCHANGED <<exiting, state, msg_queue, msg_hdl, cur, sent, lost, stranded,
                 closes, kills, panic>>

(* Mutant of ReceiveQueued: the record is not copied to the handle *)
ReceiveNoRecord(s) ==
  /\ Runs(s)
  /\ state = "VALID"
  /\ msg_queue # <<>>
  /\ msg_hdl' = msg_hdl
  /\ msg_queue' = Tail(msg_queue)
  /\ lost' = lost \cup Overwritten(s)
  /\ UNCHANGED <<st, exiting, state, thread_queue, cur, sent, stranded, closes,
                 kills, panic>>

(* Mutant of ReceiveQueued: takes the newest message *)
ReceiveLast(s) ==
  /\ Runs(s)
  /\ state = "VALID"
  /\ msg_queue # <<>>
  /\ msg_hdl' = [msg_hdl EXCEPT ![s] = Last(msg_queue)]
  /\ msg_queue' = Front(msg_queue)
  /\ lost' = lost \cup Overwritten(s)
  /\ UNCHANGED <<st, exiting, state, thread_queue, cur, sent, stranded, closes,
                 kills, panic>>

(* __tee_msg_receive(), a message is queued.  If a copy to the user fails   *)
(* the message stays queued and nothing changes.                            *)
ReceiveQueued(s) ==
  /\ Runs(s)
  /\ state = "VALID"
  /\ msg_queue # <<>>
  /\ msg_hdl' = [msg_hdl EXCEPT ![s] = Head(msg_queue)]
  /\ msg_queue' = Tail(msg_queue)
  /\ lost' = lost \cup Overwritten(s)
  /\ UNCHANGED <<st, exiting, state, thread_queue, cur, sent, stranded, closes,
                 kills, panic>>

(* __tee_msg_send(): queue the message if no server waits *)
SendQueued(c, type) ==
  /\ thread_queue = <<>>
  /\ msg_queue' = Append(msg_queue, [client |-> c, type |-> type, id |-> sent + 1])
  /\ st' = IF type = "CALL" THEN [st EXCEPT ![c] = "call"] ELSE st
  /\ UNCHANGED <<thread_queue, msg_hdl, lost, stranded>>

(* Mutant of SendDirect: the server's node stays in thread_queue *)
SendDirectNoDelete(c, type) ==
  LET s == Head(thread_queue) IN
  /\ thread_queue # <<>>
  /\ thread_queue' = thread_queue
  /\ msg_hdl' = [msg_hdl EXCEPT ![s] = [client |-> c, type |-> type, id |-> sent + 1]]
  /\ st' = [st EXCEPT ![s] = "run", ![c] = IF type = "CALL" THEN "call" ELSE @]
  /\ lost' = lost \cup Overwritten(s)
  /\ UNCHANGED <<msg_queue, stranded>>

(* __tee_msg_send(): hand the message to the first waiting server *)
SendDirect(c, type) ==
  LET s == Head(thread_queue) IN
  /\ thread_queue # <<>>
  /\ thread_queue' = Tail(thread_queue)
  /\ msg_hdl' = [msg_hdl EXCEPT ![s] = [client |-> c, type |-> type, id |-> sent + 1]]
  /\ st' = [st EXCEPT ![s] = "run", ![c] = IF type = "CALL" THEN "call" ELSE @]
  /\ lost' = lost \cup Overwritten(s)
  /\ UNCHANGED <<msg_queue, stranded>>

(* __tee_msg_send(): the copy into the waiting server's buffer fails.  The  *)
(* server is off thread_queue, its handle overwritten, and it is not woken; *)
(* the sender returns -EFAULT.                                              *)
SendFault(c, type) ==
  LET s == Head(thread_queue) IN
  /\ thread_queue # <<>>
  /\ thread_queue' = Tail(thread_queue)
  /\ msg_hdl' = [msg_hdl EXCEPT ![s] = [client |-> c, type |-> type, id |-> sent + 1]]
  /\ lost' = lost \cup Overwritten(s)
  /\ stranded' = stranded \cup {s}
  /\ UNCHANGED <<st, msg_queue>>

(* sys_tee_msg_call() with type CALL, sys_tee_msg_notify() with type NOTIF *)
Send(c, type) ==
  /\ Runs(c)
  /\ state = "VALID"
  /\ sent < MaxMsg
  /\ sent' = sent + 1
  /\ cur' = IF type = "CALL" THEN [cur EXCEPT ![c] = sent + 1] ELSE cur
  /\ SendQueued(c, type) \/ SendDirect(c, type) \/ SendFault(c, type)
  /\ UNCHANGED <<exiting, state, closes, kills, panic>>

(* Mutant of Reply: the record is not invalidated *)
ReplyAgain(s) ==
  LET c == msg_hdl[s].client IN
  /\ Runs(s)
  /\ msg_hdl[s].type = "CALL"
  /\ IF st[c] = "freed"
     THEN panic' = TRUE /\ UNCHANGED st
     ELSE st' = [st EXCEPT ![c] = "run"] /\ UNCHANGED panic
  /\ UNCHANGED <<exiting, state, msg_queue, thread_queue, msg_hdl, cur, sent,
                 lost, stranded, closes, kills>>

(* __tee_msg_reply(): wake the client of the call, once.  The client's      *)
(* thread is used whatever became of it in the meantime.                    *)
Reply(s) ==
  LET c == msg_hdl[s].client IN
  /\ Runs(s)
  /\ msg_hdl[s].type = "CALL"
  /\ IF st[c] = "freed"
     THEN panic' = TRUE /\ UNCHANGED <<st, msg_hdl>>
     ELSE /\ st' = [st EXCEPT ![c] = "run"]
          /\ msg_hdl' = [msg_hdl EXCEPT ![s].type = "INVALID"]
          /\ UNCHANGED panic
  /\ UNCHANGED <<exiting, state, msg_queue, thread_queue, cur, sent, lost,
                 stranded, closes, kills>>

-----------------------------------------------------------------------------
QueuedCallers == {r.client : r \in {q \in ToSet(msg_queue) : q.type = "CALL"}}

(* __wake_up_all_clients(): BUG_ON a client that is neither TS_WAITING nor  *)
(* TS_EXIT                                                                  *)
WakeUpBug == \E c \in QueuedCallers : st[c] \notin Waiting \cup {"exit"}

(* Mutant of WakeUpAllClients: only the first caller is woken *)
WakeUpFirst ==
  [t \in Thread |->
     IF /\ msg_queue # <<>> /\ Head(msg_queue).type = "CALL"
        /\ Head(msg_queue).client = t /\ st[t] \in Waiting
     THEN "run" ELSE st[t]]

(* __wake_up_all_clients(): the thread states it leaves.  The entries stay   *)
(* in msg_queue.                                                            *)
WakeUpAllClients ==
  [t \in Thread |->
     IF t \in QueuedCallers /\ st[t] \in Waiting THEN "run" ELSE st[t]]

(* close_channel() for the creator *)
CloseByCreator ==
  /\ closes < MaxClose
  /\ closes' = closes + 1
  /\ state' = "INVALID"

(* sys_tee_msg_stop_channel() by a thread of the creator *)
StopChannel(s) ==
  /\ Runs(s)
  /\ CloseByCreator
  /\ panic' = WakeUpBug
  /\ st' = WakeUpAllClients
  /\ UNCHANGED <<exiting, msg_queue, thread_queue, msg_hdl, cur, sent, lost,
                 stranded, kills>>

(* sys_exit_group()/sys_kill_group() on the creator: its threads are exiting *)
KillCreator ==
  /\ ~ panic
  /\ ~ Server \subseteq exiting
  /\ exiting' = exiting \cup Server
  /\ UNCHANGED <<st, state, msg_queue, thread_queue, msg_hdl, cur, sent, lost,
                 stranded, closes, kills, panic>>

(* sys_kill_group() on a client's process *)
KillClient(c) ==
  /\ ~ panic
  /\ c \notin exiting
  /\ kills < MaxKill
  /\ kills' = kills + 1
  /\ exiting' = exiting \cup {c}
  /\ UNCHANGED <<st, state, msg_queue, thread_queue, msg_hdl, cur, sent, lost,
                 stranded, closes, panic>>

(* The scheduler picks an exiting thread: it becomes TS_EXIT instead *)
SchedDrop(t) ==
  /\ ~ panic
  /\ t \in exiting
  /\ st[t] = "run"
  /\ st' = [st EXCEPT ![t] = "exit"]
  /\ UNCHANGED <<exiting, state, msg_queue, thread_queue, msg_hdl, cur, sent,
                 lost, stranded, closes, kills, panic>>

(* sys_cap_group_recycle() on the creator: close_channel() each time it is   *)
(* tried; -EAGAIN while a thread may still run, else its threads are freed   *)
RecycleCreator ==
  /\ ~ panic
  /\ Server \subseteq exiting
  /\ \E s \in Server : st[s] # "freed"
  /\ CloseByCreator
  /\ LET done == \A s \in Server : st[s] # "run" IN
     /\ panic' = WakeUpBug
     /\ st' = [t \in Thread |->
                 IF done /\ t \in Server THEN "freed" ELSE WakeUpAllClients[t]]
     /\ lost' = IF done THEN lost \cup UNION {Overwritten(s) : s \in Server}
                        ELSE lost
     /\ msg_hdl' = IF done THEN [s \in Server |-> NoRecord] ELSE msg_hdl
  /\ UNCHANGED <<exiting, msg_queue, thread_queue, cur, sent, stranded, kills>>

(* Mutant of RecycleClient: destroys no node *)
RecycleClientNone(c) ==
  /\ ~ panic
  /\ c \in exiting
  /\ st[c] # "freed"
  /\ msg_queue' = msg_queue
  /\ st' = IF st[c] = "run" THEN st ELSE [st EXCEPT ![c] = "freed"]
  /\ UNCHANGED <<exiting, state, thread_queue, msg_hdl, cur, sent, lost,
                 stranded, closes, kills, panic>>

(* sys_cap_group_recycle() on a client: close_channel() destroys its nodes   *)
(* (__destory_waiting_node()); -EAGAIN if it may still run, else it is freed *)
RecycleClient(c) ==
  /\ ~ panic
  /\ c \in exiting
  /\ st[c] # "freed"
  /\ msg_queue' = SelectSeq(msg_queue, LAMBDA r : r.client # c)
  /\ st' = IF st[c] = "run" THEN st ELSE [st EXCEPT ![c] = "freed"]
  /\ UNCHANGED <<exiting, state, thread_queue, msg_hdl, cur, sent, lost,
                 stranded, closes, kills, panic>>

(* A client blocks in, and is woken by, another kernel object *)
BlockElsewhere(c) ==
  /\ Runs(c)
  /\ st' = [st EXCEPT ![c] = "other"]
  /\ UNCHANGED <<exiting, state, msg_queue, thread_queue, msg_hdl, cur, sent,
                 lost, stranded, closes, kills, panic>>

WakeElsewhere(c) ==
  /\ ~ panic
  /\ st[c] = "other"
  /\ st' = [st EXCEPT ![c] = "run"]
  /\ UNCHANGED <<exiting, state, msg_queue, thread_queue, msg_hdl, cur, sent,
                 lost, stranded, closes, kills, panic>>

Next ==
  \/ \E s \in Server : ReceiveBlock(s) \/ ReceiveQueued(s) \/ Reply(s) \/ StopChannel(s)
  \/ \E c \in Client : \/ Send(c, "CALL") \/ Send(c, "NOTIF")
                       \/ KillClient(c) \/ RecycleClient(c)
                       \/ BlockElsewhere(c) \/ WakeElsewhere(c)
  \/ \E t \in Thread : SchedDrop(t)
  \/ KillCreator
  \/ RecycleCreator

Spec == Init /\ [][Next]_vars

-----------------------------------------------------------------------------
(* The records, queued or in a handle, of the call a client is blocked in *)
QueuedFor(c) == {i \in DOMAIN msg_queue : msg_queue[i].type = "CALL" /\ msg_queue[i].id = cur[c]}
HeldFor(c) == {s \in Server : msg_hdl[s].type = "CALL" /\ msg_hdl[s].id = cur[c]}

(***************************************************************************)
(* A client blocked in sys_tee_msg_call() is recorded exactly once, in      *)
(* msg_queue or in one server's handle, unless the server gave the call up. *)
(* Recorded nowhere, it would sleep for ever; recorded twice, it would be   *)
(* woken by somebody else's reply.                                          *)
(***************************************************************************)
CallerTracked ==
  \A c \in Client :
    st[c] = "call" /\ cur[c] \notin lost /\ ~ panic =>
      Cardinality(QueuedFor(c)) + Cardinality(HeldFor(c)) = 1

(***************************************************************************)
(* No message waits in msg_queue while a server waits in thread_queue: the  *)
(* two halves of the rendezvous cannot miss each other.                     *)
(***************************************************************************)
NoMissedRendezvous == state = "VALID" => msg_queue = <<>> \/ thread_queue = <<>>

(***************************************************************************)
(* thread_queue holds each server at most once, and as long as nobody is    *)
(* killed exactly the servers blocked in sys_tee_msg_receive(), apart from  *)
(* those a failed copy took off the queue.                                  *)
(***************************************************************************)
WaitingServersQueued ==
  /\ IsInjective(thread_queue)
  /\ Server \cap exiting = {} =>
       ToSet(thread_queue) = {s \in Server : st[s] = "recv"} \ stranded

(***************************************************************************)
(* Messages are received in the order in which they were sent.              *)
(***************************************************************************)
ReceivedInOrder ==
  [][\A s \in Server :
       msg_hdl'[s].id # msg_hdl[s].id /\ msg_hdl'[s].id # 0 =>
         \A r \in ToSet(msg_queue) : r.id >= msg_hdl'[s].id]_vars

(***************************************************************************)
(* Once a channel is closed no client is left blocked behind it: every      *)
(* caller still in msg_queue has been woken (with -EINVAL).                 *)
(***************************************************************************)
ClosedWakesCallers ==
  state = "INVALID" => \A c \in Client : st[c] = "call" => QueuedFor(c) = {}

(***************************************************************************)
(* __tee_msg_reply() wakes the client of the call, which, unless it was     *)
(* killed meanwhile, is still blocked in that very call.                    *)
(***************************************************************************)
ReplyWakesBlockedCaller ==
  [][\A s \in Server :
       LET c == msg_hdl[s].client IN
       Reply(s) => \/ c \in exiting \/ st[c] \in {"exit", "freed"}
                   \/ st[c] = "call" /\ cur[c] = msg_hdl[s].id]_vars

(***************************************************************************)
(* No message of a freed client is left in msg_queue, where a receiver or   *)
(* close_channel() would follow its thread pointer.                         *)
(***************************************************************************)
NoFreedSender == \A r \in ToSet(msg_queue) : st[r.client] # "freed"

(* No BUG_ON of channel.c fires. *)
NoPanic == ~ panic
=============================================================================
