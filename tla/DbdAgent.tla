------------------------------ MODULE DbdAgent ------------------------------
(***************************************************************************)
(* The SlurmDBD client of src/src/common/slurmdbd_defs.c: the agent thread *)
(* that drains the queue of accounting messages, the threads that queue    *)
(* messages (slurm_send_slurmdbd_msg), the threads that make a synchronous *)
(* RPC over the same socket (slurm_send_recv_slurmdbd_msg), the thread     *)
(* that opens and closes the connection, the file dbd.messages, and, as an *)
(* external party, the SlurmDBD at the other end.                          *)
(*                                                                         *)
(* A message is its acceptance number.  Sections under agent_lock are one  *)
(* step each, so the lock is a variable only because a cancelled agent can *)
(* die holding it.  slurmdbd_lock is held across blocking I/O and is       *)
(* modelled as a lock.  Socket bytes are abstracted to whole requests and  *)
(* replies; what a stray byte does to the framing is the flag garbled.     *)
(***************************************************************************)
EXTENDS Integers, FiniteSets, SeqOps

CONSTANTS
  MaxMsgs,    \* messages the controller queues in a behaviour
  Starts,     \* those that are a DBD_JOB_START or DBD_STEP_START
  Registers,  \* those that are a DBD_REGISTER_CTLD
  MaxQueue,   \* MAX_AGENT_QUEUE
  Callers,    \* threads that make synchronous RPCs
  MaxFaults,  \* failures of network, SlurmDBD, disk or process
  MaxRpcs,    \* synchronous RPCs started in a behaviour
  Env         \* what else may happen, see EnvKinds

(***************************************************************************)
(* "close"  : slurm_close_slurmdbd_conn is called                          *)
(* "race"   : messages are still queued while the connection is closed     *)
(* "cancel" : the agent may outlive the 5 s grace of _shutdown_agent       *)
(* "late"   : SlurmDBD may answer after the 900 s reply timeout            *)
(* "crash"  : the process may die                                          *)
(***************************************************************************)
EnvKinds == {"close", "race", "cancel", "late", "crash"}

ASSUME ConstantsAssumption ==
  /\ MaxMsgs \in Nat /\ MaxFaults \in Nat /\ MaxRpcs \in Nat
  /\ MaxQueue \in Nat \ {0}
  /\ Starts \cup Registers \subseteq 1..MaxMsgs /\ Starts \cap Registers = {}
  /\ Env \subseteq EnvKinds
  /\ Callers \cap {"free", "agent"} = {} /\ Callers \cap (1..MaxMsgs) = {}

Msgs     == 1..MaxMsgs
Requests == Msgs \cup Callers
Replies  == [req : Requests, rc : BOOLEAN]

VARIABLES
  agent_list,      \* the queue, oldest first; <<>> while the list is NULL
  list_made,       \* agent_list # NULL
  file,            \* records of dbd.messages
  agent_tid,       \* agent_tid # 0
  agent_shutdown,  \* agent_shutdown # 0
  cancelled,       \* pthread_cancel(agent_tid) is pending
  agent_lock,      \* "free", or "agent" once the agent died holding it
  apc,             \* where the agent thread is
  abuf,            \* the message it is sending, 0 for none
  arc,             \* rc = SLURM_SUCCESS
  fail_recent,     \* fail_time is set and less than 10 s ago
  slurmdbd_lock,   \* its holder, or "free"
  halt_agent,
  conn,            \* slurmdbd_fd: "none" (-1), "up", "hup" (closed by the peer)
  wire,            \* requests written that SlurmDBD has not processed
  back,            \* replies written that nobody has read
  garbled,         \* a byte of a reply was eaten by _fd_writeable
  cpc,             \* where each RPC caller is
  mpc,             \* where the thread that opens and closes is
  faults, rpcs,    \* failures and RPCs so far
  sent, applied, dropped
                   \* history: messages queued so far, those SlurmDBD has
                   \* processed, and those the code gives up

queue == <<agent_list, list_made, file>>
ctl   == <<agent_tid, agent_shutdown, cancelled, agent_lock>>
agent == <<apc, abuf, arc, fail_recent>>
lock  == <<slurmdbd_lock, halt_agent>>
net   == <<conn, wire, back, garbled>>
hist  == <<sent, applied, dropped>>
vars  == <<queue, ctl, agent, lock, net, cpc, mpc, faults, rpcs, hist>>

AgentPCs  == {"loop", "lock", "condwait", "relock", "open", "pick", "idle",
              "send", "recv", "done", "exit", "gone"}
CallerPCs == {"idle", "want", "send", "recv"}
MainPCs   == {"init", "mkagent", "run", "join", "closefd", "closed"}

Fault == faults < MaxFaults /\ faults' = faults + 1

Init ==
  /\ agent_list = <<>> /\ list_made = FALSE /\ file = <<>>
  /\ agent_tid = FALSE /\ agent_shutdown = FALSE /\ cancelled = FALSE
  /\ agent_lock = "free"
  /\ apc = "gone" /\ abuf = 0 /\ arc = FALSE /\ fail_recent = FALSE
  /\ slurmdbd_lock = "free" /\ halt_agent = FALSE
  /\ conn = "none" /\ wire = <<>> /\ back = <<>> /\ garbled = FALSE
  /\ cpc = [c \in Callers |-> "idle"]
  /\ mpc = "init"
  /\ faults = 0 /\ rpcs = 0
  /\ sent = 0 /\ applied = {} /\ dropped = {}

-----------------------------------------------------------------------------
(* The socket, used by whoever holds slurmdbd_lock.                        *)

NewConn(q) == conn' = "up" /\ wire' = q /\ back' = <<>> /\ garbled' = FALSE
NoConn_Stale == conn' = "stale" /\ wire' = <<>> /\ back' = <<>> /\ garbled' = FALSE
NoConn == conn' = "none" /\ wire' = <<>> /\ back' = <<>> /\ garbled' = FALSE

\* _open_slurmdbd_fd: DBD_INIT is exchanged before the socket counts as open,
\* and that exchange fails at once while agent_shutdown is set.
OpenOk   == ~agent_shutdown /\ NewConn(<<>>) /\ UNCHANGED faults
OpenFail == (IF agent_shutdown THEN UNCHANGED faults ELSE Fault) /\ NoConn

\* _send_msg.  _fd_writeable reads one byte to see whether the peer is there,
\* so a reply nobody has read yet loses its framing.  On a socket the peer
\* closed the whole message goes out again over a new one.
SendOk(q) ==
  /\ ~agent_shutdown
  /\ \/ /\ conn = "up"
        /\ wire' = Append(wire, q)
        /\ garbled' = (garbled \/ back # <<>>)
        /\ UNCHANGED <<conn, back>>
     \/ conn = "hup" /\ back = <<>> /\ NewConn(<<q>>)
     \/ conn = "hup" /\ back # <<>> /\ back' = <<>> /\ UNCHANGED <<conn, wire, garbled>>
  /\ UNCHANGED faults

SendFail ==
  \/ agent_shutdown /\ UNCHANGED <<net, faults>>
  \/ ~agent_shutdown /\ conn = "up" /\ Fault /\ UNCHANGED net
  \/ ~agent_shutdown /\ conn = "hup" /\ back = <<>> /\ Fault /\ NoConn

\* _recv_msg: the next reply on the socket, whoever it was meant for.
RecvOk ==
  /\ ~garbled /\ back # <<>>
  /\ back' = Tail(back)
  /\ UNCHANGED <<conn, wire, garbled, faults>>

\* _recv_msg returns NULL.  The connection is kept.  With the framing lost the
\* read takes whatever arrives for the rest of an absurdly long message.
RecvFail ==
  \/ (agent_shutdown \/ conn = "hup") /\ UNCHANGED <<net, faults>>
  \/ garbled /\ wire = <<>> /\ back' = <<>> /\ UNCHANGED <<conn, wire, garbled, faults>>
  \/ "late" \in Env /\ conn = "up" /\ back = <<>> /\ Fault /\ UNCHANGED net

-----------------------------------------------------------------------------
(* SlurmDBD, external: it answers requests in order, may answer with an    *)
(* error, and may close the connection with requests unprocessed and       *)
(* replies unread.                                                         *)

ServerStep ==
  /\ conn = "up" /\ wire # <<>>
  /\ wire' = Tail(wire)
  /\ LET q == Head(wire) IN
     \E ok \in BOOLEAN :
       /\ back' = Append(back, [req |-> q, rc |-> ok])
       /\ applied' = IF ok /\ q \in Msgs THEN applied \cup {q} ELSE applied
       /\ IF ok THEN UNCHANGED faults ELSE Fault
  /\ UNCHANGED <<queue, ctl, agent, lock, conn, garbled, cpc, mpc, rpcs, sent, dropped>>

HangUp ==
  /\ conn = "up" /\ Fault
  /\ conn' = "hup" /\ wire' = <<>> /\ back' \in {back, <<>>}
  /\ UNCHANGED <<queue, ctl, agent, lock, garbled, cpc, mpc, rpcs, hist>>

-----------------------------------------------------------------------------
(* _create_agent, under agent_lock; the caller gives agent_list its new    *)
(* value, which starts from Loaded.                                        *)

Loaded == IF list_made THEN agent_list ELSE file

\* _load_dbd_state unlinks the file it has read.
FileAfterLoad_NoUnlink == file
FileAfterLoad == IF list_made THEN file ELSE <<>>

CreateAgent ==
  /\ agent_shutdown' = FALSE
  /\ list_made' = TRUE
  /\ file' = FileAfterLoad
  /\ agent_tid' = TRUE
  /\ IF agent_tid THEN UNCHANGED <<apc, cancelled>>
                  ELSE apc' = "loop" /\ cancelled' = FALSE

NeedAgent == ~agent_tid \/ ~list_made

\* Whether messages are queued now: the connection must have been opened, and
\* threads may go on while it is being closed.
MayQueue == mpc = "run" \/ ("race" \in Env /\ mpc \in {"join", "closefd", "closed"})

\* cnt < MAX_AGENT_QUEUE
Room_OffByOne(q) == Len(q) <= MaxQueue
Room(q) == Len(q) < MaxQueue

\* slurm_send_slurmdbd_msg, with _purge_job_start_req one short of the limit.
SendSlurmdbdMsg ==
  /\ sent < MaxMsgs /\ MayQueue /\ agent_lock = "free"
  /\ IF NeedAgent THEN CreateAgent
                  ELSE UNCHANGED <<agent_shutdown, list_made, file, agent_tid, apc, cancelled>>
  /\ LET m    == sent + 1
         kept == IF Len(Loaded) = MaxQueue - 1
                   THEN Without(Loaded, Starts) ELSE Loaded
         room == Room(kept)
     IN /\ agent_list' = IF room THEN Append(kept, m) ELSE kept
        /\ sent' = m
        /\ dropped' = dropped \cup (Elems(Loaded) \ Elems(kept))
                              \cup (IF room THEN {} ELSE {m})
  /\ UNCHANGED <<agent_lock, abuf, arc, fail_recent, lock, net, cpc, mpc, faults, rpcs, applied>>

-----------------------------------------------------------------------------
(* The agent thread, _agent.                                               *)

\* while (agent_shutdown == 0)
AgentLoop_NoCheck ==
  /\ apc = "loop" /\ apc' = "lock"
  /\ UNCHANGED <<queue, ctl, abuf, arc, fail_recent, lock, net, cpc, mpc, faults, rpcs, hist>>

AgentLoop ==
  /\ apc = "loop"
  /\ apc' = IF agent_shutdown THEN "exit" ELSE "lock"
  /\ UNCHANGED <<queue, ctl, abuf, arc, fail_recent, lock, net, cpc, mpc, faults, rpcs, hist>>

\* Take slurmdbd_lock; if (halt_agent) pthread_cond_wait, which gives it back.
AgentLock ==
  /\ apc = "lock" /\ slurmdbd_lock = "free"
  /\ IF halt_agent THEN apc' = "condwait" /\ UNCHANGED slurmdbd_lock
                   ELSE apc' = "open" /\ slurmdbd_lock' = "agent"
  /\ UNCHANGED <<queue, ctl, abuf, arc, fail_recent, halt_agent, net, cpc, mpc, faults, rpcs, hist>>

\* pthread_cond_wait returns, the lock taken again; halt_agent is not re-read.
AgentRelock_NoLock ==
  /\ apc = "relock" /\ apc' = "open"
  /\ UNCHANGED <<queue, ctl, abuf, arc, fail_recent, lock, net, cpc, mpc, faults, rpcs, hist>>

AgentRelock ==
  /\ apc = "relock" /\ slurmdbd_lock = "free"
  /\ apc' = "open" /\ slurmdbd_lock' = "agent"
  /\ UNCHANGED <<queue, ctl, abuf, arc, fail_recent, halt_agent, net, cpc, mpc, faults, rpcs, hist>>

Reconnects == conn = "none" /\ ~fail_recent

AgentOpen ==
  /\ apc = "open" /\ apc' = "pick"
  /\ \/ Reconnects /\ ~cancelled /\ OpenOk /\ UNCHANGED fail_recent
     \/ Reconnects /\ ~cancelled /\ OpenFail /\ fail_recent' = TRUE
     \/ ~Reconnects /\ UNCHANGED <<net, faults, fail_recent>>
  /\ UNCHANGED <<queue, ctl, abuf, arc, lock, cpc, mpc, rpcs, hist>>

\* Under agent_lock: nothing to send or no use trying, or the oldest message,
\* which stays on the queue.
AgentPick ==
  /\ apc = "pick" /\ agent_lock = "free"
  /\ IF agent_list = <<>> \/ conn = "none" \/ fail_recent
       THEN apc' = "idle" /\ slurmdbd_lock' = "free" /\ UNCHANGED abuf
       ELSE apc' = "send" /\ abuf' = Head(agent_list) /\ UNCHANGED slurmdbd_lock
  /\ UNCHANGED <<queue, ctl, arc, fail_recent, halt_agent, net, cpc, mpc, faults, rpcs, hist>>

\* pthread_cond_timedwait(&agent_cond) ends: a broadcast, or 10 s.
AgentWake ==
  /\ apc = "idle" /\ ~cancelled /\ agent_lock = "free"
  /\ apc' = "loop"
  /\ UNCHANGED <<queue, ctl, abuf, arc, fail_recent, lock, net, cpc, mpc, faults, rpcs, hist>>

AgentSend_KeepLock ==
  /\ apc = "send"
  /\ \/ SendOk(abuf) /\ apc' = "recv" /\ UNCHANGED arc
     \/ SendFail /\ apc' = "done" /\ arc' = FALSE
  /\ UNCHANGED <<queue, ctl, abuf, fail_recent, lock, cpc, mpc, rpcs, hist>>

AgentSend ==
  /\ apc = "send"
  /\ \/ SendOk(abuf) /\ apc' = "recv" /\ UNCHANGED <<arc, slurmdbd_lock>>
     \/ /\ SendFail
        /\ apc' = IF agent_shutdown THEN "exit" ELSE "done"
        /\ arc' = FALSE
        /\ slurmdbd_lock' = "free"
  /\ UNCHANGED <<queue, ctl, abuf, fail_recent, halt_agent, cpc, mpc, rpcs, hist>>

\* _get_return_code, then slurmdbd_lock is released.  A reply that does not come
\* is SLURM_ERROR, never the EAGAIN the caller tests for.
AgentRecv ==
  /\ apc = "recv"
  /\ \/ RecvOk /\ arc' = Head(back).rc
     \/ RecvFail /\ arc' = FALSE
  /\ apc' = "done" /\ slurmdbd_lock' = "free"
  /\ UNCHANGED <<queue, ctl, abuf, fail_recent, halt_agent, cpc, mpc, rpcs, hist>>

\* The queue after an exchange; list_dequeue takes the head of the moment.
Dequeued_Always(ok) == IF agent_list # <<>> THEN Tail(agent_list) ELSE agent_list
Dequeued_Rotate(ok) ==
  IF agent_list = <<>> THEN agent_list
  ELSE IF ok THEN Tail(agent_list) ELSE Append(Tail(agent_list), Head(agent_list))
Dequeued(ok) == IF ok /\ agent_list # <<>> THEN Tail(agent_list) ELSE agent_list

\* Under agent_lock: on success whatever is now at the head leaves the queue.
AgentDone ==
  /\ apc = "done" /\ agent_lock = "free"
  /\ agent_list' = Dequeued(arc)
  /\ fail_recent' = ~arc
  /\ apc' = "loop" /\ abuf' = 0 /\ arc' = FALSE
  /\ UNCHANGED <<list_made, file, ctl, lock, net, cpc, mpc, faults, rpcs, hist>>

\* _save_dbd_state without the registrations: all, the records before a write
\* error, or none when the file cannot be created; then the list is destroyed.
AgentExit ==
  /\ apc = "exit" /\ ~cancelled /\ agent_lock = "free"
  /\ LET recs == Without(agent_list, Registers) IN
       \/ file' = recs /\ UNCHANGED faults
       \/ Fault /\ \E k \in 0..Len(recs) : file' = SubSeq(recs, 1, k)
       \/ Fault /\ UNCHANGED file
  /\ dropped' = dropped \cup (Elems(agent_list) \ Elems(file'))
  /\ agent_list' = <<>> /\ list_made' = FALSE
  /\ apc' = "gone" /\ abuf' = 0
  /\ UNCHANGED <<ctl, arc, fail_recent, lock, net, cpc, mpc, rpcs, sent, applied>>

\* A pending pthread_cancel takes effect at the next cancellation point, with
\* no cleanup handler: a condition wait takes its mutex again first.
AgentDies ==
  /\ cancelled
  /\ \/ /\ apc \in {"condwait", "relock"} /\ slurmdbd_lock = "free"
        /\ slurmdbd_lock' = "agent" /\ UNCHANGED agent_lock
     \/ apc = "open" /\ Reconnects /\ UNCHANGED <<slurmdbd_lock, agent_lock>>
     \/ /\ apc \in {"idle", "exit"} /\ agent_lock = "free"
        /\ agent_lock' = "agent" /\ UNCHANGED slurmdbd_lock
  /\ apc' = "gone" /\ abuf' = 0 /\ cancelled' = FALSE
  /\ UNCHANGED <<queue, agent_tid, agent_shutdown, arc, fail_recent, halt_agent, net, cpc, mpc,
                 faults, rpcs, hist>>

AgentStep ==
  \/ AgentLoop \/ AgentLock \/ AgentRelock \/ AgentOpen \/ AgentPick \/ AgentWake
  \/ AgentSend \/ AgentRecv \/ AgentDone \/ AgentExit \/ AgentDies

\* Ten seconds have passed since fail_time.
RetryTimePasses ==
  /\ fail_recent /\ fail_recent' = FALSE
  /\ UNCHANGED <<queue, ctl, apc, abuf, arc, lock, net, cpc, mpc, faults, rpcs, hist>>

-----------------------------------------------------------------------------
(* slurm_send_recv_slurmdbd_msg by thread c.                               *)

RpcBegin(c) ==
  /\ cpc[c] = "idle" /\ rpcs < MaxRpcs /\ mpc \notin {"init", "mkagent"}
  /\ halt_agent' = TRUE
  /\ cpc' = [cpc EXCEPT ![c] = "want"] /\ rpcs' = rpcs + 1
  /\ UNCHANGED <<queue, ctl, agent, slurmdbd_lock, net, mpc, faults, hist>>

RpcLock_KeepHalt(c) ==
  /\ cpc[c] = "want" /\ slurmdbd_lock = "free"
  /\ slurmdbd_lock' = c
  /\ cpc' = [cpc EXCEPT ![c] = "send"]
  /\ UNCHANGED <<queue, ctl, agent, halt_agent, net, mpc, faults, rpcs, hist>>

RpcLock(c) ==
  /\ cpc[c] = "want" /\ slurmdbd_lock = "free"
  /\ slurmdbd_lock' = c /\ halt_agent' = FALSE
  /\ cpc' = [cpc EXCEPT ![c] = "send"]
  /\ UNCHANGED <<queue, ctl, agent, net, mpc, faults, rpcs, hist>>

\* end_it: signal slurmdbd_cond and release the lock.
RpcEnd_NoSignal(c) ==
  /\ slurmdbd_lock' = "free"
  /\ cpc' = [cpc EXCEPT ![c] = "idle"]
  /\ UNCHANGED apc

RpcEnd(c) ==
  /\ apc' = IF apc = "condwait" THEN "relock" ELSE apc
  /\ slurmdbd_lock' = "free"
  /\ cpc' = [cpc EXCEPT ![c] = "idle"]

RpcSend(c) ==
  /\ cpc[c] = "send"
  /\ \/ conn = "none" /\ OpenOk /\ UNCHANGED <<cpc, apc, slurmdbd_lock>>
     \/ conn = "none" /\ OpenFail /\ RpcEnd(c)
     \/ /\ conn # "none" /\ SendOk(c)
        /\ cpc' = [cpc EXCEPT ![c] = "recv"] /\ UNCHANGED <<apc, slurmdbd_lock>>
     \/ conn # "none" /\ SendFail /\ RpcEnd(c)
  /\ UNCHANGED <<queue, ctl, abuf, arc, fail_recent, halt_agent, mpc, rpcs, hist>>

RpcRecv(c) ==
  /\ cpc[c] = "recv" /\ (RecvOk \/ RecvFail) /\ RpcEnd(c)
  /\ UNCHANGED <<queue, ctl, abuf, arc, fail_recent, halt_agent, mpc, rpcs, hist>>

RpcStep(c) == RpcLock(c) \/ RpcSend(c) \/ RpcRecv(c)

-----------------------------------------------------------------------------
(* The thread that opens and closes the connection.                        *)

\* slurm_open_slurmdbd_conn(make_agent = true), the part under slurmdbd_lock.
OpenConnFd ==
  /\ mpc = "init" /\ slurmdbd_lock = "free"
  /\ mpc' = "mkagent"
  /\ IF conn = "none" THEN OpenOk \/ OpenFail ELSE UNCHANGED <<net, faults>>
  /\ UNCHANGED <<queue, ctl, agent, lock, cpc, rpcs, hist>>

\* ... and the part under agent_lock.
OpenConnAgent ==
  /\ mpc = "mkagent" /\ agent_lock = "free"
  /\ mpc' = "run"
  /\ IF NeedAgent
       THEN CreateAgent /\ agent_list' = Loaded
       ELSE /\ agent_list' = agent_list \o file /\ file' = <<>>
            /\ UNCHANGED <<agent_shutdown, list_made, agent_tid, apc, cancelled>>
  /\ UNCHANGED <<agent_lock, abuf, arc, fail_recent, lock, net, cpc, faults, rpcs, hist>>

\* slurm_close_slurmdbd_conn: _shutdown_agent, without agent_lock.
CloseBegin ==
  /\ "close" \in Env /\ mpc = "run"
  /\ IF agent_tid THEN agent_shutdown' = TRUE /\ mpc' = "join"
                  ELSE mpc' = "closefd" /\ UNCHANGED agent_shutdown
  /\ UNCHANGED <<queue, agent_tid, cancelled, agent_lock, agent, lock, net, cpc, faults, rpcs, hist>>

\* After 50 tries the agent is still there: something keeps it for over 5 s,
\* an RPC that holds slurmdbd_lock or a connect that does not return.
CloseCancel ==
  /\ "cancel" \in Env /\ mpc = "join" /\ ~cancelled
  /\ \/ apc \in {"lock", "condwait", "relock"} /\ \E c \in Callers : cpc[c] \in {"send", "recv"}
     \/ apc = "open" /\ Reconnects
  /\ cancelled' = TRUE
  /\ UNCHANGED <<queue, agent_tid, agent_shutdown, agent_lock, agent, lock, net, cpc, mpc, faults,
                 rpcs, hist>>

CloseJoin ==
  /\ mpc = "join" /\ apc = "gone"
  /\ agent_tid' = FALSE /\ mpc' = "closefd"
  /\ UNCHANGED <<queue, agent_shutdown, cancelled, agent_lock, agent, lock, net, cpc, faults, rpcs,
                 hist>>

CloseFd_Leak ==
  /\ mpc = "closefd" /\ slurmdbd_lock = "free" /\ mpc' = "closed"
  /\ UNCHANGED <<queue, ctl, agent, lock, net, cpc, faults, rpcs, hist>>

CloseFd ==
  /\ mpc = "closefd" /\ slurmdbd_lock = "free"
  /\ NoConn /\ mpc' = "closed"
  /\ UNCHANGED <<queue, ctl, agent, lock, cpc, faults, rpcs, hist>>

\* The same process opens the connection again.
Reopen ==
  /\ mpc = "closed" /\ mpc' = "init"
  /\ UNCHANGED <<queue, ctl, agent, lock, net, cpc, faults, rpcs, hist>>

\* What a process leaves behind, and a new one starts from: dbd.messages.
ProcessDies ==
  /\ dropped' = dropped \cup Elems(agent_list)
  /\ agent_list' = <<>> /\ list_made' = FALSE
  /\ agent_tid' = FALSE /\ agent_shutdown' = FALSE /\ cancelled' = FALSE /\ agent_lock' = "free"
  /\ apc' = "gone" /\ abuf' = 0 /\ arc' = FALSE /\ fail_recent' = FALSE
  /\ slurmdbd_lock' = "free" /\ halt_agent' = FALSE
  /\ NoConn
  /\ cpc' = [c \in Callers |-> "idle"] /\ mpc' = "init"
  /\ UNCHANGED <<file, rpcs, sent, applied>>

\* The controller exits once the connection is closed, and is started again.
Restart == mpc = "closed" /\ ProcessDies /\ UNCHANGED faults

Crash == "crash" \in Env /\ mpc # "init" /\ ProcessDies /\ Fault

MainStep == OpenConnFd \/ OpenConnAgent \/ CloseJoin \/ CloseFd

-----------------------------------------------------------------------------
Next ==
  \/ SendSlurmdbdMsg
  \/ AgentStep
  \/ RetryTimePasses
  \/ \E c \in Callers : RpcBegin(c) \/ RpcStep(c)
  \/ MainStep \/ CloseBegin \/ CloseCancel \/ Reopen \/ Restart \/ Crash
  \/ ServerStep \/ HangUp

Spec == Init /\ [][Next]_vars

\* Every thread keeps running, time passes, SlurmDBD works on what it was sent,
\* and a thread blocked on slurmdbd_lock is not passed over for ever.  Nothing
\* is assumed of who calls, closes, fails or hangs up.
Fairness ==
  /\ WF_vars(AgentStep) /\ WF_vars(RetryTimePasses)
  /\ WF_vars(ServerStep) /\ WF_vars(MainStep)
  /\ \A c \in Callers : WF_vars(RpcStep(c)) /\ SF_vars(RpcLock(c))

FairSpec == Spec /\ Fairness

-----------------------------------------------------------------------------
(* Properties.                                                             *)

FlagsOK ==
  /\ list_made \in BOOLEAN /\ agent_tid \in BOOLEAN /\ agent_shutdown \in BOOLEAN
  /\ cancelled \in BOOLEAN /\ arc \in BOOLEAN /\ fail_recent \in BOOLEAN
  /\ halt_agent \in BOOLEAN /\ garbled \in BOOLEAN

DataOK ==
  /\ agent_list \in Seq(Msgs) /\ file \in Seq(Msgs)
  /\ agent_lock \in {"free", "agent"}
  /\ apc \in AgentPCs /\ abuf \in Msgs \cup {0}
  /\ apc \in {"send", "recv"} => abuf \in Msgs
  /\ slurmdbd_lock \in {"free", "agent"} \cup Callers
  /\ conn \in {"none", "up", "hup"} /\ wire \in Seq(Requests) /\ back \in Seq(Replies)
  /\ cpc \in [Callers -> CallerPCs] /\ mpc \in MainPCs
  /\ faults \in 0..MaxFaults /\ rpcs \in 0..MaxRpcs
  /\ sent \in 0..MaxMsgs /\ applied \subseteq Msgs /\ dropped \subseteq Msgs

\* Every variable has its type in every reachable state.
TypeOK == FlagsOK /\ DataOK

\* The queue never outgrows MAX_AGENT_QUEUE, although slurm_send_slurmdbd_msg
\* looks at the limit only after _create_agent has put the saved messages back.
QueueBounded == Len(agent_list) + Len(file) <= MaxQueue

\* Pending messages are in memory or on disk, never in both: _load_dbd_state
\* unlinks what it has read and only a dying agent writes the file, so its
\* O_TRUNC never destroys unsent messages.
ListOrFile == list_made => file = <<>>

\* The agent never waits on slurmdbd_cond without an RPC under way whose end
\* will signal it: halt_agent is set outside the lock and tested only once.
AgentWaitHasWaker ==
  /\ halt_agent => \E c \in Callers : cpc[c] = "want"
  /\ apc = "condwait" => \E c \in Callers : cpc[c] # "idle"

\* At most one thread is between taking and releasing slurmdbd_lock, and the
\* lock records which.
OneSocketUser ==
  /\ apc \in {"open", "pick", "send", "recv"} => slurmdbd_lock = "agent"
  /\ \A c \in Callers : cpc[c] \in {"send", "recv"} <=> slurmdbd_lock = c

\* A queued message leaves the queue only once SlurmDBD has processed it,
\* unless the code gave it up on purpose: through _agent's resends, a save to
\* dbd.messages and the load by the next agent.
KeptUntilApplied ==
  \A m \in 1..sent : m \in applied \cup dropped \cup Elems(agent_list) \cup Elems(file)

\* The same, but a message may also be on its way over a live connection: what
\* is in none of these places will never reach SlurmDBD.
NotLost ==
  \A m \in 1..sent :
    m \in applied \cup dropped \cup Elems(agent_list) \cup Elems(file) \cup Elems(wire)

\* A reply is read by the thread whose request it answers: agent and RPC
\* callers share one socket and replies carry no request identifier.
ReplyMatchesRequest ==
  (back # <<>> /\ ~garbled) =>
    /\ apc = "recv" => Head(back).req = abuf
    /\ \A c \in Callers : cpc[c] = "recv" => Head(back).req = c

\* SlurmDBD sees messages for the first time in the order they were queued,
\* whatever is resent, purged, saved and loaded: a job's end is not recorded
\* before its start was.
AppliedInOrder ==
  [][\A m \in applied' \ applied : \A n \in applied : n < m]_vars

\* Every queued message is in the end processed by SlurmDBD or given up, if the
\* connection in the end stays open: the agent finds its way out of every wait,
\* whatever closes, restarts and failures went before.
Drain ==
  <>[](mpc = "run") => \A m \in Msgs : (sent >= m) ~> (m \in applied \cup dropped)

\* Every synchronous RPC returns to its caller.
RpcReturns == \A c \in Callers : (cpc[c] = "want") ~> (cpc[c] = "idle")

\* slurm_close_slurmdbd_conn returns.
CloseReturns == (mpc = "join") ~> (mpc \in {"closed", "init"})

-----------------------------------------------------------------------------
Promise == INSTANCE Delivery
           WITH accepted <- sent, pending <- agent_list \o file,
                done <- applied, given_up <- dropped

\* The agent keeps slurm_send_slurmdbd_msg's promise: queue, file, socket and
\* retries together behave as one line of messages, served from its head, which
\* a message leaves only processed or given up.
KeepsPromise == Promise!Spec
=============================================================================
