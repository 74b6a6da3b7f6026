------------------------------- MODULE JobAcct -------------------------------
(***************************************************************************)
(* The job accounting calls of one cluster, in the order the SlurmDBD      *)
(* agent delivers them, and the rows they leave behind.  The controller is *)
(* external: each of its events changes what is true of a job (ctl) and    *)
(* makes one call of the plugin.  Delivery is the agent's: in order, at    *)
(* least once (a call whose reply was lost is made again before the next   *)
(* one), and the start of a job or a step may be purged from a full queue. *)
(***************************************************************************)
EXTENDS JobTables

CONSTANTS
  Jobs,
  MaxSuspends, \* suspensions of a job
  MaxTime,     \* the clock runs from 1 to MaxTime
  MaxResends,  \* calls made twice
  Resendable,  \* the calls that may be made twice
  MaxPurges,   \* job and step starts dropped by _purge_job_start_req
  MaxFlushes   \* controller restarts that flush the cluster's jobs

Ops == {"job_start", "job_complete", "step_start", "step_complete", "suspend", "flush"}

ASSUME JobAcctAssumption ==
  /\ MaxTime \in Nat \ {0} /\ MaxResends \in Nat /\ MaxPurges \in Nat /\ MaxFlushes \in Nat
  /\ MaxSuspends \in Nat
  /\ Resendable \subseteq Ops

VARIABLES
  now,
  ctl,      \* what is true of each job
  db,       \* its rows
  last,     \* the call delivered last; it may be delivered again
  rejoin,   \* jobs a restarted controller has yet to announce
  spoilt,   \* jobs whose rows a flush has closed, or to which a suspend was done twice
  resends, purges, flushes

bounds == <<resends, purges, flushes>>
vars   == <<now, ctl, db, last, rejoin, spoilt, bounds>>

NoCall == [op |-> "none"]

NewJob == [state |-> "none", submit |-> 0, start |-> 0, end |-> 0, since |-> 0, off |-> {},
           step |-> "none", sstart |-> 0, send |-> 0, ssus |-> 0]

Live == {"PENDING", "RUNNING", "SUSPENDED"}
Done == {"COMPLETE", "CANCELLED"}

Init ==
  /\ now = 1
  /\ ctl = [j \in Jobs |-> NewJob]
  /\ db = [j \in Jobs |-> NoRows]
  /\ last = NoCall
  /\ rejoin = {} /\ spoilt = {}
  /\ resends = 0 /\ purges = 0 /\ flushes = 0

\* What a call does to the tables.
Apply(tables, m) ==
  CASE m.op = "job_start"     -> [tables EXCEPT ![m.job] = JobStart(@, m)]
    [] m.op = "job_complete"  -> [tables EXCEPT ![m.job] = JobComplete(@, m)]
    [] m.op = "step_start"    -> [tables EXCEPT ![m.job] = StepStart(@, m)]
    [] m.op = "step_complete" -> [tables EXCEPT ![m.job] = StepComplete(@, m)]
    [] m.op = "suspend"       -> [tables EXCEPT ![m.job] = Suspend(@, m)]
    [] m.op = "flush"         -> [j \in Jobs |-> Flush(tables[j], m.time)]

Deliver(m) == db' = Apply(db, m) /\ last' = m

\* job_ptr->db_index: the controller has learnt the id of an existing row, or
\* has not (the start is still queued, or the state file is old).
Known(j) == IF db[j].row = NoRow THEN {FALSE} ELSE BOOLEAN

\* Only dbd_job_start_msg_t and dbd_job_comp_msg_t carry the job's start; a job
\* added by another call has the zeroes of a cleared job record.
Call(o, j, i, state, start, end, t) ==
  [op |-> o, job |-> j, idx |-> i, state |-> state, start |-> start, end |-> end, time |-> t]

-----------------------------------------------------------------------------
Tick ==
  /\ now < MaxTime /\ rejoin = {} /\ now' = now + 1
  /\ UNCHANGED <<ctl, db, last, rejoin, spoilt, bounds>>

\* The reply was lost; the agent sends the head of its queue again.
Resend ==
  /\ last.op \in Resendable /\ resends < MaxResends
  /\ Deliver(last) /\ resends' = resends + 1
  /\ spoilt' = IF last.op = "suspend" THEN spoilt \cup {last.job} ELSE spoilt
  /\ UNCHANGED <<now, ctl, rejoin, purges, flushes>>

\* A start call, unless it was purged from the queue.
SendStart(m) ==
  \/ Deliver(m) /\ UNCHANGED purges
  \/ purges < MaxPurges /\ purges' = purges + 1 /\ UNCHANGED <<db, last>>

Submit(j) ==
  /\ rejoin = {} /\ ctl[j].state = "none"
  /\ ctl' = [ctl EXCEPT ![j].state = "PENDING", ![j].submit = now]
  /\ SendStart(Call("job_start", j, FALSE, "PENDING", 0, 0, now))
  /\ UNCHANGED <<now, rejoin, spoilt, resends, flushes>>

Run(j) ==
  /\ rejoin = {} /\ ctl[j].state = "PENDING"
  /\ ctl' = [ctl EXCEPT ![j].state = "RUNNING", ![j].start = now]
  /\ \E i \in Known(j) : SendStart(Call("job_start", j, i, "RUNNING", now, 0, now))
  /\ UNCHANGED <<now, rejoin, spoilt, resends, flushes>>

\* A pending job is cancelled; the scheduler may have planned its start.
Cancel(j) ==
  /\ rejoin = {} /\ ctl[j].state = "PENDING"
  /\ ctl' = [ctl EXCEPT ![j].state = "CANCELLED", ![j].end = now]
  /\ \E i \in Known(j), planned \in {0, now + 1} :
       Deliver(Call("job_complete", j, i, "CANCELLED", planned, now, now))
  /\ UNCHANGED <<now, rejoin, spoilt, bounds>>

Finish(j) ==
  /\ rejoin = {} /\ ctl[j].state = "RUNNING" /\ ctl[j].step # "RUNNING"
  /\ ctl' = [ctl EXCEPT ![j].state = "COMPLETE", ![j].end = now]
  /\ \E i \in Known(j) : Deliver(Call("job_complete", j, i, "COMPLETE", ctl[j].start, now, now))
  /\ UNCHANGED <<now, rejoin, spoilt, bounds>>

StepBegin(j) ==
  /\ rejoin = {} /\ ctl[j].state = "RUNNING" /\ ctl[j].step = "none"
  /\ ctl' = [ctl EXCEPT ![j].step = "RUNNING", ![j].sstart = now]
  /\ \E i \in Known(j) : SendStart(Call("step_start", j, i, "PENDING", 0, 0, now))
  /\ UNCHANGED <<now, rejoin, spoilt, resends, flushes>>

StepEnd(j) ==
  /\ rejoin = {} /\ ctl[j].state = "RUNNING" /\ ctl[j].step = "RUNNING"
  /\ ctl' = [ctl EXCEPT ![j].step = "COMPLETE", ![j].send = now]
  /\ \E i \in Known(j) : Deliver(Call("step_complete", j, i, "COMPLETE", 0, 0, now))
  /\ UNCHANGED <<now, rejoin, spoilt, bounds>>

SuspendJob(j) ==
  /\ rejoin = {} /\ ctl[j].state = "RUNNING" /\ Len(db[j].susp) < MaxSuspends
  /\ ctl' = [ctl EXCEPT ![j].state = "SUSPENDED", ![j].since = now]
  /\ \E i \in Known(j) : Deliver(Call("suspend", j, i, "SUSPENDED", 0, 0, now))
  /\ UNCHANGED <<now, rejoin, spoilt, bounds>>

ResumeJob(j) ==
  /\ rejoin = {} /\ ctl[j].state = "SUSPENDED"
  /\ LET gap == now - ctl[j].since IN
     ctl' = [ctl EXCEPT ![j].state = "RUNNING", ![j].off = @ \cup (ctl[j].since .. now - 1),
                        ![j].ssus = IF ctl[j].step = "RUNNING" THEN @ + gap ELSE @]
  /\ \E i \in Known(j) : Deliver(Call("suspend", j, i, "RUNNING", 0, 0, now))
  /\ UNCHANGED <<now, rejoin, spoilt, bounds>>

\* A restarted controller flushes the cluster's jobs and then announces those
\* it still knows, before anything else happens to them.
HotStart ==
  /\ rejoin = {} /\ flushes < MaxFlushes
  /\ flushes' = flushes + 1
  /\ Deliver([op |-> "flush", time |-> now])
  /\ spoilt' = spoilt \cup {j \in Jobs : db[j].row.end = 0}
  /\ rejoin' = {j \in Jobs : ctl[j].state \in Live}
  /\ UNCHANGED <<now, ctl, resends, purges>>

Rejoin(j) ==
  /\ j \in rejoin /\ rejoin' = rejoin \ {j}
  /\ \E i \in Known(j) :
       Deliver(Call("job_start", j, i, ctl[j].state, ctl[j].start, 0, now))
  /\ UNCHANGED <<now, ctl, spoilt, bounds>>

Next ==
  \/ Tick \/ Resend \/ HotStart
  \/ \E j \in Jobs :
       \/ Submit(j) \/ Run(j) \/ Cancel(j) \/ Finish(j)
       \/ StepBegin(j) \/ StepEnd(j) \/ SuspendJob(j) \/ ResumeJob(j) \/ Rejoin(j)

Spec == Init /\ [][Next]_vars

-----------------------------------------------------------------------------
(* Properties.                                                             *)

RowType == [start : 0..MaxTime + 1, end : 0..MaxTime, suspended : Int,
            state : Live \cup Done] \cup {NoRow}

\* Every row has the columns of its table, and a step or a suspension is
\* recorded only for a job that is.
TypeOK ==
  /\ now \in 1..MaxTime /\ rejoin \subseteq Jobs /\ spoilt \subseteq Jobs
  /\ \A j \in Jobs :
       /\ db[j].row \in RowType /\ db[j].step \in RowType
       /\ \A i \in DOMAIN db[j].susp : db[j].susp[i].start \in 1..now
       /\ db[j].row = NoRow => db[j].step = NoRow /\ db[j].susp = <<>>

\* A job that is over has a row with its own start, end and state, whatever was
\* purged, sent twice (a suspend too), flushed or announced again, and with or
\* without the db_index: a job that never ran has no start.  So has a step that
\* is over, unless its start was purged, with its own suspended time: what is
\* suspended after it ended does not touch it.
JobRecorded ==
  /\ \A j \in Jobs : ctl[j].state \in Done =>
       /\ db[j].row.start = ctl[j].start
       /\ db[j].row.end = ctl[j].end
       /\ db[j].row.state = ctl[j].state
  /\ \A j \in Jobs \ spoilt : (ctl[j].step = "COMPLETE" /\ db[j].step # NoRow) =>
       db[j].step = [start |-> ctl[j].sstart, end |-> ctl[j].send, state |-> "COMPLETE",
                     suspended |-> ctl[j].ssus]

\* suspended=time-suspended adds up to the time the job really was suspended
\* over any number of suspensions, and the suspend table has the same total.  It
\* is so of every job but those a flush closed and those a suspend of which was
\* delivered twice: the statement turns an instant into a duration and back, and
\* a second one for the same event leaves the column wrong for good.
SuspendedTime ==
  \A j \in Jobs \ spoilt : (ctl[j].state \in {"RUNNING", "COMPLETE"} /\ db[j].row # NoRow) =>
    LET susp == db[j].susp IN
    /\ db[j].row.suspended = Cardinality(ctl[j].off)
    /\ \A i \in DOMAIN susp : susp[i].end # 0
    /\ Total([i \in DOMAIN susp |-> susp[i].end - susp[i].start], Len(susp))
         = Cardinality(ctl[j].off)

\* sacct's window finds the jobs that were eligible before its end and not over
\* before its start, in both builds (setup_job_cond_limits).
WindowSelects ==
  \A j \in Jobs \ spoilt : db[j].row # NoRow =>
    \A new \in BOOLEAN, from \in 1..now, till \in {0} \cup 2..now :
      Selects(new, db[j].row, ctl[j].submit, [from |-> from, till |-> till, states |-> {}])
        <=> /\ till # 0 => ctl[j].submit < till
            /\ ctl[j].state \in Live \/ ctl[j].end >= from

\* The elapsed time sacct shows of a job is the number of seconds it ran and was
\* not suspended, as a whole and within any window it is cut to, over all that
\* happened to its rows (mysql_jobacct_process_get_jobs); the same of a whole
\* step.  A job that is suspended now, or whose start has not been recorded yet,
\* is left out, and so are the jobs SuspendedTime leaves out.
ElapsedIsRunTime ==
  \A j \in Jobs \ spoilt :
    LET d == db[j]
        ran == {s \in ctl[j].start .. now - 1 : (ctl[j].end = 0 \/ s < ctl[j].end)} \ ctl[j].off
        whole == [from |-> 0, till |-> 0, states |-> {}]
    IN /\ (ctl[j].start # 0 /\ ctl[j].state # "SUSPENDED" /\ d.row.start > 0) =>
            /\ JobRecord(d, whole, FALSE, now).elapsed = Cardinality(ran)
            /\ \A from \in 1..now - 1, till \in 2..now : from < till =>
                 LET w == [from |-> from, till |-> till, states |-> {}] IN
                 Selects(FALSE, d.row, ctl[j].submit, w) =>
                   JobRecord(d, w, TRUE, now).elapsed = Cardinality(ran \cap (from .. till - 1))
       /\ (ctl[j].step = "COMPLETE" /\ d.step # NoRow) =>
            \A new \in BOOLEAN :
              StepRecord(new, d, whole, FALSE, now).elapsed = ctl[j].send - ctl[j].sstart - ctl[j].ssus

\* A window of sacct finds the right jobs, and shows the right times of them.
WindowShows == WindowSelects /\ ElapsedIsRunTime
=============================================================================
