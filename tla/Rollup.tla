-------------------------------- MODULE Rollup --------------------------------
(***************************************************************************)
(* The hourly roll-up of acct_storage_p_roll_usage and what late job       *)
(* records do to it.  A roll thread turns the job rows of whole hours into *)
(* usage and moves last_ran_table forward; the thread that handles a       *)
(* cluster's job calls moves it back when a call is about a time that has  *)
(* been rolled already.  The two share global_last_rollup, under           *)
(* rollup_lock, and last_ran_table, under nothing.                         *)
(*                                                                         *)
(* Calls arrive in order and as late as one likes: the controller's agent  *)
(* keeps them while SlurmDBD is away.  Every job has an association of its *)
(* own, so that usage is kept per job.                                     *)
(***************************************************************************)
EXTENDS JobTables

CONSTANTS
  Jobs,
  MaxTime,   \* the clock runs from 1 to MaxTime
  HourSecs,  \* 3600
  MaxRolls,  \* calls of acct_storage_p_roll_usage
  Env        \* what else may happen, see EnvKinds

(***************************************************************************)
(* "overlap" : the roll thread and a job call run at the same time         *)
(* "fail"    : the query of an hour may fail                               *)
(* "noindex" : a job call may come without the db_index of an existing row *)
(* "purge"   : the start of a job may be purged from the agent's queue     *)
(* "restart" : SlurmDBD may be restarted                                   *)
(***************************************************************************)
EnvKinds == {"overlap", "fail", "noindex", "purge", "restart"}

ASSUME RollupAssumption ==
  MaxTime \in Nat \ {0} /\ HourSecs \in Nat \ {0, 1} /\ MaxRolls \in Nat /\ Env \subseteq EnvKinds

VARIABLES
  now,
  ctl,      \* what is true of each job: [state, submit, start, end]
  pending,  \* job calls the agent has yet to deliver
  db,       \* the rows of each job
  last_ran, \* hourly_rollup of last_ran_table
  global_last_rollup,
  usage,    \* alloc_cpu_secs by job and hour; -1 where there is no row
  hpc, hcall, hreset,
            \* the handler: where it is, its call, the value of a pending reset
  rpc, rstart, rend,
            \* the roll thread: where it is, the hours it has left
  rolls,
  mishaps   \* history: which of EnvKinds have happened

ctlVars  == <<now, ctl, pending>>
handler  == <<hpc, hcall, hreset>>
roller   == <<rpc, rstart, rend, rolls>>
vars     == <<ctlVars, db, last_ran, global_last_rollup, usage, handler, roller, mishaps>>

\* tm_min = tm_sec = 0
FloorHour(t) == (t \div HourSecs) * HourSecs
Hours == {FloorHour(t) : t \in 0..MaxTime}

NoCall == [op |-> "none"]
NewJob == [state |-> "none", submit |-> 0, start |-> 0, end |-> 0]

Init ==
  /\ now = 1
  /\ ctl = [j \in Jobs |-> NewJob] /\ pending = <<>>
  /\ db = [j \in Jobs |-> NoRows]
  /\ last_ran = 1 /\ global_last_rollup = 0
  /\ usage = [j \in Jobs |-> [h \in Hours |-> -1]]
  /\ hpc = "idle" /\ hcall = NoCall /\ hreset = 0
  /\ rpc = "idle" /\ rstart = 0 /\ rend = 0 /\ rolls = 0
  /\ mishaps = {}

Mishap(e) == e \in Env /\ mishaps' = mishaps \cup {e}

-----------------------------------------------------------------------------
(* The controller, external: a job is submitted, runs and ends.            *)

Tick ==
  /\ now < MaxTime /\ now' = now + 1
  /\ UNCHANGED <<ctl, pending, db, last_ran, global_last_rollup, usage, handler, roller, mishaps>>

Event(j, job, op) ==
  /\ ctl' = [ctl EXCEPT ![j] = job]
  /\ \/ pending' = Append(pending, [op |-> op, job |-> j, state |-> job.state,
                                    submit |-> job.submit, start |-> job.start, end |-> job.end])
        /\ UNCHANGED mishaps
     \/ op = "job_start" /\ Mishap("purge") /\ UNCHANGED pending
  /\ UNCHANGED <<now, db, last_ran, global_last_rollup, usage, handler, roller>>

Submit(j) ==
  ctl[j].state = "none" /\ Event(j, [NewJob EXCEPT !.state = "PENDING", !.submit = now], "job_start")

Run(j) ==
  ctl[j].state = "PENDING"
    /\ Event(j, [ctl[j] EXCEPT !.state = "RUNNING", !.start = now], "job_start")

Finish(j) ==
  ctl[j].state = "RUNNING"
    /\ Event(j, [ctl[j] EXCEPT !.state = "COMPLETE", !.end = now], "job_complete")

-----------------------------------------------------------------------------
(* The thread that handles the cluster's job calls.                        *)

\* job_start looks at the start, or for a pending job at the submission.
CheckTime(m) == IF m.start # 0 THEN m.start ELSE m.submit

\* The job is known with this very start.
Heard(m) == db[m.job].row.start = m.start

Receive ==
  /\ hpc = "idle" /\ pending # <<>> /\ ("overlap" \in Env \/ rpc = "idle")
  /\ pending' = Tail(pending)
  /\ LET m == Head(pending) IN
     /\ \E i \in BOOLEAN :
          /\ i => db[m.job].row # NoRow
          /\ (~i /\ db[m.job].row # NoRow) => "noindex" \in Env
          /\ mishaps' = mishaps \cup (IF rpc # "idle" THEN {"overlap"} ELSE {})
                               \cup (IF ~i /\ db[m.job].row # NoRow THEN {"noindex"} ELSE {})
          /\ hcall' = [op |-> m.op, job |-> m.job, idx |-> i, state |-> m.state,
                       submit |-> m.submit, start |-> m.start, end |-> m.end]
     /\ hpc' = m.op
  /\ UNCHANGED <<now, ctl, db, last_ran, global_last_rollup, usage, hreset, roller>>

\* Under rollup_lock: is this about a time that has been rolled?
Reset(t, reset, next) ==
  IF t < global_last_rollup
    THEN global_last_rollup' = t /\ hreset' = t /\ hpc' = reset
    ELSE hpc' = next /\ UNCHANGED <<global_last_rollup, hreset>>

CheckStart_Ignore ==
  /\ hpc = "job_start" /\ hpc' = "insert"
  /\ UNCHANGED <<ctlVars, db, last_ran, global_last_rollup, usage, hcall, hreset, roller, mishaps>>

\* jobacct_storage_p_job_start up to no_rollup_change.
CheckStart ==
  /\ hpc = "job_start"
  /\ IF Heard(hcall) THEN hpc' = "insert" /\ UNCHANGED <<global_last_rollup, hreset>>
                     ELSE Reset(CheckTime(hcall), "reset_insert", "insert")
  /\ UNCHANGED <<ctlVars, db, last_ran, usage, hcall, roller, mishaps>>

\* The same in jobacct_storage_p_job_complete, for the end of the job.
CheckEnd ==
  /\ hpc = "job_complete"
  /\ Reset(hcall.end, "reset_lookup", "lookup")
  /\ UNCHANGED <<ctlVars, db, last_ran, usage, hcall, roller, mishaps>>

\* update last_ran_table set hourly_rollup=..., with rollup_lock released.
ResetLastRan_Skip ==
  /\ hpc \in {"reset_insert", "reset_lookup"}
  /\ hpc' = IF hpc = "reset_insert" THEN "insert" ELSE "lookup"
  /\ UNCHANGED <<ctlVars, db, last_ran, global_last_rollup, usage, hcall, hreset, roller, mishaps>>

ResetLastRan ==
  /\ hpc \in {"reset_insert", "reset_lookup"}
  /\ last_ran' = hreset
  /\ hpc' = IF hpc = "reset_insert" THEN "insert" ELSE "lookup"
  /\ UNCHANGED <<ctlVars, db, global_last_rollup, usage, hcall, hreset, roller, mishaps>>

\* job_complete adds a job it has no row for: the whole of job_start, nested.
Lookup ==
  /\ hpc = "lookup"
  /\ hpc' = IF hcall.idx \/ db[hcall.job].row # NoRow THEN "update" ELSE "job_start"
  /\ UNCHANGED <<ctlVars, db, last_ran, global_last_rollup, usage, hcall, hreset, roller, mishaps>>

\* job_start's own statement, and for a nested job_start on to job_complete's.
InsertJob ==
  /\ hpc = "insert"
  /\ db' = [db EXCEPT ![hcall.job] = JobStart(@, hcall)]
  /\ hpc' = IF hcall.op = "job_start" THEN "idle" ELSE "update"
  /\ UNCHANGED <<ctlVars, last_ran, global_last_rollup, usage, hcall, hreset, roller, mishaps>>

UpdateJob ==
  /\ hpc = "update"
  /\ db' = [db EXCEPT ![hcall.job] = JobComplete(@, hcall)]
  /\ hpc' = "idle"
  /\ UNCHANGED <<ctlVars, last_ran, global_last_rollup, usage, hcall, hreset, roller, mishaps>>

-----------------------------------------------------------------------------
(* The roll thread, acct_storage_p_roll_usage(0, 0).                       *)

RollRead ==
  /\ rpc = "idle" /\ rolls < MaxRolls /\ ("overlap" \in Env \/ hpc = "idle")
  /\ rolls' = rolls + 1
  /\ mishaps' = mishaps \cup (IF hpc # "idle" THEN {"overlap"} ELSE {})
  /\ rstart' = FloorHour(last_ran) /\ rend' = FloorHour(now)
  /\ rpc' = "mark"
  /\ UNCHANGED <<ctlVars, db, last_ran, global_last_rollup, usage, handler>>

RollMark ==
  /\ rpc = "mark"
  /\ global_last_rollup' = rend
  /\ rpc' = IF rend > rstart THEN "hour" ELSE "idle"
  /\ UNCHANGED <<ctlVars, db, last_ran, usage, handler, rstart, rend, rolls, mishaps>>

\* What mysql_hourly_rollup takes of a job row for the hour that starts at h,
\* suspensions aside.
SecondsIn(row, h) ==
  LET till  == IF row.end = 0 \/ row.end > h + HourSecs THEN h + HourSecs ELSE row.end
      since == IF row.start # 0 /\ row.start < h THEN h
               ELSE IF row.start = 0 /\ row.end # 0 THEN row.end ELSE row.start
  IN  IF row = NoRow \/ since = 0 \/ till - since < 1 THEN 0 ELSE till - since

\* One turn of the loop of mysql_hourly_rollup: an upsert for every association
\* with time in this hour, and nothing for the others.
RollHour ==
  /\ rpc = "hour"
  /\ usage' = [j \in Jobs |->
                 LET s == SecondsIn(db[j].row, rstart) IN
                 IF s < 1 THEN usage[j] ELSE [usage[j] EXCEPT ![rstart] = s]]
  /\ rstart' = rstart + HourSecs
  /\ rpc' = IF rstart' < rend THEN "hour" ELSE "done"
  /\ UNCHANGED <<ctlVars, db, last_ran, global_last_rollup, handler, rend, rolls, mishaps>>

\* A failed query: return before last_ran_table is updated.
RollFail ==
  /\ Mishap("fail") /\ rpc = "hour" /\ rpc' = "idle"
  /\ UNCHANGED <<ctlVars, db, last_ran, global_last_rollup, usage, handler, rstart, rend, rolls>>

RollDone ==
  /\ rpc = "done" /\ rpc' = "idle"
  /\ last_ran' = rend
  /\ UNCHANGED <<ctlVars, db, global_last_rollup, usage, handler, rstart, rend, rolls, mishaps>>

\* SlurmDBD is stopped between two calls and started again: the static
\* global_last_rollup is 0 until the next roll.
Restart ==
  /\ Mishap("restart") /\ rpc = "idle" /\ hpc = "idle" /\ global_last_rollup # 0
  /\ global_last_rollup' = 0
  /\ UNCHANGED <<ctlVars, db, last_ran, usage, handler, roller>>

Handle == Receive \/ CheckStart \/ CheckEnd \/ ResetLastRan \/ Lookup \/ InsertJob \/ UpdateJob

Next ==
  \/ Tick \/ (\E j \in Jobs : Submit(j) \/ Run(j) \/ Finish(j))
  \/ Handle
  \/ RollRead \/ RollMark \/ RollHour \/ RollFail \/ RollDone
  \/ Restart

Spec == Init /\ [][Next]_vars

-----------------------------------------------------------------------------
(* Properties.                                                             *)

\* Times are times, and the roll thread works on whole hours of the past.
TypeOK ==
  /\ now \in 1..MaxTime /\ last_ran \in 0..now /\ global_last_rollup \in 0..now
  /\ rstart \in Hours /\ rend \in Hours /\ rend <= now
  /\ usage \in [Jobs -> [Hours -> -1..HourSecs]]
  /\ hpc \in {"idle", "job_start", "job_complete", "reset_insert", "reset_lookup", "insert",
              "lookup", "update"}
  /\ rpc \in {"idle", "mark", "hour", "done"}

\* The time the job really ran in the hour from h on.
RanIn(job, h) ==
  LET till  == IF job.end = 0 \/ job.end > h + HourSecs THEN h + HourSecs ELSE job.end
      since == IF job.start < h THEN h ELSE job.start
  IN  IF job.start = 0 \/ till < since THEN 0 ELSE till - since

\* If this job's latest time is before the last roll-up, the roll-up is reset to
\* look at it: once every call has been handled, an hour that will not be rolled
\* again has for every job at least the time it ran in it, however late the calls.
UsageComplete ==
  (pending = <<>> /\ hpc = "idle" /\ rpc = "idle") =>
    \A j \in Jobs, h \in Hours :
      h < FloorHour(last_ran) => usage[j][h] >= RanIn(ctl[j], h) \/ RanIn(ctl[j], h) = 0

\* The resets do that as long as calls and rolls take turns, no hour fails, no
\* start is purged, calls know their row and SlurmDBD is not restarted.
HoursCovered == mishaps = {} => UsageComplete

\* Between rolls and calls the two records of how far the roll-up has come agree
\* to the hour: what the handler takes for unrolled will be rolled, and a reset
\* never moves last_ran_table forward over hours still to be rolled.
MarkAgrees ==
  (rpc = "idle" /\ hpc = "idle" /\ "overlap" \notin mishaps) =>
    /\ "restart" \notin mishaps => FloorHour(last_ran) <= global_last_rollup
    /\ "fail" \notin mishaps => global_last_rollup <= last_ran
=============================================================================
