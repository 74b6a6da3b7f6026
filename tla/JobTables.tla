------------------------------ MODULE JobTables ------------------------------
(***************************************************************************)
(* What the job calls of the MySQL accounting plugin do to one job's rows  *)
(* of job_table, step_table and suspend_table                              *)
(* (src/src/plugins/accounting_storage/mysql/accounting_storage_mysql.c).  *)
(* A call is a record m that carries the fields of the dbd_*_msg_t the     *)
(* statement is built from; d is the job's rows before the call.  What     *)
(* job_start and job_complete do to last_ran_table first is in Rollup.     *)
(***************************************************************************)
EXTENDS Integers, FiniteSets, SeqOps

NoRow == [start |-> -1, end |-> -1, state |-> "none", suspended |-> -1]

Row(start, state) == [start |-> start, end |-> 0, state |-> state, suspended |-> 0]

NoRows == [row |-> NoRow, step |-> NoRow, susp |-> <<>>]

\* jobacct_storage_p_job_start.  With no db_index the insert is keyed by job,
\* association and submit time, and a duplicate only updates the state.
JobStart(d, m) ==
  IF m.idx THEN [d EXCEPT !.row.start = m.start, !.row.state = m.state]
  ELSE IF d.row = NoRow THEN [d EXCEPT !.row = Row(m.start, m.state)]
  ELSE [d EXCEPT !.row.state = m.state]

\* The other calls look a missing db_index up (_get_db_index) and, when there
\* is no row, add the job first.
WithRow(d, m) == IF m.idx \/ d.row # NoRow THEN d ELSE JobStart(d, m)

\* jobacct_storage_p_job_complete: a job that never ended is left alone, and
\* one that ends before its (planned) start never started.
JobComplete_PlannedStart(d, m) ==
  IF m.end = 0 THEN d
  ELSE [WithRow(d, m) EXCEPT !.row.start = m.start, !.row.end = m.end, !.row.state = m.state]

JobComplete(d, m) ==
  IF m.end = 0 THEN d
  ELSE [WithRow(d, m) EXCEPT !.row.start = IF m.start > m.end THEN 0 ELSE m.start,
                             !.row.end   = m.end,
                             !.row.state = m.state]

\* jobacct_storage_p_step_start: a duplicate opens the step again.
StepStart(d, m) ==
  LET k == WithRow(d, m) IN
  IF k.step = NoRow THEN [k EXCEPT !.step = Row(m.time, "RUNNING")]
  ELSE [k EXCEPT !.step.end = 0, !.step.state = "RUNNING"]

\* jobacct_storage_p_step_complete: an update, so a step whose start was never
\* recorded stays unrecorded.
StepComplete(d, m) ==
  LET k == WithRow(d, m) IN
  IF k.step = NoRow THEN k ELSE [k EXCEPT !.step.end = m.time, !.step.state = m.state]

\* update suspend_table set end=t where id=... && end=0
CloseSuspends(susp, t) ==
  [i \in DOMAIN susp |-> IF susp[i].end = 0 THEN [susp[i] EXCEPT !.end = t] ELSE susp[i]]

\* suspended=t-suspended: while suspended the column holds the time since which,
\* less what was suspended before.
Suspended(row, t) == [row EXCEPT !.suspended = t - @]

\* jobacct_storage_p_suspend, for a suspension and for a resumption; only steps
\* that have not ended take part.
Suspend_NoClose(d, m) ==
  LET k == WithRow(d, m) IN
  [row  |-> [Suspended(k.row, m.time) EXCEPT !.state = m.state],
   step |-> IF k.step = NoRow \/ k.step.end # 0 THEN k.step
            ELSE [Suspended(k.step, m.time) EXCEPT !.state = m.state],
   susp |-> IF m.state = "SUSPENDED" THEN Append(k.susp, [start |-> m.time, end |-> 0])
            ELSE k.susp]

Suspend(d, m) ==
  LET k == WithRow(d, m) IN
  [row  |-> [Suspended(k.row, m.time) EXCEPT !.state = m.state],
   step |-> IF k.step = NoRow \/ k.step.end # 0 THEN k.step
            ELSE [Suspended(k.step, m.time) EXCEPT !.state = m.state],
   susp |-> IF m.state = "SUSPENDED" THEN Append(k.susp, [start |-> m.time, end |-> 0])
            ELSE CloseSuspends(k.susp, m.time)]

\* acct_storage_p_flush_jobs_on_cluster, for one job: it and all its steps end
\* at time t if its row is open.
Flush(d, t) ==
  IF d.row = NoRow \/ d.row.end # 0 THEN d
  ELSE LET f == IF d.row.state # "SUSPENDED" THEN d
                ELSE [row  |-> Suspended(d.row, t),
                      step |-> IF d.step = NoRow THEN d.step ELSE Suspended(d.step, t),
                      susp |-> CloseSuspends(d.susp, t)]
       IN [f EXCEPT !.row.end = t, !.row.state = "CANCELLED",
                    !.step = IF @ = NoRow THEN @
                             ELSE [@ EXCEPT !.end = t, !.state = "CANCELLED"]]

-----------------------------------------------------------------------------
(* What sacct is told of a job: mysql_jobacct_process_get_jobs             *)
(* (src/src/plugins/accounting_storage/mysql/mysql_jobacct_process.c) over *)
(* the rows.  A window w has the times of --starttime and --endtime (0:    *)
(* not given) and the set of states of --state.  The build with NEWQUERY   *)
(* selects in another way (new).                                           *)

NotBelowZero(n) == IF n < 0 THEN 0 ELSE n

\* Mutant: a job that is not over is not found.
InWindow_Ended(new, row, eligible, w) ==
  /\ (w.from # 0) => row.end >= w.from
  /\ (w.till # 0) => (new => eligible # 0) /\ eligible < w.till

\* setup_job_cond_limits: the conditions on eligible and end.
InWindow(new, row, eligible, w) ==
  /\ (w.from # 0) => (row.end >= w.from \/ row.end = 0)
  /\ (w.till # 0) => (new => eligible # 0) /\ eligible < w.till

\* _state_time_string: a job of the state that ended in the window.
StateTime(row, state, w) ==
  /\ row.state = state
  /\ (w.from # 0 \/ w.till # 0) => row.end # 0
  /\ (w.from # 0) => row.end >= w.from
  /\ (w.till # 0) => row.end <= w.till

Selects(new, row, eligible, w) ==
  IF w.states = {} THEN InWindow(new, row, eligible, w)
  ELSE IF new THEN \E state \in w.states : StateTime(row, state, w)
  ELSE InWindow(new, row, eligible, w) /\ row.state \in w.states

\* A job that is over and has no start, or a planned one, starts when it ends.
ShownStart(row) ==
  IF row.end # 0 /\ (row.start = 0 \/ row.start > row.end) THEN row.end ELSE row.start

\* Mutant: a suspension is not cut to the start.
SuspendedBetween_Uncut(susp, w, start, end) ==
  LET Cut(s) == IF s.start < w.till /\ (s.end >= w.from \/ s.end = 0)
                THEN NotBelowZero((IF end < s.end THEN end ELSE s.end) - s.start) ELSE 0
  IN Total([i \in DOMAIN susp |-> Cut(susp[i])], Len(susp))

\* The seconds of the suspensions that fall between start and end; an open one
\* has end 0 and counts for nothing.
SuspendedBetween(susp, w, start, end) ==
  LET Cut(s) ==
        LET from == IF start > s.start THEN start ELSE s.start
            till == IF end < s.end THEN end ELSE s.end
        IN IF s.start < w.till /\ (s.end >= w.from \/ s.end = 0)
           THEN NotBelowZero(till - from) ELSE 0
  IN Total([i \in DOMAIN susp |-> Cut(susp[i])], Len(susp))

\* With --truncate: the job cut to the window.
TruncatedJob(d, w) ==
  LET shown == ShownStart(d.row)
      from == IF shown # 0 /\ shown < w.from THEN w.from ELSE shown
      end == IF d.row.end = 0 \/ d.row.end > w.till THEN w.till ELSE d.row.end
      start == IF from = 0 THEN end ELSE from
      suspended == SuspendedBetween(d.susp, w, start, end)
  IN [start |-> start, end |-> end, suspended |-> suspended,
      elapsed |-> NotBelowZero(end - start - suspended)]

\* Without: the whole job, up to now when it is not over.
WholeJob(d, now) ==
  LET start == ShownStart(d.row)
      length == CASE start = 0 -> 0
                  [] start # 0 /\ d.row.end = 0 -> now - start
                  [] OTHER -> d.row.end - start
  IN [start |-> start, end |-> d.row.end, suspended |-> d.row.suspended,
      elapsed |-> NotBelowZero(length - d.row.suspended)]

JobRecord(d, w, truncate, now) ==
  IF truncate /\ w.from # 0 THEN TruncatedJob(d, w) ELSE WholeJob(d, now)

\* A step: it ends with its job; its suspended time is taken off as a whole,
\* also from a step that is cut to the window.
StepRecord(new, d, w, truncate, now) ==
  LET job == JobRecord(d, w, truncate, now)
      ended == IF d.step.end = 0 /\ d.row.end # 0 THEN job.end ELSE d.step.end
      cut == truncate /\ w.from # 0
      start == CASE cut /\ d.step.start # 0 /\ d.step.start < w.from -> w.from
                 [] cut /\ d.step.start = 0 -> ended
                 [] OTHER -> d.step.start
      end == IF cut /\ (ended = 0 \/ ended > w.till) THEN w.till ELSE ended
      length == IF new /\ start = 0 THEN 0 ELSE (IF end = 0 THEN now ELSE end) - start
  IN [start |-> start, end |-> end,
      elapsed |-> NotBelowZero(length - d.step.suspended)]
=============================================================================
