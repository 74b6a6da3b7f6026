---------------------------- MODULE RollupProofs ----------------------------
(***************************************************************************)
(* The two marks of the roll-up agree, and the hours behind them are       *)
(* covered, for every length of the hour and every number of jobs, rolls   *)
(* and late calls.                                                         *)
(***************************************************************************)
EXTENDS Rollup, TLAPS

-----------------------------------------------------------------------------
(* The start of the hour a time lies in.                                   *)

LEMMA FloorBelow ==
  ASSUME NEW t \in Nat
  PROVE  FloorHour(t) \in Nat /\ FloorHour(t) <= t
<1>1. HourSecs \in Nat /\ HourSecs > 1
  BY RollupAssumption
<1> DEFINE q == t \div HourSecs
<1>2. q \in Nat /\ q * HourSecs <= t
  BY <1>1
<1>3. q * HourSecs \in Nat
  BY <1>1, <1>2
<1> QED BY <1>2, <1>3 DEF FloorHour

LEMMA FloorMonotone ==
  ASSUME NEW s \in Nat, NEW t \in Nat, s <= t
  PROVE  FloorHour(s) <= FloorHour(t)
<1>1. HourSecs \in Nat /\ HourSecs > 1
  BY RollupAssumption
<1> DEFINE p == s \div HourSecs
           q == t \div HourSecs
<1>2. /\ p \in Int /\ q \in Int
      /\ p * HourSecs <= s /\ t < (q + 1) * HourSecs
  BY <1>1
<1> HIDE DEF p, q
<1>3. p * HourSecs < (q + 1) * HourSecs
  BY <1>1, <1>2
<1>4. p < q + 1
  BY <1>1, <1>2, <1>3
<1>5. p <= q
  BY <1>2, <1>4
<1>6. p * HourSecs <= q * HourSecs
  BY <1>1, <1>2, <1>5
<1> QED BY <1>6 DEF FloorHour, p, q

-----------------------------------------------------------------------------
(* The times of jobs and calls are times.                                  *)

JobRec  == [state : {"none", "PENDING", "RUNNING", "COMPLETE"},
            submit : Nat, start : Nat, end : Nat]
CallRec == [op : {"job_start", "job_complete"}, job : Jobs,
            state : {"none", "PENDING", "RUNNING", "COMPLETE"},
            submit : Nat, start : Nat, end : Nat]

Resets == {"reset_insert", "reset_lookup"}

TimesOK ==
  /\ now \in Nat /\ last_ran \in 0..now /\ global_last_rollup \in 0..now
  /\ ctl \in [Jobs -> JobRec] /\ pending \in Seq(CallRec)
  /\ hpc # "idle" => hcall.submit \in Nat /\ hcall.start \in Nat /\ hcall.end \in Nat
  /\ hpc \in Resets => hreset \in 0..now
  /\ rpc # "idle" => rstart \in Nat /\ rend \in 0..now

\* What MarkAgrees says, wherever the threads are.
Agree ==
  /\ "restart" \notin mishaps => FloorHour(last_ran) <= global_last_rollup
  /\ "fail" \notin mishaps => global_last_rollup <= last_ran

\* As long as the two threads take turns, a pending reset is to the value
\* global_last_rollup already has, and a roll knows where it began.
MarkInv ==
  /\ TimesOK
  /\ "overlap" \notin mishaps =>
       /\ rpc = "idle" \/ hpc = "idle"
       /\ (rpc = "idle" /\ hpc \notin Resets) => Agree
       /\ hpc \in Resets => hreset = global_last_rollup
       /\ rpc = "mark" => rstart = FloorHour(last_ran) /\ rstart <= rend
       /\ rpc \in {"hour", "done"} =>
            global_last_rollup = rend /\ FloorHour(last_ran) <= rend

\* A step that moves neither thread nor mark.
LEMMA MarkFrame ==
  ASSUME MarkInv, TimesOK', mishaps \subseteq mishaps',
         UNCHANGED <<last_ran, global_last_rollup, hpc, hreset, rpc, rstart, rend>>
  PROVE  MarkInv'
BY DEF MarkInv, Agree

\* What the controller does moves neither.
LEMMA EventStep ==
  ASSUME MarkInv, NEW j \in Jobs, Submit(j) \/ Run(j) \/ Finish(j)
  PROVE  MarkInv'
<1>0. now \in Nat /\ ctl \in [Jobs -> JobRec] /\ pending \in Seq(CallRec) /\ ctl[j] \in JobRec
  BY DEF MarkInv, TimesOK
<1> DEFINE e1 == [NewJob EXCEPT !.state = "PENDING", !.submit = now]
           e2 == [ctl[j] EXCEPT !.state = "RUNNING", !.start = now]
           e3 == [ctl[j] EXCEPT !.state = "COMPLETE", !.end = now]
<1>1. e1 \in JobRec /\ e2 \in JobRec /\ e3 \in JobRec
  BY <1>0 DEF JobRec, NewJob
<1>2. PICK e \in JobRec, op \in {"job_start", "job_complete"} : Event(j, e, op)
  <2> HIDE DEF e1, e2, e3
  <2>1. Event(j, e1, "job_start") \/ Event(j, e2, "job_start") \/ Event(j, e3, "job_complete")
    BY DEF Submit, Run, Finish, e1, e2, e3
  <2> QED BY <1>1, <2>1
<1> DEFINE m == [op |-> op, job |-> j, state |-> e.state, submit |-> e.submit,
                 start |-> e.start, end |-> e.end]
<1>3. m \in CallRec
  BY DEF JobRec, CallRec
<1>4. ctl' \in [Jobs -> JobRec]
  BY <1>0, <1>2 DEF Event
<1>5. pending' = Append(pending, m) \/ pending' = pending
  BY <1>2 DEF Event
<1>6. pending' \in Seq(CallRec)
  <2> HIDE DEF m
  <2> QED BY <1>0, <1>3, <1>5
<1>7. /\ mishaps \subseteq mishaps'
      /\ UNCHANGED <<now, last_ran, global_last_rollup, handler, roller>>
  BY <1>2 DEF Event, Mishap
<1>8. TimesOK'
  BY <1>4, <1>6, <1>7 DEF MarkInv, TimesOK, handler, roller
<1> QED BY <1>7, <1>8, MarkFrame DEF handler, roller

\* Without overlap a call moves the marks only while no roll is under way.
LEMMA HandlerStep ==
  ASSUME MarkInv, Handle
  PROVE  MarkInv'
<1>0. TimesOK
  BY DEF MarkInv
<1>1. CASE Receive
  <2> DEFINE m == Head(pending)
  <2>1. pending # <<>> /\ pending \in Seq(CallRec)
    BY <1>0, <1>1 DEF Receive, TimesOK
  <2>2. m \in CallRec /\ Tail(pending) \in Seq(CallRec)
    BY <2>1
  <2>3. /\ hpc = "idle" /\ hpc' = m.op /\ pending' = Tail(pending)
        /\ hcall'.submit = m.submit /\ hcall'.start = m.start /\ hcall'.end = m.end
        /\ UNCHANGED <<now, ctl, last_ran, global_last_rollup, hreset, rpc, rstart, rend>>
    BY <1>1 DEF Receive, roller
  <2>4. mishaps \subseteq mishaps' /\ ("overlap" \notin mishaps' => rpc = "idle")
    BY <1>1 DEF Receive
  <2>5. /\ m.op \in {"job_start", "job_complete"}
        /\ m.submit \in Nat /\ m.start \in Nat /\ m.end \in Nat
    BY <2>2 DEF CallRec
  <2> HIDE DEF m
  <2>6. TimesOK'
    BY <1>0, <2>2, <2>3, <2>5 DEF TimesOK, Resets
  <2> QED BY <2>3, <2>4, <2>5, <2>6 DEF MarkInv, Agree, Resets
<1>2. CASE CheckStart \/ CheckEnd
  <2>1. /\ hpc \in {"job_start", "job_complete"}
        /\ UNCHANGED <<now, ctl, pending, last_ran, hcall, rpc, rstart, rend, mishaps>>
    BY <1>2 DEF CheckStart, CheckEnd, ctlVars, roller
  <2>2. \/ hpc' \in {"insert", "lookup"} /\ UNCHANGED <<global_last_rollup, hreset>>
        \/ \E t \in Nat : /\ t < global_last_rollup
                          /\ global_last_rollup' = t /\ hreset' = t /\ hpc' \in Resets
    <3>1. hcall.end \in Nat /\ CheckTime(hcall) \in Nat
      BY <1>0, <2>1 DEF TimesOK, CheckTime
    <3> QED BY <1>2, <3>1 DEF CheckStart, CheckEnd, Reset, Resets
  <2>3. TimesOK'
    BY <1>0, <2>1, <2>2 DEF TimesOK, Resets
  <2> QED BY <2>1, <2>2, <2>3 DEF MarkInv, Agree, Resets
<1>3. CASE ResetLastRan
  <2>1. /\ hpc \in Resets /\ last_ran' = hreset /\ hpc' \in {"insert", "lookup"}
        /\ UNCHANGED <<now, ctl, pending, global_last_rollup, hcall, hreset, rpc, rstart, rend,
                       mishaps>>
    BY <1>3 DEF ResetLastRan, ctlVars, roller, Resets
  <2>2. TimesOK'
    BY <1>0, <2>1 DEF TimesOK, Resets
  <2>3. hreset \in Nat /\ FloorHour(hreset) <= hreset
    BY <1>0, <2>1, FloorBelow DEF TimesOK
  <2> QED BY <2>1, <2>2, <2>3 DEF MarkInv, Agree, Resets
<1>4. CASE Lookup \/ InsertJob \/ UpdateJob
  <2>1. /\ hpc \notin Resets /\ hpc # "idle" /\ hpc' \notin Resets
        /\ UNCHANGED <<now, ctl, pending, last_ran, global_last_rollup, hcall, hreset, rpc, rstart,
                       rend, mishaps>>
    BY <1>4 DEF Lookup, InsertJob, UpdateJob, ctlVars, roller, Resets
  <2>2. TimesOK'
    BY <1>0, <2>1 DEF TimesOK
  <2> QED BY <2>1, <2>2 DEF MarkInv, Agree
<1> QED BY <1>1, <1>2, <1>3, <1>4 DEF Handle

\* A roll starts from marks that agree; one that fails is behind its mark.
LEMMA RollStep ==
  ASSUME MarkInv, RollRead \/ RollMark \/ RollHour \/ RollFail \/ RollDone
  PROVE  MarkInv'
<1>0. TimesOK
  BY DEF MarkInv
<1>1. last_ran \in Nat /\ now \in Nat /\ last_ran <= now
  BY <1>0 DEF TimesOK
<1>2. FloorHour(last_ran) \in Nat /\ FloorHour(last_ran) <= last_ran
  BY <1>1, FloorBelow
<1>3. CASE RollRead
  <2>1. /\ rpc = "idle" /\ rpc' = "mark"
        /\ rstart' = FloorHour(last_ran) /\ rend' = FloorHour(now)
        /\ mishaps \subseteq mishaps' /\ ("overlap" \notin mishaps' => hpc = "idle")
        /\ UNCHANGED <<now, ctl, pending, last_ran, global_last_rollup, hpc, hcall, hreset>>
    BY <1>3 DEF RollRead, ctlVars, handler
  <2>2. FloorHour(now) \in 0..now /\ FloorHour(last_ran) <= FloorHour(now)
    BY <1>1, FloorBelow, FloorMonotone
  <2>3. TimesOK'
    BY <1>0, <1>2, <2>1, <2>2 DEF TimesOK
  <2> QED BY <2>1, <2>2, <2>3 DEF MarkInv, Agree, Resets
<1>4. CASE RollMark
  <2>1. /\ rpc = "mark" /\ global_last_rollup' = rend
        /\ rpc' = IF rend > rstart THEN "hour" ELSE "idle"
        /\ UNCHANGED <<now, ctl, pending, last_ran, hpc, hcall, hreset, rstart, rend, mishaps>>
    BY <1>4 DEF RollMark, ctlVars, handler
  <2>2. rstart \in Nat /\ rend \in 0..now
    BY <1>0, <2>1 DEF TimesOK
  <2>3. TimesOK'
    BY <1>0, <2>1, <2>2 DEF TimesOK
  <2> QED BY <1>1, <1>2, <2>1, <2>2, <2>3 DEF MarkInv, Agree, Resets
<1>5. CASE RollHour
  <2>1. /\ rpc = "hour" /\ rpc' \in {"hour", "done"} /\ rstart' = rstart + HourSecs
        /\ UNCHANGED <<now, ctl, pending, last_ran, global_last_rollup, hpc, hcall, hreset, rend,
                       mishaps>>
    BY <1>5 DEF RollHour, ctlVars, handler
  <2>2. rstart' \in Nat
    BY <1>0, <2>1, RollupAssumption DEF TimesOK
  <2>3. TimesOK'
    BY <1>0, <2>1, <2>2 DEF TimesOK
  <2> QED BY <2>1, <2>3 DEF MarkInv, Agree, Resets
<1>6. CASE RollFail
  <2>1. /\ rpc = "hour" /\ rpc' = "idle" /\ mishaps' = mishaps \cup {"fail"}
        /\ UNCHANGED <<now, ctl, pending, last_ran, global_last_rollup, hpc, hcall, hreset, rstart,
                       rend>>
    BY <1>6 DEF RollFail, Mishap, ctlVars, handler
  <2>2. TimesOK'
    BY <1>0, <2>1 DEF TimesOK
  <2> QED BY <2>1, <2>2 DEF MarkInv, Agree, Resets
<1>7. CASE RollDone
  <2>1. /\ rpc = "done" /\ rpc' = "idle" /\ last_ran' = rend
        /\ UNCHANGED <<now, ctl, pending, global_last_rollup, hpc, hcall, hreset, rstart, rend,
                       mishaps>>
    BY <1>7 DEF RollDone, ctlVars, handler
  <2>2. rend \in 0..now
    BY <1>0, <2>1 DEF TimesOK
  <2>3. FloorHour(rend) <= rend
    BY <1>1, <2>2, FloorBelow
  <2>4. TimesOK'
    BY <1>0, <2>1, <2>2 DEF TimesOK
  <2> QED BY <2>1, <2>2, <2>3, <2>4 DEF MarkInv, Agree, Resets
<1> QED BY <1>3, <1>4, <1>5, <1>6, <1>7

LEMMA MarkInvInductive ==
  MarkInv /\ [Next]_vars => MarkInv'
<1> SUFFICES ASSUME MarkInv, [Next]_vars PROVE MarkInv'
  OBVIOUS
<1>0. TimesOK
  BY DEF MarkInv
<1>1. CASE Tick
  <2>1. /\ now' = now + 1
        /\ UNCHANGED <<ctl, pending, last_ran, global_last_rollup, hpc, hcall, hreset, rpc, rstart,
                       rend, mishaps>>
    BY <1>1 DEF Tick, handler, roller
  <2>2. TimesOK'
    BY <1>0, <2>1 DEF TimesOK
  <2> QED BY <2>1, <2>2, MarkFrame
<1>2. CASE \E j \in Jobs : Submit(j) \/ Run(j) \/ Finish(j)
  BY <1>2, EventStep
<1>3. CASE Handle
  BY <1>3, HandlerStep
<1>4. CASE RollRead \/ RollMark \/ RollHour \/ RollFail \/ RollDone
  BY <1>4, RollStep
<1>5. CASE Restart
  <2>1. /\ rpc = "idle" /\ hpc = "idle" /\ global_last_rollup' = 0
        /\ mishaps' = mishaps \cup {"restart"}
        /\ UNCHANGED <<now, ctl, pending, last_ran, hpc, hcall, hreset, rpc, rstart, rend>>
    BY <1>5 DEF Restart, Mishap, ctlVars, handler, roller
  <2>2. TimesOK'
    BY <1>0, <2>1 DEF TimesOK
  <2> QED BY <1>0, <2>1, <2>2 DEF MarkInv, Agree, Resets, TimesOK
<1>6. CASE UNCHANGED vars
  <2>1. UNCHANGED <<now, ctl, pending, last_ran, global_last_rollup, hpc, hcall, hreset, rpc,
                    rstart, rend, mishaps>>
    BY <1>6 DEF vars, ctlVars, handler, roller
  <2>2. TimesOK'
    BY <1>0, <2>1 DEF TimesOK
  <2> QED BY <2>1, <2>2, MarkFrame
<1> QED BY <1>1, <1>2, <1>3, <1>4, <1>5, <1>6 DEF Next

LEMMA MarkInvInit ==
  Init => MarkInv
<1> SUFFICES ASSUME Init PROVE MarkInv
  OBVIOUS
<1>1. HourSecs \in Nat /\ HourSecs > 1
  BY RollupAssumption
<1>2. 1 \div HourSecs = 0
  BY <1>1
<1>3. FloorHour(1) = 0
  BY <1>1, <1>2 DEF FloorHour
<1>4. NewJob \in JobRec
  BY DEF NewJob, JobRec
<1>5. ctl \in [Jobs -> JobRec] /\ pending \in Seq(CallRec)
  BY <1>4 DEF Init
<1>6. TimesOK
  BY <1>5 DEF Init, TimesOK, Resets
<1> QED BY <1>3, <1>6 DEF Init, MarkInv, Agree, Resets

\* Between rolls and calls global_last_rollup and last_ran_table agree to the
\* hour, for every length of the hour, number of jobs and order of late calls: a
\* reset in job_start or job_complete never skips hours that were not rolled,
\* unless a roll has failed.
THEOREM MarkAgreesAlways ==
  Spec => []MarkAgrees
<1>1. MarkInv => MarkAgrees
  BY DEF MarkInv, MarkAgrees, Agree, Resets
<1> QED BY <1>1, MarkInvInit, MarkInvInductive, PTL DEF Spec

-----------------------------------------------------------------------------
(* Every hour that will not be rolled again is covered, as long as calls   *)
(* and rolls take turns and nothing is lost.  What a call or a row says of *)
(* a job is determined by how far the job had come, its stage.             *)

States == {"none", "PENDING", "RUNNING", "COMPLETE"}

RowRec  == [start : Int, end : Int, state : States, suspended : Int]
RowsRec == [row : RowRec, step : {NoRow}, susp : {<<>>}]
HandRec == [op : {"job_start", "job_complete"}, job : Jobs, idx : BOOLEAN, state : States,
            submit : Nat, start : Nat, end : Nat]

Stage(x) == IF x.state = "none" THEN 0
            ELSE IF x.state = "PENDING" THEN 1 ELSE IF x.state = "RUNNING" THEN 2 ELSE 3

\* A call or a row x says of the job what was true of it at stage Stage(x).
Told(x, job) ==
  /\ Stage(x) <= Stage(job)
  /\ x.start = IF Stage(x) >= 2 THEN job.start ELSE 0
  /\ x.end = IF Stage(x) = 3 THEN job.end ELSE 0

OpOf(x) == IF Stage(x) = 3 THEN "job_complete" ELSE "job_start"

RowsOK ==
  /\ now \in 1..MaxTime
  /\ db \in [Jobs -> RowsRec] /\ usage \in [Jobs -> [Hours -> Int]]
  /\ hpc # "idle" => hcall \in HandRec

LifeOK(job) ==
  /\ IF Stage(job) >= 2 THEN job.start \in 1..now ELSE job.start = 0
  /\ IF Stage(job) = 3 THEN job.end \in job.start..now ELSE job.end = 0

LifeInv == \A j \in Jobs : LifeOK(ctl[j])

RowOf(j) == db[j].row
RowInv   == \A j \in Jobs : RowOf(j) = NoRow \/ (Stage(RowOf(j)) > 0 /\ Told(RowOf(j), ctl[j]))

\* The stage the plugin has heard of.
Known(j) == IF hpc # "idle" /\ hcall.job = j THEN Stage(hcall) ELSE Stage(RowOf(j))

\* The calls under way: each says what is true, they come in the order of the
\* stages, and none between the plugin's and the job's is missing.
CallOK(m) == m.op = OpOf(m) /\ Told(m, ctl[m.job]) /\ Known(m.job) < Stage(m)

CallInv ==
  /\ \A i \in DOMAIN pending : CallOK(pending[i])
  /\ \A i, k \in DOMAIN pending :
       i < k /\ pending[i].job = pending[k].job => Stage(pending[i]) < Stage(pending[k])
  /\ \A j \in Jobs : \A n \in Known(j) + 1 .. Stage(ctl[j]) :
       \E i \in DOMAIN pending : pending[i].job = j /\ Stage(pending[i]) = n

\* The call being handled takes its row one stage further.
HandInv ==
  hpc # "idle" =>
    /\ hcall.op = OpOf(hcall) /\ Told(hcall, ctl[hcall.job])
    /\ Stage(hcall) = Stage(RowOf(hcall.job)) + 1
    /\ hcall.idx = (RowOf(hcall.job) # NoRow)
    /\ hpc \in IF hcall.op = "job_start" THEN {"job_start", "reset_insert", "insert"}
               ELSE {"job_complete", "reset_lookup", "lookup", "update"}

\* The usage of the hours before mark, as far as the rows know.
Paid(j, h) == usage[j][h] >= RanIn(RowOf(j), h) \/ RanIn(RowOf(j), h) = 0

Covered(mark) == \A j \in Jobs, h \in Hours : h < mark => Paid(j, h)

\* A start that is about to be recorded is not before the hours to be rolled,
\* and a roll has covered what is behind it.
CoverInv ==
  /\ hpc # "idle" => rpc = "idle"
  /\ hpc \in Resets => hreset <= last_ran
  /\ hpc = "reset_insert" => hcall.start \in {0, hreset}
  /\ hpc = "insert" => hcall.start = 0 \/ FloorHour(last_ran) <= hcall.start
  /\ rpc \in {"idle", "mark"} => Covered(FloorHour(last_ran))
  /\ rpc \in {"hour", "done"} => Covered(rstart) /\ FloorHour(rstart) = rstart
  /\ rpc = "hour" => rstart < rend
  /\ rpc = "done" => rend <= rstart
  /\ rpc # "idle" => FloorHour(rend) = rend

LateInv == RowsOK /\ LifeInv /\ RowInv /\ CallInv /\ HandInv /\ CoverInv

LEMMA Stages ==
  /\ \A x : Stage(x) \in 0..3
  /\ Stage(NoRow) = 0 /\ Stage(NewJob) = 0
BY DEF Stage, NoRow, NewJob

\* What was true of a job at a stage stays true of that stage.
LEMMA ToldStays ==
  ASSUME NEW x, NEW old \in JobRec, NEW new \in JobRec, Told(x, old),
         Stage(new) = Stage(old) + 1,
         Stage(old) >= 2 => new.start = old.start
  PROVE  Told(x, new)
<1>1. Stage(x) \in 0..3 /\ Stage(old) \in 0..3 /\ Stage(new) \in 0..3
  BY Stages
<1> QED BY <1>1 DEF Told

\* What the controller knows of a job it tells.
LEMMA EventFacts ==
  ASSUME TimesOK, RowsOK, LifeInv, NEW j \in Jobs, Submit(j) \/ Run(j) \/ Finish(j), mishaps' = {}
  PROVE  \E e \in JobRec, m \in CallRec :
           /\ m.job = j /\ m.op = OpOf(m) /\ Stage(m) = Stage(e) /\ Told(m, e)
           /\ Stage(e) = Stage(ctl[j]) + 1 /\ LifeOK(e)
           /\ (Stage(ctl[j]) >= 2 => e.start = ctl[j].start)
           /\ ctl' = [ctl EXCEPT ![j] = e] /\ pending' = Append(pending, m)
<1>0. ctl[j] \in JobRec /\ LifeOK(ctl[j]) /\ now \in Nat /\ now >= 1
  BY DEF TimesOK, RowsOK, LifeInv
<1> DEFINE e1 == [NewJob EXCEPT !.state = "PENDING", !.submit = now]
           e2 == [ctl[j] EXCEPT !.state = "RUNNING", !.start = now]
           e3 == [ctl[j] EXCEPT !.state = "COMPLETE", !.end = now]
           m(op, e) == [op |-> op, job |-> j, state |-> e.state,
                        submit |-> e.submit, start |-> e.start, end |-> e.end]
           Good(op, e) ==
             /\ op \in {"job_start", "job_complete"} /\ e \in JobRec
             /\ op = OpOf(e) /\ Stage(e) = Stage(ctl[j]) + 1 /\ LifeOK(e)
             /\ (Stage(ctl[j]) >= 2 => e.start = ctl[j].start)
             /\ Event(j, e, op)
<1> SUFFICES \E op, e : Good(op, e)
  <2> SUFFICES ASSUME NEW op, NEW e, Good(op, e)
               PROVE  \E x \in JobRec, y \in CallRec :
                        /\ y.job = j /\ y.op = OpOf(y) /\ Stage(y) = Stage(x) /\ Told(y, x)
                        /\ Stage(x) = Stage(ctl[j]) + 1 /\ LifeOK(x)
                        /\ (Stage(ctl[j]) >= 2 => x.start = ctl[j].start)
                        /\ ctl' = [ctl EXCEPT ![j] = x] /\ pending' = Append(pending, y)
    OBVIOUS
  <2>1. /\ m(op, e).op = op /\ m(op, e).job = j /\ m(op, e).state = e.state
        /\ m(op, e).start = e.start /\ m(op, e).end = e.end /\ m(op, e) \in CallRec
    BY DEF JobRec, CallRec
  <2>2. ctl' = [ctl EXCEPT ![j] = e] /\ pending' = Append(pending, m(op, e))
    BY DEF Event, Mishap
  <2> HIDE DEF m
  <2>3. Stage(m(op, e)) = Stage(e) /\ OpOf(m(op, e)) = op
    BY <2>1 DEF Stage, OpOf
  <2>4. Told(m(op, e), e)
    BY <2>1, <2>3, Stages DEF Told, LifeOK
  <2> QED BY <2>1, <2>2, <2>3, <2>4
<1> HIDE DEF m
<1>1. CASE Submit(j)
  <2>1. /\ ctl[j].state = "none"
        /\ e1 \in JobRec /\ e1.state = "PENDING" /\ e1.start = 0 /\ e1.end = 0
    BY <1>0, <1>1 DEF Submit, NewJob, JobRec
  <2>2. Event(j, e1, "job_start")
    BY <1>1 DEF Submit
  <2> HIDE DEF e1
  <2>3. Stage(e1) = 1 /\ Stage(ctl[j]) = 0
    BY <2>1 DEF Stage
  <2>4. LifeOK(e1) /\ OpOf(e1) = "job_start"
    BY <2>1, <2>3 DEF LifeOK, OpOf
  <2> QED BY <2>1, <2>2, <2>3, <2>4
<1>2. CASE Run(j)
  <2>1. /\ ctl[j].state = "PENDING"
        /\ e2 \in JobRec /\ e2.state = "RUNNING" /\ e2.start = now /\ e2.end = ctl[j].end
    BY <1>0, <1>2 DEF Run, JobRec
  <2>2. Event(j, e2, "job_start")
    BY <1>2 DEF Run
  <2> HIDE DEF e2
  <2>3. Stage(e2) = 2 /\ Stage(ctl[j]) = 1
    BY <2>1 DEF Stage
  <2>4. LifeOK(e2) /\ OpOf(e2) = "job_start"
    BY <1>0, <2>1, <2>3 DEF LifeOK, OpOf
  <2> QED BY <2>1, <2>2, <2>3, <2>4
<1>3. CASE Finish(j)
  <2>1. /\ ctl[j].state = "RUNNING"
        /\ e3 \in JobRec /\ e3.state = "COMPLETE" /\ e3.start = ctl[j].start /\ e3.end = now
    BY <1>0, <1>3 DEF Finish, JobRec
  <2>2. Event(j, e3, "job_complete")
    BY <1>3 DEF Finish
  <2> HIDE DEF e3
  <2>3. Stage(e3) = 3 /\ Stage(ctl[j]) = 2
    BY <2>1 DEF Stage
  <2>4. LifeOK(e3) /\ OpOf(e3) = "job_complete"
    BY <1>0, <2>1, <2>3 DEF LifeOK, OpOf
  <2> QED BY <2>1, <2>2, <2>3, <2>4
<1> QED BY <1>1, <1>2, <1>3

Calls == RowsOK /\ LifeInv /\ RowInv /\ CallInv /\ HandInv

\* The plugin never knows more of a job than there is to know.
LEMMA KnownBounded ==
  ASSUME Calls, NEW j \in Jobs
  PROVE  Known(j) \in 0..Stage(ctl[j])
<1>1. Stage(RowOf(j)) \in 0..Stage(ctl[j])
  <2>1. CASE RowOf(j) = NoRow
    BY <2>1, Stages
  <2>2. CASE RowOf(j) # NoRow
    BY <2>2, Stages DEF Calls, RowInv, Told
  <2> QED BY <2>1, <2>2
<1>2. hpc # "idle" /\ hcall.job = j => Stage(hcall) \in 0..Stage(ctl[j])
  BY Stages DEF Calls, HandInv, Told
<1> QED BY <1>1, <1>2 DEF Known

\* A new call comes last and is about the next stage of its job.
LEMMA EventCalls ==
  ASSUME TimesOK, Calls, NEW j \in Jobs, Submit(j) \/ Run(j) \/ Finish(j), mishaps' = {}
  PROVE  Calls'
<1>1. PICK e \in JobRec, m \in CallRec :
           /\ m.job = j /\ m.op = OpOf(m) /\ Stage(m) = Stage(e) /\ Told(m, e)
           /\ Stage(e) = Stage(ctl[j]) + 1 /\ LifeOK(e)
           /\ (Stage(ctl[j]) >= 2 => e.start = ctl[j].start)
           /\ ctl' = [ctl EXCEPT ![j] = e] /\ pending' = Append(pending, m)
  BY EventFacts DEF Calls
<1>2. ctl \in [Jobs -> JobRec] /\ pending \in Seq(CallRec)
  BY DEF TimesOK
<1>3. UNCHANGED <<now, db, usage, hpc, hcall>>
  BY DEF Submit, Run, Finish, Event, handler
<1>4. \A i \in Jobs : ctl'[i] = IF i = j THEN e ELSE ctl[i]
  BY <1>1, <1>2
<1>5. /\ Len(pending') = Len(pending) + 1
      /\ \A i \in 1..Len(pending) : pending'[i] = pending[i] /\ pending[i] \in CallRec
      /\ pending'[Len(pending) + 1] = m
      /\ DOMAIN pending = 1..Len(pending) /\ DOMAIN pending' = 1..Len(pending) + 1
      /\ Len(pending) \in Nat
  BY <1>1, <1>2
<1>6. \A x : \A i \in Jobs : Told(x, ctl[i]) => Told(x, ctl'[i])
  <2> SUFFICES ASSUME NEW x, NEW i \in Jobs, Told(x, ctl[i]) PROVE Told(x, ctl'[i])
    OBVIOUS
  <2>1. CASE i = j
    BY <1>1, <1>2, <1>4, <2>1, ToldStays
  <2>2. CASE i # j
    BY <1>4, <2>2
  <2> QED BY <2>1, <2>2
<1>7. \A i \in Jobs : Known(i)' = Known(i)
  BY <1>3 DEF Known, RowOf
<1>8. RowsOK'
  BY <1>3 DEF Calls, RowsOK
<1>9. LifeInv'
  BY <1>1, <1>3, <1>4 DEF Calls, LifeInv, LifeOK
<1>10. RowInv'
  BY <1>3, <1>6 DEF Calls, RowInv, RowOf
<1>11. HandInv'
  <2>1. hpc # "idle" => hcall.job \in Jobs
    BY DEF Calls, RowsOK, HandRec
  <2> QED BY <1>3, <1>6, <2>1 DEF Calls, HandInv, RowOf
<1>12. \A i \in Jobs : Known(i) \in 0..Stage(ctl[i])
  BY KnownBounded
<1>13. CallInv'
  <2>1. \A i \in 1..Len(pending) : pending[i].job \in Jobs /\ CallOK(pending[i])
    BY <1>5 DEF Calls, CallInv, CallRec
  <2>2. \A i \in DOMAIN pending' : CallOK(pending[i])'
    <3> TAKE i \in DOMAIN pending'
    <3>1. CASE i \in 1..Len(pending)
      <4>1. /\ pending'[i] = pending[i] /\ pending[i].job \in Jobs
            /\ CallOK(pending[i])
        BY <1>5, <2>1, <3>1
      <4> QED BY <1>6, <1>7, <4>1 DEF CallOK
    <3>2. CASE i = Len(pending) + 1
      <4>1. pending'[i] = m /\ ctl'[j] = e
        BY <1>4, <1>5, <3>2
      <4>2. Known(j)' < Stage(m)
        BY <1>1, <1>7, <1>12, Stages
      <4> QED BY <1>1, <4>1, <4>2 DEF CallOK
    <3> QED BY <1>5, <3>1, <3>2
  <2>3. \A i \in 1..Len(pending) : pending[i].job = j => Stage(pending[i]) < Stage(m)
    BY <1>1, <2>1, Stages DEF CallOK, Told
  <2>4. \A i, k \in DOMAIN pending' :
          i < k /\ pending'[i].job = pending'[k].job => Stage(pending'[i]) < Stage(pending'[k])
    <3> SUFFICES ASSUME NEW i \in DOMAIN pending', NEW k \in DOMAIN pending',
                        i < k, pending'[i].job = pending'[k].job
                 PROVE  Stage(pending'[i]) < Stage(pending'[k])
      OBVIOUS
    <3>1. i \in 1..Len(pending) /\ pending'[i] = pending[i]
      BY <1>5
    <3>2. CASE k \in 1..Len(pending)
      BY <1>5, <3>1, <3>2 DEF Calls, CallInv
    <3>3. CASE k = Len(pending) + 1
      BY <1>1, <1>5, <2>3, <3>1, <3>3
    <3> QED BY <1>5, <3>2, <3>3
  <2>5. \A i \in Jobs : \A n \in Known(i)' + 1 .. Stage(ctl'[i]) :
          \E k \in DOMAIN pending' : pending'[k].job = i /\ Stage(pending'[k]) = n
    <3> TAKE i \in Jobs
    <3> TAKE n \in Known(i)' + 1 .. Stage(ctl'[i])
    <3>1. n \in Known(i) + 1 .. Stage(ctl'[i])
      BY <1>7
    <3>2. CASE i = j /\ n = Stage(m)
      BY <1>1, <1>5, <3>2
    <3>3. CASE ~(i = j /\ n = Stage(m))
      <4>1. n \in Known(i) + 1 .. Stage(ctl[i])
        <5>1. CASE i = j
          BY <1>1, <1>4, <1>12, <3>1, <3>3, <5>1, Stages
        <5>2. CASE i # j
          BY <1>4, <3>1, <5>2
        <5> QED BY <5>1, <5>2
      <4>2. PICK k \in DOMAIN pending : pending[k].job = i /\ Stage(pending[k]) = n
        BY <4>1 DEF Calls, CallInv
      <4> QED BY <1>5, <4>2
    <3> QED BY <3>2, <3>3
  <2> QED BY <2>2, <2>4, <2>5 DEF CallInv
<1> QED BY <1>8, <1>9, <1>10, <1>11, <1>13 DEF Calls

\* The next call of a job is about the stage after the one the plugin knows.
LEMMA ReceiveCalls ==
  ASSUME TimesOK, Calls, Receive, mishaps' = {}
  PROVE  Calls'
<1> DEFINE m == Head(pending)
<1>1. /\ pending \in Seq(CallRec) /\ pending # <<>> /\ hpc = "idle" /\ hpc' = m.op
      /\ pending' = Tail(pending) /\ UNCHANGED <<now, ctl, db, usage>>
  BY DEF TimesOK, Receive
<1>2. /\ Len(pending') = Len(pending) - 1 /\ Len(pending) \in Nat \ {0}
      /\ DOMAIN pending = 1..Len(pending) /\ DOMAIN pending' = 1..Len(pending) - 1
      /\ \A i \in 1..Len(pending) - 1 : pending'[i] = pending[i + 1]
      /\ \A i \in 1..Len(pending) : pending[i] \in CallRec
      /\ m = pending[1] /\ m \in CallRec
  BY <1>1
<1>a. PICK j \in Jobs : m.job = j
  BY <1>2 DEF CallRec
<1>3. m.op \in {"job_start", "job_complete"}
  BY <1>2 DEF CallRec
<1>4. /\ CallOK(m)
      /\ \A i, k \in 1..Len(pending) :
           i < k /\ pending[i].job = pending[k].job => Stage(pending[i]) < Stage(pending[k])
  BY <1>2 DEF Calls, CallInv
<1>5. hcall' = [op |-> m.op, job |-> j, idx |-> (RowOf(j) # NoRow), state |-> m.state,
                submit |-> m.submit, start |-> m.start, end |-> m.end]
  <2>1. PICK i \in BOOLEAN :
          /\ i => RowOf(j) # NoRow
          /\ mishaps' = mishaps \cup (IF rpc # "idle" THEN {"overlap"} ELSE {})
                               \cup (IF ~i /\ RowOf(j) # NoRow THEN {"noindex"} ELSE {})
          /\ hcall' = [op |-> m.op, job |-> j, idx |-> i, state |-> m.state,
                       submit |-> m.submit, start |-> m.start, end |-> m.end]
    BY <1>a DEF Receive, RowOf
  <2>2. ~(~i /\ RowOf(j) # NoRow)
    BY <2>1
  <2>3. i = (RowOf(j) # NoRow)
    BY <2>1, <2>2
  <2> QED BY <2>1, <2>3
<1> DEFINE has == (RowOf(j) # NoRow)
<1>6. has \in BOOLEAN
  OBVIOUS
<1> HIDE DEF m
<1>7. hcall' \in HandRec
  <2> HIDE DEF has
  <2> QED BY <1>2, <1>5, <1>6 DEF CallRec, HandRec, States, has
<1>8. /\ hcall'.op = m.op /\ hcall'.job = j /\ hcall'.state = m.state
      /\ hcall'.start = m.start /\ hcall'.end = m.end /\ hcall'.idx = has
  BY <1>5
<1> HIDE DEF has
<1>9. Stage(hcall') = Stage(m) /\ OpOf(hcall') = OpOf(m)
  BY <1>8 DEF Stage, OpOf
<1>10. /\ \A i \in Jobs : Known(i) = Stage(RowOf(i))
       /\ \A i \in Jobs : Known(i)' = IF i = j THEN Stage(m) ELSE Known(i)
       /\ \A i \in Jobs : RowOf(i)' = RowOf(i)
  <2>1. hpc' # "idle"
    BY <1>1, <1>3
  <2> QED BY <1>1, <1>8, <1>9, <2>1 DEF Known, RowOf
<1>11. Stage(m) = Known(j) + 1
  <2>1. Known(j) \in 0..Stage(ctl[j]) /\ Known(j) < Stage(m) /\ Stage(m) <= Stage(ctl[j])
    BY <1>a, <1>4, KnownBounded DEF CallOK, Told
  <2> SUFFICES ASSUME Stage(m) # Known(j) + 1 PROVE FALSE
    OBVIOUS
  <2>2. Stage(m) \in 0..3 /\ Stage(ctl[j]) \in 0..3
    BY Stages
  <2>3. Known(j) + 1 < Stage(m) /\ Known(j) + 1 \in Known(j) + 1 .. Stage(ctl[j])
    BY <2>1, <2>2
  <2>4. PICK k \in DOMAIN pending : pending[k].job = j /\ Stage(pending[k]) = Known(j) + 1
    BY <2>3 DEF Calls, CallInv
  <2>5. k # 1
    BY <1>2, <2>3, <2>4
  <2>6. Stage(m) < Stage(pending[k])
    BY <1>a, <1>2, <1>4, <2>4, <2>5
  <2> QED BY <2>2, <2>3, <2>4, <2>6
<1>12. RowsOK' /\ LifeInv' /\ RowInv'
  <2>1. RowsOK'
    BY <1>1, <1>7 DEF Calls, RowsOK
  <2>2. LifeInv'
    BY <1>1 DEF Calls, LifeInv, LifeOK
  <2>3. RowInv'
    BY <1>1 DEF Calls, RowInv, RowOf
  <2> QED BY <2>1, <2>2, <2>3
<1>13. HandInv'
  <2>1. Told(m, ctl[j]) /\ m.op = OpOf(m)
    BY <1>a, <1>4 DEF CallOK
  <2>2. Told(hcall', ctl'[j])
    BY <1>1, <1>8, <1>9, <2>1 DEF Told
  <2>3. Stage(hcall') = Stage(db'[j].row) + 1
    BY <1>1, <1>9, <1>10, <1>11 DEF RowOf
  <2>4. hcall'.idx = (db'[j].row # NoRow)
    BY <1>1, <1>8 DEF has, RowOf
  <2>5. hcall'.op = OpOf(hcall') /\ hpc' = hcall'.op /\ hcall'.job = j
    BY <1>1, <1>8, <1>9, <2>1
  <2> QED BY <1>3, <1>8, <2>2, <2>3, <2>4, <2>5 DEF HandInv, RowOf
<1>14. CallInv'
  <2>1. \A i \in DOMAIN pending' : CallOK(pending[i])'
    <3> TAKE i \in DOMAIN pending'
    <3>1. /\ i + 1 \in DOMAIN pending /\ pending'[i] = pending[i + 1] /\ 1 < i + 1
          /\ pending[i + 1].job \in Jobs
      BY <1>2 DEF CallRec
    <3> DEFINE p == pending[i + 1]
    <3>2. CallOK(p) /\ (p.job = j => Stage(m) < Stage(p))
      BY <1>a, <1>2, <1>4, <3>1 DEF Calls, CallInv
    <3> QED BY <1>1, <1>10, <3>1, <3>2 DEF CallOK
  <2>2. \A i, k \in DOMAIN pending' :
          i < k /\ pending'[i].job = pending'[k].job => Stage(pending'[i]) < Stage(pending'[k])
    <3> TAKE i, k \in DOMAIN pending'
    <3>1. /\ i \in Int /\ k \in Int /\ i + 1 \in 1..Len(pending) /\ k + 1 \in 1..Len(pending)
          /\ pending'[i] = pending[i + 1] /\ pending'[k] = pending[k + 1]
      BY <1>2
    <3>2. i < k => i + 1 < k + 1
      BY <3>1
    <3> QED BY <1>4, <3>1, <3>2
  <2>3. \A i \in Jobs : \A n \in Known(i)' + 1 .. Stage(ctl'[i]) :
          \E k \in DOMAIN pending' : pending'[k].job = i /\ Stage(pending'[k]) = n
    <3> TAKE i \in Jobs
    <3> TAKE n \in Known(i)' + 1 .. Stage(ctl'[i])
    <3>1. n \in Known(i) + 1 .. Stage(ctl[i]) /\ ~(i = j /\ n = Stage(m))
      <4>1. CASE i = j
        BY <1>1, <1>10, <1>11, <4>1, Stages
      <4>2. CASE i # j
        BY <1>1, <1>10, <4>2
      <4> QED BY <4>1, <4>2
    <3>2. PICK k \in DOMAIN pending : pending[k].job = i /\ Stage(pending[k]) = n
      BY <3>1 DEF Calls, CallInv
    <3>3. k # 1
      BY <1>a, <1>2, <3>1, <3>2
    <3>4. k - 1 \in DOMAIN pending' /\ pending'[k - 1] = pending[k]
      BY <1>2, <3>3
    <3> QED BY <3>2, <3>4
  <2> QED BY <2>1, <2>2, <2>3 DEF CallInv
<1> QED BY <1>12, <1>13, <1>14 DEF Calls

\* A step that leaves the calls and the rows where they are.
LEMMA CallsFrame ==
  ASSUME TimesOK, Calls, RowsOK', UNCHANGED <<ctl, pending, db, hcall>>, now \in Nat, now' \in Nat, now <= now',
         \/ hpc' = hpc
         \/ /\ hpc # "idle" /\ hpc' # "idle"
            /\ hpc' \in IF hcall.op = "job_start" THEN {"job_start", "reset_insert", "insert"}
                        ELSE {"job_complete", "reset_lookup", "lookup", "update"}
  PROVE  Calls'
<1>1. \A j \in Jobs : RowOf(j)' = RowOf(j) /\ Known(j)' = Known(j)
  BY DEF RowOf, Known
<1>2. LifeInv'
  BY DEF Calls, LifeInv, LifeOK
<1>3. RowInv'
  BY DEF Calls, RowInv, RowOf
<1>4. CallInv'
  <2>1. \A i \in DOMAIN pending : pending[i].job \in Jobs => CallOK(pending[i])'
    BY <1>1 DEF Calls, CallInv, CallOK
  <2>2. \A i \in DOMAIN pending : pending[i].job \in Jobs
    <3>1. \A i \in DOMAIN pending : pending[i] \in CallRec
      BY DEF TimesOK
    <3> QED BY <3>1 DEF CallRec
  <2> QED BY <1>1, <2>1, <2>2 DEF Calls, CallInv
<1>5. HandInv'
  BY DEF Calls, HandInv, RowOf
<1> QED BY <1>2, <1>3, <1>4, <1>5 DEF Calls

\* What job_start's statement does to a row.
LEMMA StartRow ==
  ASSUME NEW d \in RowsRec, NEW m \in HandRec, m.idx = (d.row # NoRow)
  PROVE  LET k == JobStart(d, m) IN
         /\ k \in RowsRec /\ k.row.state = m.state /\ k.row.start = m.start
         /\ k.row.end = IF d.row = NoRow THEN 0 ELSE d.row.end
<1>1. CASE d.row = NoRow
  <2>1. JobStart(d, m) = [d EXCEPT !.row = Row(m.start, m.state)]
    BY <1>1 DEF JobStart
  <2>2. Row(m.start, m.state) \in RowRec
    BY DEF Row, RowRec, HandRec
  <2> QED BY <1>1, <2>1, <2>2 DEF RowsRec, Row
<1>2. CASE d.row # NoRow
  <2>1. JobStart(d, m) = [d EXCEPT !.row.start = m.start, !.row.state = m.state]
    BY <1>2 DEF JobStart
  <2>2. d.row \in RowRec /\ m.start \in Int /\ m.state \in States
    BY DEF RowsRec, HandRec
  <2> DEFINE r == [d.row EXCEPT !.start = m.start, !.state = m.state]
  <2>3. r \in RowRec /\ r.start = m.start /\ r.state = m.state /\ r.end = d.row.end
    BY <2>2 DEF RowRec
  <2>4. JobStart(d, m) = [d EXCEPT !.row = r]
    BY <2>1, <2>2 DEF RowsRec, RowRec
  <2> HIDE DEF r
  <2> QED BY <1>2, <2>3, <2>4 DEF RowsRec
<1> QED BY <1>1, <1>2

\* What job_complete's statement does to the row of a job that started.
LEMMA CompleteRow ==
  ASSUME NEW d \in RowsRec, NEW m \in HandRec, m.idx, m.end # 0, m.start <= m.end
  PROVE  LET k == JobComplete(d, m) IN
         k \in RowsRec /\ k.row.state = m.state /\ k.row.start = m.start /\ k.row.end = m.end
<1>1. d.row \in RowRec /\ m.start \in Int /\ m.end \in Int /\ m.state \in States
  BY DEF RowsRec, HandRec
<1>2. JobComplete(d, m)
        = [d EXCEPT !.row.start = m.start, !.row.end = m.end, !.row.state = m.state]
  <2>1. (IF m.start > m.end THEN 0 ELSE m.start) = m.start /\ ~(m.end = 0) /\ WithRow(d, m) = d
    BY <1>1 DEF WithRow
  <2> QED BY <2>1 DEF JobComplete
<1> DEFINE r == [d.row EXCEPT !.start = m.start, !.end = m.end, !.state = m.state]
<1>3. r \in RowRec /\ r.start = m.start /\ r.state = m.state /\ r.end = m.end
  BY <1>1 DEF RowRec
<1>4. JobComplete(d, m) = [d EXCEPT !.row = r]
  BY <1>1, <1>2 DEF RowsRec, RowRec
<1> HIDE DEF r
<1> QED BY <1>3, <1>4 DEF RowsRec

\* A call recorded: the row says what the call said.
LEMMA RecordCalls ==
  ASSUME TimesOK, Calls, InsertJob \/ UpdateJob
  PROVE  /\ Calls' /\ hpc' = "idle"
         /\ \E j \in Jobs :
              /\ j = hcall.job /\ \A i \in Jobs \ {j} : RowOf(i)' = RowOf(i)
              /\ RowOf(j)'.start = hcall.start
              /\ InsertJob => RowOf(j)'.end = 0
              /\ UpdateJob => /\ RowOf(j).start = hcall.start /\ RowOf(j).end = 0
                              /\ RowOf(j)'.end # 0
<1>1. /\ hpc # "idle" /\ hcall \in HandRec /\ hcall.job \in Jobs
      /\ UNCHANGED <<now, ctl, pending, usage, hcall>>
  BY DEF InsertJob, UpdateJob, Calls, RowsOK, HandRec, ctlVars
<1>2. PICK j \in Jobs : j = hcall.job
  BY <1>1
<1> DEFINE d == db[j]
<1>3. d \in RowsRec /\ db \in [Jobs -> RowsRec] /\ RowOf(j) = d.row
  BY DEF Calls, RowsOK, RowOf
<1>4. /\ hcall.op = OpOf(hcall) /\ Told(hcall, ctl[j]) /\ Stage(hcall) = Stage(RowOf(j)) + 1
      /\ hcall.idx = (d.row # NoRow)
      /\ hpc \in IF hcall.op = "job_start" THEN {"job_start", "reset_insert", "insert"}
                 ELSE {"job_complete", "reset_lookup", "lookup", "update"}
  BY <1>1, <1>2 DEF Calls, HandInv, RowOf
<1>5. LifeOK(ctl[j]) /\ (RowOf(j) = NoRow \/ (Stage(RowOf(j)) > 0 /\ Told(RowOf(j), ctl[j])))
  BY DEF Calls, LifeInv, RowInv
<1>6. Stage(hcall) \in 1..3 /\ Stage(RowOf(j)) \in 0..2 /\ Stage(ctl[j]) \in 0..3
  BY <1>4, Stages
<1>7. ctl[j].start \in Int /\ ctl[j].end \in Int
  BY DEF TimesOK, JobRec
<1> SUFFICES ASSUME NEW k, db' = [db EXCEPT ![j] = k], k \in RowsRec, hpc' = "idle",
                    k.row.state = hcall.state, k.row.start = hcall.start, k.row.end = hcall.end,
                    InsertJob => k.row.end = 0,
                    UpdateJob => /\ d.row.start = hcall.start /\ d.row.end = 0
                                 /\ k.row.end # 0
             PROVE  Calls'
  <2>1. CASE InsertJob
    <3>1. /\ hpc = "insert" /\ db' = [db EXCEPT ![j] = JobStart(d, hcall)]
          /\ hpc' = IF hcall.op = "job_start" THEN "idle" ELSE "update"
      BY <1>2, <1>3, <2>1 DEF InsertJob
    <3>2. hcall.op = "job_start" /\ hpc' = "idle"
      BY <1>4, <3>1
    <3>3. Stage(hcall) \in {1, 2} /\ hcall.end = 0
      BY <1>4, <1>6, <3>2 DEF OpOf, Told
    <3>4. d.row = NoRow \/ d.row.end = 0
      BY <1>3, <1>4, <1>5, <3>3, Stages DEF Told
    <3> DEFINE k == JobStart(d, hcall)
    <3>5. /\ k \in RowsRec /\ k.row.state = hcall.state /\ k.row.start = hcall.start
          /\ k.row.end = hcall.end
      BY <1>1, <1>3, <1>4, <3>3, <3>4, StartRow
    <3>6. ~UpdateJob
      BY <3>1 DEF UpdateJob
    <3> HIDE DEF k
    <3>7. \A i \in Jobs : RowOf(i)' = IF i = j THEN k.row ELSE RowOf(i)
      BY <1>3, <3>1 DEF RowOf, k
    <3>8. Calls'
      BY <3>1, <3>2, <3>3, <3>5, <3>6 DEF k
    <3> QED BY <1>2, <3>2, <3>3, <3>5, <3>6, <3>7, <3>8
  <2>2. CASE UpdateJob
    <3>1. /\ hpc = "update" /\ db' = [db EXCEPT ![j] = JobComplete(d, hcall)] /\ hpc' = "idle"
      BY <1>2, <1>3, <2>2 DEF UpdateJob
    <3>2. hcall.op = "job_complete"
      BY <1>1, <1>4, <3>1 DEF HandRec
    <3>3. Stage(hcall) = 3 /\ Stage(RowOf(j)) = 2 /\ Stage(ctl[j]) = 3
      BY <1>4, <1>6, <3>2 DEF OpOf, Told
    <3>4. /\ d.row # NoRow /\ Told(d.row, ctl[j])
          /\ d.row.start = ctl[j].start /\ d.row.end = 0
      BY <1>3, <1>5, <3>3, Stages DEF Told
    <3>5. /\ hcall.start = ctl[j].start /\ hcall.end = ctl[j].end
          /\ hcall.start <= hcall.end /\ hcall.end # 0
      BY <1>4, <1>5, <1>7, <3>3 DEF Told, LifeOK, TimesOK
    <3> DEFINE k == JobComplete(d, hcall)
    <3>6. /\ k \in RowsRec /\ k.row.state = hcall.state /\ k.row.start = hcall.start
          /\ k.row.end = hcall.end
      BY <1>1, <1>3, <1>4, <3>4, <3>5, CompleteRow
    <3>7. ~InsertJob
      BY <3>1 DEF InsertJob
    <3> HIDE DEF k
    <3>8. \A i \in Jobs : RowOf(i)' = IF i = j THEN k.row ELSE RowOf(i)
      BY <1>3, <3>1 DEF RowOf, k
    <3>9. Calls'
      BY <3>1, <3>4, <3>5, <3>6, <3>7 DEF k
    <3> QED BY <1>2, <1>3, <3>1, <3>4, <3>5, <3>6, <3>7, <3>8, <3>9
  <2> QED BY <2>1, <2>2
<1>8. Stage(k.row) = Stage(hcall) /\ Told(k.row, ctl[j])
  BY <1>4 DEF Stage, Told
<1>9. \A i \in Jobs : RowOf(i)' = IF i = j THEN k.row ELSE RowOf(i)
  BY <1>3 DEF RowOf
<1>10. \A i \in Jobs : Known(i)' = Known(i)
  BY <1>1, <1>2, <1>8, <1>9 DEF Known
<1>11. RowsOK'
  BY <1>1, <1>3 DEF Calls, RowsOK
<1>12. LifeInv'
  BY <1>1 DEF Calls, LifeInv, LifeOK
<1>13. RowInv'
  BY <1>1, <1>6, <1>8, <1>9 DEF Calls, RowInv
<1>14. CallInv'
  <2>1. \A i \in DOMAIN pending : pending[i].job \in Jobs => CallOK(pending[i])'
    BY <1>1, <1>10 DEF Calls, CallInv, CallOK
  <2>2. \A i \in DOMAIN pending : pending[i].job \in Jobs
    <3>1. \A i \in DOMAIN pending : pending[i] \in CallRec
      BY DEF TimesOK
    <3> QED BY <3>1 DEF CallRec
  <2> QED BY <1>1, <1>10, <2>1, <2>2 DEF Calls, CallInv
<1>15. HandInv'
  BY DEF HandInv
<1> QED BY <1>11, <1>12, <1>13, <1>14, <1>15 DEF Calls

-----------------------------------------------------------------------------
(* Hours, and the time a row has in one.                                   *)

LEMMA WholeHours ==
  ASSUME NEW a \in Nat
  PROVE  /\ FloorHour(FloorHour(a)) = FloorHour(a)
         /\ FloorHour(a) = a => FloorHour(a + HourSecs) = a + HourSecs
<1>1. HourSecs \in Nat /\ HourSecs > 1
  BY RollupAssumption
<1>2. ASSUME NEW q \in Nat PROVE FloorHour(q * HourSecs) = q * HourSecs
  <2>1. q * HourSecs \in Nat
    BY <1>1
  <2> DEFINE p == (q * HourSecs) \div HourSecs
  <2>2. p \in Int /\ p * HourSecs <= q * HourSecs /\ q * HourSecs < (p + 1) * HourSecs
    BY <1>1, <2>1
  <2>3. FloorHour(q * HourSecs) = p * HourSecs
    BY DEF FloorHour
  <2> HIDE DEF p
  <2>4. p <= q
    BY <1>1, <2>2
  <2>5. q < p + 1
    BY <1>1, <2>2
  <2>6. p = q
    BY <2>2, <2>4, <2>5
  <2> QED BY <2>3, <2>6
<1> DEFINE r == a \div HourSecs
<1>3. r \in Nat
  BY <1>1
<1>4. FloorHour(a) = r * HourSecs
  BY DEF FloorHour
<1> HIDE DEF r
<1>5. (r + 1) * HourSecs = r * HourSecs + HourSecs /\ r + 1 \in Nat
  BY <1>1, <1>3
<1>6. FloorHour(r * HourSecs) = r * HourSecs /\ FloorHour((r + 1) * HourSecs) = (r + 1) * HourSecs
  BY <1>2, <1>3, <1>5
<1> QED BY <1>4, <1>5, <1>6

LEMMA NextHour ==
  ASSUME NEW a \in Nat, NEW b \in Nat, FloorHour(a) = a, FloorHour(b) = b, a < b
  PROVE  a + HourSecs <= b
<1>1. HourSecs \in Nat /\ HourSecs > 1
  BY RollupAssumption
<1> DEFINE p == a \div HourSecs
           q == b \div HourSecs
<1>2. p \in Nat /\ q \in Nat
  BY <1>1
<1>3. a = p * HourSecs /\ b = q * HourSecs
  BY DEF FloorHour
<1> HIDE DEF p, q
<1>4. p < q
  BY <1>1, <1>2, <1>3
<1>5. (p + 1) * HourSecs <= q * HourSecs
  BY <1>1, <1>2, <1>4
<1>6. (p + 1) * HourSecs = p * HourSecs + HourSecs
  BY <1>1, <1>2
<1> QED BY <1>3, <1>5, <1>6

LEMMA HoursAre ==
  /\ \A h \in Hours : h \in Nat /\ FloorHour(h) = h
  /\ \A t \in 0..MaxTime : FloorHour(t) \in Hours
<1>1. \A h \in Hours : h \in Nat /\ FloorHour(h) = h
  <2> SUFFICES ASSUME NEW h \in Hours PROVE h \in Nat /\ FloorHour(h) = h
    OBVIOUS
  <2>1. PICK t \in 0..MaxTime : h = FloorHour(t)
    BY DEF Hours
  <2>2. t \in Nat
    BY <2>1, RollupAssumption
  <2> QED BY <2>1, <2>2, FloorBelow, WholeHours
<1> QED BY <1>1 DEF Hours

\* Rows as the calls leave them.
GoodRow(r) == r \in RowRec /\ (r = NoRow \/ (r.start >= 0 /\ r.end >= 0))

LEMMA RowsGood ==
  ASSUME TimesOK, Calls, NEW j \in Jobs
  PROVE  GoodRow(RowOf(j))
<1>1. RowOf(j) \in RowRec /\ ctl[j] \in JobRec
  BY DEF Calls, RowsOK, RowsRec, RowOf, TimesOK
<1>2. RowOf(j) = NoRow \/ Told(RowOf(j), ctl[j])
  BY DEF Calls, RowInv
<1> QED BY <1>1, <1>2 DEF GoodRow, Told, JobRec

\* What mysql_hourly_rollup takes of a row is the time the row has in the hour,
\* and a row with none is left out.
LEMMA SecondsAreRan ==
  ASSUME NEW r, GoodRow(r), NEW h \in Nat
  PROVE  /\ RanIn(r, h) \in Nat /\ SecondsIn(r, h) \in Nat
         /\ SecondsIn(r, h) < 1 => RanIn(r, h) = 0
         /\ SecondsIn(r, h) >= 1 => SecondsIn(r, h) = RanIn(r, h)
<1>1. HourSecs \in Nat /\ HourSecs > 1
  BY RollupAssumption
<1>2. CASE r = NoRow
  BY <1>1, <1>2 DEF RanIn, SecondsIn, NoRow
<1>3. CASE r # NoRow
  <2>1. r.start \in Nat /\ r.end \in Nat
    BY <1>3 DEF GoodRow, RowRec
  <2> QED BY <1>1, <1>3, <2>1 DEF RanIn, SecondsIn
<1> QED BY <1>2, <1>3

\* A start that is recorded has no time before it.
LEMMA StartsLater ==
  ASSUME NEW r, r.start \in Nat, r.end = 0, NEW h \in Nat,
         r.start = 0 \/ h + HourSecs <= r.start
  PROVE  RanIn(r, h) = 0
<1>1. HourSecs \in Nat /\ HourSecs > 1
  BY RollupAssumption
<1> QED BY <1>1 DEF RanIn

\* An end that is recorded takes time away.
LEMMA EndsEarlier ==
  ASSUME NEW r, NEW q, r.start \in Nat, q.start = r.start, r.end = 0, q.end \in Nat, NEW h \in Nat
  PROVE  RanIn(q, h) <= RanIn(r, h)
<1>1. HourSecs \in Nat /\ HourSecs > 1
  BY RollupAssumption
<1> QED BY <1>1 DEF RanIn

-----------------------------------------------------------------------------
(* The hours behind the marks stay covered.                                *)

\* Nothing the covered hours depend on changes.
LEMMA CoverSame ==
  ASSUME UNCHANGED <<db, usage>>
  PROVE  \A j \in Jobs, h \in Hours : Paid(j, h)' = Paid(j, h)
BY DEF Paid, RowOf

LEMMA CoverFrame ==
  ASSUME CoverInv, UNCHANGED <<db, usage, last_ran, rpc, rstart, rend, hpc, hreset, hcall>>
  PROVE  CoverInv'
BY CoverSame DEF CoverInv, Covered

\* A call that is taken up, or looks at the marks, or moves them back.
LEMMA CheckCover ==
  ASSUME MarkInv, LateInv, mishaps = {}, mishaps' = {},
         Receive \/ CheckStart \/ CheckEnd \/ ResetLastRan \/ Lookup
  PROVE  CoverInv'
<1>0. TimesOK /\ Calls /\ CoverInv /\ last_ran \in Nat /\ global_last_rollup \in Nat
  BY DEF MarkInv, LateInv, Calls, TimesOK
<1>1. UNCHANGED <<db, usage, rpc, rstart, rend>>
  BY DEF Receive, CheckStart, CheckEnd, ResetLastRan, Lookup, ctlVars, roller
<1>2. \A j \in Jobs, h \in Hours : Paid(j, h)' = Paid(j, h)
  BY <1>1, CoverSame
<1>3. CASE Receive
  <2>1. hpc = "idle" /\ UNCHANGED <<last_ran, hreset>>
    BY <1>3 DEF Receive
  <2>2. Head(pending) \in CallRec /\ hpc' = Head(pending).op
    BY <1>0, <1>3 DEF Receive, TimesOK
  <2>3. hpc' \in {"job_start", "job_complete"}
    BY <2>2 DEF CallRec
  <2>4. rpc = "idle"
    BY <1>3 DEF Receive
  <2> QED BY <1>0, <1>1, <1>2, <2>1, <2>3, <2>4 DEF CoverInv, Covered, Resets
<1>4. CASE CheckStart \/ CheckEnd
  <2>1. /\ hpc \in {"job_start", "job_complete"} /\ hpc # "idle" /\ hpc \notin Resets
        /\ UNCHANGED <<last_ran, hcall>>
    BY <1>4 DEF CheckStart, CheckEnd, ctlVars, Resets
  <2>2. rpc = "idle"
    BY <1>0, <2>1 DEF CoverInv
  <2>3. FloorHour(last_ran) <= global_last_rollup /\ global_last_rollup <= last_ran
    BY <2>1, <2>2 DEF MarkInv, Agree
  <2>4. hcall \in HandRec /\ hcall.start \in Nat /\ hcall.end \in Nat /\ FloorHour(last_ran) \in Nat
    BY <1>0, <2>1, FloorBelow DEF Calls, RowsOK, HandRec
  <2>5. CASE CheckStart
    <3>1. CASE Heard(hcall)
      <4>1. hcall.start = 0
        <5>1. RowOf(hcall.job).start = hcall.start /\ hcall.job \in Jobs
          BY <2>4, <3>1 DEF Heard, RowOf, HandRec
        <5>2. hpc = "job_start" /\ hcall.op \in {"job_start", "job_complete"}
          BY <2>4, <2>5 DEF CheckStart, HandRec
        <5>3. /\ hcall.op = OpOf(hcall) /\ Told(hcall, ctl[hcall.job])
              /\ Stage(hcall) = Stage(RowOf(hcall.job)) + 1
              /\ hcall.op = "job_start"
          BY <1>0, <5>2 DEF Calls, HandInv
        <5>4. Stage(hcall) # 3 /\ Stage(hcall) \in 0..3
          BY <5>3, Stages DEF OpOf
        <5>5. Stage(RowOf(hcall.job)) \in 0..1
          BY <5>3, <5>4, Stages
        <5>6. RowOf(hcall.job) = NoRow \/ Told(RowOf(hcall.job), ctl[hcall.job])
          BY <1>0, <5>1 DEF Calls, RowInv
        <5> QED BY <2>4, <5>1, <5>5, <5>6 DEF Told, NoRow
      <4>2. hpc' = "insert" /\ UNCHANGED hreset
        BY <2>5, <3>1 DEF CheckStart
      <4> QED BY <1>0, <1>1, <1>2, <2>1, <2>2, <4>1, <4>2 DEF CoverInv, Covered, Resets
    <3>2. CASE ~Heard(hcall)
      <4>1. Reset(CheckTime(hcall), "reset_insert", "insert")
        BY <2>5, <3>2 DEF CheckStart
      <4>2. CheckTime(hcall) \in Nat /\ (hcall.start = 0 \/ CheckTime(hcall) = hcall.start)
        BY <2>4 DEF CheckTime, HandRec
      <4>3. \/ hpc' = "insert" /\ hreset' = hreset /\ CheckTime(hcall) >= global_last_rollup
            \/ /\ hpc' = "reset_insert" /\ hreset' = CheckTime(hcall)
               /\ CheckTime(hcall) < global_last_rollup
        BY <1>0, <4>1, <4>2 DEF Reset
      <4> QED BY <1>0, <1>1, <1>2, <2>1, <2>2, <2>3, <2>4, <4>2, <4>3 DEF CoverInv, Covered, Resets
    <3> QED BY <3>1, <3>2
  <2>6. CASE CheckEnd
    <3>1. Reset(hcall.end, "reset_lookup", "lookup")
      BY <2>6 DEF CheckEnd
    <3>2. \/ hpc' = "lookup" /\ hreset' = hreset
          \/ hpc' = "reset_lookup" /\ hreset' = hcall.end /\ hcall.end < global_last_rollup
      BY <3>1 DEF Reset
    <3> QED BY <1>0, <1>1, <1>2, <2>1, <2>2, <2>3, <2>4, <3>2 DEF CoverInv, Covered, Resets
  <2> QED BY <1>4, <2>5, <2>6
<1>5. CASE ResetLastRan
  <2>1. /\ hpc \in Resets /\ last_ran' = hreset /\ UNCHANGED <<hreset, hcall>>
        /\ hpc' = IF hpc = "reset_insert" THEN "insert" ELSE "lookup"
    BY <1>5 DEF ResetLastRan, Resets
  <2>2. hreset \in Nat /\ hreset <= last_ran /\ rpc = "idle"
    BY <1>0, <2>1 DEF CoverInv, TimesOK, Resets
  <2>3. /\ FloorHour(hreset) \in Nat /\ FloorHour(hreset) <= hreset
        /\ FloorHour(hreset) <= FloorHour(last_ran) /\ FloorHour(last_ran) \in Nat
    BY <1>0, <2>2, FloorBelow, FloorMonotone
  <2>4. \A h \in Hours : h < FloorHour(hreset) => h < FloorHour(last_ran)
    BY <2>3, HoursAre
  <2> QED BY <1>0, <1>1, <1>2, <2>1, <2>2, <2>3, <2>4 DEF CoverInv, Covered, Resets
<1>6. CASE Lookup
  <2>1. hpc = "lookup" /\ UNCHANGED <<last_ran, hreset, hcall>> /\ hpc' \in {"update", "job_start"}
    BY <1>6 DEF Lookup
  <2> QED BY <1>0, <1>1, <1>2, <2>1 DEF CoverInv, Covered, Resets
<1> QED BY <1>3, <1>4, <1>5, <1>6

\* A recorded start lies in hours still to be rolled; a recorded end leaves the
\* job less time.
LEMMA RecordCover ==
  ASSUME MarkInv, LateInv, mishaps = {}, mishaps' = {}, InsertJob \/ UpdateJob
  PROVE  CoverInv'
<1>0. TimesOK /\ Calls /\ CoverInv /\ last_ran \in Nat
  BY DEF MarkInv, LateInv, Calls, TimesOK
<1>1. /\ UNCHANGED <<usage, rpc, rstart, rend, last_ran, hreset, hcall>> /\ hpc # "idle"
  BY DEF InsertJob, UpdateJob, ctlVars, roller
<1>2. rpc = "idle"
  BY <1>0, <1>1 DEF CoverInv
<1>3. Calls' /\ TimesOK' /\ hpc' = "idle"
  <2>1. TimesOK'
    BY HandlerStep DEF Handle, MarkInv
  <2> QED BY <1>0, <2>1, RecordCalls
<1>4. PICK j \in Jobs :
              /\ j = hcall.job /\ \A i \in Jobs \ {j} : RowOf(i)' = RowOf(i)
              /\ RowOf(j)'.start = hcall.start
              /\ InsertJob => RowOf(j)'.end = 0
              /\ UpdateJob => /\ RowOf(j).start = hcall.start /\ RowOf(j).end = 0
                              /\ RowOf(j)'.end # 0
  BY <1>0, RecordCalls
<1>5. FloorHour(last_ran) \in Nat /\ FloorHour(FloorHour(last_ran)) = FloorHour(last_ran)
  BY <1>0, FloorBelow, WholeHours
<1>6. hcall.start \in Nat
  BY <1>0, <1>1 DEF Calls, RowsOK, HandRec
<1>7. GoodRow(RowOf(j)) /\ GoodRow(RowOf(j)')
  <2>1. GoodRow(RowOf(j))
    BY <1>0, RowsGood
  <2>2. RowOf(j)' \in RowRec /\ ctl'[j] \in JobRec
    BY <1>3 DEF Calls, RowsOK, RowsRec, RowOf, TimesOK
  <2>3. RowOf(j)' = NoRow \/ Told(RowOf(j)', ctl'[j])
    BY <1>3 DEF Calls, RowInv
  <2>4. GoodRow(RowOf(j)')
    BY <2>2, <2>3 DEF GoodRow, Told, JobRec
  <2> QED BY <2>1, <2>4
<1>8. \A i \in Jobs, h \in Hours : h < FloorHour(last_ran) => Paid(i, h)'
  <2> SUFFICES ASSUME NEW i \in Jobs, NEW h \in Hours, h < FloorHour(last_ran) PROVE Paid(i, h)'
    OBVIOUS
  <2>0. Paid(i, h) /\ h \in Nat /\ FloorHour(h) = h
    BY <1>0, <1>2, HoursAre DEF CoverInv, Covered
  <2>1. CASE i # j
    BY <1>1, <1>4, <2>0, <2>1 DEF Paid
  <2>2. CASE i = j
    <3>1. CASE InsertJob
      <4>1. hpc = "insert"
        BY <3>1 DEF InsertJob
      <4>2. hcall.start = 0 \/ FloorHour(last_ran) <= hcall.start
        BY <1>0, <4>1 DEF CoverInv
      <4>3. h + HourSecs <= FloorHour(last_ran)
        BY <1>5, <2>0, NextHour
      <4>4. hcall.start = 0 \/ h + HourSecs <= hcall.start
        BY <1>5, <1>6, <2>0, <4>2, <4>3, RollupAssumption
      <4>5. RanIn(RowOf(j)', h) = 0
        BY <1>4, <1>6, <2>0, <3>1, <4>4, StartsLater
      <4> QED BY <2>2, <4>5 DEF Paid
    <3>2. CASE UpdateJob
      <4>1. /\ RowOf(j).start \in Nat /\ RowOf(j).end = 0
            /\ RowOf(j)'.start = RowOf(j).start /\ RowOf(j)'.end \in Nat
        BY <1>4, <1>6, <1>7, <3>2 DEF GoodRow, NoRow, RowRec
      <4>2. RanIn(RowOf(j)', h) <= RanIn(RowOf(j), h)
        BY <2>0, <4>1, EndsEarlier
      <4>3. RanIn(RowOf(j), h) \in Nat /\ RanIn(RowOf(j)', h) \in Nat
        BY <1>7, <2>0, SecondsAreRan
      <4>4. usage[j][h] \in Int /\ usage' = usage
        BY <1>0, <1>1 DEF Calls, RowsOK
      <4> QED BY <2>0, <2>2, <4>2, <4>3, <4>4 DEF Paid
    <3> QED BY <3>1, <3>2
  <2> QED BY <2>1, <2>2
<1> QED BY <1>0, <1>1, <1>2, <1>3, <1>8 DEF CoverInv, Covered, Resets

\* An hour that is rolled pays every row what it has in that hour.
LEMMA HourPaid ==
  ASSUME MarkInv, LateInv, mishaps = {}, RollHour
  PROVE  /\ usage' \in [Jobs -> [Hours -> Int]]
         /\ \A j \in Jobs, h \in Hours : h < rstart + HourSecs => Paid(j, h)'
<1>0. TimesOK /\ Calls /\ CoverInv
  BY DEF MarkInv, LateInv, Calls
<1>1. rpc = "hour" /\ UNCHANGED db
  BY DEF RollHour
<1>2. rstart \in Nat /\ FloorHour(rstart) = rstart /\ rstart < rend /\ Covered(rstart)
  BY <1>0, <1>1 DEF TimesOK, CoverInv
<1>3. usage \in [Jobs -> [Hours -> Int]]
  BY <1>0 DEF Calls, RowsOK
<1>4. \A j \in Jobs :
        LET s == SecondsIn(RowOf(j), rstart) IN
        /\ s < 1 => usage'[j] = usage[j]
        /\ ~(s < 1) => usage'[j] = [usage[j] EXCEPT ![rstart] = s]
  BY DEF RollHour, RowOf
<1>5. \A j \in Jobs : GoodRow(RowOf(j)) /\ RowOf(j)' = RowOf(j)
  BY <1>0, <1>1, RowsGood DEF RowOf
<1>6. \A j \in Jobs : SecondsIn(RowOf(j), rstart) \in Nat
  BY <1>2, <1>5, SecondsAreRan
<1>7. usage' \in [Jobs -> [Hours -> Int]]
  <2>1. \A j \in Jobs : usage'[j] \in [Hours -> Int]
    <3> TAKE j \in Jobs
    <3> DEFINE s == SecondsIn(RowOf(j), rstart)
    <3>1. s \in Nat /\ usage[j] \in [Hours -> Int]
      BY <1>3, <1>6
    <3>2. /\ s < 1 => usage'[j] = usage[j]
          /\ ~(s < 1) => usage'[j] = [usage[j] EXCEPT ![rstart] = s]
      BY <1>4
    <3> HIDE DEF s
    <3> QED BY <3>1, <3>2
  <2>2. usage' = [j \in Jobs |-> usage'[j]]
    BY DEF RollHour
  <2> QED BY <2>1, <2>2
<1>8. ASSUME NEW j \in Jobs, NEW h \in Hours, h < rstart + HourSecs PROVE Paid(j, h)'
  <2> DEFINE s == SecondsIn(RowOf(j), rstart)
             u == usage'[j][h]
  <2>1. h \in Nat /\ FloorHour(h) = h /\ HourSecs \in Nat
    BY HoursAre, RollupAssumption
  <2>2. h < rstart \/ h = rstart
    BY <1>2, <1>8, <2>1, NextHour
  <2>3. usage[j] \in [Hours -> Int]
    BY <1>3
  <2>4. Paid(j, h)' <=> (u >= RanIn(RowOf(j), h) \/ RanIn(RowOf(j), h) = 0)
    BY <1>5 DEF Paid
  <2>5. CASE h < rstart
    <3>1. Paid(j, h)
      BY <1>2, <2>5 DEF Covered
    <3>2. u = usage[j][h]
      <4>1. h # rstart
        BY <1>2, <2>1, <2>5
      <4>2. usage'[j] = usage[j] \/ usage'[j] = [usage[j] EXCEPT ![rstart] = s]
        BY <1>4
      <4> HIDE DEF s
      <4> QED BY <2>3, <4>1, <4>2
    <3> QED BY <2>4, <3>1, <3>2 DEF Paid
  <2>6. CASE h = rstart
    <3>1. /\ RanIn(RowOf(j), h) \in Nat /\ s \in Nat
          /\ s < 1 => RanIn(RowOf(j), h) = 0
          /\ s >= 1 => s = RanIn(RowOf(j), h)
      BY <1>5, <2>1, <2>6, SecondsAreRan
    <3>2. ~(s < 1) => u = s
      BY <1>4, <2>3, <2>6
    <3> HIDE DEF s, u
    <3> QED BY <2>4, <3>1, <3>2
  <2> QED BY <2>2, <2>5, <2>6
<1> QED BY <1>7, <1>8

\* A roll leaves the hours behind it paid, and ends at whole hours.
LEMMA RollCover ==
  ASSUME MarkInv, LateInv, mishaps = {}, mishaps' = {},
         RollRead \/ RollMark \/ RollHour \/ RollDone
  PROVE  RowsOK' /\ CoverInv'
<1>0. TimesOK /\ Calls /\ CoverInv /\ last_ran \in Nat /\ now \in 1..MaxTime
  BY DEF MarkInv, LateInv, Calls, TimesOK, RowsOK
<1>1. UNCHANGED <<now, db, hpc, hcall, hreset>>
  BY DEF RollRead, RollMark, RollHour, RollDone, ctlVars, handler
<1>2. FloorHour(last_ran) \in Nat /\ FloorHour(FloorHour(last_ran)) = FloorHour(last_ran)
  BY <1>0, FloorBelow, WholeHours
<1>3. CASE RollRead
  <2>1. /\ rpc = "idle" /\ rpc' = "mark" /\ rstart' = FloorHour(last_ran)
        /\ rend' = FloorHour(now) /\ UNCHANGED <<last_ran, usage>>
    BY <1>3 DEF RollRead
  <2>2. hpc = "idle"
    BY <1>3 DEF RollRead
  <2>3. FloorHour(rend') = rend'
    BY <1>0, <2>1, WholeHours
  <2>4. RowsOK'
    BY <1>0, <1>1, <2>1 DEF Calls, RowsOK
  <2> QED BY <1>0, <1>1, <2>1, <2>2, <2>3, <2>4, CoverSame DEF CoverInv, Covered, Resets
<1>4. CASE RollMark
  <2>1. /\ rpc = "mark" /\ rpc' = (IF rend > rstart THEN "hour" ELSE "idle")
        /\ UNCHANGED <<last_ran, usage, rstart, rend>>
    BY <1>4 DEF RollMark
  <2>2. rstart = FloorHour(last_ran) /\ hpc = "idle" /\ rend \in Nat
    BY <1>0, <2>1 DEF MarkInv, CoverInv, TimesOK
  <2>3. RowsOK'
    BY <1>0, <1>1, <2>1 DEF Calls, RowsOK
  <2> QED BY <1>0, <1>1, <1>2, <2>1, <2>2, <2>3, CoverSame DEF CoverInv, Covered, Resets
<1>5. CASE RollHour
  <2>1. /\ rpc = "hour" /\ rstart' = rstart + HourSecs
        /\ rpc' = (IF rstart' < rend THEN "hour" ELSE "done") /\ UNCHANGED <<last_ran, rend>>
    BY <1>5 DEF RollHour
  <2>2. /\ rstart \in Nat /\ FloorHour(rstart) = rstart /\ hpc = "idle"
        /\ rend \in Nat /\ FloorHour(rend) = rend
    BY <1>0, <2>1 DEF TimesOK, CoverInv
  <2>3. FloorHour(rstart + HourSecs) = rstart + HourSecs /\ rstart + HourSecs \in Nat
    BY <2>2, WholeHours, RollupAssumption
  <2>4. usage' \in [Jobs -> [Hours -> Int]] /\ Covered(rstart)'
    BY <1>5, <2>1, HourPaid DEF Covered
  <2>5. RowsOK'
    BY <1>0, <1>1, <2>4 DEF Calls, RowsOK
  <2> QED BY <1>1, <2>1, <2>2, <2>3, <2>4, <2>5 DEF CoverInv, Resets
<1>6. CASE RollDone
  <2>1. rpc = "done" /\ rpc' = "idle" /\ last_ran' = rend /\ UNCHANGED <<usage, rstart, rend>>
    BY <1>6 DEF RollDone
  <2>2. /\ rend \in Nat /\ rstart \in Nat /\ rend <= rstart /\ hpc = "idle" /\ Covered(rstart)
        /\ FloorHour(rend) = rend
    BY <1>0, <2>1 DEF CoverInv, TimesOK
  <2>3. \A h \in Hours : h < FloorHour(rend) => h < rstart
    BY <2>2, HoursAre
  <2>4. RowsOK'
    BY <1>0, <1>1, <2>1 DEF Calls, RowsOK
  <2> QED BY <1>1, <2>1, <2>2, <2>3, <2>4, CoverSame DEF CoverInv, Covered, Resets
<1> QED BY <1>3, <1>4, <1>5, <1>6

LEMMA LateInvInductive ==
  ASSUME MarkInv, mishaps = {} => LateInv, [Next]_vars
  PROVE  mishaps' = {} => LateInv'
<1> SUFFICES ASSUME mishaps' = {} PROVE LateInv'
  OBVIOUS
<1>1. mishaps = {}
  <2>1. mishaps \subseteq mishaps'
    <3>1. CASE Tick \/ Handle
      BY <3>1 DEF Tick, Handle, Receive, CheckStart, CheckEnd, ResetLastRan, Lookup, InsertJob,
                  UpdateJob
    <3>2. CASE RollRead \/ RollMark \/ RollHour \/ RollFail \/ RollDone \/ Restart
      BY <3>2 DEF RollRead, RollMark, RollHour, RollFail, RollDone, Restart, Mishap
    <3>3. CASE \E j \in Jobs : Submit(j) \/ Run(j) \/ Finish(j)
      BY <3>3 DEF Submit, Run, Finish, Event, Mishap
    <3>4. CASE UNCHANGED vars
      BY <3>4 DEF vars
    <3> QED BY <3>1, <3>2, <3>3, <3>4 DEF Next
  <2> QED BY <2>1
<1>2. LateInv /\ TimesOK /\ Calls /\ CoverInv /\ now \in Nat
  BY <1>1 DEF LateInv, MarkInv, Calls, TimesOK
<1> SUFFICES Calls' /\ CoverInv'
  BY DEF LateInv, Calls
<1>3. CASE Tick
  <2>1. UNCHANGED <<ctl, pending, db, usage, hpc, hcall, hreset, last_ran, rpc, rstart, rend>>
    BY <1>3 DEF Tick, handler, roller
  <2>2. now' = now + 1 /\ now < MaxTime
    BY <1>3 DEF Tick
  <2>3. now' \in 1..MaxTime
    BY <1>2, <2>2, RollupAssumption
  <2>4. RowsOK'
    BY <1>2, <2>1, <2>3 DEF Calls, RowsOK
  <2> QED BY <1>2, <2>1, <2>2, <2>4, CallsFrame, CoverFrame
<1>4. CASE \E j \in Jobs : Submit(j) \/ Run(j) \/ Finish(j)
  <2>1. PICK j \in Jobs : Submit(j) \/ Run(j) \/ Finish(j)
    BY <1>4
  <2>2. UNCHANGED <<db, usage, hpc, hcall, hreset, last_ran, rpc, rstart, rend>>
    BY <2>1 DEF Submit, Run, Finish, Event, handler, roller
  <2> QED BY <1>2, <2>1, <2>2, EventCalls, CoverFrame
<1>5. CASE Receive
  BY <1>1, <1>2, <1>5, ReceiveCalls, CheckCover
<1>6. CASE CheckStart \/ CheckEnd \/ ResetLastRan
  <2>1. UNCHANGED <<now, ctl, pending, db, usage, hcall>>
    BY <1>6 DEF CheckStart, CheckEnd, ResetLastRan, ctlVars
  <2>2. /\ hpc # "idle" /\ hpc' # "idle"
        /\ hpc \in {"job_start", "reset_insert"} => hpc' \in {"reset_insert", "insert"}
        /\ hpc \notin {"job_start", "reset_insert"} => hpc' \in {"reset_lookup", "lookup"}
    BY <1>6 DEF CheckStart, CheckEnd, ResetLastRan, Reset
  <2>3. hpc \in IF hcall.op = "job_start" THEN {"job_start", "reset_insert", "insert"}
                ELSE {"job_complete", "reset_lookup", "lookup", "update"}
    BY <1>2, <2>2 DEF Calls, HandInv
  <2>4. hpc' \in IF hcall.op = "job_start" THEN {"job_start", "reset_insert", "insert"}
                 ELSE {"job_complete", "reset_lookup", "lookup", "update"}
    <3>1. hpc \in {"job_start", "job_complete", "reset_insert", "reset_lookup"}
      BY <1>6 DEF CheckStart, CheckEnd, ResetLastRan
    <3> QED BY <2>2, <2>3, <3>1
  <2>5. RowsOK'
    BY <1>2, <2>1, <2>2 DEF Calls, RowsOK
  <2> QED BY <1>1, <1>2, <1>6, <2>1, <2>2, <2>4, <2>5, CallsFrame, CheckCover
<1>7. CASE Lookup
  <2>1. hpc = "lookup" /\ UNCHANGED <<now, ctl, pending, db, usage, hcall>>
    BY <1>7 DEF Lookup, ctlVars
  <2>2. hcall \in HandRec
    BY <1>2, <2>1 DEF Calls, RowsOK
  <2>3. /\ hcall.op # "job_start" /\ hcall.op = OpOf(hcall)
        /\ Stage(hcall) = Stage(RowOf(hcall.job)) + 1
    BY <1>2, <2>1 DEF Calls, HandInv
  <2>4. RowOf(hcall.job) # NoRow
    BY <2>3, Stages DEF OpOf
  <2>5. hpc' = "update"
    BY <1>7, <2>4 DEF Lookup, RowOf
  <2>6. RowsOK'
    BY <1>2, <2>1, <2>5 DEF Calls, RowsOK
  <2> QED BY <1>1, <1>2, <1>7, <2>1, <2>3, <2>5, <2>6, CallsFrame, CheckCover
<1>8. CASE InsertJob \/ UpdateJob
  BY <1>1, <1>2, <1>8, RecordCalls, RecordCover
<1>9. CASE RollRead \/ RollMark \/ RollHour \/ RollDone
  <2>1. UNCHANGED <<now, ctl, pending, db, hpc, hcall>>
    BY <1>9 DEF RollRead, RollMark, RollHour, RollDone, ctlVars, handler
  <2> QED BY <1>1, <1>2, <1>9, <2>1, RollCover, CallsFrame
<1>10. CASE RollFail \/ Restart
  BY <1>10 DEF RollFail, Restart, Mishap
<1>11. CASE UNCHANGED vars
  <2>1. UNCHANGED <<now, ctl, pending, db, usage, hpc, hcall, hreset, last_ran, rpc, rstart, rend>>
    BY <1>11 DEF vars, ctlVars, handler, roller
  <2>2. RowsOK'
    BY <1>2, <2>1 DEF Calls, RowsOK
  <2> QED BY <1>2, <2>1, <2>2, CallsFrame, CoverFrame
<1> QED BY <1>3, <1>4, <1>5, <1>6, <1>7, <1>8, <1>9, <1>10, <1>11 DEF Next, Handle

LEMMA LateInvInit ==
  Init => LateInv
<1> SUFFICES ASSUME Init PROVE LateInv
  OBVIOUS
<1>1. RowsOK
  <2>1. NoRows \in RowsRec
    BY DEF NoRows, NoRow, RowsRec, RowRec, States
  <2> QED BY <2>1, RollupAssumption DEF Init, RowsOK
<1>2. \A j \in Jobs : ctl[j] = NewJob /\ RowOf(j) = NoRow /\ Stage(ctl[j]) = 0 /\ Known(j) = 0
  BY Stages DEF Init, RowOf, NoRows, Known
<1>3. LifeInv /\ RowInv /\ CallInv /\ HandInv
  <2>1. LifeInv
    BY <1>2 DEF LifeInv, LifeOK, NewJob
  <2>2. CallInv
    BY <1>2 DEF Init, CallInv
  <2>3. HandInv
    BY DEF Init, HandInv
  <2> QED BY <1>2, <2>1, <2>2, <2>3 DEF RowInv
<1>4. \A j \in Jobs, h \in Hours : Paid(j, h)
  <2> TAKE j \in Jobs, h \in Hours
  <2>1. GoodRow(NoRow) /\ h \in Nat /\ HourSecs \in Nat
    BY HoursAre, RollupAssumption DEF GoodRow, NoRow, RowRec, States
  <2>2. RanIn(NoRow, h) = 0
    BY <2>1 DEF RanIn, NoRow
  <2> QED BY <1>2, <2>2 DEF Paid
<1>5. CoverInv
  BY <1>4 DEF Init, CoverInv, Covered, Resets
<1> QED BY <1>1, <1>3, <1>5 DEF LateInv

\* Once every call has been handled the rows say what is true of the jobs.
LEMMA LateInvCovers ==
  ASSUME MarkInv, mishaps = {} => LateInv
  PROVE  HoursCovered
<1> SUFFICES ASSUME mishaps = {}, pending = <<>>, hpc = "idle", rpc = "idle",
                    NEW j \in Jobs, NEW h \in Hours, h < FloorHour(last_ran)
             PROVE  usage[j][h] >= RanIn(ctl[j], h) \/ RanIn(ctl[j], h) = 0
  BY DEF HoursCovered, UsageComplete
<1>1. TimesOK /\ Calls /\ CoverInv
  BY DEF LateInv, MarkInv, Calls
<1>2. Known(j) = Stage(ctl[j])
  <2>1. Known(j) \in 0..Stage(ctl[j]) /\ Stage(ctl[j]) \in 0..3
    BY <1>1, KnownBounded, Stages
  <2>2. \A n \in Known(j) + 1 .. Stage(ctl[j]) : FALSE
    BY <1>1 DEF Calls, CallInv
  <2>3. Known(j) < Stage(ctl[j]) => Stage(ctl[j]) \in Known(j) + 1 .. Stage(ctl[j])
    BY <2>1
  <2> QED BY <2>1, <2>2, <2>3
<1>3. Stage(RowOf(j)) = Stage(ctl[j])
  BY <1>2 DEF Known
<1>4. Paid(j, h)
  BY <1>1 DEF CoverInv, Covered
<1>5. LifeOK(ctl[j]) /\ (RowOf(j) = NoRow \/ (Stage(RowOf(j)) > 0 /\ Told(RowOf(j), ctl[j])))
  BY <1>1 DEF Calls, LifeInv, RowInv
<1>6. CASE Stage(ctl[j]) < 2
  BY <1>5, <1>6, Stages DEF LifeOK, RanIn
<1>7. CASE Stage(ctl[j]) >= 2
  <2>1. RowOf(j).start = ctl[j].start /\ RowOf(j).end = ctl[j].end
    BY <1>3, <1>5, <1>7, Stages DEF Told, LifeOK
  <2>2. RanIn(RowOf(j), h) = RanIn(ctl[j], h)
    BY <2>1 DEF RanIn
  <2> QED BY <1>4, <2>2 DEF Paid
<1> QED BY <1>6, <1>7, Stages

\* As long as calls and rolls take turns, no hour fails, no start is purged, calls
\* know their row and SlurmDBD is not restarted, the resets of job_start and
\* job_complete bring every hour of every job into the usage tables, however many
\* jobs there are, however late their calls and however long the hour.
THEOREM HoursCoveredAlways ==
  Spec => []HoursCovered
<1> DEFINE Inv == MarkInv /\ (mishaps = {} => LateInv)
<1>1. Init => Inv
  BY MarkInvInit, LateInvInit
<1>2. Inv /\ [Next]_vars => Inv'
  BY MarkInvInductive, LateInvInductive
<1>3. Inv => HoursCovered
  BY LateInvCovers
<1> QED BY <1>1, <1>2, <1>3, PTL DEF Spec
=============================================================================
