----------------------------- MODULE SacctQuery ------------------------------
(***************************************************************************)
(* The jobs sacct is given for a command line p of SacctOptions            *)
(* (mysql_jobacct_process_get_jobs), and what it makes of them before it   *)
(* prints them (get_data, do_list, do_dump of src/options.c).  A row of    *)
(* the job table has its association [user, cluster, acct] (NoAssoc when   *)
(* the left join finds none) and the rows of its steps; node_inx is a set  *)
(* of positions in the node list of its cluster.                           *)
(***************************************************************************)
EXTENDS SacctOptions

CONSTANT JobRows,      \* job_table, step_table and suspend_table, in the order of their ids
         Periods,      \* the rows of event_table without a node: [cluster, hosts, start, end]
         ClusterNames  \* the names of the clusters, in the order in which MySQL sorts them

Q == INSTANCE JobTables

NoAssoc == [user |-> "", cluster |-> "", acct |-> ""]
Window(p) == [from |-> p.start, till |-> p.end, states |-> Range(p.state_list)]

-----------------------------------------------------------------------------
(* The nodes a job ran on                                                  *)

NoPeriod == [start |-> -1, end |-> -1, asked |-> {}]
Hosts(p) == Range(p.nodes) \ {","}

\* setup_cluster_list_with_inx: the periods in which the cluster had one of the
\* hosts; it closes the window of the question.
setup_cluster_list_with_inx(p) ==
  LET end == IF p.start # 0 /\ p.end = 0 THEN Now ELSE p.end
      Asked(q) == {i \in 1..Len(q.hosts) : q.hosts[i] \in Hosts(p)}
      found == SelectSeq(Periods,
                 LAMBDA q : /\ q.cluster = p.cluster_list[1]
                            /\ Asked(q) # {}
                            /\ p.start # 0 => q.start < end /\ (q.end >= p.start \/ q.end = 0))
  IN IF Len(p.cluster_list) # 1 \/ Hosts(p) = {} THEN [list |-> <<>>, curr |-> NoPeriod, end |-> p.end]
     ELSE LET list == [i \in 1..Len(found) |->
                         [start |-> found[i].start, asked |-> Asked(found[i]),
                          end |-> IF found[i].end = 0 THEN Now ELSE found[i].end]]
              open == SelectLastInSeq(found, LAMBDA q : q.end = 0)
          IN [list |-> list, curr |-> IF open = 0 THEN NoPeriod ELSE list[open], end |-> end]

\* good_nodes_from_inx: without an open period everything passes; the period of
\* the last job is looked at first.
good_nodes_from_inx(list, curr, inx, time) ==
  LET Covers(q) == q.start <= time /\ time <= q.end
      at == SelectInSeq(list, Covers)
      now == IF Covers(curr) THEN curr ELSE IF at = 0 THEN NoPeriod ELSE list[at]
  IN CASE curr = NoPeriod -> [ok |-> TRUE, curr |-> curr]
       [] curr # NoPeriod /\ (inx = {} \/ now = NoPeriod) -> [ok |-> FALSE, curr |-> curr]
       [] OTHER -> [ok |-> now.asked \cap inx # {}, curr |-> now]

-----------------------------------------------------------------------------
(* The rows of the query                                                   *)

In(list, value) == list = <<>> \/ value \in Range(list)

\* Mutant: the cluster of a job is taken from its association only.
setup_job_cond_limits_Assoc(new, p, r) ==
  /\ In(p.acct_list, r.account) /\ In(p.uid_list, r.uid) /\ In(p.gid_list, r.gid)
  /\ In(p.partition_list, r.partition) /\ In(p.wckey_list, r.wckey)
  /\ p.step_list # <<>> => \E i \in DOMAIN p.step_list : p.step_list[i].jobid = r.jobid
  /\ Q!Selects(new, r, r.eligible, Window(p))
  /\ In(p.cluster_list, r.assoc.cluster)

\* setup_job_cond_limits (and, with NEWQUERY, _state_time_string).
setup_job_cond_limits(new, p, r) ==
  /\ In(p.acct_list, r.account) /\ In(p.uid_list, r.uid) /\ In(p.gid_list, r.gid)
  /\ In(p.partition_list, r.partition) /\ In(p.wckey_list, r.wckey)
  /\ p.step_list # <<>> => \E i \in DOMAIN p.step_list : p.step_list[i].jobid = r.jobid
  /\ Q!Selects(new, r, r.eligible, Window(p))
  /\ In(p.cluster_list, r.cluster) \/ In(p.cluster_list, r.assoc.cluster)

Place(c) == SelectInSeq(ClusterNames, LAMBDA d : d = c)
Before(a, b) ==   \* of two tuples of numbers of one length
  \E k \in 1..Len(a) : a[k] < b[k] /\ \A j \in 1..(k - 1) : a[j] = b[j]

\* The order of the rows; group by leaves one of those with the same job id and
\* submit time (the first, of the ones MySQL may choose).
QueryRows(new, p) ==
  LET Key(i) == LET r == JobRows[i]
                IN CASE new -> <<r.jobid, 0 - r.submit, i>>
                     [] ~new /\ ~p.dup -> <<Place(r.cluster), r.jobid, 0 - r.submit, i>>
                     [] OTHER -> <<Place(r.cluster), 0 - r.submit, i>>
      found == {i \in 1..Len(JobRows) : setup_job_cond_limits(new, p, JobRows[i])}
      first == {i \in found : ~new \/ \A j \in found :
                  j < i => JobRows[j].jobid # JobRows[i].jobid
                           \/ JobRows[j].submit # JobRows[i].submit}
      sorted == SetToSortSeq(first, LAMBDA i, j : Before(Key(i), Key(j)))
  IN [k \in 1..Len(sorted) |-> JobRows[sorted[k]]]

-----------------------------------------------------------------------------
(* Records                                                                 *)

NoStats == [vsize |-> [max |-> 0, task |-> 0, node |-> 0, ave |-> 0],
            rss |-> [max |-> 0, task |-> 0, node |-> 0, ave |-> 0],
            pages |-> [max |-> 0, task |-> 0, node |-> 0, ave |-> 0],
            cpu |-> [min |-> 0, task |-> 0, node |-> 0, ave |-> 0]]
NoTime == [sec |-> 0, usec |-> 0]
Plus(a, b) == [sec |-> a.sec + b.sec, usec |-> a.usec + b.usec]

\* create_jobacct_step_rec: the total time of a step starts at NO_VAL, which
\* NEWQUERY sets to 0.
FirstTotal(new) == IF new THEN NoTime ELSE [sec |-> NO_VAL, usec |-> NO_VAL]

\* The times of a step; NEWQUERY leaves out those of a step without statistics.
StepCpu(new, s) ==
  IF new /\ s.sacct.cpu.min = NO_VAL
  THEN [user |-> NoTime, sys |-> NoTime, tot |-> NoTime]
  ELSE [user |-> s.user, sys |-> s.sys, tot |-> Plus(FirstTotal(new), Plus(s.user, s.sys))]

StepStats(new, s) ==
  IF new /\ s.sacct.cpu.min = NO_VAL THEN [NoStats EXCEPT !.cpu.min = NO_VAL] ELSE s.sacct

\* The record of a step: one that is not over ends with its job.
StepRec(new, r, s, times) ==
  [stepid |-> s.stepid, stepname |-> s.name, nodes |-> s.nodes, nnodes |-> s.nnodes,
   ncpus |-> s.ncpus, ntasks |-> IF s.ntasks = 0 THEN s.ncpus ELSE s.ntasks,
   state |-> IF s.end = 0 /\ r.end # 0 THEN r.state ELSE s.state,
   start |-> times.start, end |-> times.end, elapsed |-> times.elapsed,
   suspended |-> s.suspended, exitcode |-> s.exitcode, requid |-> s.requid,
   task_dist |-> s.task_dist, cpu |-> StepCpu(new, s), sacct |-> StepStats(new, s)]
StepOfRow(new, p, r, s) ==
  StepRec(new, r, s, Q!StepRecord(new, [row |-> r, step |-> s, susp |-> r.susp], Window(p),
                                  p.truncate, Now))

\* The steps a list of -j selects of a job: the ones before an entry for the
\* whole job, at which the search ends; all when there is none.
WantedSteps(p, jobid) ==
  LET mine == SelectSeq(p.step_list, LAMBDA e : e.jobid = jobid)
      whole == SelectInSeq(mine, LAMBDA e : e.stepid = NO_VAL)
      named == IF whole = 0 THEN mine ELSE SubSeq(mine, 1, whole - 1)
  IN [show_full |-> mine = <<>> \/ whole # 0,
      ids |-> {named[i].stepid : i \in DOMAIN named}]

\* A job shows its steps when it has several, or one with a name of its own.
TrackSteps(r, steps) ==
  \/ r.track_steps
  \/ Len(steps) > 1
  \/ Len(steps) = 1 /\ steps[1].stepname # r.name

\* The old build counts the total of the steps here and again in get_data.
JobRec(new, r, steps, show_full, times) ==
  LET tot == IF new THEN NoTime ELSE FoldLeft(LAMBDA t, s : Plus(t, s.cpu.tot), NoTime, steps)
  IN [jobid |-> r.jobid, cluster |-> IF r.assoc.cluster # "" THEN r.assoc.cluster ELSE r.cluster,
      user |-> r.assoc.user, uid |-> IF r.assoc.user # "" THEN "0" ELSE r.uid,
      account |-> IF r.assoc.acct # "" THEN r.assoc.acct ELSE r.account,
      gid |-> r.gid, associd |-> r.associd, wckey |-> r.wckey, wckeyid |-> r.wckeyid,
      partition |-> r.partition, blockid |-> r.blockid, jobname |-> r.name,
      eligible |-> r.eligible, submit |-> r.submit, start |-> times.start, end |-> times.end,
      elapsed |-> times.elapsed, suspended |-> times.suspended, timelimit |-> r.timelimit,
      state |-> r.state, exitcode |-> r.exitcode, priority |-> r.priority,
      req_cpus |-> r.req_cpus, alloc_cpus |-> r.alloc_cpus, alloc_nodes |-> r.alloc_nodes,
      nodes |-> IF r.nodes = <<>> THEN <<"(unknown)">> ELSE r.nodes, requid |-> r.requid,
      qos |-> r.qos, show_full |-> show_full, track_steps |-> TrackSteps(r, steps),
      cpu |-> [user |-> NoTime, sys |-> NoTime, tot |-> tot],
      sacct |-> [NoStats EXCEPT !.cpu.min = NO_VAL], steps |-> steps]

JobOfRow(new, p, r, steps) ==
  JobRec(new, r, steps, WantedSteps(p, r.jobid).show_full,
         Q!JobRecord([row |-> r, susp |-> r.susp], Window(p), p.truncate, Now))

-----------------------------------------------------------------------------
(* The list of the jobs                                                    *)

LoadSteps(new, p, r, ids, list, curr, time) ==
  LET Keep(st, s, good) ==
        [steps |-> IF good.ok THEN Append(st.steps, StepOfRow(new, p, r, s)) ELSE st.steps,
         curr |-> good.curr]
      Take(st, s) == IF ids # {} /\ s.stepid \notin ids THEN st
                     ELSE Keep(st, s, good_nodes_from_inx(list, st.curr, s.node_inx, time))
  IN FoldLeft(Take, [steps |-> <<>>, curr |-> curr], r.steps)

\* Without --duplicates the last run of a job is kept: the first row of each job
\* id.  NEWQUERY puts the runs of a job before all the others.
LoadJobs(new, p, rows, nodes) ==
  LET Time(r) == IF new THEN r.start ELSE r.submit
      Put(st, job) == IF new /\ job.jobid = st.last THEN <<job>> \o st.jobs ELSE Append(st.jobs, job)
      Add(st, r, load) == [last |-> r.jobid, curr |-> load.curr,
                           jobs |-> Put(st, JobOfRow(new, p, r, load.steps))]
      Keep(st, r, good) ==
        IF ~good.ok THEN [st EXCEPT !.last = r.jobid, !.curr = good.curr]
        ELSE Add(st, r, LoadSteps(new, p, r, WantedSteps(p, r.jobid).ids, nodes.list, good.curr, Time(r)))
      Take(st, r) == IF ~p.dup /\ r.jobid = st.last THEN st
                     ELSE Keep(st, r, good_nodes_from_inx(nodes.list, st.curr, r.node_inx, Time(r)))
  IN FoldLeft(Take, [last |-> -1, curr |-> nodes.curr, jobs |-> <<>>], rows).jobs

\* [rc, jobs]; query: whether the queries of the jobs and of the steps succeed.
GetRows(new, p, rows, nodes, query) ==
  IF query = "no jobs" \/ (query = "no steps" /\ rows # <<>>) THEN [rc |-> "error", jobs |-> <<>>]
  ELSE [rc |-> "ok", jobs |-> LoadJobs(new, p, rows, nodes)]
GetWindow(new, p, nodes, query) ==
  IF p.nodes # <<>> /\ nodes.list = <<>> THEN [rc |-> "error", jobs |-> <<>>]
  ELSE LET asked == [p EXCEPT !.end = nodes.end]
       IN GetRows(new, asked, QueryRows(new, asked), nodes, query)
mysql_jobacct_process_get_jobs(new, p, query) ==
  GetWindow(new, p, IF p.nodes # <<>> THEN setup_cluster_list_with_inx(p)
                    ELSE [list |-> <<>>, curr |-> NoPeriod, end |-> p.end], query)

-----------------------------------------------------------------------------
(* get_data                                                                *)

Larger(dest, from, s) ==
  [max |-> IF dest[s].max < from[s].max THEN from[s].max ELSE dest[s].max,
   task |-> IF dest[s].max < from[s].max THEN from[s].task ELSE dest[s].task,
   node |-> IF dest[s].max < from[s].max THEN from[s].node ELSE dest[s].node,
   ave |-> dest[s].ave + from[s].ave]

\* aggregate_sacct
aggregate_sacct(dest, from) ==
  LET less == dest.cpu.min > from.cpu.min \/ dest.cpu.min = NO_VAL
  IN [vsize |-> Larger(dest, from, "vsize"), rss |-> Larger(dest, from, "rss"),
      pages |-> Larger(dest, from, "pages"),
      cpu |-> [min |-> IF less THEN from.cpu.min ELSE dest.cpu.min,
               task |-> IF less THEN from.cpu.task ELSE dest.cpu.task,
               node |-> IF less THEN from.cpu.node ELSE dest.cpu.node,
               ave |-> dest.cpu.ave + from.cpu.ave]]

Unfinished == {"PENDING", "RUNNING", "SUSPENDED"}

\* A step that is over is added to its job.
AddStep(job, s) ==
  LET more == [job EXCEPT !.alloc_cpus = IF @ < s.ncpus THEN s.ncpus ELSE @]
  IN IF s.state \in Unfinished THEN more
     ELSE [more EXCEPT !.cpu = [k \in {"user", "sys", "tot"} |-> Plus(@[k], s.cpu[k])],
                       !.sacct = aggregate_sacct(@, s.sacct)]

\* Mutant: the steps are added whether they are over or not.
get_data_All(jobs) ==
  LET AddAny(job, s) ==
        [job EXCEPT !.cpu = [k \in {"user", "sys", "tot"} |-> Plus(@[k], s.cpu[k])]]
  IN [i \in 1..Len(jobs) |-> FoldLeft(AddAny, jobs[i], jobs[i].steps)]

\* The uid of a named user is the system's.
get_data(jobs) ==
  LET Named(job) == IF job.user \in DOMAIN Users THEN [job EXCEPT !.uid = Users[job.user]] ELSE job
  IN [i \in 1..Len(jobs) |-> FoldLeft(AddStep, Named(jobs[i]), jobs[i].steps)]

\* do_list, do_dump: the averages are over all steps.
Averaged(job) ==
  LET n == Len(job.steps)
      Ave(s) == IF n = 0 THEN job.sacct[s].ave ELSE job.sacct[s].ave \div n
  IN [job EXCEPT !.sacct = [s \in DOMAIN @ |-> [@[s] EXCEPT !.ave = Ave(s)]],
                 !.sacct.cpu.min = IF @ = NO_VAL THEN 0 ELSE @]

\* A step that is not over is shown with the end of its job.
Ended(job, s) == IF s.end = 0 THEN [s EXCEPT !.end = job.end] ELSE s

Object(type, job, step, files) ==
  [type |-> type, job |-> job, step |-> step, comp |-> <<>>,
   passwd |-> files.passwd, group |-> files.group]

\* print_fields shows a job with its first step unless it shows its steps; one
\* without steps as if it showed them.
JobObject(job, files) ==
  LET step == IF job.track_steps \/ job.steps = <<>> THEN NoStep ELSE job.steps[1]
  IN Object("JOB", [job EXCEPT !.track_steps = @ \/ step = NoStep], step, files)

\* do_list: the objects print_fields is called with.
do_list(p, jobs, files) ==
  LET Listed(list, j) ==
        LET job == Averaged(j)
            own == IF job.show_full THEN <<JobObject(job, files)>> ELSE <<>>
            steps == IF ~p.allocs /\ (job.track_steps \/ ~job.show_full)
                     THEN [i \in 1..Len(job.steps) |->
                             Object("JOBSTEP", job, Ended(job, job.steps[i]), files)]
                     ELSE <<>>
        IN list \o own \o steps
  IN FoldLeft(Listed, <<>>, jobs)

\* do_dump: the start, the steps and the end of each job.
do_dump(jobs) ==
  LET Dumped(list, j) ==
        LET job == Averaged(j)
            Rec(type, s) == <<[type |-> type, job |-> job, step |-> s]>>
        IN list \o (IF job.show_full THEN Rec("JOB_START", NoStep) ELSE <<>>)
           \o [i \in 1..Len(job.steps) |-> [type |-> "JOB_STEP", job |-> job,
                                            step |-> Ended(job, job.steps[i])]]
           \o (IF job.show_full THEN Rec("JOB_TERMINATED", NoStep) ELSE <<>>)
  IN FoldLeft(Dumped, <<>>, jobs)
=============================================================================
