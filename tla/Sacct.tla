-------------------------------- MODULE Sacct --------------------------------
(***************************************************************************)
(* One run of sacct (main of src/sacct.c): a command line is given, is     *)
(* parsed, the data is fetched from the accounting storage or from the job *)
(* completion log, which slurmctld may have written to, and is printed.    *)
(***************************************************************************)
EXTENDS SacctQuery

CONSTANT Number,         \* of JobComp
         Options,        \* the options that may be given
         LogOptions,     \* the first ones, the second ones... given when the completion log has records
         MaxOptions,     \* bound: options of a command line
         Worlds,         \* the configuration [storage, jobcomp, files, opened] and the files
                         \* of compat_pwdgrp [passwd, group]: [conf, files]
         Completed,      \* the jobs slurmctld may log
         LogUsers, LogGroups,  \* the names uid_to_string, gid_to_string give
         CutPoints,      \* bound: where a record may be cut
         MaxRecords      \* bound: records of the completion log

C == INSTANCE JobComp

VARIABLES new,       \* the build: with NEWQUERY or without
          conf, files,
          log,       \* the text of the completion log
          logged,    \* the records written to it: [job, whole]
          names,     \* the caches of _get_user_name and _get_group_name
          options, params, phase,
          jobs,      \* the global jobs
          out        \* what was printed

vars == <<new, conf, files, log, logged, names, options, params, phase, jobs, out>>

Init ==
  /\ new \in BOOLEAN
  /\ \E w \in Worlds : conf = w.conf /\ files = w.files
  /\ log = <<>> /\ logged = <<>>
  /\ names = [user |-> [id |-> "0", name |-> "root"], group |-> [id |-> "0", name |-> "root"]]
  /\ options = <<>> /\ params = _init_params /\ phase = "given"
  /\ jobs = <<>> /\ out = <<>>

\* slurmctld logs a job that is over; a record longer than its buffer, or than
\* what could be written, is cut.
Log(job, cut) ==
  LET user == C!_get_user_name(names.user, LogUsers, job.uid)
      group == C!_get_group_name(names.group, LogGroups, job.gid)
      size == Len(C!JOB_FORMAT(job, user, group))
  IN /\ phase = "given" /\ options = <<>> /\ conf.jobcomp = "filetxt" /\ conf.opened
     /\ Len(logged) < MaxRecords
     /\ log' = C!slurm_jobcomp_log_record(log, job, user, group, IF cut < size THEN cut ELSE size)
     /\ logged' = Append(logged, [job |-> job, whole |-> cut >= size])
     /\ names' = [user |-> user, group |-> group]
     /\ UNCHANGED <<new, conf, files, options, params, phase, jobs, out>>

Give(option) ==
  /\ phase = "given" /\ Len(options) < MaxOptions
  /\ option \in IF logged = <<>> THEN Options ELSE LogOptions[Len(options) + 1]
  /\ options' = Append(options, option)
  /\ UNCHANGED <<new, conf, files, log, logged, names, params, phase, jobs, out>>

Parse(rest) ==
  /\ phase = "given"
  /\ params' = parse_command_line(new, conf, options, rest)
  /\ phase' = IF Operation(params') \in {"list", "dump", "fdump"} THEN "get" ELSE Operation(params')
  /\ UNCHANGED <<new, conf, files, log, logged, names, options, jobs, out>>

Help ==
  /\ phase = "help"
  /\ phase' = "done"
  /\ UNCHANGED <<new, conf, files, log, logged, names, options, params, jobs, out>>

\* A query may fail; with -O get_data returns before it looks at the jobs.
Fetched(got) ==
  /\ phase' = CASE Operation(params) = "fdump" -> "done"
                [] Operation(params) # "fdump" /\ got.rc = "error" -> "exit errno"
                [] OTHER -> "print"
  /\ jobs' = IF Operation(params) = "fdump" THEN got.jobs ELSE get_data(got.jobs)
GetJobs(query) ==
  /\ phase = "get" /\ ~params.completion
  /\ Fetched(mysql_jobacct_process_get_jobs(new, params, query))
  /\ UNCHANGED <<new, conf, files, log, logged, names, options, params, out>>

\* jobcomp/none has no list of jobs, which -d does not look at before it walks it;
\* a log that does not exist ends the program.
GetCompletions ==
  LET asked == {params.step_list[i].jobid : i \in DOMAIN params.step_list}
      got == C!filetxt_jobcomp_process_get_jobs(new, log, asked, Range(params.partition_list),
                                                params.fdump)
      none == conf.jobcomp = "none"
  IN /\ phase = "get" /\ params.completion
     /\ phase' = CASE ~none /\ ~conf.opened -> "exit 1"
                   [] (~none /\ conf.opened /\ got.crash) \/ (none /\ params.dump) -> "crash"
                   [] OTHER -> IF Operation(params) = "fdump" THEN "done" ELSE "print"
     /\ jobs' = IF none THEN <<>> ELSE got.jobs
     /\ out' = IF none THEN <<>> ELSE got.dumped
     /\ UNCHANGED <<new, conf, files, log, logged, names, options, params>>

List ==
  LET objects == do_list(params, jobs, files)
  IN /\ phase = "print" /\ ~params.completion /\ ~params.dump
     /\ out' = [i \in 1..Len(objects) |->
                  [o |-> objects[i], row |-> print_fields(new, objects[i], params.fields)]]
     /\ phase' = "done"
     /\ UNCHANGED <<new, conf, files, log, logged, names, options, params, jobs>>

Dump ==
  /\ phase = "print" /\ ~params.completion /\ params.dump
  /\ out' = do_dump(jobs)
  /\ phase' = "done"
  /\ UNCHANGED <<new, conf, files, log, logged, names, options, params, jobs>>

Types == {params.fields[i].type : i \in DOMAIN params.fields}

\* parse_time of a time the record does not have.
TimeCrashes(comp) ==
  \/ "START" \in Types /\ comp.start_time = -1 /\ ~(new /\ comp.end_time # -1)
  \/ "SUBMIT" \in Types /\ comp.start_time = -1
  \/ "END" \in Types /\ comp.end_time = -1

\* do_list_completion.  NEWQUERY compares the addresses of the two times and
\* takes the end for the start when the start lies higher (later: the jobs for
\* which it does), or when there is no start.
ListCompletions(later) ==
  LET Comp(i) == IF new /\ "START" \in Types /\ jobs[i].end_time # -1
                    /\ (i \in later \/ jobs[i].start_time = -1)
                 THEN [jobs[i] EXCEPT !.start_time = jobs[i].end_time] ELSE jobs[i]
      Obj(i) == [type |-> "JOBCOMP", job |-> <<>>, step |-> NoStep, comp |-> Comp(i),
                 passwd |-> files.passwd, group |-> files.group]
  IN /\ phase = "print" /\ params.completion /\ ~params.dump
     /\ later \subseteq IF new /\ "START" \in Types THEN DOMAIN jobs ELSE {}
     /\ IF \E i \in DOMAIN jobs : TimeCrashes(jobs[i])
        THEN phase' = "crash" /\ out' = <<>>
        ELSE /\ phase' = "done"
             /\ out' = [i \in 1..Len(jobs) |->
                          [o |-> Obj(i), row |-> print_fields(new, Obj(i), params.fields)]]
     /\ UNCHANGED <<new, conf, files, log, logged, names, options, params, jobs>>

\* do_dump_completion
DumpCompletions ==
  /\ phase = "print" /\ params.completion /\ params.dump
  /\ out' = jobs
  /\ phase' = "done"
  /\ UNCHANGED <<new, conf, files, log, logged, names, options, params, jobs>>

Stopped == phase \in {"done", "exit 0", "exit 1", "exit errno", "crash"} /\ UNCHANGED vars

Next ==
  \/ \E job \in Completed : \E cut \in CutPoints : Log(job, cut)
  \/ \E option \in Options \cup UNION Range(LogOptions) : Give(option)
  \/ \E rest \in BOOLEAN : Parse(rest)
  \/ \E query \in {"ok", "no jobs", "no steps"} : GetJobs(query)
  \/ \E later \in SUBSET (1..MaxRecords) : ListCompletions(later)
  \/ GetCompletions \/ List \/ Dump \/ DumpCompletions \/ Help \/ Stopped

Spec == Init /\ [][Next]_vars

-----------------------------------------------------------------------------
(* What the options ask for                                                *)

\* Lists in which neither an empty name nor a quote occurs.
Plain ==
  \A i \in DOMAIN options : options[i].o \in {"A", "C", "g", "j", "r", "s", "u", "W", "N", "o"} =>
    \A k \in DOMAIN options[i].arg : /\ options[i].arg[k] # Quote
                                     /\ (options[i].arg[k] = ",") <=> (k % 2 = 0)
                                     /\ Len(options[i].arg) % 2 = 1

Given(o) == UNION {Range(options[i].arg) : i \in {j \in DOMAIN options : options[j].o = o}}
            \ {",", "-1"}
LastOf(letters) ==
  LET some == SelectSeq(options, LAMBDA opt : opt.o \in letters)
  IN IF some = <<>> THEN Opt("none", FALSE, <<>>) ELSE Last(some)
Flag(letters) == \E i \in DOMAIN options : options[i].o \in letters

Among(o, value) == Given(o) = {} \/ value \in Given(o)

\* -a, -u -1 and the names of -u: the last one decides.
AskedUser(r) ==
  \/ LastOf({"a", "u"}).o = "a"
  \/ LastOf({"a", "u"}).arg = <<"-1">>
  \/ Given("u") = {} /\ (Given("j") # {} \/ Given("N") # {})
  \/ Given("u") = {} /\ r.uid = Uid
  \/ \E n \in Given("u") : r.uid = IdOf(Users, n)
AskedCluster(r) ==
  \/ LastOf({"C"}).arg = <<"-1">>
  \/ Given("C") = {} /\ HomeCluster \in {"", r.cluster, r.assoc.cluster}
  \/ Given("C") \cap {r.cluster, r.assoc.cluster} # {}

AskedStart ==
  CASE LastOf({"S"}).o = "S" -> LastOf({"S"}).arg[1]
    [] LastOf({"S"}).o # "S" /\ new /\ Given("j") # {} -> 0
    [] LastOf({"S"}).o # "S" /\ new /\ Given("j") = {} /\ Given("s") # {} -> Now
    [] OTHER -> Midnight
AskedEnd ==
  CASE LastOf({"E"}).o = "E" -> LastOf({"E"}).arg[1]
    [] LastOf({"E"}).o # "E" /\ Given("N") # {} /\ AskedStart # 0 -> Now
    [] OTHER -> 0

Wanted(r) ==
  /\ Among("A", r.account) /\ Among("r", r.partition) /\ Among("W", r.wckey)
  /\ Given("g") = {} \/ \E n \in Given("g") : r.gid = IdOf(Groups, n)
  /\ Given("j") = {} \/ \E n \in Given("j") : StepArg[n].jobid = r.jobid
  /\ AskedUser(r) /\ AskedCluster(r)
  /\ Q!Selects(new, r, r.eligible, [from |-> AskedStart, till |-> AskedEnd,
                                    states |-> {decode_state_char(n) : n \in Given("s")}])

WantedRows == {i \in 1..Len(JobRows) : Wanted(JobRows[i])}

\* The last run of a job, or with --duplicates each one.
Newest(i) ==
  \/ Flag({"D", "O"})
  \/ \A j \in WantedRows : JobRows[j].jobid = JobRows[i].jobid => JobRows[j].submit <= JobRows[i].submit

OnNodes(x) == Given("N") = {} \/ Given("N") \cap Range(x.nodes) # {}

\* The rows to print for a job: <<job id, submit time, step id or -1>>.
AskedRows(r) ==
  LET asked == {StepArg[n] : n \in {m \in Given("j") : StepArg[m].jobid = r.jobid}}
      whole == asked = {} \/ \E e \in asked : e.stepid = NO_VAL
      steps == {k \in 1..Len(r.steps) :
                  /\ OnNodes(r.steps[k])
                  /\ whole \/ \E e \in asked : e.stepid = r.steps[k].stepid}
      shown == ~whole \/ r.track_steps \/ Cardinality(steps) > 1
               \/ \E k \in steps : r.steps[k].name # r.name
  IN (IF whole THEN {<<r.jobid, r.submit, -1>>} ELSE {})
     \cup {<<r.jobid, r.submit, r.steps[k].stepid>> :
            k \in IF shown /\ ~Flag({"t", "X"}) THEN steps ELSE {}}

\* Where the code is known to differ: the same job id on two clusters counts as
\* two runs of one job; without an open period the nodes are not looked at; the
\* build without NEWQUERY looks for the nodes at the time of the submission; a
\* job asked for as a whole and by step shows the steps named before it.
PeriodAt(r, time) ==
  {q \in Range(Periods) : q.cluster = r.cluster /\ q.start <= time /\ (q.end = 0 \/ time <= q.end)}
Regular ==
  /\ Plain
  /\ \A i, j \in WantedRows : JobRows[i].jobid = JobRows[j].jobid =>
       JobRows[i].cluster = JobRows[j].cluster
  /\ Given("N") # {} =>
       /\ \E q \in Range(Periods) : /\ q.cluster = params.cluster_list[1] /\ q.end = 0
                                    /\ Range(q.hosts) \cap Given("N") # {}
       /\ \A i \in WantedRows : PeriodAt(JobRows[i], JobRows[i].submit)
                                = PeriodAt(JobRows[i], JobRows[i].start)
  /\ \A m, n \in Given("j") : StepArg[m].jobid = StepArg[n].jobid =>
       (StepArg[m].stepid = NO_VAL <=> StepArg[n].stepid = NO_VAL)

Listing == phase = "done" /\ Operation(params) = "list"

StorageListed ==
  Listing /\ ~params.completion /\ Regular =>
    LET Key(k) == <<out[k].o.job.jobid, out[k].o.job.submit,
                    IF out[k].o.type = "JOB" THEN -1 ELSE out[k].o.step.stepid>>
        asked == UNION {AskedRows(JobRows[i]) :
                        i \in {j \in WantedRows : Newest(j) /\ OnNodes(JobRows[j])}}
    IN {Key(k) : k \in DOMAIN out} = asked /\ Len(out) = Cardinality(asked)

\* A record that is whole, follows a whole one and names its job in one word.
CleanRecord(i) == /\ logged[i].whole /\ Len(logged[i].job.name) = 1
                  /\ i > 1 => logged[i - 1].whole
CompletionListed ==
  Listing /\ params.completion /\ conf.jobcomp = "filetxt" /\ Plain =>
    /\ Len(out) <= Len(logged)
    /\ \A i \in {j \in DOMAIN logged : CleanRecord(j)} :
         LET job == logged[i].job
         IN (/\ Given("j") = {} \/ \E n \in Given("j") : StepArg[n].jobid = Number[job.id]
             /\ Among("r", job.partition)) =>
              \E k \in DOMAIN out :
                 LET comp == out[k].o.comp
                 IN /\ comp.jobid = Number[job.id] /\ comp.uid = job.uid
                    /\ comp.uid_name = LogUsers[job.uid] /\ comp.state = job.state
                    /\ comp.partition = job.partition /\ comp.end_time = Number[job.end]
                    /\ <<comp.jobname>> = job.name

\* sacct prints what was asked for: of the jobs in the storage the ones every
\* option selects, the last run of each, with the steps that were asked for, each
\* once; of the completion log each record that was written whole.
ListsWhatIsAsked == StorageListed /\ CompletionListed

-----------------------------------------------------------------------------
(* What the cells say                                                      *)

RowOf(o) == CHOOSE r \in Range(JobRows) : r.jobid = o.job.jobid /\ r.submit = o.job.submit
StepRowOf(o) == CHOOSE s \in Range(RowOf(o).steps) : s.stepid = o.step.stepid

\* The first well-formed line of a file with a value, if no line before it is so
\* long that a line too many is skipped (compat_pwdgrp.c).
FirstLine(file, Has(_)) == SelectInSeq(file, LAMBDA l : l.kind = "entry" /\ l.chunks = 1 /\ Has(l.entry))
Readable(file) == \A i \in DOMAIN file : file[i].chunks < 3
EntryOf(file, Has(_)) == LET at == FirstLine(file, Has) IN IF at = 0 THEN NoEntry ELSE file[at].entry

Means(field, o, cell) ==
  LET r == RowOf(o)
      ByUid(e) == e.id = r.uid
      ByName(e) == e.name = r.assoc.user
      ByGid(e) == e.id = r.gid
      Is(text) == cell = StrCell(text)
  IN CASE field = "JOBID" -> cell = IF o.type = "JOB" THEN <<r.jobid>> ELSE <<r.jobid, o.step.stepid>>
       [] field = "STATE" ->
            LET s == IF o.type = "JOB" THEN r ELSE StepRowOf(o)
                state == IF o.type = "JOBSTEP" /\ s.end = 0 /\ r.end # 0 THEN r.state ELSE s.state
            IN cell[1] = state /\ (Len(cell) = 2 => state = "CANCELLED" /\ cell[2] = s.requid)
       [] field = "CLUSTER" -> Is(IF r.assoc.cluster # "" THEN r.assoc.cluster ELSE r.cluster)
       [] field = "ACCOUNT" -> Is(IF r.assoc.acct # "" THEN r.assoc.acct ELSE r.account)
       [] field = "USER" /\ o.type = "JOB" /\ Readable(files.passwd) ->
            Is(IF r.assoc.user # "" THEN r.assoc.user ELSE EntryOf(files.passwd, ByUid).name)
       [] field = "UID" /\ o.type = "JOB" /\ Readable(files.passwd) ->
            Is(IF r.assoc.user = "" THEN r.uid ELSE EntryOf(files.passwd, ByName).id)
       [] field = "GROUP" /\ o.type = "JOB" /\ Readable(files.group) ->
            Is(EntryOf(files.group, ByGid).name)
       [] field = "JOBNAME" -> Is(IF o.type = "JOB" THEN r.name ELSE StepRowOf(o).name)
       [] field = "MAXRSS" /\ o.type = "JOBSTEP" /\ StepRowOf(o).sacct.cpu.min # NO_VAL ->
            cell = <<convert_num_unit(StepRowOf(o).sacct.rss.max, 1)>>
       [] field = "MAXRSSNODE" /\ o.type = "JOBSTEP" /\ StepRowOf(o).sacct.cpu.min # NO_VAL ->
            cell = <<StepRowOf(o).nodes[StepRowOf(o).sacct.rss.node + 1]>>
       [] OTHER -> TRUE

\* Each cell of a row is about its own field and its own job or step, in the order
\* the fields were asked for; the only cells that show what another field left in
\* the buffer are the ones of statistics on the row of a job that shows its steps.
CellsMean ==
  Listing /\ ~params.completion =>
    \A k \in DOMAIN out :
      LET o == out[k].o
          row == out[k].row
      IN /\ Len(row) = Len(params.fields)
         /\ \A c \in DOMAIN row :
              /\ row[c].field = params.fields[c].type
              /\ row[c].stale => /\ o.type = "JOB" /\ o.job.track_steps
                                 /\ row[c].field \in {"MAXPAGES", "MAXRSS", "MAXVSIZE",
                                                      "AVEPAGES", "AVERSS", "AVEVSIZE"}
              /\ ~row[c].stale => Means(row[c].field, o, row[c].cell)

\* With NEWQUERY the processor time of a job is that of its steps that are over
\* and were asked for, user and system time add up to the total of a job and of a
\* step, and no step has more processors than its job.
TotalsAddUp ==
  phase = "done" /\ Operation(params) = "dump" /\ ~params.completion /\ new =>
    \A k \in {i \in DOMAIN out : out[i].type = "JOB_TERMINATED"} :
      LET job == out[k].job
          mine == SelectSeq(out, LAMBDA d : /\ d.type = "JOB_STEP" /\ d.job.jobid = job.jobid
                                           /\ d.job.submit = job.submit)
          over == SelectSeq(mine, LAMBDA d : d.step.state \notin Unfinished)
          Total(t) == FoldLeft(LAMBDA n, d : Plus(n, d.step.cpu[t]), NoTime, over)
      IN /\ job.cpu.tot = Plus(job.cpu.user, job.cpu.sys)
         /\ job.cpu.user = Total("user") /\ job.cpu.sys = Total("sys")
         /\ \A i \in DOMAIN mine : /\ mine[i].step.ncpus <= job.alloc_cpus
                                   /\ mine[i].step.cpu.tot = Plus(mine[i].step.cpu.user,
                                                                  mine[i].step.cpu.sys)
         /\ Flag({"j"}) \/ Len(mine) = Len(RowOf([job |-> job]).steps) \/ Given("N") # {}
=============================================================================
