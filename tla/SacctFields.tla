----------------------------- MODULE SacctFields -----------------------------
(***************************************************************************)
(* The fields of sacct (src/sacct.c) and what print_fields (src/print.c)   *)
(* prints of them.  An object o is a job, a step of a job or a job of the  *)
(* completion log: [type, job, step, comp], where step is NoStep on the    *)
(* row of a job that is not printed from its first step.  A cell is a      *)
(* sequence: empty, or the value.  Texts are names, "" is NULL.            *)
(***************************************************************************)
EXTENDS Integers, Sequences, SequencesExt

CONSTANT Now,         \* time(NULL)
         DefMem,      \* slurm_get_def_mem_per_task(): [mb, per_cpu]
         QosNames     \* acct_storage_g_get_qos: the names of the QOS by id

NO_VAL == -2
INFINITE == -1
NoStep == [stepid |-> NO_VAL]

-----------------------------------------------------------------------------
(* src/compat_pwdgrp.c: the users and groups of the cluster the accounting   *)
(* data came from, read from files of its own.  A file is a sequence of      *)
(* lines [kind, chunks, entry]: chunks is how many buffers of                *)
(* PWD_BUFFER_SIZE the line fills, kind what its beginning and its fields    *)
(* look like, entry the name and the id of a well-formed one.                *)

NoEntry == [name |-> "", id |-> ""]
Entry(name, id) == [kind |-> "entry", chunks |-> 1, entry |-> [name |-> name, id |-> id]]
\* An empty line, a comment, leading space, a missing separator or no number.
Junk(kind) == [kind |-> kind, chunks |-> 1, entry |-> NoEntry]
JunkKinds == {"empty", "comment", "space", "malformed"}
LongLine(chunks) == [kind |-> "malformed", chunks |-> chunks, entry |-> NoEntry]

\* __pgsreader: the lines it hands to the parser.  Each full buffer without an
\* end of line adds one line to skip, so that one line too many is skipped
\* after a line of three buffers, two after one of four.
__pgsreader(file) ==
  LET Read(st, line) ==
        LET skip == st.skip + line.chunks - 1
        IN IF skip > 0 THEN [st EXCEPT !.skip = skip - 1]
           ELSE IF line.kind \in {"empty", "comment", "space"} THEN st
           ELSE [st EXCEPT !.lines = Append(@, line)]
  IN FoldLeft(Read, [skip |-> 0, lines |-> <<>>], file).lines

\* __parsepwent, __parsegrent: a line without all its separators, or without a
\* number where the id stands, is no entry.
__parsepwent(line) == line.kind = "entry"
__parsegrent(line) == line.kind = "entry"

FirstOf(lines) == IF lines = <<>> THEN NoEntry ELSE lines[1].entry

compat_getpwuid_r(file, uid) ==
  FirstOf(SelectSeq(__pgsreader(file), LAMBDA line : __parsepwent(line) /\ line.entry.id = uid))
compat_getpwnam_r(file, name) ==
  FirstOf(SelectSeq(__pgsreader(file), LAMBDA line : __parsepwent(line) /\ line.entry.name = name))
compat_getgrgid_r(file, gid) ==
  FirstOf(SelectSeq(__pgsreader(file), LAMBDA line : __parsegrent(line) /\ line.entry.id = gid))
compat_getgrnam_r(file, name) ==
  FirstOf(SelectSeq(__pgsreader(file), LAMBDA line : __parsegrent(line) /\ line.entry.name = name))

compat_getpwuid(file, uid) == compat_getpwuid_r(file, uid)
compat_getpwnam(file, name) == compat_getpwnam_r(file, name)
compat_getgrgid(file, gid) == compat_getgrgid_r(file, gid)
compat_getgrnam(file, name) == compat_getgrnam_r(file, name)

-----------------------------------------------------------------------------
Field(name, routine, type) == [name |-> name, routine |-> routine, type |-> type]

\* fields[], in the order in which a name is looked for; the ones NEWQUERY adds.
NewFields == {"JOBIDRAW", "REQ_GRES", "REQ_MEM", "TRESR"}

FieldTable ==
  << Field("alloccpus", "int", "ALLOC_CPUS"),      Field("account", "str", "ACCOUNT"),
     Field("associd", "int", "ASSOCID"),           Field("avecpu", "str", "AVECPU"),
     Field("avepages", "str", "AVEPAGES"),         Field("averss", "str", "AVERSS"),
     Field("avevmsize", "str", "AVEVSIZE"),        Field("blockid", "str", "BLOCKID"),
     Field("cluster", "str", "CLUSTER"),           Field("cputime", "secs", "CPU_TIME"),
     Field("cputimeraw", "int", "CPU_TIME_RAW"),   Field("elapsed", "secs", "ELAPSED"),
     Field("eligible", "date", "ELIGIBLE"),        Field("end", "date", "END"),
     Field("exitcode", "str", "EXITCODE"),         Field("gid", "int", "GID"),
     Field("group", "str", "GROUP"),               Field("jobid", "str", "JOBID"),
     Field("jobidraw", "str", "JOBIDRAW"),         Field("jobname", "str", "JOBNAME"),
     Field("layout", "str", "LAYOUT"),             Field("maxpages", "str", "MAXPAGES"),
     Field("maxpagesnode", "str", "MAXPAGESNODE"), Field("maxpagestask", "int", "MAXPAGESTASK"),
     Field("maxrss", "str", "MAXRSS"),             Field("maxrssnode", "str", "MAXRSSNODE"),
     Field("maxrsstask", "int", "MAXRSSTASK"),     Field("maxvmsize", "str", "MAXVSIZE"),
     Field("maxvmsizenode", "str", "MAXVSIZENODE"), Field("maxvmsizetask", "int", "MAXVSIZETASK"),
     Field("mincpu", "str", "MINCPU"),             Field("mincpunode", "str", "MINCPUNODE"),
     Field("mincputask", "int", "MINCPUTASK"),     Field("ncpus", "int", "ALLOC_CPUS"),
     Field("nodelist", "str", "NODELIST"),         Field("nnodes", "str", "NNODES"),
     Field("ntasks", "int", "NTASKS"),             Field("priority", "int", "PRIO"),
     Field("partition", "str", "PARTITION"),       Field("qos", "str", "QOS"),
     Field("qosraw", "int", "QOSRAW"),             Field("reqcpus", "int", "REQ_CPUS"),
     Field("reqgres", "str", "REQ_GRES"),          Field("reqmem", "str", "REQ_MEM"),
     Field("reqtres", "str", "TRESR"),             Field("reserved", "secs", "RESV"),
     Field("resvcpu", "secs", "RESV_CPU"),         Field("resvcpuraw", "int", "RESV_CPU"),
     Field("start", "date", "START"),              Field("state", "str", "STATE"),
     Field("submit", "date", "SUBMIT"),            Field("suspended", "secs", "SUSPENDED"),
     Field("systemcpu", "str", "SYSTEMCPU"),       Field("timelimit", "str", "TIMELIMIT"),
     Field("totalcpu", "str", "TOTALCPU"),         Field("uid", "int", "UID"),
     Field("user", "str", "USER"),                 Field("usercpu", "str", "USERCPU"),
     Field("wckey", "str", "WCKEY"),               Field("wckeyid", "int", "WCKEYID") >>

Fields(new) == SelectSeq(FieldTable, LAMBDA f : new \/ f.type \notin NewFields)

BRIEF_FIELDS == <<"jobid", "state", "exitcode">>
BRIEF_COMP_FIELDS == <<"jobid", "uid", "state">>
DEFAULT_FIELDS == <<"jobid", "jobname", "partition", "account", "alloccpus", "state", "exitcode">>
DEFAULT_COMP_FIELDS ==
  <<"jobid", "uid", "jobname", "partition", "nnodes", "nodes", "state", "end">>
LONG_COMP_FIELDS == <<"jobid", "uid", "jobname", "partition", "nnodes", "nodelist", "state",
                      "start", "end", "timelimit">>
LONG_FIELDS(new) ==
  (IF new THEN <<"jobid", "jobidraw">> ELSE <<"jobid">>)
  \o <<"jobname", "partition", "maxvmsize", "maxvmsizenode", "maxvmsizetask", "avevmsize",
       "maxrss", "maxrssnode", "maxrsstask", "averss", "maxpages", "maxpagesnode", "maxpagestask",
       "avepages", "mincpu", "mincpunode", "mincputask", "avecpu", "ntasks", "alloccpus", "elapsed",
       "state", "exitcode">>
  \o (IF new THEN <<"reqmem", "reqgres", "reqtres">> ELSE <<>>)

-----------------------------------------------------------------------------
(* Conversions                                                             *)

StrCell(text) == IF text = "" THEN <<>> ELSE <<text>>
DateCell(n)   == <<n>>    \* print_fields_date: 0 is printed as Unknown
IntCell(n)    == IF n \in {NO_VAL, INFINITE} THEN <<>> ELSE <<n>>

\* secs2time_str
secs2time_str(n) ==
  <<n \div 86400, (n \div 3600) % 24, (n \div 60) % 60, n % 60>>

\* print_fields_time_from_secs
SecsCell(n) == IF n \in {NO_VAL, INFINITE} THEN <<>> ELSE <<secs2time_str(n)>>

\* _elapsed_time: the thousandths are shown of a time below one hour only.
_elapsed_time(secs, usecs) ==
  LET more == IF usecs > 0 THEN usecs ELSE 0
      s == secs + more \div 1000000
      subsec == (more % 1000000) \div 1000
  IN IF secs < 0 THEN <<>>
     ELSE <<secs2time_str(s) \o (IF s >= 3600 \/ subsec = 0 THEN <<>> ELSE <<subsec>>)>>

\* convert_num_unit: an integer, or two decimals of a number that was divided.
convert_num_unit(num, unit) ==
  LET k == IF num <= 1024 THEN 0 ELSE IF num <= 1048576 THEN 1 ELSE 2
      hundredths == (num * 100) \div 1024^k
  IN IF num = 0 THEN <<0>> ELSE <<hundredths, unit + k>>

\* find_hostname: the host at a position of a host list.
find_hostname(pos, hosts) ==
  IF pos = NO_VAL \/ pos >= Len(hosts) THEN <<>> ELSE <<hosts[pos + 1]>>

\* _find_qos_name_from_list
_find_qos_name_from_list(qosid) ==
  IF qosid = NO_VAL THEN <<>>
  ELSE IF qosid \in DOMAIN QosNames THEN <<QosNames[qosid]>> ELSE <<"Unknown">>

-----------------------------------------------------------------------------
(* print_fields.  A field has a value of its own, or is printed from the   *)
(* buffer it shares with the other fields of its row, which it writes only *)
(* when it has a value.                                                    *)

Own(cell) == [shared |-> FALSE, cell |-> cell]
Buf(cell) == [shared |-> TRUE, cell |-> cell]

Of(o, job, step, comp) ==
  CASE o.type = "JOB" -> job [] o.type = "JOBSTEP" -> step [] o.type = "JOBCOMP" -> comp

\* What a job's row shows only when it stands for its one step.
OneStep(o, value) == IF o.job.track_steps THEN NO_VAL ELSE value
Unit(n, unit) == Buf(IF n = NO_VAL THEN <<>> ELSE <<convert_num_unit(n, unit)>>)
Stat(o, s, m) == Of(o, OneStep(o, o.job.sacct[s][m]), o.step.sacct[s][m], NO_VAL)
Node(o, s) == Own(Of(o, IF o.job.track_steps THEN <<>>
                        ELSE find_hostname(o.job.sacct[s].node, o.job.nodes),
                     find_hostname(o.step.sacct[s].node, o.step.nodes), <<>>))

CellsAllocToAve(f, o) ==
  CASE f = "ALLOC_CPUS" -> Own(IntCell(Of(o, IF o.step = NoStep THEN o.job.alloc_cpus ELSE o.step.ncpus,
                                      o.step.ncpus, NO_VAL)))
    [] f = "ACCOUNT" -> Own(StrCell(Of(o, o.job.account, o.job.account, "n/a")))
    [] f = "ASSOCID" -> Own(IntCell(Of(o, o.job.associd, o.job.associd, NO_VAL)))
    [] f = "AVECPU" -> Own(_elapsed_time(Stat(o, "cpu", "ave"), 0))
    [] f = "AVEPAGES" -> Unit(Stat(o, "pages", "ave"), 1)
    [] f = "AVERSS" -> Unit(Stat(o, "rss", "ave"), 1)
    [] f = "AVEVSIZE" -> Unit(Stat(o, "vsize", "ave"), 1)

CellsBlockToEnd(f, o) ==
  CASE f = "BLOCKID" -> Own(StrCell(Of(o, o.job.blockid, "", o.comp.blockid)))
    [] f = "CLUSTER" -> Own(StrCell(Of(o, o.job.cluster, o.job.cluster, "")))
    [] f = "CPU_TIME" -> Own(SecsCell(Of(o, o.job.elapsed * o.job.alloc_cpus,
                                     o.step.elapsed * o.step.ncpus, NO_VAL)))
    [] f = "CPU_TIME_RAW" -> Own(IntCell(Of(o, o.job.elapsed * o.job.alloc_cpus,
                                        o.step.elapsed * o.step.ncpus, NO_VAL)))
    \* of a completed job: the difference of two addresses
    [] f = "ELAPSED" -> Own(Of(o, SecsCell(o.job.elapsed), SecsCell(o.step.elapsed), <<"addresses">>))
    [] f = "ELIGIBLE" -> Own(DateCell(Of(o, o.job.eligible, o.step.start, NO_VAL)))
    [] f = "END" -> Own(DateCell(Of(o, o.job.end, o.step.end, o.comp.end_time)))

\* WIFSIGNALED, WTERMSIG and WEXITSTATUS; NEWQUERY takes 128 off.
ExitStatus(new, code) ==
  LET low == code % 128
      signal == IF low \in {0, 127} THEN 0 ELSE low
      status == (code \div 256) % 256
  IN <<IF new /\ status >= 128 THEN status - 128 ELSE status, signal>>

CellsExitToLayout(new, f, o) ==
  CASE f = "EXITCODE" -> Buf(<<ExitStatus(new, Of(o, o.job.exitcode, o.step.exitcode, 0))>>)
    [] f = "GID" -> Own(StrCell(Of(o, o.job.gid, "", o.comp.gid)))
    [] f = "GROUP" -> Own(LET gr == compat_getgrgid(o.group, Of(o, o.job.gid, "", o.comp.gid))
                          IN IF gr = NoEntry THEN <<>> ELSE StrCell(gr.name))
    [] f \in {"JOBID", "JOBIDRAW"} ->
         Own(Of(o, <<o.job.jobid>>, <<o.job.jobid, o.step.stepid>>, <<o.comp.jobid>>))
    [] f = "JOBNAME" -> Own(StrCell(Of(o, o.job.jobname, o.step.stepname, o.comp.jobname)))
    [] f = "LAYOUT" -> Own(StrCell(Of(o, IF o.job.track_steps THEN "" ELSE o.step.task_dist,
                                  o.step.task_dist, "")))

CellsMaxPagesRss(f, o) ==
  CASE f = "MAXPAGES" -> Unit(Stat(o, "pages", "max"), 1)
    [] f = "MAXPAGESNODE" -> Node(o, "pages")
    [] f = "MAXPAGESTASK" -> Own(IntCell(Stat(o, "pages", "task")))
    [] f = "MAXRSS" -> Unit(Stat(o, "rss", "max"), 1)
    [] f = "MAXRSSNODE" -> Node(o, "rss")
    [] f = "MAXRSSTASK" -> Own(IntCell(Stat(o, "rss", "task")))

CellsMaxVsizeMinCpu(f, o) ==
  CASE f = "MAXVSIZE" -> Unit(Stat(o, "vsize", "max"), 1)
    [] f = "MAXVSIZENODE" -> Node(o, "vsize")
    [] f = "MAXVSIZETASK" -> Own(IntCell(Stat(o, "vsize", "task")))
    [] f = "MINCPU" -> Own(_elapsed_time(Stat(o, "cpu", "min"), 0))
    [] f = "MINCPUNODE" -> Node(o, "cpu")
    [] f = "MINCPUTASK" -> Own(IntCell(Stat(o, "cpu", "task")))

CellsNodesToQos(f, o) ==
  LET hosts == Of(o, o.job.nodes, o.step.nodes, o.comp.nodelist)
      count == Of(o, o.job.alloc_nodes, o.step.nnodes, o.comp.node_cnt)
  IN CASE f = "NODELIST" -> Own(<<hosts>>)
       [] f = "NNODES" -> Unit(IF count = 0 THEN Len(hosts) ELSE count, 0)
       [] f = "NTASKS" -> Own(IntCell(Of(o, IF o.step = NoStep THEN NO_VAL ELSE o.step.ntasks,
                                     o.step.ntasks, NO_VAL)))
       [] f = "PRIO" -> Own(IntCell(Of(o, o.job.priority, NO_VAL, NO_VAL)))
       [] f = "PARTITION" -> Own(StrCell(Of(o, o.job.partition, "", o.comp.partition)))
       [] f = "QOS" -> Own(_find_qos_name_from_list(Of(o, o.job.qos, NO_VAL, NO_VAL)))
       [] f = "QOSRAW" -> Own(IntCell(Of(o, o.job.qos, NO_VAL, NO_VAL)))

\* The time a job waited, up to now when it has not started.
Waited(job) == (IF job.start # 0 THEN job.start ELSE Now) - job.eligible

CellsReqToResv(f, o) ==
  CASE f = "REQ_GRES" -> Own(<<>>)
    [] f = "REQ_MEM" -> Buf(Of(o, <<DefMem>>, <<DefMem>>, <<>>))
    [] f = "REQ_CPUS" -> Own(IntCell(Of(o, o.job.req_cpus, o.step.ncpus, NO_VAL)))
    [] f = "RESV" -> Own(SecsCell(Of(o, Waited(o.job), NO_VAL, NO_VAL)))
    [] f = "RESV_CPU" -> Own(SecsCell(Of(o, Waited(o.job) * o.job.req_cpus, NO_VAL, NO_VAL)))

CellsStartToTimelimit(new, f, o) ==
  CASE f = "START" -> Own(DateCell(Of(o, o.job.start, o.step.start, o.comp.start_time)))
    [] f = "STATE" -> Buf(LET state == Of(o, o.job.state, o.step.state, o.comp.state)
                              by == Of(o, o.job.requid, o.step.requid, "")
                          IN IF state = "" THEN <<>>
                             ELSE IF o.type # "JOBCOMP" /\ state = "CANCELLED" /\ by # ""
                             THEN <<state, by>> ELSE <<state>>)
    [] f = "SUBMIT" -> Own(DateCell(Of(o, o.job.submit, o.step.start, o.comp.start_time)))
    [] f = "SUSPENDED" -> Own(SecsCell(Of(o, o.job.suspended, o.step.suspended, NO_VAL)))
    [] f = "SYSTEMCPU" -> Own(Of(o, _elapsed_time(o.job.cpu.sys.sec, o.job.cpu.sys.usec),
                                 _elapsed_time(o.step.cpu.sys.sec, o.step.cpu.sys.usec), <<>>))
    [] f = "TIMELIMIT" -> Own(Of(o, IF new /\ o.job.timelimit # 0 THEN <<o.job.timelimit>> ELSE <<>>,
                                 <<>>, StrCell(o.comp.timelimit)))

\* Mutant: the row of a job looks no uid up.
CellsTotalToWckey_NoLookup(f, o) ==
  IF f = "USER" THEN Own(StrCell(Of(o, o.job.user, "", o.comp.uid_name))) ELSE Own(<<>>)

\* The user time of a job is shown with the fraction of its total time.
CellsTotalToWckey(f, o) ==
  CASE f = "TOTALCPU" -> Own(Of(o, _elapsed_time(o.job.cpu.tot.sec, o.job.cpu.tot.usec),
                                _elapsed_time(o.step.cpu.tot.sec, o.step.cpu.tot.usec), <<>>))
    [] f = "TRESR" -> Own(<<>>)
    [] f = "UID" -> Own(Of(o, IF o.job.user = "" THEN StrCell(o.job.uid)
                              ELSE LET pw == compat_getpwnam(o.passwd, o.job.user)
                                   IN IF pw = NoEntry THEN <<>> ELSE StrCell(pw.id),
                           <<>>, StrCell(o.comp.uid)))
    [] f = "USER" -> Own(Of(o, IF o.job.user # "" THEN StrCell(o.job.user)
                               ELSE LET pw == compat_getpwuid(o.passwd, o.job.uid)
                                    IN IF pw = NoEntry THEN <<>> ELSE StrCell(pw.name),
                            <<>>, StrCell(o.comp.uid_name)))
    [] f = "USERCPU" -> Own(Of(o, _elapsed_time(o.job.cpu.user.sec, o.job.cpu.tot.usec),
                               _elapsed_time(o.step.cpu.user.sec, o.step.cpu.user.usec), <<>>))
    [] f = "WCKEY" -> Own(StrCell(Of(o, o.job.wckey, "", "")))
    [] f = "WCKEYID" -> Own(IntCell(Of(o, o.job.wckeyid, NO_VAL, NO_VAL)))

Cells(new, f, o) ==
  CASE f \in {"ALLOC_CPUS", "ACCOUNT", "ASSOCID", "AVECPU", "AVEPAGES", "AVERSS", "AVEVSIZE"} ->
         CellsAllocToAve(f, o)
    [] f \in {"BLOCKID", "CLUSTER", "CPU_TIME", "CPU_TIME_RAW", "ELAPSED", "ELIGIBLE", "END"} ->
         CellsBlockToEnd(f, o)
    [] f \in {"EXITCODE", "GID", "GROUP", "JOBID", "JOBIDRAW", "JOBNAME", "LAYOUT"} ->
         CellsExitToLayout(new, f, o)
    [] f \in {"MAXPAGES", "MAXPAGESNODE", "MAXPAGESTASK", "MAXRSS", "MAXRSSNODE", "MAXRSSTASK"} ->
         CellsMaxPagesRss(f, o)
    [] f \in {"MAXVSIZE", "MAXVSIZENODE", "MAXVSIZETASK", "MINCPU", "MINCPUNODE", "MINCPUTASK"} ->
         CellsMaxVsizeMinCpu(f, o)
    [] f \in {"NODELIST", "NNODES", "NTASKS", "PRIO", "PARTITION", "QOS", "QOSRAW"} ->
         CellsNodesToQos(f, o)
    [] f \in {"REQ_GRES", "REQ_MEM", "REQ_CPUS", "RESV", "RESV_CPU"} -> CellsReqToResv(f, o)
    [] f \in {"START", "STATE", "SUBMIT", "SUSPENDED", "SYSTEMCPU", "TIMELIMIT"} ->
         CellsStartToTimelimit(new, f, o)
    [] f \in {"TOTALCPU", "TRESR", "UID", "USER", "USERCPU", "WCKEY", "WCKEYID"} ->
         CellsTotalToWckey(f, o)

\* The cells of a row.  One that has no value and shares the buffer shows what
\* the fields before it left there (at first: what the stack held).
print_fields(new, o, fields) ==
  LET Shown(st, f) ==
        LET c == Cells(new, f.type, o)
            stale == c.shared /\ c.cell = <<>>
        IN [buf |-> IF c.shared /\ ~stale THEN c.cell ELSE st.buf,
            row |-> Append(st.row, [field |-> f.type, stale |-> stale,
                                    cell |-> IF stale THEN st.buf ELSE c.cell])]
  IN FoldLeft(Shown, [buf |-> <<"stack">>, row |-> <<>>], fields).row
=============================================================================
