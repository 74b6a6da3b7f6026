------------------------------- MODULE JobComp -------------------------------
(***************************************************************************)
(* The job completion log as a text file                                   *)
(* (src/src/plugins/jobcomp/filetxt/jobcomp_filetxt.c, which writes it for *)
(* slurmctld, and filetxt_jobcomp_process.c, which reads it for sacct -c). *)
(* The file is a sequence of tokens: words, "=", " ", the parentheses of   *)
(* an id, and "nl".                                                        *)
(***************************************************************************)
EXTENDS Integers, Sequences, SequencesExt

CONSTANT Number      \* atoi, parse_time: what a word stands for; others are 0

NumberOf(raw) == IF Len(raw) = 1 /\ raw[1] \in DOMAIN Number THEN Number[raw[1]] ELSE 0
TextOf(raw) == CASE raw = <<>> -> "" [] Len(raw) = 1 -> raw[1] [] OTHER -> "?"

-----------------------------------------------------------------------------
(* Writing                                                                 *)

\* _get_user_name, _get_group_name: the last name that was looked up is kept.
_get_user_name(cache, ids, id) == IF id = cache.id THEN cache ELSE [id |-> id, name |-> ids[id]]
_get_group_name(cache, ids, id) == IF id = cache.id THEN cache ELSE [id |-> id, name |-> ids[id]]

\* _make_time_str
_make_time_str(time) == IF time = "0" THEN "Unknown" ELSE time

Pair(key, value) == <<key, "=">> \o value \o <<" ">>

\* JOB_FORMAT.  The name of a job is written as it is: name is a sequence.
JOB_FORMAT(job, user, group) ==
     Pair("JobId", <<job.id>>) \o Pair("UserId", <<user.name, "(", user.id, ")">>)
  \o Pair("GroupId", <<group.name, "(", group.id, ")">>) \o Pair("Name", job.name)
  \o Pair("JobState", <<job.state>>) \o Pair("Partition", <<job.partition>>)
  \o Pair("TimeLimit", <<job.limit>>) \o Pair("StartTime", <<_make_time_str(job.start)>>)
  \o Pair("EndTime", <<_make_time_str(job.end)>>) \o Pair("NodeList", <<job.nodes>>)
  \o Pair("NodeCnt", <<job.node_cnt>>) \o Pair("ProcCnt", <<job.procs>>)
  \o Pair("WorkDir", <<job.dir>>) \o <<"nl">>

\* slurm_jobcomp_log_record: the first upto tokens, all of them unless the record
\* is longer than its buffer or a write fails.
slurm_jobcomp_log_record(text, job, user, group, upto) ==
  text \o SubSeq(JOB_FORMAT(job, user, group), 1, upto)

-----------------------------------------------------------------------------
(* Reading                                                                 *)

\* fgets: the lines, each with its end; the last may have none.
LinesOf(text) ==
  LET Read(lines, t) ==
        IF lines = <<>> \/ Last(Last(lines)) = "nl" THEN Append(lines, <<t>>)
        ELSE [lines EXCEPT ![Len(lines)] = Append(@, t)]
  IN FoldLeft(Read, <<>>, text)

\* Mutant: a value ends at the end of the line only.
SplitLine_NoSpace(line) ==
  [infos |-> <<[key |-> <<line[1]>>, val |-> SubSeq(line, 3, Len(line) - 1)]>>, bare |-> FALSE, key |-> <<>>]

\* A name goes up to the next "=", its value up to the next space or the end of
\* the line.  bare: the line ends in a name without a value.
SplitLine(line) ==
  LET Add(st) == Append(st.infos, [key |-> st.key, val |-> st.val])
      Read(st, t) ==
        CASE st.mode = "done" -> st
          [] st.mode = "next" /\ t = "nl" -> [st EXCEPT !.mode = "done"]
          [] st.mode \in {"next", "key"} /\ t = "=" -> [st EXCEPT !.mode = "val", !.val = <<>>]
          [] st.mode = "val" /\ t = " " ->
               [st EXCEPT !.mode = "next", !.key = <<>>, !.infos = Add(st)]
          [] st.mode = "val" /\ t = "nl" -> [st EXCEPT !.mode = "done", !.infos = Add(st)]
          [] st.mode = "val" /\ t \notin {" ", "nl"} -> [st EXCEPT !.val = Append(@, t)]
          [] OTHER -> [st EXCEPT !.mode = "key", !.key = Append(@, t)]
      end == FoldLeft(Read, [infos |-> <<>>, key |-> <<>>, val |-> <<>>, mode |-> "key"], line)
  IN [infos |-> IF end.mode = "val" THEN Add(end) ELSE end.infos,
      bare |-> end.mode \in {"key", "next"}, key |-> end.key]

\* The last value of a name; <<>> when there is none, or none yet.
ValueOf(infos, key) ==
  LET at == SelectLastInSeq(infos, LAMBDA i : i.key = <<key>>)
  IN IF at = 0 THEN <<>> ELSE infos[at].val

\* "name(id)": without the first parenthesis the program follows a NULL, without
\* the second it has neither.
IdCrashes(infos, key) ==
  \E i \in DOMAIN infos : infos[i].key = <<key>> /\ "(" \notin Range(infos[i].val)

NameAndId(raw) ==
  LET open == SelectInSeq(raw, LAMBDA t : t = "(")
      close == SelectInSeq(raw, LAMBDA t : t = ")")
  IN IF raw = <<>> \/ close = 0 THEN [name |-> "", id |-> ""]
     ELSE [name |-> TextOf(SubSeq(raw, 1, open - 1)), id |-> TextOf(SubSeq(raw, open + 1, close - 1))]

\* _parse_line
_parse_line(infos) ==
  LET V(key) == ValueOf(infos, key)
      user == NameAndId(V("UserId"))
      group == NameAndId(V("GroupId"))
      Time(key) == IF V(key) = <<>> THEN -1 ELSE NumberOf(V(key))    \* -1: NULL
  IN [jobid |-> NumberOf(V("JobId")), partition |-> TextOf(V("Partition")),
      start_time |-> Time("StartTime"), end_time |-> Time("EndTime"),
      uid |-> user.id, uid_name |-> user.name, gid |-> group.id, gid_name |-> group.name,
      jobname |-> TextOf(V("Name")), nodelist |-> V("NodeList"),
      node_cnt |-> NumberOf(V("NodeCnt")), state |-> TextOf(V("JobState")),
      timelimit |-> TextOf(V("TimeLimit")), blockid |-> ""]

\* The lines the list of -j and the list of -r leave.
Matches(infos, jobids, partitions) ==
  /\ jobids # {} => NumberOf(ValueOf(infos, "JobId")) \in jobids \ {0}
  /\ partitions # {} => TextOf(ValueOf(infos, "Partition")) \in partitions

\* The build without NEWQUERY follows a NULL when a name has no value; the other
\* gives the name no value, which is followed when a number is expected.
LineCrashes(new, split, matches, fdump) ==
  \/ split.bare /\ ~new
  \/ /\ matches /\ ~fdump
     /\ \/ split.bare /\ split.key \in {<<"JobId">>, <<"UserId">>, <<"GroupId">>, <<"NodeCnt">>,
                                        <<"ProcCnt">>}
        \/ IdCrashes(split.infos, "UserId") \/ IdCrashes(split.infos, "GroupId")

\* filetxt_jobcomp_process_get_jobs
filetxt_jobcomp_process_get_jobs(new, text, jobids, partitions, fdump) ==
  LET splits == LET lines == LinesOf(text) IN [i \in 1..Len(lines) |-> SplitLine(lines[i])]
      Wanted(s) == Matches(s.infos, jobids, partitions)
      found == SelectSeq(splits, Wanted)
  IN [crash |-> \E i \in DOMAIN splits : LineCrashes(new, splits[i], Wanted(splits[i]), fdump),
      jobs |-> IF fdump THEN <<>> ELSE [i \in 1..Len(found) |-> _parse_line(found[i].infos)],
      dumped |-> IF fdump THEN [i \in 1..Len(found) |-> found[i].infos] ELSE <<>>]
=============================================================================
