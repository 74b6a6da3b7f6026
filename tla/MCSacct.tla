------------------------------- MODULE MCSacct -------------------------------
(***************************************************************************)
(* sacct on two clusters and six jobs: job 1 was run twice (its id was     *)
(* used again), job 2 is running, job 3 was cancelled before it started,   *)
(* job 4 has one step with its own name, of a cluster whose nodes changed, *)
(* and there is a job 1 on another cluster.                                *)
(***************************************************************************)
EXTENDS Sacct

MCUsers == [ann |-> "1", bob |-> "2"]
MCGroups == [staff |-> "7"]
MCIsNumber == {"1", "2", "3", "4", "7", "1.0", "2.0", "-1"}
Job(n, s) == [jobid |-> n, stepid |-> s]
MCStepArg == ("1" :> Job(1, NO_VAL)) @@ ("2" :> Job(2, NO_VAL)) @@ ("3" :> Job(3, NO_VAL))
             @@ ("4" :> Job(4, NO_VAL)) @@ ("1.0" :> Job(1, 0)) @@ ("2.0" :> Job(2, 0))
MCQosNames == 1 :> "normal"

Stats(n) == [vsize |-> [max |-> 2048 * n, task |-> 0, node |-> 0, ave |-> 1024 * n],
             rss |-> [max |-> 1000 + n, task |-> n % 2, node |-> n % 2, ave |-> 500],
             pages |-> [max |-> n, task |-> 1, node |-> 1, ave |-> n],
             cpu |-> [min |-> n, task |-> 0, node |-> 1, ave |-> n]]
NoneTaken == [Stats(1) EXCEPT !.cpu.min = NO_VAL]

Time(n) == [sec |-> n, usec |-> 10 * n]
StepRow(id, name, start, end, state, n) ==
  [stepid |-> id, name |-> name, start |-> start, end |-> end, suspended |-> 0, state |-> state,
   nodes |-> <<"n1", "n2">>, node_inx |-> {1, 2}, nnodes |-> 2, ncpus |-> 2 * n,
   ntasks |-> IF n = 1 THEN 0 ELSE 3, exitcode |-> 0, requid |-> "-1", task_dist |-> "block",
   user |-> Time(n + 1), sys |-> Time(n), sacct |-> IF n = 4 THEN NoneTaken ELSE Stats(n)]

JobRow(jobid, cluster, uid, submit, start, end, state, steps) ==
  [jobid |-> jobid, cluster |-> cluster, assoc |-> NoAssoc, associd |-> 0, uid |-> uid, gid |-> "7",
   account |-> "a", partition |-> "p", wckey |-> "", wckeyid |-> 0, submit |-> submit,
   eligible |-> submit, start |-> start, end |-> end, state |-> state, suspended |-> 0,
   susp |-> <<>>, name |-> "job", track_steps |-> FALSE, req_cpus |-> 2, alloc_cpus |-> 4,
   alloc_nodes |-> 2, nodes |-> <<"n1", "n2">>, node_inx |-> {1, 2}, requid |-> "-1",
   qos |-> 1, exitcode |-> 256, priority |-> 1, blockid |-> "", timelimit |-> 60, steps |-> steps]

MCJobRows ==
  << JobRow(1, "c1", "1", 1, 2, 4, "FAILED", <<StepRow(0, "job", 2, 4, "FAILED", 1)>>),
     JobRow(2, "c1", "1", 3, 4, 0, "RUNNING",
            <<StepRow(0, "s", 4, 5, "COMPLETED", 2), StepRow(1, "s", 5, 0, "RUNNING", 3)>>),
     [JobRow(3, "c1", "2", 5, 0, 6, "CANCELLED", <<>>)
        EXCEPT !.nodes = <<>>, !.node_inx = {}, !.alloc_nodes = 0, !.alloc_cpus = 0,
               !.requid = "1", !.partition = "q"],
     [JobRow(1, "c1", "1", 6, 7, 8, "COMPLETED", <<StepRow(0, "job", 7, 8, "COMPLETED", 2)>>)
        EXCEPT !.assoc = [user |-> "ann", cluster |-> "c1", acct |-> "b"], !.account = "b"],
     [JobRow(4, "c1", "2", 6, 9, 10, "TIMEOUT",
             <<[StepRow(0, "t", 9, 0, "RUNNING", 4) EXCEPT !.nodes = <<"n2">>, !.node_inx = {1}]>>)
        EXCEPT !.nodes = <<"n2">>, !.node_inx = {1}, !.wckey = "w"],
     JobRow(1, "c2", "1", 4, 5, 9, "COMPLETED", <<StepRow(0, "job", 5, 9, "COMPLETED", 1)>>) >>

\* The node n1 left the cluster c1 at time 8.
MCPeriods ==
  << [cluster |-> "c1", hosts |-> <<"n1", "n2">>, start |-> 1, end |-> 8],
     [cluster |-> "c1", hosts |-> <<"n2", "n3">>, start |-> 8, end |-> 0] >>
MCClusterNames == <<"c1", "c2">>

Files == [passwd |-> <<Entry("ann", "1"), Junk("empty"), Junk("comment"), Entry("bob", "2")>>,
          group |-> <<Entry("staff", "7")>>]
LongFiles ==
  [passwd |-> <<LongLine(2), Entry("ann", "1"), LongLine(3), Entry("bob", "2")>>,
   group |-> <<Junk("malformed"), Junk("space"), LongLine(2), Entry("users", "7")>>]
Conf(storage, jobcomp, opened) ==
  [storage |-> storage, jobcomp |-> jobcomp, files |-> {"file"}, opened |-> opened]

MCWorlds ==
  { [conf |-> Conf("mysql", "filetxt", TRUE), files |-> Files],
    [conf |-> Conf("mysql", "filetxt", FALSE), files |-> LongFiles],
    [conf |-> Conf("none", "none", FALSE), files |-> Files] }

S(o, arg) == Opt(o, FALSE, arg)
L(o, arg) == Opt(o, TRUE, arg)
Flags == {"a", "b", "c", "d", "e", "h", "l", "O", "p", "t", "V", "X"}

MCOptions ==
  {S(o, <<>>) : o \in Flags} \cup {L(o, <<>>) : o \in {"D", "T", "U"}}
  \cup {S("D", <<>>), S("A", <<"b">>), S("A", <<"a", ",", "a">>), S("C", <<"c2">>), S("C", <<"-1">>),
        S("C", <<"c1", ",">>), S("E", <<7>>), S("S", <<2>>), S("S", <<7>>), S("f", <<"file">>),
        S("g", <<"staff">>), S("g", <<"nobody">>), S("j", <<"1">>), S("j", <<"1", ",", "2">>),
        S("j", <<"1.0">>), S("j", <<"1.0", ",", "1">>), S("j", <<"1", ",", ",", "2">>),
        S("j", <<"2.0", ",", "3">>), S("j", <<"ann">>), S("N", <<"n1">>), S("N", <<"n3">>),
        S("N", <<"n2", ",", "n3">>), S("r", <<"q">>), S("r", <<"'", "p", "'">>), S("s", <<"cd">>),
        S("s", <<"ca", ",", "t">>), S("s", <<"co">>), S("u", <<"bob">>), S("u", <<"ann", ",", "2">>),
        S("u", <<"-1">>), S("u", <<"eve">>), S("W", <<"w">>),
        S("o", <<"user", ",", "uid", ",", "gro", ",", "state">>),
        S("o", <<"jobid", ",", "maxrss", ",", "state", ",", "maxrssnode", ",", "nnodes", ",", "averss">>),
        S("o", <<"cluster", ",", ",", "account">>), S("o", <<"%">>), S("o", <<"nodes">>),
        S("o", <<"resvcpu", ",", "usercpu", ",", "mincpu", ",", "timelimit", ",", "reserved">>)}

MCLogOptions ==
  << {S("c", <<>>)},
  {S("b", <<>>), S("l", <<>>), S("O", <<>>), S("d", <<>>), S("j", <<"1">>),
   S("j", <<"2", ",", "3">>), S("r", <<"p">>), S("o", <<"start", ",", "submit">>),
   S("o", <<"end", ",", "elapsed", ",", "nodelist", ",", "group">>)} >>

Done(id, uid, name, partition) ==
  [id |-> id, uid |-> uid, gid |-> "7", name |-> name, state |-> "COMPLETED", partition |-> partition,
   limit |-> "60", start |-> IF id = "3" THEN "0" ELSE "2", end |-> "4", nodes |-> "n1",
   node_cnt |-> "1", procs |-> "2", dir |-> "home"]
MCCompleted == {Done("1", "1", <<"job">>, "p"), Done("2", "2", <<"my", " ", "job">>, "q"),
                Done("3", "1", <<"job">>, "q")}
MCLogUsers == ("0" :> "root") @@ ("1" :> "ann") @@ ("2" :> "bob")
MCLogGroups == ("0" :> "root") @@ ("7" :> "staff")
MCNumber == ("1" :> 1) @@ ("2" :> 2) @@ ("3" :> 3) @@ ("4" :> 4) @@ ("60" :> 60)
=============================================================================
