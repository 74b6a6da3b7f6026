------------------------------ MODULE HourUsage ------------------------------
(***************************************************************************)
(* One turn of the hour loop of mysql_hourly_rollup                        *)
(* (src/src/plugins/accounting_storage/mysql/mysql_rollup.c) for one       *)
(* cluster: the rows of the event, reservation and job tables are added up *)
(* one by one, what a reservation did not use is handed to its             *)
(* associations, and the cluster's hour is balanced.  Left out: the list   *)
(* of wckeys, built like that of associations; jobs without an association *)
(* (id 0); events with the maintenance flag, which the query leaves out.   *)
(***************************************************************************)
EXTENDS Integers, Sequences, FiniteSets, SeqOps

CONSTANTS
  CurrStart, CurrEnd,  \* the hour
  Regs,      \* event rows of the cluster itself: [start, end, cpu]
  Downs,     \* event rows of its nodes: [start, end, cpu]
  Resvs,     \* reservations: [id, start, end, cpu, maint, assocs]
  JobRows,   \* jobs: [assoc, eligible, start, end, acpu, rcpu, resv, susp]
  MaxRows    \* rows of each kind in the hour

Period == [start : Nat, end : Nat]

ASSUME HourAssumption ==
  /\ CurrStart \in Nat \ {0} /\ CurrEnd \in Nat /\ CurrStart < CurrEnd /\ MaxRows \in Nat
  /\ \A e \in Regs \cup Downs : e.start \in Nat /\ e.end \in Nat /\ e.cpu \in Nat
  /\ \A v \in Resvs :
       /\ v.start \in Nat /\ v.end \in Nat /\ v.cpu \in Nat /\ v.maint \in BOOLEAN
       /\ v.id \in Nat \ {0} /\ v.assocs \in Seq(Nat \ {0}) /\ v.assocs # <<>>
  /\ \A j \in JobRows :
       /\ j.eligible \in Nat /\ j.start \in Nat /\ j.end \in Nat /\ j.acpu \in Nat /\ j.rcpu \in Nat
       /\ j.assoc \in Nat \ {0} /\ j.resv \in Nat /\ j.susp \in Seq(Period)

VARIABLES
  phase,       \* which rows are being read, see Phases
  rows,        \* rows of this phase so far
  registered,  \* c_usage # NULL
  c,           \* the local_cluster_usage_t
  resvs,       \* resv_usage_list
  assocs,      \* assoc_usage_list: [id, cpu]
  a_usage,     \* the entry a_usage points to, 0 for NULL
  last_id,
  todo,        \* what is left to hand out: [assoc, secs]
  before,      \* history: c before it was balanced
  ran          \* history: the job rows seen

vars == <<phase, rows, registered, c, resvs, assocs, a_usage, last_id, todo, before, ran>>

Phases == {"regs", "nodes", "resvs", "jobs", "divide", "done"}

ZeroUsage == [total |-> 0, a |-> 0, d |-> 0, pd |-> 0, i |-> 0, o |-> 0, r |-> 0,
              start |-> 0, end |-> 0]

Init ==
  /\ phase = "regs" /\ rows = 0
  /\ registered = FALSE /\ c = ZeroUsage
  /\ resvs = <<>> /\ assocs = <<>> /\ a_usage = 0 /\ last_id = -1
  /\ todo = <<>> /\ before = ZeroUsage /\ ran = <<>>

-----------------------------------------------------------------------------
Later(x, y)   == IF x < y THEN y ELSE x
Earlier(x, y) == IF x < y THEN x ELSE y

\* The where clause of the queries, and the row cut to the hour.
InHour(row) == row.start < CurrEnd /\ (row.end >= CurrStart \/ row.end = 0)
From(row)   == Later(row.start, CurrStart)
Till(row)   == IF row.end = 0 \/ row.end > CurrEnd THEN CurrEnd ELSE row.end

TakeRow == rows < MaxRows /\ rows' = rows + 1

\* A registration of the cluster: its cpu time adds up over changes of its size.
RegEvent ==
  /\ phase = "regs" /\ TakeRow
  /\ \E e \in Regs :
       /\ InHour(e) /\ Till(e) - From(e) >= 1
       /\ registered => From(e) >= c.end
       /\ c' = [c EXCEPT !.total = @ + (Till(e) - From(e)) * e.cpu,
                         !.start = IF registered THEN @ ELSE From(e),
                         !.end = Till(e)]
  /\ registered' = TRUE
  /\ UNCHANGED <<phase, resvs, assocs, a_usage, last_id, todo, before, ran>>

\* A node that is down, within the time the cluster was registered.
DownEvent ==
  /\ phase = "nodes" /\ registered /\ TakeRow
  /\ \E e \in Downs :
       /\ InHour(e)
       /\ LET secs == Earlier(Till(e), c.end) - Later(From(e), c.start) IN
          /\ secs > 0
          /\ c' = [c EXCEPT !.d = @ + secs * e.cpu]
  /\ UNCHANGED <<phase, registered, resvs, assocs, a_usage, last_id, todo, before, ran>>

\* A reservation counts as allocated, or as planned down time.
ResvRow ==
  /\ phase = "resvs" /\ registered /\ TakeRow
  /\ \E v \in Resvs :
       LET time == (Till(v) - From(v)) * v.cpu IN
       /\ v.start < CurrEnd /\ v.end >= CurrStart /\ Till(v) - From(v) >= 1
       /\ resvs' = Append(resvs, [id |-> v.id, total |-> time, a |-> 0, start |-> From(v),
                                  end |-> Till(v), assocs |-> v.assocs])
       /\ c' = IF v.maint THEN [c EXCEPT !.pd = @ + time] ELSE [c EXCEPT !.a = @ + time]
  /\ UNCHANGED <<phase, registered, assocs, a_usage, last_id, todo, before, ran>>

\* A job that ended without a start counts from its end.
JobFrom(j) ==
  IF j.start # 0 THEN Later(j.start, CurrStart) ELSE j.end

\* The seconds a suspension takes off: its time within the job's.  The end of an
\* open suspension, 0, is not replaced.
TimeOff(j, s) ==
  LET secs == Earlier(Till(j), s.end) - Later(JobFrom(j), s.start) IN
  IF s.start = 0 \/ ~InHour(s) \/ secs < 1 THEN 0 ELSE secs

SuspendedIn_Whole(j) ==
  Total([k \in DOMAIN j.susp |-> Later(0, j.susp[k].end - j.susp[k].start)], Len(j.susp))

SuspendedIn(j) == Total([k \in DOMAIN j.susp |-> TimeOff(j, j.susp[k])], Len(j.susp))

Starts(j) == JobFrom(j) # 0 /\ Till(j) - JobFrom(j) >= 1

JobSeconds(j) == IF Starts(j) THEN Till(j) - JobFrom(j) - SuspendedIn(j) ELSE 0

\* The rows come ordered by association: a new one opens an entry.
ChargeAssoc(id, secs) ==
  IF last_id # id
    THEN /\ assocs' = Append(assocs, [id |-> id, cpu |-> secs])
         /\ a_usage' = Len(assocs) + 1 /\ last_id' = id
    ELSE /\ assocs' = [assocs EXCEPT ![a_usage].cpu = @ + secs]
         /\ UNCHANGED <<a_usage, last_id>>

\* The use job j makes of its reservation, in each record the reservation has.
UseResv(j) ==
  [k \in DOMAIN resvs |->
     LET v == resvs[k]
         secs == Earlier(Till(j), v.end) - Later(JobFrom(j), v.start)
     IN  IF v.id = j.resv /\ secs > 0 THEN [v EXCEPT !.a = @ + secs * j.acpu] ELSE v]

\* The time between becoming eligible and starting, in this hour.
ReservedTime(j) ==
  IF JobFrom(j) = 0 \/ JobFrom(j) >= c.start
    THEN Later(0, Earlier(JobFrom(j), c.end) - Later(j.eligible, c.start)) * j.rcpu
    ELSE 0

\* A job row.  One that was suspended all the time is skipped, and a job of a
\* reservation adds nothing to the cluster.
JobRow ==
  /\ phase = "jobs" /\ TakeRow
  /\ \E j \in JobRows :
       LET secs == JobSeconds(j) IN
       /\ j.eligible < CurrEnd /\ (j.end >= CurrStart \/ j.end = 0)
       /\ ran # <<>> => LET p == ran[Len(ran)] IN
            p.assoc < j.assoc \/ (p.assoc = j.assoc /\ p.eligible <= j.eligible)
       /\ ran' = Append(ran, j)
       /\ IF secs >= 1 THEN ChargeAssoc(j.assoc, secs * j.acpu)
                       ELSE UNCHANGED <<assocs, a_usage, last_id>>
       /\ \/ Starts(j) /\ secs < 1 /\ UNCHANGED <<c, resvs>>
          \/ /\ ~(Starts(j) /\ secs < 1) /\ j.resv # 0
             /\ resvs' = IF secs > 0 THEN UseResv(j) ELSE resvs
             /\ UNCHANGED c
          \/ /\ ~(Starts(j) /\ secs < 1) /\ j.resv = 0
             /\ c' = IF registered
                       THEN [c EXCEPT !.a = @ + secs * j.acpu, !.r = @ + ReservedTime(j)] ELSE c
             /\ UNCHANGED resvs
  /\ UNCHANGED <<phase, registered, todo, before>>

\* What is left of each reservation, an equal share for each association.
Shares ==
  LET share(v) == (v.total - v.a) \div Len(v.assocs)
      f[k \in 0..Len(resvs)] ==
        IF k = 0 THEN <<>>
        ELSE IF resvs[k].total - resvs[k].a <= 0 THEN f[k-1]
        ELSE f[k-1] \o [n \in DOMAIN resvs[k].assocs |->
                          [assoc |-> resvs[k].assocs[n], secs |-> share(resvs[k])]]
  IN  f[Len(resvs)]

\* The search for an association's entry tests !a_usage->id == associd, which
\* holds for none, so that it ends with a_usage NULL and an entry is added.
Divide ==
  /\ phase = "divide" /\ todo # <<>>
  /\ ChargeAssoc(Head(todo).assoc, Head(todo).secs)
  /\ todo' = Tail(todo)
  /\ UNCHANGED <<phase, rows, registered, c, resvs, before, ran>>

\* No more than there is to allocate; then no more in use than there is.
Clamped(u) ==
  LET a == Earlier(u.a, u.total) IN
  IF u.total < a + u.d + u.pd
    THEN [u EXCEPT !.a = a, !.pd = 0, !.d = u.total - a]
    ELSE [u EXCEPT !.a = a]

\* What is left is idle; what is missing is taken from the reserved time and
\* booked as over-committed.
Balanced_NoOver(u) ==
  LET i == u.total - (u.a + u.d + u.pd) - u.r IN
  IF i < 0 THEN [u EXCEPT !.r = Later(0, @ + i), !.i = 0] ELSE [u EXCEPT !.i = i]

Balanced(u) ==
  LET i == u.total - (u.a + u.d + u.pd) - u.r IN
  IF i < 0 THEN [u EXCEPT !.r = Later(0, @ + i), !.o = @ - i, !.i = 0]
           ELSE [u EXCEPT !.i = i]

NextPhase(from, to) == phase = from /\ phase' = to /\ rows' = 0

\* The event rows are ordered by node name; the cluster's own have none.
EndRegs ==
  /\ NextPhase("regs", "nodes")
  /\ UNCHANGED <<registered, c, resvs, assocs, a_usage, last_id, todo, before, ran>>

EndNodes ==
  /\ NextPhase("nodes", "resvs")
  /\ UNCHANGED <<registered, c, resvs, assocs, a_usage, last_id, todo, before, ran>>

EndResvs ==
  /\ NextPhase("resvs", "jobs")
  /\ UNCHANGED <<registered, c, resvs, assocs, a_usage, last_id, todo, before, ran>>

EndJobs ==
  /\ NextPhase("jobs", "divide") /\ todo' = Shares
  /\ UNCHANGED <<registered, c, resvs, assocs, a_usage, last_id, before, ran>>

Settle ==
  /\ todo = <<>> /\ NextPhase("divide", "done")
  /\ before' = c
  /\ c' = IF registered THEN Balanced(Clamped(c)) ELSE c
  /\ UNCHANGED <<registered, resvs, assocs, a_usage, last_id, todo, ran>>

Next ==
  \/ RegEvent \/ DownEvent \/ ResvRow \/ JobRow \/ Divide
  \/ EndRegs \/ EndNodes \/ EndResvs \/ EndJobs \/ Settle

Spec == Init /\ [][Next]_vars

-----------------------------------------------------------------------------
(* Properties.                                                             *)

Usage == [total : Nat, a : Nat, d : Nat, pd : Nat, i : Nat, o : Nat, r : Nat,
          start : Nat, end : Nat]

\* The columns of a usage row are unsigned, and never wrap below zero.
TypeOK ==
  /\ phase \in Phases /\ rows \in Nat
  /\ registered \in BOOLEAN /\ c \in Usage /\ before \in Usage
  /\ registered \/ c = ZeroUsage

\* The hour of a cluster adds up: allocated, down, planned down, idle and
\* reserved time make exactly its total, however the rows overlap.
SumsUp == phase = "done" => c.a + c.d + c.pd + c.i + c.r = c.total

\* What is booked as over-committed is what the reserved time exceeded the rest
\* by, and then nothing is idle.
OverIsExcess ==
  phase = "done" =>
    LET free == c.total - (c.a + c.d + c.pd) IN
    /\ c.o = Later(0, before.r - free)
    /\ c.o > 0 => c.i = 0

\* The row of an hour adds up, also where the reserved time does not fit.
HourBalances == SumsUp /\ OverIsExcess

\* The sum of cpu over the entries of an association.
Charged(id) ==
  Total([k \in DOMAIN assocs |-> IF assocs[k].id = id THEN assocs[k].cpu ELSE 0], Len(assocs))

\* The seconds of the hour in which job j ran and was not suspended.
RanSeconds(j) ==
  {t \in CurrStart..CurrEnd - 1 :
     /\ j.start # 0 /\ j.start <= t /\ (j.end = 0 \/ t < j.end)
     /\ \A k \in DOMAIN j.susp : ~(j.susp[k].start <= t /\ t < j.susp[k].end)}

\* What the job rows of an association ran.
Ran(id) ==
  Total([k \in DOMAIN ran |->
           IF ran[k].assoc = id THEN Cardinality(RanSeconds(ran[k])) * ran[k].acpu ELSE 0], Len(ran))

AssocIds == {j.assoc : j \in JobRows}

\* An association is charged the seconds its jobs ran, and only those, in one
\* entry: starts, ends and closed suspensions are cut to the hour.
JobsCharged ==
  phase = "jobs" =>
    \A id \in AssocIds :
      Charged(id) = Ran(id) /\ Cardinality({k \in DOMAIN assocs : assocs[k].id = id}) <= 1
=============================================================================
