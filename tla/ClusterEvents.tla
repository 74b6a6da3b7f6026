---------------------------- MODULE ClusterEvents ----------------------------
(***************************************************************************)
(* The event table of one cluster: a row with the cluster's processor      *)
(* count for every period between two changes of it, and a row for every   *)
(* period a node was down.  The hourly usage takes a cluster's total from  *)
(* the first and its down time from the second, so no second may be        *)
(* missing from them or be there twice.                                    *)
(*                                                                         *)
(* The controller is external: it tells of a change as it happens, tells   *)
(* of a down node again when it restarts or was asked to                   *)
(* (ACCOUNTING_FIRST_REG), and repeats a call whose reply was lost.        *)
(***************************************************************************)
EXTENDS Naturals, Sequences, FiniteSets

CONSTANTS
  Nodes,      \* nodes that may go down
  Counts,     \* processor counts of the cluster
  NodeLists,  \* the cluster_nodes strings
  Horizon     \* the clock runs from 1 to Horizon

VARIABLES
  now,
  events,   \* the rows of event_table
  cluster,  \* the controller's cpus, nodes and down nodes
  recall,   \* down nodes whose rows a change of the count closed
  hist,     \* what was true in each second that is over
  told,     \* the call made last; it may be made again
  refused   \* an insert hit the primary key

Whole  == ""        \* node_name of the rows about the cluster itself
NULL   == "NULL"    \* no cluster_nodes given; printed into the row as "(null)"
Printed(nodes) == IF nodes = NULL THEN "(null)" ELSE nodes

Row(n, cpus, nodes, t) == [node |-> n, cpus |-> cpus, nodes |-> nodes, start |-> t, end |-> 0]

\* update event_table set period_end=t where period_end=0 and node_name in names
Close(rows, names, t) ==
  {[r EXCEPT !.end = IF @ = 0 /\ r.node \in names THEN t ELSE @] : r \in rows}

\* The row with the primary key of r.
Same(rows, r) == {q \in rows : q.node = r.node /\ q.start = r.start}

\* Mutant: the insert without its "on duplicate key" clause.
NodeDownNoReopen(rows, n, t) ==
  LET closed == Close(rows, {n}, t)
      new == Row(n, 1, "", t)
  IN IF Same(closed, new) = {} THEN closed \cup {new} ELSE closed

\* clusteracct_storage_p_node_down: close the node's row; insert, on duplicate
\* key update period_end=0.
NodeDownRows(rows, n, t) ==
  LET closed == Close(rows, {n}, t)
      new == Row(n, 1, "", t)
      old == Same(closed, new)
  IN IF old = {} THEN closed \cup {new}
     ELSE (closed \ old) \cup {[r EXCEPT !.end = 0] : r \in old}

\* clusteracct_storage_p_node_up
NodeUpRows(rows, n, t) == Close(rows, {n}, t)

OpenCluster(rows) == {r \in rows : r.node = Whole /\ r.end = 0}

\* The insert at add_it, which has no "on duplicate key" clause.  A first
\* registration has the answer of a plugin that is called directly; through
\* SlurmDBD it is SLURM_SUCCESS, and there is no down node to ask for.
AddIt(rows, procs, nodes, t) ==
  LET new == Row(Whole, procs, Printed(nodes), t) IN
  IF Same(rows, new) = {}
  THEN [rows |-> rows \cup {new}, rc |-> "ACCOUNTING_FIRST_REG"]
  ELSE [rows |-> rows, rc |-> "SLURM_ERROR"]

\* clusteracct_storage_p_cluster_procs: nothing to do when the open row has the
\* same count and the same nodes (or none are given); fill in the nodes of a row
\* that has none; otherwise close every open row of the cluster, the down nodes'
\* too, and insert a new one.
ClusterProcs(rows, procs, nodes, t) ==
  LET open == OpenCluster(rows)
      row == CHOOSE r \in open : TRUE
  IN CASE open = {} -> AddIt(rows, procs, nodes, t)
       [] open # {} /\ row.cpus = procs /\ nodes \in {row.nodes, NULL} ->
            [rows |-> rows, rc |-> "SLURM_SUCCESS"]
       [] open # {} /\ row.cpus = procs /\ row.nodes = "" /\ nodes \notin {"", NULL} ->
            [rows |-> (rows \ open) \cup {[r EXCEPT !.nodes = nodes] : r \in open},
             rc |-> "SLURM_SUCCESS"]
       [] OTHER -> AddIt(Close(rows, Nodes \cup {Whole}, t), procs, nodes, t)

-----------------------------------------------------------------------------
\* An empty table, or one a version without cluster_nodes has left.
Init ==
  /\ now = 1
  /\ \/ events = {} /\ cluster = [cpus |-> 0, nodes |-> NULL, down |-> {}]
     \/ \E c \in Counts : /\ events = {Row(Whole, c, "", 1)}
                          /\ cluster = [cpus |-> c, nodes |-> NULL, down |-> {}]
  /\ recall = {} /\ hist = <<>> /\ told = [op |-> "none"] /\ refused = FALSE

\* What is true in this second: the count, and the nodes that are down and have
\* been reported since the count last changed.
Current == [cpus |-> cluster.cpus, down |-> cluster.down \ recall]

Tick ==
  /\ now < Horizon /\ now' = now + 1
  /\ hist' = Append(hist, Current)
  /\ UNCHANGED <<events, cluster, recall, told, refused>>

\* The controller starts or is reconfigured: its count and nodes, and the down
\* nodes it still has.  When the rows were closed, the down nodes are closed too.
Register(procs, nodes, gone) ==
  LET res == ClusterProcs(events, procs, nodes, now) IN
  /\ ~refused /\ gone \subseteq cluster.down
  /\ gone # {} => res.rc = "ACCOUNTING_FIRST_REG"
  /\ events' = res.rows
  /\ refused' = (res.rc = "SLURM_ERROR")
  /\ cluster' = [cpus |-> procs, nodes |-> nodes, down |-> cluster.down \ gone]
  /\ recall' = IF res.rc = "ACCOUNTING_FIRST_REG" THEN cluster.down \ gone ELSE recall
  /\ told' = [op |-> "procs", procs |-> procs, nodes |-> nodes, time |-> now]
  /\ UNCHANGED <<now, hist>>

TellDown(n) ==
  /\ events' = NodeDownRows(events, n, now)
  /\ told' = [op |-> "down", node |-> n, time |-> now]

Down(n) ==
  /\ ~refused /\ cluster.cpus # 0 /\ n \notin cluster.down
  /\ cluster' = [cluster EXCEPT !.down = @ \cup {n}]
  /\ TellDown(n)
  /\ UNCHANGED <<now, recall, hist, refused>>

\* A restart, or the answer to ACCOUNTING_FIRST_REG.
Again(n) ==
  /\ ~refused /\ n \in cluster.down
  /\ recall' = recall \ {n}
  /\ TellDown(n)
  /\ UNCHANGED <<now, cluster, hist, refused>>

Up(n) ==
  /\ ~refused /\ n \in cluster.down
  /\ cluster' = [cluster EXCEPT !.down = @ \ {n}]
  /\ recall' = recall \ {n}
  /\ events' = NodeUpRows(events, n, now)
  /\ told' = [op |-> "up", node |-> n, time |-> now]
  /\ UNCHANGED <<now, hist, refused>>

\* The reply was lost: the same call, with the time it was first made.
Repeat ==
  /\ ~refused
  /\ \/ told.op = "down" /\ events' = NodeDownRows(events, told.node, told.time)
     \/ told.op = "up" /\ events' = NodeUpRows(events, told.node, told.time)
     \/ told.op = "procs"
        /\ events' = ClusterProcs(events, told.procs, told.nodes, told.time).rows
  /\ UNCHANGED <<now, cluster, recall, hist, told, refused>>

Next ==
  \/ Tick \/ Repeat
  \/ \E procs \in Counts, nodes \in NodeLists \cup {NULL}, gone \in SUBSET Nodes :
       Register(procs, nodes, gone)
  \/ \E n \in Nodes : Down(n) \/ Again(n) \/ Up(n)

-----------------------------------------------------------------------------
(* Properties.                                                             *)

Covers(r, s) == r.start <= s /\ (r.end = 0 \/ s < r.end)
At(s) == IF s = now THEN Current ELSE hist[s]

\* The rows about the cluster neither overlap nor leave a gap: for every second
\* since it registered exactly one of them holds, with the count of that second
\* (clusteracct_storage_p_cluster_procs), and the open one has the nodes the
\* controller last gave.
CountedOnce ==
  ~refused =>
    /\ \A s \in 1..now :
         LET rows == {r \in events : r.node = Whole /\ Covers(r, s)} IN
         IF At(s).cpus = 0 THEN rows = {}
         ELSE Cardinality(rows) = 1 /\ \A r \in rows : r.cpus = At(s).cpus
    /\ cluster.nodes # NULL => \A r \in OpenCluster(events) : r.nodes = cluster.nodes

\* The rows about a node hold for the seconds it was down and for no other, each
\* once: with node_down made again in a restart, with several restarts in one
\* second, with calls made twice, and with nodes that leave the cluster while
\* they are down.
DownOnce ==
  ~refused =>
    \A n \in Nodes, s \in 1..now :
      Cardinality({r \in events : r.node = n /\ Covers(r, s)})
        = (IF n \in At(s).down THEN 1 ELSE 0)

\* The event table tells the history of the cluster: every second of the
\* processor count and of the nodes that were down has its row, and only one.
EventsOnce == CountedOnce /\ DownOnce
=============================================================================
