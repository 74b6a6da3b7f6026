----------------------------- MODULE AcctTables ------------------------------
(***************************************************************************)
(* The tables the plugin keeps of one cluster besides its associations:    *)
(* of its jobs (JobAcct), of its processors and down nodes                 *)
(* (ClusterEvents), of a reservation (Reservations), of the usage          *)
(* (UsageTables), and the archive of old rows (Archive).  The calls of one *)
(* kind touch no row of another, so a behaviour has calls of one kind: the *)
(* other tables would only multiply the states.                            *)
(***************************************************************************)
EXTENDS JobAcct

CONSTANTS
  Nodes, Counts, NodeLists, Horizon,           \* of ClusterEvents
  Cpus, ResvHorizon, MaxChanges,               \* of Reservations
  Items, Archived, Purge, MaxMonth, MaxRuns, MaxHurt,   \* of Archive
  Account, Users, Amounts, DayHours, MonthDays, Months, MaxRecords, MaxRolls, RollTimes,
  Trouble                                      \* of UsageTables

\* A node has a name, a cluster that registers has processors, a reservation
\* reserves some, and a day has hours; job_purge and its like are numbers of months.
ASSUME TablesAssumption ==
  /\ "" \notin Nodes /\ Counts \subseteq Nat \ {0} /\ Cpus \subseteq Nat \ {0}
  /\ DayHours \in Nat \ {0} /\ MonthDays \in Nat \ {0} /\ Months \in Nat \ {0}
  /\ Amounts \subseteq Nat /\ RollTimes \subseteq Nat /\ Account \notin Users
  /\ Purge \in Nat

VARIABLES
  scene,    \* the kind of calls
  events, cluster, recall, hist, told, refused,
  clock, resv, rows, pending, reserved, lost, late, changes, removed,  \* clock: its now
  month, tables, files, olds, runs, known, hurt,
  hour, used, hours, days, months, marks, global_last_rollup, roll, records, rolls, failed, mishaps

Events == INSTANCE ClusterEvents
Resv == INSTANCE Reservations WITH now <- clock, Horizon <- ResvHorizon
Arch == INSTANCE Archive
Usage == INSTANCE UsageTables WITH now <- hour

jobVars   == <<ctl, db, last, rejoin, spoilt, bounds>>
eventVars == <<events, cluster, recall, hist, told, refused>>
resvVars  == <<clock, resv, rows, pending, reserved, lost, late, changes, removed>>
archVars  == <<month, tables, files, olds, runs, known, hurt>>
usageVars == <<hour, used, hours, days, months, marks, global_last_rollup, roll, records, rolls,
               failed, mishaps>>

TablesInit ==
  /\ scene \in {"jobs", "cluster", "resv", "archive", "usage"}
  /\ Init /\ Events!Init /\ Resv!Init /\ Arch!Init /\ Usage!Init
  /\ scene # "cluster" => events = {}

TablesNext ==
  /\ UNCHANGED scene
  /\ \/ scene = "jobs" /\ Next /\ UNCHANGED <<eventVars, resvVars, archVars, usageVars>>
     \/ scene = "cluster" /\ Events!Next /\ UNCHANGED <<jobVars, resvVars, archVars, usageVars>>
     \/ scene = "resv" /\ Resv!Next /\ UNCHANGED <<now, jobVars, eventVars, archVars, usageVars>>
     \/ scene = "archive" /\ Arch!Next /\ UNCHANGED <<now, jobVars, eventVars, resvVars, usageVars>>
     \/ scene = "usage" /\ Usage!Next /\ UNCHANGED <<now, jobVars, eventVars, resvVars, archVars>>

TablesVars == <<scene, vars, eventVars, resvVars, archVars, usageVars>>
TablesSpec == TablesInit /\ [][TablesNext]_TablesVars

\* For TLC: the call made last is forgotten when none may be made again.
RowsView == <<scene, now, ctl, db, IF resends < MaxResends THEN last ELSE NoCall, rejoin, spoilt, bounds,
              eventVars, resvVars, archVars, usageVars>>

\* ClusterEvents!EventsOnce: every second of the cluster has one row with its
\* processor count, and a node is on record as down in the seconds it was, once
\* in each.
EventsOnce == scene = "cluster" => Events!EventsOnce

\* Reservations!ReservedOnce: every second a reservation was in force is covered
\* by one row, with the processors it had then; with the two defects it names, of
\* a removal in force and of a change that comes after the start it changes.
ReservedOnce == scene = "resv" => Resv!ReservedOnce

\* Archive!ArchiveKeeps: an archived row is in its table or in a file.
ArchiveKeeps == scene = "archive" => Arch!ArchiveKeeps

\* UsageTables!ReportsAddUp: what a report says an association used is what its job
\* rows say, whatever window it is of and whichever table it is read from.
ReportsAddUp == scene = "usage" => Usage!ReportsAddUp
=============================================================================
