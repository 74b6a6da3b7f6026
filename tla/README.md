# Verification of the SLURM accounting path in slurm_lite_sacct

The repository is a cut-down SLURM 2.0.5: the `sacct` client, the common
library, the MySQL accounting plugin and the parts of the API they link with.
What carries state, concurrency and failure in it is the path of an accounting
record: a controller queues it (`src/src/common/slurmdbd_defs.c`), SlurmDBD
applies it to the job tables
(`src/src/plugins/accounting_storage/mysql/accounting_storage_mysql.c`), and a
roll-up turns the tables into usage per hour (`mysql_rollup.c`). This project
models that path in TLA+, checks it with TLC on small instances and proves the
central facts for all instances with TLAPS.

## 1. Inventory

| component | state | operations | what is hard | what makes it correct |
|---|---|---|---|---|
| SlurmDBD agent, `slurmdbd_defs.c` | `agent_list`, `agent_tid`, `agent_shutdown`, `slurmdbd_fd`, `halt_agent`, two mutexes with conditions, file `dbd.messages` | open, close, queue a message, synchronous RPC, agent thread | threads share a socket and a queue; lost, late and failed replies; crash, save and load; cancellation | a message leaves the queue only when it was processed or is given up by a rule; messages apply in order; no deadlock; the queue is bounded |
| job tables, `accounting_storage_mysql.c` | `job_table`, `step_table`, `suspend_table` | job_start, job_complete, step_start, step_complete, suspend, flush_jobs_on_cluster | calls purged, repeated, without db_index, after a flush | the rows of a job that is over say what happened to it |
| roll-up scheduling and usage reports, same file and `mysql_rollup.c` | `global_last_rollup`, `last_ran_table`, the hour, day and month tables | roll_usage with its three levels, the checks in job_start and job_complete, get_usage | two threads; records later than the roll-up; failed rolls; restarts; times given by hand | no hour is left behind that lacks time a job ran; a report adds up to what the jobs used |
| hourly usage, `mysql_rollup.c` | the usage lists of one hour | one loop turn of mysql_hourly_rollup | unsigned arithmetic; rows cut to the hour; overlapping rows | an hour adds up; each association is charged what its jobs ran |
| cluster events, `accounting_storage_mysql.c` | `event_table` | node_down, node_up, cluster_procs | repeated, late and lost calls, controller restarts | each second of a node and of the cluster is counted once |
| reservations, same file | `resv_table` | add, modify, remove | a change in force closes a row and opens another | each second of a reservation is in one row |
| associations, same file | the nested set `lft`/`rgt`, parents, limits | add, modify, move, remove | renumbering with values read earlier; revived rows | the numbering is the tree of the parents; limits are inherited |
| connection, commit, same file | a transaction and its `update_list` | commit, rollback | the update is sent after the commit, and may not arrive | a controller's cache follows the table |
| association cache, `assoc_mgr.c` | the lists of associations, users, QOS and wckeys; state and usage files | load, refresh, apply an update, look up, save | updates in groups by type; missed updates; broken saves | the cache answers as the tables would; usage adds up along the tree; a saved state can be read |
| job queries and archive, `mysql_jobacct_process.c` | archive files | select, truncate, archive, purge, load | open ends, failed writes, repeated archives | a job is shown in the windows it ran in; no archived row is lost |
| message packing, `slurmdbd_defs.c`, `slurm_accounting_storage.c`, `slurm_protocol_pack.c`, `pack.c` | bytes of a message; `dbd.messages` | pack and unpack of each type and RPC version, save, load, upgrade | NULL objects, empty lists, cut messages, short writes, old records | what is packed is read back; what is cut is refused |
| users, accounts, clusters, coordinators, QOS, wckeys, `accounting_storage_mysql.c` | a table each | add, revive, modify, remove, list | a removal is one statement per table; groups of updates | nothing is left that names what was removed |
| lists, `list.c` | nodes, iterators | insert, remove, sort, iterate | iterators in a list others change | a pass returns each node that stays once |
| circular buffer, `cbuf.c` | `data`, `i_in`, `i_out`, `i_rep` | write, read, peek, replay, copy, grow | wrap-around, growth, overwriting | a stream that gives up its oldest bytes only |
| host lists, bit strings, `hostlist.c`, `bitstring.c` | ranges; words | push, pop, delete, sort; set, find, pick | joined and split ranges; bits past the end | the hosts named, the bits set |
| job completion log, `jobcomp_filetxt.c` | a text file | write a record, read and parse | cut records | what is read is what was written |
| `sacct`: `options.c`, `process.c`, `print.c` | none that lasts | parse options, fetch, total, print | two builds; running and repeated jobs | the jobs asked for, their values, their totals |
| credentials, forwarding, step launch, PMI | per connection | client side of job steps | threads and timeouts | not modelled; not used by `sacct` |
| configuration, logging, connections | none that lasts | parsing, printing | formats | not modelled |

The controller calls `slurm_send_slurmdbd_msg` (queued) or
`slurm_send_recv_slurmdbd_msg` (synchronous, for instance the first start of a
job, to learn its db_index). The agent thread and the RPC callers share one
socket under `slurmdbd_lock`. SlurmDBD makes the plugin calls in the order of
the requests, each connection by a thread of its own; its roll-up thread runs
beside them and shares `global_last_rollup` with them under `rollup_lock`, and
the database under nothing.

## 2. Modules

| module | models |
|---|---|
| `DbdAgent` | `slurmdbd_defs.c`: queue, agent thread, RPC callers, open and close, file |
| `Delivery` | what the agent promises: each record applied in order or given up |
| `SeqOps` | `Without`, the removal of records from a sequence, and `Total`, what a loop over rows adds up |
| `DbdAgentProofs` | its theorems, and that it implements `Delivery` |
| `JobTables` | the statements of the job calls, as functions on a job's rows, and `mysql_jobacct_process_get_jobs` on them: windows, truncation, elapsed time |
| `JobAcct` | the calls in the order and with the faults the agent delivers them |
| `ClusterEvents` | node_down, node_up and cluster_procs, and the agent's deliveries of them |
| `Reservations` | the rows of one reservation through its life |
| `Archive` | archive, purge and load of the month's rows and files |
| `UsageTables` | the usage tables of hours, days and months, their roll-up and the reports read from them |
| `AcctTables` | the modules above composed over the tables of one cluster |
| `JobAcctProofs`, `AcctTablesProofs` | theorems about the job rows, and about the events, reservations, archives and usage tables |
| `Rollup` | roll thread and call handler; uses `JobTables` |
| `RollupProofs` | its theorems |
| `HourUsage` | one hour of `mysql_hourly_rollup` for one cluster |
| `MCHourUsage` | the rows of its runs |
| `HourUsageProofs` | its theorems |
| `AssocTable` | the statements of the association calls on the nested set |
| `AssocStore` | transactions over `AssocTable`, commit, and a controller's cache |
| `MCAssocStore` | the constants of its run |
| `AssocMgr` | `assoc_mgr.c`: the four lists of a manager, as operators |
| `Entities` | the tables of users, accounts, clusters, coordinators, QOS and wckeys, with two managers and the files of one |
| `EntitiesProofs` | its theorem, about the files |
| `MCEntities` | the constants of its run |
| `Wire` | `pack.c`: items, lengths, cuts, and reading a sequence of items |
| `AcctRecords`, `DbdMessages`, `SlurmMessages` | what each pack and unpack function writes and reads |
| `Records`, `Release` | the structures messages are unpacked to, and what the functions that free them free |
| `Messages` | a message packed, sent or saved, cut, upgraded, read, freed |
| `Lists`, `Cbuf`, `Hostlist`, `Bitstring` | the containers, one call a step |
| `Stream` | what a circular buffer promises |
| `MCContainers` | the four containers for TLC |
| `ContainersProofs` | the theorems about lists and circular buffers |
| `SacctFields`, `SacctOptions`, `SacctQuery`, `Sacct` | fields and cells; the command line; the query and its totals; a run of `sacct` |
| `JobComp` | the text file of completed jobs |
| `MCSacct` | the jobs of its run |
| `SetInduction` | induction over the naturals stated for sets, and lemmas about `Total`, used by the other proofs |

`AcctTables` puts the components that share the database into one specification
and one run. No statement of one kind of calls touches a table of another, so that
nothing can go wrong between them, and a behaviour has calls of one kind (`scene`);
where components do interact on the same state they are composed for it: `Rollup`
with the job rows, `AssocStore` and `Entities` with the managers. `DbdAgent` implements `Delivery`, whose promise (in order, at
least once, starts possibly given up) is what `JobAcct`, `ClusterEvents` and
`Reservations` assume of the calls that reach them.

`JobTables` is the link between components: `JobAcct` asks whether the rows are
right whatever the delivery does, `Rollup` lets the same statements race the
roll-up. `Entities` uses the association statements of `AssocTable` and the
managers of `AssocMgr`; `Sacct` reads with the windows of `JobTables`' query,
modelled again in `SacctQuery` with all of `sacct`'s conditions, and the records
of `JobComp`.

### DbdAgent

A message is the number under which it was accepted; `Starts` and `Registers` say whether it
is a job or step start (purged from a nearly full queue), a registration (not
saved) or another record. Sections under `agent_lock` are single steps, because
no thread blocks in them; `slurmdbd_lock` is held over network I/O and is a
variable. Steps of the agent are the stretches of `_agent` between lock
operations and blocking calls. The socket carries whole requests and replies;
`garbled` stands for framing lost to the byte `_fd_writeable` reads.

History variables: `sent`, `applied` (processed by SlurmDBD), `dropped` (given
up by the code: purged, queue full, registration not saved, write error, process
death). `Env` switches parts of the environment on: `close`, `race` (messages
queued during a close), `cancel` (the agent outlives the five seconds of
`_shutdown_agent`), `late` (replies after the timeout), `crash`. With nothing in
`Env` only faults of the network, of SlurmDBD and of the disk happen, at most
`MaxFaults`.

Left out: `rollback_started` and the DBD_FINI message, the signal to
`assoc_cache_cond`, warnings, and the `fatal` of an unknown cluster when
associations are enforced, which is a crash to the model.

### JobTables and JobAcct

A row keeps start, end, state and suspended time. `idx` in a call says whether
the controller knew the db_index: the statement is then an update by id, and
otherwise an insert whose duplicate key clause updates only some columns. Every
other call looks the row up and, when there is none, adds the job with
`job_start` first (`WithRow`). `ctl` is what is true of a job; a controller event
changes it and makes the call. A repeated call is the agent sending its head
again, and may be a call of any kind. A suspend that is made twice turns the
column of its job over once too often (`accounting_storage_mysql.c:11060`), as a
flush closes rows of jobs that run on: `spoilt` holds the jobs to which either
happened, of which `SuspendedTime` and `WindowShows` say nothing. Other jobs must be
right all the same, and so must the start, end and state of the spoilt ones.

### Rollup

Hours are `HourSecs` seconds long. The handler goes through job_start and
job_complete in the steps other threads can see: the check under `rollup_lock`,
the update of `last_ran_table`, the lookup, the insert or update. The roll thread
reads `last_ran_table`, sets `global_last_rollup`, rolls hour by hour and writes
`last_ran_table`. `mishaps` records which of the things in `Env` have happened:
overlap of the two threads, a failed roll, a call without a known db_index, a
purged start, a restart of SlurmDBD.

### HourUsage

Rows are read in any order the queries allow. The columns are integers that the
proofs show never to leave the naturals; the code keeps them in `uint64_t` and
repairs negative ones by casts. `phase` follows the queries: events of the
cluster, of nodes, reservations, jobs, division of reservations, balance.

### Job queries, ClusterEvents, Reservations, Archive

`JobTables` also evaluates the where clause and the loop over the rows for each window
of the clock, so that the invariants of `rows` quantify over all queries at all
moments. `ClusterEvents` keeps a node's and a cluster's rows of `event_table`; its
controller changes the node and the processor count, and the calls are delivered
as the agent delivers them: once, again, or late. `Reservations` keeps the rows of
one reservation; its calls wait in a queue and arrive at any time, in order, and
the clock goes on meanwhile. `Archive` keeps tables by kind of row, archive files
by month with their `.old` copies, and fails between any two statements. It also
fails without noticing (`Faults`): `left` are the rows that a failed write leaves
out, `links` the calls of `link` that fail, and `hurt` names the rows that lack a
file for it, at most `MaxHurt` in a run of TLC.

What the models show besides the properties:

- A second change of the processor count in one second hits the primary key of
  `event_table` and is refused. `clusteracct_storage_p_register_ctld` never
  succeeds: its statement has a comma before the where
  (`accounting_storage_mysql.c:10171`), so it is left out.
- A change of a reservation is compared with the plugin's clock when it arrives
  (6280). One of the start and the processors, made before the old start and
  delivered after it, ends the row of the old start and adds another: the seconds
  between the two starts are charged, and that row is never removed. `ReservedOnce`
  says how far it reaches when this was the only change, and is silent when more
  changes follow or precede it. Removing a reservation that is in force matches no
  row (7429), contrary to the comment at 7424-7426, so that it is charged to the
  end it had; the property has that end in it. `rc = (mysql_db_query(...) == SLURM_SUCCESS)` binds so that failures
  are hidden (4842, 6311, 7437).
- Jobs are archived with `submit < curr_end` and deleted with `<=`
  (`mysql_jobacct_process.c:2281`, `2322`). The third archive of one month
  overwrites `name.old`: with three rows and three archives `ArchiveKeeps` is
  violated. The result of writing the trailing statement (139-146) replaces the
  error of a row (131-135), and those of `link` are not looked at (158, 160): a
  truncated file, or none, takes the name, and the rows are deleted. `ArchiveKeeps`
  is about the rows that are not `hurt` by this, and shows that the damage reaches
  no others. When the file cannot be created the test `fd == 0` (110) lets -1 pass,
  but then every write fails, the trailing one too, and nothing is deleted. The
  rows of a table are selected and deleted in two statements; what is inserted or
  ended between them is not modelled. The suspend file ends in `update period_end`, and cannot be loaded.
- A suspension that is open has end 0 and is not taken off the elapsed time; a
  step cut to the window loses the whole suspended time; `sacct -T` without `-E`
  cuts ends to 0 (`options.c:423-426`, `991`).

### UsageTables

Time is counted in hours, `DayHours` to a day. A roll is a turn of each of the
loops `mysql_hourly_rollup`, `mysql_daily_rollup` and `mysql_monthly_rollup` per
period (`RollHour`, `RollDay`, `RollMonth`), the steps between the levels
(`NextLevel`) and the update of `last_ran_table` (`RollDone`), which a failed query
leaves out (`RollFail`). `marks` is `last_ran_table`; a job call about an hour before
`global_last_rollup` resets both. `GetUsage` picks a table by the window asked for
and adds up its rows. `Rollup` has what happens inside an hour and when the threads
overlap; here job calls and rolls take turns, and `used` is what the job rows say.

`mishaps` records the three things that `ReportsAddUp` excludes; with any one of
them in place of `mishaps = {}` TLC finds it violated:

- `manual`: a roll whose start is given sets the marks to its end and leaves out
  what lies between the old marks and its start; one whose end is given sets
  `global_last_rollup` and not `last_ran_table`, so that a call about an hour
  between that end and the marks does not count as late;
- `restart`: `global_last_rollup` is 0 again, and no call counts as late;
- `fail`: a roll that failed has moved `global_last_rollup` to its end. A later call
  then sets the marks, which still stand where the last good roll left them, ahead
  to its own hour, and the hours between are skipped.

What the model shows besides:

- The month table is written and never read by a report: it is chosen when
  `tm_mday` of both ends is 0 (`accounting_storage_mysql.c:402-403`), and `tm_mday`
  is 1 to 31.
- An hour in which nothing is used any more keeps its row, because only
  associations with time in the hour are written. `HoursRolled` names the case.
- A report up to last midnight, asked for before the roll that follows midnight,
  reads no row for the last day and says so nowhere. `Reached` names the case.

Left out: summer time, and who may read a report.

### AssocTable and AssocStore

A row has parent, lft, rgt, limits, a deleted flag and its age. `AssocTable` has
one operator per statement group: make room, insert or revive, move a subtree,
close the gap, inherit limits. `AssocStore` runs the calls of one connection on a
working copy of the table (the transaction), queues what the controllers are to be
told, and commits, rolls back, loses the update, or reloads a controller. `Env`
switches on the sequences the properties do not survive:

| kind | what happens | violates |
|---|---|---|
| `batch` | a call adds new associations and revives one elsewhere | `TreeOK` |
| `noparent` | reviving without parent_acct records the root as parent and moves nothing | `TreeOK` |
| `orphan` | an account under a deleted parent | `CacheAgrees` |
| `multi` | moving two accounts with stale lft and rgt makes a cycle (comment at 1694-1697) | `TreeOK` |
| `moveroot` | moving the root account | `TreeOK` |
| `clear` | INFINITE is sent instead of the inherited limit | `CacheAgrees` |
| `again` | the MODIFY group is applied before the ADD of a revived and moved row | `CacheAgrees` |
| `nocommit` | the commit fails, the updates are sent | `CacheAgrees` |
| `goon` | a modification that matches nothing rolls back and keeps `update_list` | `CacheAgrees` |

Each is a hazard in `PROJECT.json` or part of one. Left out: partitions,
coordinators' permissions, two connections at a time. Clusters and the QOS of
associations are in `Entities`.

### AssocMgr and Entities

A manager is a record of four lists; `Entities` has two, that of slurmdbd and that
of the controller of one cluster, which also has files. The tables are `t` inside
the transaction and `db` as committed. A call of the plugin changes `t` and puts
its updates, grouped by type, on the list that the commit sends to both managers,
or that a controller misses. A save of the controller goes through the link and
unlink calls of the shuffle one by one and may be broken off at each; a restart
loads what is there. `Outcomes` are how the write of a file may go: well; with an
error; or with a signal, after which the loop counts the -1 as bytes written
(`assoc_mgr.c:2237-2245`) and goes on to write something else than the data
(`Mangled`), unnoticed. A `link` fails because the name is taken or for any other
reason; the code unlinks the source in each case (2254-2260, 2325-2331). An
outcome has a weight, and a run has `MaxCrashes = 2` of it: a stop and a noticed
failure weigh 1, a signal and a failed link 2.

What the model shows besides the properties:

- The refresh of wckeys passes them to `_post_user_list` (`assoc_mgr.c:724`), so
  that their uid stays 0, and a wckey is then not found by its user.
- One user twice in a list of updates, and three or more calls in a transaction,
  may be applied in another order than they were made. A refresh of users or QOS
  reads without the lock and loses an update in between.
- A root association that is announced with parent 0 becomes the controller's
  root (`assoc_mgr.c:282`); a controller that missed an update keeps a pointer to
  a record it frees.
- A user that is added again keeps the old admin level in the table while the
  caches say it is not set. Coordinators of the accounts above are not told.
- A failed write of the state also discards the usage file. Three broken saves in
  a row leave no whole state, because what is loaded reads the regular file only. A
  link that fails does as much with one more save that is broken off, and so do two
  links that fail; the bound of `StateKept` counts it as two for that reason.
- A manager drops every change of a QOS, which is marked "FIX ME"
  (`assoc_mgr.c:2069-2072`), and what is said of a QOS it already has (2062). It
  goes on answering with the old priority. `AnswersAgree` compares names always and
  priorities until an update of such a kind was sent (`Unheard`).
- Whenever the tree is built anew every account's usage is set to zero and added
  up again, except the root's (1758-1760, 1803-1809), so that the root's grows at
  each update that moves an association; `load_assoc_usage` stops below the root as
  well. `UsageRollsUp` bounds the root's jobs from below and says nothing of its
  usage.

### Wire, AcctRecords, DbdMessages, SlurmMessages, Records, Release, Messages

`Records` says which members a structure has, `Release` which of them its destroy
function frees. A buffer is the sequence of items written; an item has the length it takes and
what the reader can tell of it: a constant, a count, a string that is NULL or not
and has no quotation mark, one, or several.
A pack function is the sequence of items it writes for an object, an unpack
function the sequence it reads, decided by the counts it meets, and both follow
the source's branches on NULL objects and on `rpc_version`. Values are left out
but for those a branch of the reader depends on. `Messages` takes every message
type, version and shape, packs it, lets it be cut at any item, saved with short
writes, loaded after an upgrade, and reads it.

What it shows: the branches for a NULL object write what the reader does not
expect for clusters of version 2, transaction conditions from version 3 and job
conditions of version 5; `unpack_jobacct_job_rec` calls a pack function
(`jobacct_common.c:400`), so that statistics of jobs are lost;
`pack_acct_job_cond` never sends `wckey_list`, which `options.c:436-437` sets;
the last 16 bytes of usage messages, 32 of QOS records and 6 of headers may be cut
without an error; records saved in `dbd.messages` are not packed again after an
upgrade, so that job starts, step starts, node states and processor counts are
refused for ever and block the queue (`slurmdbd_defs.c:1779`), contrary to
`slurmdbd_defs.h:62-71`; lists of version 2 send their first element only. A
job start of versions 3 and 4 has name and wckey in one string, which the reader
splits at the quotation mark (`slurmdbd_defs.c:2911-2934`): a name that has
several becomes "bad_name", and a NULL name is given to `strchr`, which ends the
process (`NameGap`). The properties name these exceptions.

Left out: RESPONSE_NODE_SELECT_INFO, which the select plugin packs, and
authentication credentials.

### Lists, Cbuf, Hostlist, Bitstring

Each call of a container takes its mutex, so that a call is a step; what spans
calls is an iterator, the position in a buffer, or bits past the end of a bit
string, which `bit_not` and `bit_realloc` leave with any value. `Lists` keeps the
pointers of the code (an iterator has two) and lets iterators run while other
threads insert, remove and sort. `Cbuf` keeps the cells and indices and implements
`Stream`. `Hostlist` keeps ranges; `Bitstring` words.

Divergences met here: `hostlist_shift_range` and `hostlist_pop_range` shift the
array by the number of ranges after joining (`hostlist.c:2028`) and are left out,
like the coordinates of Blue Gene, which are not built.

### SacctFields, SacctOptions, SacctQuery, Sacct, JobComp

One run of `sacct`: a command line is parsed, the jobs are fetched from the tables
or from the completion log, and cells are printed. Both builds, with and without
NEWQUERY, are in the model. The worlds of the run have jobs that ran twice under
one id, that run, that never started, with one step or several, on two clusters.

Where the code does not do what its help or its manual says, the properties name
the exception: the short options -D, -L, -T and -U are refused; `--allclusters` is
missing from the long options; "COMPLETED" is not understood as a state; a second
-N is ignored; user CPU time of a job shows the total; `ResvCPURAW` shows
`ResvCPU`; a completion row's elapsed time subtracts pointers; `-f` has no effect
with `-c`; a list "1,,2" holds job 0; the total CPU time of a job adds that of its
steps to NO_VAL in the old build; averages divide by all steps; one job id on two
clusters counts as a duplicate (`mysql_jobacct_process.c:1207`).

## 3. What the runs show

| run | result | shows |
|---|---|---|
| `close` | pass, 110,224 states | `KeepsPromise` (the agent implements `Delivery`), `KeptUntilApplied`, `ReplyMatchesRequest`, `AgentWaitHasWaker`, and that every close (`CloseReturns`), RPC (`RpcReturns`) and the queue itself (`Drain`) come to an end, over closes, restarts and crashes with two callers |
| `full` | pass, 1,109,153 states | `TypeOK`, `QueueBounded`, `ListOrFile`, `OneSocketUser`, `AppliedInOrder` with everything in `Env` and a queue of two |
| `purge` | violation of `NotLost` | the purge removes the message in flight, and the reply to it removes another one |
| `rows` | pass, 2,117,190 states | `JobRecorded`, `SuspendedTime`, `WindowShows` under purges, repeated calls of every kind, restarts; `EventsOnce`; `ReservedOnce` with calls delivered at any time; `ArchiveKeeps` with noticed and unnoticed failures; `ReportsAddUp` over three levels of rolls, late calls, failures and reports of every window |
| `rollup` | pass, 2,718,013 states | `HoursCovered` and `MarkAgrees`, with each property naming the mishaps it excludes |
| `overlap` | violation of `UsageComplete` | a roll between the check and the insert loses the job's hour |
| `hour` | pass, 333,863 states | `HourBalances`, `JobsCharged` for all choices of rows of each kind |
| `assoc` | pass, 286,860 states | `TreeOK`, `CacheAgrees` (the tree and the limits of a cache), `JobsKeepAssoc` |
| `entities` | pass, 108,290 states | `AnswersAgree`, `NoOrphans`, `UsageRollsUp`, `StateKept` |
| `containers` | pass, 25,103 states | `EachOnce`, `HostsKept`, `SearchesAgree`, and `IsStream` (the circular buffer implements `Stream`) |
| `wire` | pass, 65,349 states | `ReadBack` (what is packed is read back, what is cut is refused, what was saved is recovered), `FieldsArrive`, `FreedAfterUse` |
| `sacct` | pass, 92,490 states | `ListsWhatIsAsked`, `CellsMean`, `TotalsAddUp` |

Each violation contradicts a comment in the code, quoted in `PROJECT.json`.
Divergences known besides them, which no run repeats:

- A reply that comes after the agent gave it up (`late` in `Env`) is credited to
  the next request and violates `NotLost` like the purge does
  (`slurmdbd_defs.c:1757`).
- An agent that is cancelled after five seconds dies with the mutex it holds, and
  the close then blocks on it (`slurmdbd_defs.c:1665`, `182`), contrary to the
  comment at 1658-1661: with `cancel` in `Env` TLC finds `CloseReturns` violated.
- job_start for a job that a flush ended keeps the end
  (`accounting_storage_mysql.c:10542-10548`).
- The share of a reservation that an association did not use is written as a
  second entry of it, which replaces what its jobs ran (`mysql_rollup.c:716`).
- `UsageComplete` is violated by each of the other mishaps alone as well: a failed
  roll has moved `global_last_rollup` past hours that were not rolled; a call
  without db_index leaves the start of the row as it was; a purged start leaves
  the reset to job_complete, which goes back to the end of the job only; after a
  restart nothing counts as late.

### Bounds

- Agent: two messages of different kinds in `close`, whose queue never fills, with
  a fault, a crash, closes and two callers, enough for one to clear the flag of
  the other; four starts and a queue of two in `full`, so that the purge and the
  refusal happen; three in `purge`, one in flight, one behind it and one that
  triggers the purge.
- Job rows: one job, because the statements name a single job; two suspensions
  show the alternation of the suspended column; four instants separate start,
  suspension, resumption and end; one call is repeated, of any kind (with more the
  repetitions are of different calls, and each leaves the row as it was or spoils
  its job; the theorems have any number).
- Tables: one node, counts of 2 and 3, two node lists and three instants make each
  change meet each other; reservations live four instants and change twice;
  archives hold two rows of each kind, two months back and forth, and run twice;
  unnoticed failures stop when a row was hurt (`MaxHurt = 1`), which leaves the other
  row to be kept; rows are inserted in the months that are still archived. `RowsView`
  lets TLC forget the call made last when none may be made again, since neither a
  step nor a property looks at it then.
- Usage tables: days of two hours, months of two days and two months, so that
  each level has a first, a middle and a last period; two late records and two rolls,
  each of which may fail, be given times or come after a restart; the account's
  association and one user's.
- Roll-up: three hours of two seconds and two rolls (three in `overlap`), so that
  a job can start, run over and end in different hours, each before or after a
  roll. One job, since usage is kept per association.
- Hour: two seconds long, with rows of every relation to it, so that each clamp
  and the over-commitment happen.
- Associations: a root, two accounts and a user, one limit, three calls in a
  transaction of at most two, eight ids, so that a row can be removed, revived,
  moved and moved back.
- Entities: two names, two accounts one below the other, two clusters of which one
  has a controller, one wckey, two QOS, two transactions' worth of three calls,
  two uses, and two broken saves or one with a failed link or a signal; `MCScenarios` says which tables change together.
- Containers: three nodes and two iterators; buffers that grow from their smallest
  to their largest size with writes of three cells; four hosts of one prefix with
  ranges of at most four; bit strings of up to six bits in words of four.
- Messages: versions 2 to 5, strings that are NULL or of one length (in a job start also
  with one quotation mark or several), lists of none, one and two
  elements, each pointer NULL or not, every cut between two items.
- sacct: eight jobs and steps that differ in all that the code tests, and every
  command line of up to two options; a completion log of two records cut at each
  place between their fields.

### Fairness

`FairSpec` assumes weak fairness of the agent's steps, of the steps of an RPC that
has begun, of an open or close that has begun, and of SlurmDBD: the operating
system schedules every thread, and SlurmDBD works on what it was sent. A caller's
wait for `slurmdbd_lock` has strong fairness: the mutex, which the agent releases
and takes again in every turn, comes to each waiter at some time. Nothing is
assumed of who calls, queues, closes, fails, hangs up or restarts. `RetryTimePasses`, the ten seconds after
a failure, is fair because time passes. Failures are finite in each behaviour;
`Drain` therefore does not claim anything about a SlurmDBD that refuses a message
for ever, and the code then keeps that message at the head for ever.

`CHECK_DEADLOCK FALSE` stands where a behaviour may end: the clock or the number
of rolls is used up, the hour is done, a lock died with its thread.

## 4. What is proved

Each theorem below holds for every value of the constants that the modules'
assumptions admit: any number of messages, callers, faults, jobs, nodes, rolls,
any order and any times. Hypotheses beyond the assumptions are named and said why
they are needed. The proofs have one step for each action and, below it, one for
each part of the invariant that the action can disturb.

**`DbdAgentProofs`** (any `Env`)

- `TypeCorrect`, `QueueBoundedAlways`, `ListOrFileAlways`. `QueueBounded` counts
  the list and the file together, because a load appends the file to the list; it
  is inductive only with `ListOrFile` (one of the two is empty when the other is
  filled) and with the fact that purging and saving never lengthen a sequence,
  lemmas about `Without`.
- `OneSocketUserAlways`, `AgentWaitHasWakerAlways`. They say who holds
  `slurmdbd_lock` in each control state, and that a set `halt_agent` or a waiting
  agent has a caller that is still to signal.

- `AppliedInOrderAlways` (any `Env`), an action property. `OrderInv`: list and file
  are each in the order of acceptance (`QueuesInOrder`), what was applied is no younger
  than what is on its way, that no younger than what the agent holds, and that no
  younger than what waits (`NothingOvertakes`), and requests on the socket are in
  order (`WireInOrder`).
- `ReplyMatchesRequestAlways` (`Quiet`). `SocketInv` says for each control state of
  the agent and the callers what is on the socket: nothing, the own request, or
  the reply to it (`ThreadInv`, `WireInv`), and that after a shutdown no agent and
  no connection is left (`ShutdownInv`).
- `KeptUntilAppliedAlways` (`Quiet`), from `IInv`, which adds to the above that the
  message being sent is the head of the list (`HeadInv`), that the queue holds no
  more than was accepted, so that nothing is purged (`LenInv`), and that a reply on the socket was
  preceded by the application of its request (`ReplyInv`).
- `KeepsPromiseAlways` (`Quiet`): `Spec => Promise!Spec`, where `Promise` is
  `Delivery` with the line of undelivered records mapped to `agent_list \o file`
  (`LineInv`: it is in order, and one of the two is empty). Each action is shown to be a
  step of `Delivery` or to leave its variables alone.

`Quiet` is: no reply after its timeout (`late`), nothing queued while another
thread closes (`race`), and a queue that never fills or has no starts to purge.
Each part is needed: TLC finds `KeptUntilApplied` and `ReplyMatchesRequest`
violated with `close` and `late`, and with `close` and `race`, and the run `purge`
shows what a purge does. Closes, cancellations and crashes are within `Quiet`.

**`RollupProofs`**

- `MarkAgreesAlways`, from `MarkInv`. `MarkAgrees` speaks of the moments between
  calls and rolls; to carry it through them the invariant says that the threads
  exclude each other until an overlap is recorded, that a reset on its way to the
  database is to the value `global_last_rollup` has, and that a roll under way
  began at the hour of `last_ran_table` and has set `global_last_rollup` to its
  end. `FloorHour` enters by two lemmas: it is below its argument, and monotone.
- `HoursCoveredAlways`, from `MarkInv` and `LateInv`. An hour that a job ran in is
  rolled with the job's row in place, or lies after the mark, or is one that a
  pending reset will bring back. `LateInv` therefore says what a row may be
  (`RowsOK`, `LifeInv`, `RowInv`), what the call under way has looked up and still
  has to write (`CallInv`, `HandInv`), and which hours are covered (`CoverInv`).
  `HoursCovered` excludes the mishaps; `overlap` shows one of them.

**`HourUsageProofs`**

- `UsageTypeCorrect`, `HourBalancesAlways` from `HourInv`:
  the types, no over-commitment before the balance, and the two balance properties
  themselves, which only `Settle` can establish. The lemmas are that the suspended
  seconds of a job are a natural number (by induction over the list of
  suspensions), that each kind of row adds a natural number, and that `Clamped`
  and `Balanced` keep the columns natural and make them add up.
- `JobsChargedAlways` (`Resumed`), from `ChargeInv`: the rows read so far add to
  the entries what a sum over the seconds of the hour counts. The two sides are
  recursive functions with different arguments (rows, seconds); `SetInduction`'s
  lemmas exchange them. `Resumed` says that suspensions are closed and follow one
  another. An open suspension has end 0, which the clamp to the job's end leaves
  alone (`mysql_rollup.c:525`), so that its time is charged: a hazard listed
  without a property.

**`AcctTablesProofs`**

- `EventsOnceAlways`, from `EventInv`: which rows are open and what they hold
  follows from what the controller last told and was told (`Recorded`,
  `NodesGiven`, `ToldOK`), each second before the last call is covered once
  (`Shown`), and rows do not overlap (`RowsOK`). `TablesAssumption` says that nodes
  have names, since the row of the cluster is the one whose node is "", and that a
  processor count is positive.

- `ReservedOnceAlways`, from `ResvInv`. What is right is not the rows but the rows
  as they will be when the calls under way have been delivered: `ResvReplay` makes
  the pending calls one after the other on a copy of the rows, and says that each
  modify finds its row in the copy before it; in the last copy (`ResvLast`) the
  last row is the reservation as the controller has it, the others are over, and
  each second until now is covered once. A delivery then steps along copies that
  the invariant already speaks of, and a new change adds one at the end. A change
  made in the last second of the row before it loses that second (`lost`), which the
  property leaves out. Nothing is assumed of when a call arrives: `late` holds the
  starts that passed while a change of them was under way, and as long as there is
  none the copies say what every delivery will find, whatever the clock shows; the
  one delivery that comes after such a start is followed by itself. Removal in force
  is among the steps: the rows stay, and so does the end they are compared with.
  Processor counts are positive in `TablesAssumption`.
- `ArchiveKeepsAlways` (`MaxRuns \in 0..2`), from `ArchInv`. A row that was
  inserted is in its table or in a file, under its name or as `.old`; one marked
  deleted came from a file (`ArchOK`); and no file of the month is there before its
  first archive, no `.old` before the second (`ArchTurn`), so that a write never
  replaces the only copy. All this is said of the rows that no unnoticed failure
  has `hurt`; `Faults` may strike any number of times and hurt any rows, and the
  proof is that each strike adds to `hurt` all the rows it takes a file away from.
  The hypothesis is the code's limit and not the proof's:
  the third archive of a month overwrites `name.old` (section 2).
- `ReportsAddUpAlways`, for any length of days and months, any number of users,
  rolls and records. `ReportsAddUp` compares tables with marks that only move when a
  roll is done; during a roll the tables are ahead of the marks, each by another
  distance. `UsageInv` therefore gives each table a limit below which it is right
  (`HourLimit`, `DayLimit`, `MonthLimit`: the mark, or how far the roll under way has
  come), and says that a roll began with the marks as they are and that the three
  marks are of one day and one month (`MarksInv`), which is why one reset of all
  three is enough. That a day is the sum of its hours and a month that of its days
  rests on lemmas about `Total`: a sum over consecutive windows is that of the whole
  window (`SumInParts`, `SumInGroups`), and about `Midnight` and `FirstOf`: the
  greatest multiple that is not above their argument. The property itself is
  conditional on `mishaps = {}`, in the run and in the theorem.

**`ContainersProofs`**

- `EachOnceAlways` (any nodes, keys, iterators). The chain of `next` pointers is
  described by a sequence of nodes. An iterator is known by two positions in it: that
  of the node `pos` is on, and that of the pointer `prev` goes through, which is one
  or two before it (`list_node_destroy` and `list_node_create` step over what an
  iterator is about to use). From this follow what `list_next` returns
  and that what it has returned lies before `pos`. Each operation is shown to turn
  the sequence into another one and each iterator's positions into others:
  insertion and removal shift those behind the place, `list_sort` starts every
  iterator again. `list_delete_all` removes nodes while its own walk goes on, and
  is handled by induction over the turns of its loop (`turn`).
- `IsStreamAlways` (any buffers, sizes, chunk and bytes): from `CbufSpec`, the
  behaviours in which only the buffers are used, every step of a buffer is a step of
  `Stream` or leaves it. `RingInv` says of each buffer that its indices lie in the
  array, that what is replayable and unread fits into `size` of the `size + 1` cells
  and that `i_in` is where the unread bytes end. `Back` and `Span` count the cells
  from `i_rep` to `i_out` and to `i_in`, `ByteAt` names the byte so many cells behind
  `i_rep`, and `Turned` replaces the remainder: an index never exceeds `size` by
  more than one turn. Every helper is then told in these terms: `GrowIs` (growth
  keeps the bytes though it moves those behind the end of the array), `AdvanceIs` (a
  write of n bytes keeps the last bytes in front of them, also when n is more than
  `size`), `DropIs`, `RewindIs`, `CopierIs`. `Wrote` and `Kept` are the two relations
  between a buffer before and after; `Compose` joins the growth, the text and the
  newline of `cbuf_write_line` to one write. The searches for lines are recursive
  functions; `LoopExists` and `LoopIn` show by induction that they stay within the
  unread or the replayable bytes. `Stream` does not say which bytes a write brings;
  that they are the ones given is part of `SearchesAgree`, which TLC checks.

**`EntitiesProofs`**

- `StateKeptAlways` (`MaxCrashes \in 0..2`), from `SaveInv`, which TLC checked on
  the scenario of saves first. It says for each of the two files how far a save of it
  has come (`StatePhase`, `UsagePhase`) and what must then be on the disk: after no
  interruption the file itself, or `.old` between the unlink and the link of it;
  after one, the file or `.old` while `.new` is being written, and `.new` from then
  until it is linked; after two, one of the three (`Holds`). A signal
  and a failed link count as two, since one of them can do what two stops can:
  leave only the other name. A write of `assoc_mgr_state` that fails is counted before `assoc_usage` is discarded, so that
  the two files are counted separately (`UsageCrashes`). With three interruptions the
  property is false: a stop after the unlink of the file leaves `.old` and
  `.new`; one in the next save, after the unlink of `.old`, leaves `.new`; and
  the third save cuts that.

**`JobAcctProofs`**

- `JobRecordedAlways` and `SuspendedTimeAlways`, from `JobInv`. `JobRecorded` speaks
  of jobs that are over; before that the invariant has to know the open row
  (`OpenRow`, `StepRow`, `SuspRows`), which differs with what of the job was
  purged; `Over` says that the row of an ended job is left alone; and `LastOK`,
  that the call made last can be made again: it leaves the row as it is. The suspended column of a suspended
  job holds `since - suspended`, as `suspended = UNIX_TIMESTAMP - suspended`
  leaves it. Repeating that statement is not the same as making it once: a
  suspend delivered twice puts its job into `spoilt`, of whose column the invariant
  then claims nothing, and `SuspendAgain` says what of its row is still right. No
  hypothesis is needed beyond the assumptions on the constants, and any call may be
  repeated any number of times.
- `WindowShowsAlways`, from `JobInv` and `ShownInv`, what
  a window needs beyond the rows of jobs that are over: the times of a job are in
  order and a step's suspended time fits between its start and its end (`RunFacts`);
  the row holds the job's start or none yet, also for the call that may be repeated
  (`StartFacts`); and the closed periods of `suspend_table` follow one another and
  cover exactly the seconds the job was suspended (`PeriodFacts`). From the last,
  `CutsAddUp` shows by induction over the periods that their parts within a window
  add up to the suspended seconds within it, which is what sacct subtracts.

**`SetInduction`** states induction over the naturals for sets, so that no theorem
with an operator parameter has to be instantiated, and proves what `Total` adds up
to: of a constant, of two sums, of a sum with one more row.

### What is only model-checked

- Liveness (`Drain`, `RpcReturns`, `CloseReturns`): not in the reach of the prover.
- `ReadBack`, `FieldsArrive`, `FreedAfterUse`, `HostsKept`, `SearchesAgree`:
  recursion over data.
- Not proved: `TreeOK`, `CacheAgrees`, `JobsKeepAssoc`, `AnswersAgree`, `NoOrphans`
  and `UsageRollsUp`, whose invariants need the nested set to stay the tree of the
  parents under renumbering statements applied one row after another; and the
  properties of `sacct`, which compare finite tables of options and cells.

## 5. Plan

1. `TreeOK` of `AssocTable`: each statement group keeps a numbering nested; on it
   rest `JobsKeepAssoc`, `CacheAgrees` and `UsageRollsUp`.
2. That a line call of `Cbuf` finds the bytes its comment describes (the first half
   of `SearchesAgree`), on the lemmas about its loops.
3. Two connections at a time in `AssocStore`, partitions.

## 6. Not modelled, and why

- Configuration, logging, layout: no state whose order matters. Queries are
  modelled by the rows they select and the columns they set, never as text.
- Jobs without an association, wckeys and the maintenance flag of events in the
  hourly usage; the wckey and cluster tables of days and months, which are rolled
  and read by the same statements as those of the associations.
- `register_ctld`, whose statement is never valid; partitions of associations.
- Of associations: `modify_associations` leaves its loop without an error when
  `_move_parent` fails; removing a young account physically deletes old accounts
  that were moved below it; two connections may interleave reading `lft` and
  inserting; a job may start between a removal and its commit; an update that a
  controller misses is not sent again.
- Job credentials, message forwarding, step launch and PMI, which `sacct` links
  with and does not use.
- `src/accounting_storage_mysql.c`, which is the same, byte for byte, as the file of
  the plugin.

See `PROJECT.json` for every component and every hazard, covered or not.
