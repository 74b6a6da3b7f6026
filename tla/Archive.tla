------------------------------- MODULE Archive -------------------------------
(***************************************************************************)
(* mysql_jobacct_process_archive and its load                              *)
(* (src/src/plugins/accounting_storage/mysql/mysql_jobacct_process.c): the *)
(* rows of a table that are old enough are written to a file and deleted.  *)
(*                                                                         *)
(* Time is cut into months of four moments: in the first day, its last     *)
(* second, after it, and the month's last second.  The archive of a month  *)
(* takes last_submit, the last second of the month before, and goes back   *)
(* Purge months: to the last second of the first day (tm_mday = 1), for    *)
(* the steps to the month's last second.                                   *)
(***************************************************************************)
EXTENDS Integers, FiniteSets, Sequences

CONSTANTS
  Items,     \* rows that are inserted
  Archived,  \* tables that are archived, and not only purged
  Purge,     \* months that are kept
  MaxMonth,
  MaxRuns,   \* archives of one month
  MaxHurt    \* rows left out of files before there are no more such failures

VARIABLES
  month,
  tables,  \* the rows of the tables
  files,   \* the archive files, by name
  olds,    \* the file a name had before, name.old
  runs,    \* archives of this month
  known,   \* the rows that were inserted
  hurt     \* the items of rows an unnoticed failure left out of a file

Row(i, t, at) == [item |-> i, table |-> t, at |-> at, over |-> FALSE, deleted |-> FALSE]

Moments(m) == 4 * m .. 4 * m + 3
MonthOf(at) == at \div 4

\* The tables in the order they are archived.
TableOrder == <<"event", "suspend", "step", "job">>

\* curr_end
CurrEnd(t) ==
  LET first == 4 * (month - 1 - Purge) IN IF t = "step" THEN first + 3 ELSE first + 1

\* What is written to the file: steps and jobs that were loaded from one are
\* marked deleted and left out, and of the jobs those submitted before curr_end.
Listed(rows, t) ==
  {r \in rows : /\ r.table = t /\ r.over
                /\ IF t = "job" THEN r.at < CurrEnd(t) ELSE r.at <= CurrEnd(t)
                /\ t \in {"step", "job"} => ~r.deleted}

\* What is deleted: of the jobs also those submitted at curr_end.
Deleted(rows, t) == {r \in rows : r.table = t /\ r.over /\ r.at <= CurrEnd(t)}

\* The file's name has the month of its first row and curr_end.
Name(rows, t) ==
  LET first == CHOOSE r \in rows : \A q \in rows : r.at <= q.at IN
  <<t, MonthOf(first.at), CurrEnd(t)>>

Put(fs, name, rows) == [n \in DOMAIN fs \cup {name} |-> IF n = name THEN rows ELSE fs[n]]
Unlink(fs, name) == [n \in DOMAIN fs \ {name} |-> fs[n]]

Disk(tbs, fs, os, h) == [tables |-> tbs, files |-> fs, olds |-> os, hurt |-> h]

ItemsOf(rows) == {r.item : r \in rows}

\* A failure the archive does not notice, at one of the first n tables.  The rows
\* are written in the order of time and the first that cannot be written is the
\* last tried, but what is returned is how the write of the statement's end went:
\* the file has the rows before it, or none that can be loaded, if a row is cut or
\* a write was interrupted.  And the results of the two links are not looked at; of
\* a file that is not linked to its name it does not matter what it has.
Faults(n) ==
  UNION {{f \in [table : {t}, left : SUBSET Listed(tables, t), links : SUBSET {"old", "reg"}] :
            /\ \A r \in f.left, q \in Listed(tables, t) \ f.left : r.at <= q.at
            /\ f.left = Listed(tables, t) => f.links # {}
            /\ "reg" \in f.links => f.left = {}} :
         t \in {t \in Archived : Listed(tables, t) # {} /\ \E k \in 1..n : t = TableOrder[k]}}
NoFault == [table |-> "", left |-> {}, links |-> {}]

\* Mutant: the new file takes the place of the one with its name.
WriteNoOld(d, t, rows, fault) == [d EXCEPT !.files = Put(@, Name(rows, t), rows)]

\* _write_archive_file: name.old is unlinked, a file that has the name is linked
\* to it and unlinked, the new one linked to the name and unlinked.
WriteArchiveFile(d, t, rows, fault) ==
  LET name == Name(rows, t)
      left == IF t = fault.table THEN rows \cap fault.left ELSE rows
      failing == IF t = fault.table THEN fault.links ELSE {}
      there == name \in DOMAIN d.files
      unlinked == IF there /\ "old" \in failing THEN d.files[name] ELSE {}
  IN Disk(d.tables,
          IF "reg" \in failing THEN Unlink(d.files, name) ELSE Put(d.files, name, left),
          IF there /\ "old" \notin failing THEN Put(d.olds, name, d.files[name])
                                           ELSE Unlink(d.olds, name),
          d.hurt \cup ItemsOf(unlinked)
                 \cup ItemsOf(IF "reg" \in failing THEN rows ELSE rows \ left))

\* One table: nothing to write, nothing to delete.
ArchiveTable(d, t, fault) ==
  LET rows == Listed(d.tables, t)
      purged == Disk(d.tables \ Deleted(d.tables, t), d.files, d.olds, d.hurt)
  IN IF t \notin Archived THEN purged
     ELSE IF rows = {} THEN d
     ELSE WriteArchiveFile(purged, t, rows, fault)

\* The first n tables; at the next one the file cannot be written, or it can and
\* the archive ends before the delete.
ArchiveTables(n, fault) ==
  LET disk[k \in 0..n] ==
        IF k = 0 THEN Disk(tables, files, olds, hurt)
        ELSE ArchiveTable(disk[k-1], TableOrder[k], fault)
  IN disk[n]

WrittenOnly(n, fault) ==
  LET d == ArchiveTables(n - 1, fault)
      t == TableOrder[n]
  IN IF t \in Archived /\ Listed(d.tables, t) # {}
     THEN WriteArchiveFile(d, t, Listed(d.tables, t), fault) ELSE d

-----------------------------------------------------------------------------
Init ==
  /\ month = 1 /\ tables = {} /\ files = <<>> /\ olds = <<>> /\ runs = 0 /\ known = {} /\ hurt = {}

Insert(i, t, at) ==
  /\ \A r \in known : r.item # i
  /\ tables' = tables \cup {Row(i, t, at)}
  /\ known' = known \cup {Row(i, t, at)}
  /\ UNCHANGED <<month, files, olds, runs, hurt>>

End(r) ==
  /\ ~r.over
  /\ tables' = (tables \ {r}) \cup {[r EXCEPT !.over = TRUE]}
  /\ UNCHANGED <<month, files, olds, runs, known, hurt>>

NextMonth ==
  /\ month < MaxMonth /\ month' = month + 1 /\ runs' = 0
  /\ UNCHANGED <<tables, files, olds, known, hurt>>

Settle(d) == tables' = d.tables /\ files' = d.files /\ olds' = d.olds /\ hurt' = d.hurt

\* All of it, or up to a failure.
Run(n, fault) ==
  /\ month > Purge + 1 /\ runs < MaxRuns /\ runs' = runs + 1
  /\ \/ Settle(ArchiveTables(n, fault))
     \/ n > 0 /\ Settle(WrittenOnly(n, fault))
  /\ UNCHANGED <<month, known>>

\* mysql_jobacct_process_archive_load: the rows are inserted, steps and jobs
\* marked deleted; a row that is there is only marked.  The file of the
\* suspensions ends in "on duplicate key update period_end", a column their
\* table does not have, and cannot be loaded.
Load(name) ==
  /\ name[1] # "suspend"
  /\ LET mark == name[1] \in {"step", "job"}
         items == {r.item : r \in files[name]}
     IN tables' = {r \in tables : r.item \notin items}
                    \cup {[r EXCEPT !.deleted = mark] : r \in files[name]}
  /\ UNCHANGED <<month, files, olds, runs, known, hurt>>

Next ==
  \/ NextMonth
  \/ /\ month + Purge < MaxMonth   \* a row of a later month is not archived any more
     /\ \E i \in Items \ ItemsOf(known), k \in 1..4, at \in Moments(month) : Insert(i, TableOrder[k], at)
  \/ \E r \in tables : End(r)
  \/ \E n \in 0..4 : Run(n, NoFault)
  \/ Cardinality(hurt) < MaxHurt /\ \E n \in 1..4 : \E fault \in Faults(n) : Run(n, fault)
  \/ \E name \in DOMAIN files : Load(name)

-----------------------------------------------------------------------------
InFiles == (UNION {files[n] : n \in DOMAIN files}) \cup (UNION {olds[n] : n \in DOMAIN olds})

\* A row of a table that is archived is in the table or in a file, whatever was
\* archived, failed in between, and was loaded again and archived again, for at
\* most two archives a month.  Not so two kinds of rows: a job submitted in the
\* last second of a month's first day, which is deleted with others and not
\* written; and the rows that are deleted though their write or their link failed,
\* or whose file of an earlier archive was unlinked though its link failed.
ArchiveKeeps ==
  \A k \in known :
    (k.table \in Archived /\ ~(k.table = "job" /\ k.at % 4 = 1) /\ k.item \notin hurt) =>
      \E r \in tables \cup InFiles : r.item = k.item
=============================================================================
