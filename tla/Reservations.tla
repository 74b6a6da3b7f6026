---------------------------- MODULE Reservations -----------------------------
(***************************************************************************)
(* The rows of one advanced reservation in resv_table: a new row whenever  *)
(* what it reserves changes while it is in force, so that the hourly usage *)
(* can charge every second with the processors reserved in it.             *)
(*                                                                         *)
(* The controller is external, and modelled from what the plugin's         *)
(* comments say of its calls: time_start is the start of the part of the   *)
(* reservation a call is about, which is the moment of the change when the *)
(* reservation is in force and what it reserves has changed; time_start_   *)
(* prev is the start before the change, and the moment of the call in a    *)
(* removal.  A call is delivered at any later time, and what the plugin    *)
(* makes of it may depend on its own clock then.                           *)
(***************************************************************************)
EXTENDS Integers, Sequences, FiniteSets

CONSTANTS
  Cpus,       \* numbers of processors reserved
  Horizon,    \* the clock runs from 1 to Horizon, and reservations end by then
  MaxChanges  \* changes of the reservation

VARIABLES
  now,
  resv,     \* the reservation as the controller has it; removed in force it stays,
            \* since its row does (RemoveRows)
  rows,     \* its rows
  pending,  \* calls not delivered yet
  reserved, \* the processors of resv in each second that is over
  lost,     \* seconds before a change in force: the row ends one second early
  late,     \* starts that passed while a call that changes them was not delivered
  changes,
  removed   \* "no", "before" it was in force, or "within"

NoResv == [start |-> 0, end |-> 0, cpus |-> 0]
NO_VAL == -1

\* acct_storage_p_add_reservation: insert, on duplicate key update deleted=0 and
\* every column given (_setup_resv_limits).
AddRow(rs, r) == {q \in rs : q.start # r.start} \cup {r}

Latest(rs) == CHOOSE r \in rs : \A q \in rs : q.start <= r.start

\* The row a change is about: by either start, and when the controller and the
\* database are out of step the last one that starts before the end.
RowOf(rs, m) ==
  LET byStart == {r \in rs : r.start \in {m.start, m.prev}}
      before == {r \in rs : r.start <= m.end}
  IN IF byStart # {} THEN byStart ELSE before

\* Mutant: the old row is not ended when a new one begins.
ModifyRowsNoEnd(rs, m, t) ==
  LET row == Latest(RowOf(rs, m))
      new == [start |-> m.start, end |-> m.end, cpus |-> IF m.cpus = NO_VAL THEN row.cpus ELSE m.cpus]
  IN IF RowOf(rs, m) = {} THEN rs ELSE
     IF row.start > t \/ m.cpus = NO_VAL
     THEN IF \E q \in rs \ {row} : q.start = new.start THEN rs ELSE (rs \ {row}) \cup {new}
     ELSE AddRow(rs, new)

\* acct_storage_p_modify_reservation, at the plugin's time t.  A reservation that
\* is not in force, or of which only the end changes, has its row updated (the
\* update fails when another row has the new start, and nobody is told); in the
\* other case the row ends the second before the new start and a new one begins.
ModifyRows(rs, m, t) ==
  LET row == Latest(RowOf(rs, m))
      new == [start |-> m.start, end |-> m.end, cpus |-> IF m.cpus = NO_VAL THEN row.cpus ELSE m.cpus]
      ended == [row EXCEPT !.end = m.start - 1]
  IN IF RowOf(rs, m) = {} THEN rs ELSE
     IF row.start > t \/ m.cpus = NO_VAL
     THEN IF \E q \in rs \ {row} : q.start = new.start THEN rs ELSE (rs \ {row}) \cup {new}
     ELSE AddRow((rs \ {row}) \cup {ended}, new)

\* acct_storage_p_remove_reservation: a row that was not in force when the command
\* was issued goes.  The second statement names the cluster 'name;' and matches
\* no row: one that was in force keeps its end.
RemoveRows(rs, m) == {r \in rs : ~(r.start > m.prev /\ r.start = m.start)}

Applied(rs, m, t) ==
  CASE m.op = "add"    -> AddRow(rs, [start |-> m.start, end |-> m.end, cpus |-> m.cpus])
    [] m.op = "modify" -> ModifyRows(rs, m, t)
    [] m.op = "remove" -> RemoveRows(rs, m)

-----------------------------------------------------------------------------
Init ==
  /\ now = 1 /\ resv = NoResv /\ rows = {} /\ pending = <<>> /\ reserved = <<>>
  /\ lost = {} /\ late = {} /\ changes = 0 /\ removed = "no"

InForce(r, t) == r.start # 0 /\ r.start <= t /\ t < r.end

\* A change of both the start and the processors, made before the start m.prev,
\* is delivered after it: ModifyRows takes the reservation for one in force.
Overtaken(m, t) == m.op = "modify" /\ m.cpus # NO_VAL /\ m.start # m.prev /\ m.prev = t

Tick ==
  /\ now < Horizon
  /\ now' = now + 1
  /\ reserved' = Append(reserved, IF InForce(resv, now) THEN resv.cpus ELSE 0)
  /\ late' = late \cup {t \in {now + 1} : \E i \in DOMAIN pending : Overtaken(pending[i], t)}
  /\ UNCHANGED <<resv, rows, pending, lost, changes, removed>>

Call(op, r, prev, cpus) ==
  [op |-> op, start |-> r.start, end |-> r.end, prev |-> prev, cpus |-> cpus]

Reserve(r) ==
  /\ resv = NoResv /\ removed = "no" /\ r.start >= now /\ r.start < r.end
  /\ resv' = r /\ pending' = Append(pending, Call("add", r, 0, r.cpus))
  /\ UNCHANGED <<now, rows, reserved, lost, late, changes, removed>>

\* Another end; before it is in force also another start, and with it perhaps
\* another number of processors.
Move(start, end, cpus) ==
  /\ changes < MaxChanges /\ resv # NoResv /\ removed = "no" /\ now < resv.end
  /\ start < end /\ end >= now
  /\ IF resv.start <= now THEN start = resv.start /\ cpus = NO_VAL ELSE start >= now
  /\ resv' = [start |-> start, end |-> end, cpus |-> IF cpus = NO_VAL THEN resv.cpus ELSE cpus]
  /\ pending' = Append(pending, Call("modify", resv', resv.start, cpus))
  /\ changes' = changes + 1
  /\ UNCHANGED <<now, rows, reserved, lost, late, removed>>

\* Another number of processors: in force, the reservation goes on as a new part.
Resize(cpus) ==
  /\ changes < MaxChanges /\ resv # NoResv /\ removed = "no" /\ now < resv.end
  /\ cpus # resv.cpus
  /\ LET start == IF resv.start < now THEN now ELSE resv.start IN
     /\ resv' = [resv EXCEPT !.start = start, !.cpus = cpus]
     /\ lost' = IF resv.start < now THEN lost \cup {now - 1} ELSE lost
  /\ pending' = Append(pending, Call("modify", resv', resv.start, cpus))
  /\ changes' = changes + 1
  /\ UNCHANGED <<now, rows, reserved, late, removed>>

Remove ==
  /\ resv # NoResv /\ removed = "no" /\ now < resv.end
  /\ \/ resv.start > now /\ removed' = "before" /\ resv' = NoResv
     \/ resv.start <= now /\ removed' = "within" /\ resv' = resv
  /\ pending' = Append(pending, Call("remove", resv, now, NO_VAL))
  /\ UNCHANGED <<now, rows, reserved, lost, late, changes>>

Deliver ==
  /\ pending # <<>>
  /\ rows' = Applied(rows, Head(pending), now)
  /\ pending' = Tail(pending)
  /\ UNCHANGED <<now, resv, reserved, lost, late, changes, removed>>

Next ==
  \/ Tick \/ Remove \/ Deliver
  \/ \E start \in 1..Horizon, end \in 2..Horizon :
       \/ \E c \in Cpus \cup {NO_VAL} : Move(start, end, c)
       \/ \E c \in Cpus : Reserve([start |-> start, end |-> end, cpus |-> c])
  \/ \E c \in Cpus : Resize(c)

-----------------------------------------------------------------------------
\* Every second the reservation was in force is covered by one row, with the
\* processors it had in that second, except the last second before a change
\* (rows end at time_start-1); no other second is covered, and nothing of a
\* reservation that was removed before it was in force is left.  Two defects are
\* part of it.  One removed in force is covered up to the end it had, as if it had
\* not been removed.  And when the only change comes after the start it changes, one
\* row is left over from the old start, which ends before the new one; of more
\* changes with one that came so late it says nothing.
ReservedOnce ==
  (pending = <<>> /\ (late # {} => changes = 1)) =>
    LET over == {r \in rows : r.start \in late} IN
    /\ \A s \in 1..now - 1 :
         LET covers == {r \in rows \ over : r.start <= s /\ s < r.end} IN
         IF reserved[s] = 0 \/ s \in lost THEN covers = {}
         ELSE Cardinality(covers) = 1 /\ \A r \in covers : r.cpus = reserved[s]
    /\ \A r \in over, q \in rows \ over : r.end < q.start
=============================================================================
