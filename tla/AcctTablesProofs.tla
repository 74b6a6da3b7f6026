--------------------------- MODULE AcctTablesProofs ---------------------------
(***************************************************************************)
(* Proofs about the tables of AcctTables, for every cluster, number of     *)
(* calls and length of time.                                               *)
(***************************************************************************)
EXTENDS AcctTables, SetInduction, FiniteSetTheorems

-----------------------------------------------------------------------------
(* The event table.  Its rows are judged by what they show of a name in a  *)
(* second; two rows of one name never show the same second.                *)

Whole == Events!Whole
Covers(r, s) == Events!Covers(r, s)

EventRow == [node : Nodes \cup {Whole}, cpus : Nat, start : Nat, end : Nat,
             nodes : NodeLists \cup {"", "(null)"}]

\* The processors the rows give name n for second s.
Shown(rs, n, s) == {r.cpus : r \in {q \in rs : q.node = n /\ Covers(q, s)}}

\* Rows at time t: started and ended by then, a node's with one processor, told
\* apart by their primary key, and never two of a name for one second.
RowsOK(rs, t) ==
  /\ rs \subseteq EventRow
  /\ \A r \in rs : r.start \in 1..t /\ r.end <= t /\ (r.node # Whole => r.cpus = 1)
  /\ \A q, r \in rs : q.node = r.node /\ q.start = r.start => q = r
  /\ \A s \in 1..t : \A q, r \in rs :
       q.node = r.node /\ Covers(q, s) /\ Covers(r, s) => q = r

\* The rows rs and qs tell the same of every second before t.
SamePast(rs, qs, t) == \A n, s : s \in 1..t /\ s # t => Shown(rs, n, s) = Shown(qs, n, s)

\* The open rows are the ones that hold now.
LEMMA OpenCovers ==
  ASSUME NEW t \in Nat \ {0}, NEW rs, RowsOK(rs, t), NEW r \in rs
  PROVE  Covers(r, t) <=> r.end = 0
<1>1. r.start \in 1..t /\ r.end <= t /\ r.end \in Nat
  BY DEF RowsOK, EventRow
<1> QED BY <1>1, SMT DEF Covers, Events!Covers

\* Closing the open rows of some names now: nothing shows them any more, the other
\* names and the seconds before show what they did.
LEMMA CloseShows ==
  ASSUME NEW t \in Nat \ {0}, NEW rs, RowsOK(rs, t), NEW names
  PROVE  LET closed == Events!Close(rs, names, t) IN
         /\ RowsOK(closed, t)
         /\ SamePast(closed, rs, t)
         /\ \A n : Shown(closed, n, t) = IF n \in names THEN {} ELSE Shown(rs, n, t)
         /\ \A r \in closed : r.end = 0 => r \in rs /\ r.node \notin names
<1> DEFINE c(r) == [r EXCEPT !.end = IF @ = 0 /\ r.node \in names THEN t ELSE @]
           closed == {c(r) : r \in rs}
<1>1. closed = Events!Close(rs, names, t)
  BY DEF Events!Close
<1>2. \A r \in rs :
        /\ r \in EventRow /\ c(r) \in EventRow /\ r.start \in 1..t /\ r.end <= t /\ c(r).end <= t
        /\ r.end \in Nat /\ c(r).end \in Nat
        /\ c(r).node = r.node /\ c(r).start = r.start /\ c(r).cpus = r.cpus
        /\ c(r).end = IF r.end = 0 /\ r.node \in names THEN t ELSE r.end
        /\ r.node # Whole => r.cpus = 1
  <2> TAKE r \in rs
  <2>1. r \in EventRow /\ r.start \in 1..t /\ r.end <= t /\ (r.node # Whole => r.cpus = 1)
    BY DEF RowsOK
  <2>2. r.node \in Nodes \cup {Whole} /\ r.cpus \in Nat /\ r.start \in Nat /\ r.end \in Nat
    BY <2>1 DEF EventRow
  <2>3. CASE r.end = 0 /\ r.node \in names
    <3>1. c(r) = [r EXCEPT !.end = t]
      BY <2>3
    <3>2. /\ c(r) \in EventRow /\ c(r).end = t /\ c(r).node = r.node /\ c(r).start = r.start
          /\ c(r).cpus = r.cpus
      BY <2>1, <3>1 DEF EventRow
    <3> HIDE DEF c
    <3> QED BY <2>1, <2>2, <2>3, <3>2
  <2>4. CASE ~(r.end = 0 /\ r.node \in names)
    <3>1. c(r) = [r EXCEPT !.end = @]
      BY <2>4
    <3>2. c(r) = r
      BY <2>1, <3>1 DEF EventRow
    <3> HIDE DEF c
    <3> QED BY <2>1, <2>2, <2>4, <3>2 
  <2> QED BY <2>3, <2>4
<1>3. \A r \in rs : r.end # 0 \/ r.node \notin names => c(r) = r
  <2> TAKE r \in rs
  <2> QED BY <1>2 DEF EventRow
<1> HIDE DEF c
<1>4. \A r \in rs : Covers(c(r), t) <=> Covers(r, t) /\ r.node \notin names
  BY <1>2 DEF Covers, Events!Covers
<1>5. \A r \in rs, s \in 1..t : s # t => (Covers(c(r), s) <=> Covers(r, s))
  BY <1>2 DEF Covers, Events!Covers
<1>6. RowsOK(closed, t)
  <2>1. closed \subseteq EventRow
    BY <1>2
  <2>2. \A r \in closed : r.start \in 1..t /\ r.end <= t /\ (r.node # Whole => r.cpus = 1)
    BY <1>2
  <2>3. \A q, r \in closed : q.node = r.node /\ q.start = r.start => q = r
    <3> SUFFICES ASSUME NEW q \in rs, NEW r \in rs, c(q).node = c(r).node,
                        c(q).start = c(r).start
                 PROVE  c(q) = c(r)
      OBVIOUS
    <3>1. q.node = r.node /\ q.start = r.start
      BY <1>2
    <3>2. q = r
      BY <3>1 DEF RowsOK
    <3> QED BY <3>2
  <2>4. \A s \in 1..t : \A q, r \in closed :
          q.node = r.node /\ Covers(q, s) /\ Covers(r, s) => q = r
    <3> SUFFICES ASSUME NEW s \in 1..t, NEW q \in rs, NEW r \in rs, c(q).node = c(r).node,
                        Covers(c(q), s), Covers(c(r), s)
                 PROVE  c(q) = c(r)
      OBVIOUS
    <3>1. q.node = r.node
      BY <1>2
    <3>2. Covers(q, s) /\ Covers(r, s)
      BY <1>4, <1>5
    <3>3. q = r
      BY <3>1, <3>2 DEF RowsOK
    <3> QED BY <3>3
  <2> QED BY <2>1, <2>2, <2>3, <2>4 DEF RowsOK
<1>7. SamePast(closed, rs, t)
  <2> SUFFICES ASSUME NEW n, NEW s \in 1..t, s # t PROVE Shown(closed, n, s) = Shown(rs, n, s)
    BY DEF SamePast
  <2>1. \A x : x \in Shown(closed, n, s) <=> \E r \in rs : r.node = n /\ Covers(r, s) /\ x = r.cpus
    <3> TAKE x
    <3>1. x \in Shown(closed, n, s)
            <=> \E r \in rs : c(r).node = n /\ Covers(c(r), s) /\ x = c(r).cpus
      BY DEF Shown
    <3> QED BY <1>2, <1>5, <3>1
  <2> QED BY <2>1 DEF Shown
<1>8. ASSUME NEW n PROVE Shown(closed, n, t) = IF n \in names THEN {} ELSE Shown(rs, n, t)
  <2>1. \A x : x \in Shown(closed, n, t)
          <=> \E r \in rs : r.node = n /\ n \notin names /\ Covers(r, t) /\ x = r.cpus
    <3> TAKE x
    <3>1. x \in Shown(closed, n, t)
            <=> \E r \in rs : c(r).node = n /\ Covers(c(r), t) /\ x = c(r).cpus
      BY DEF Shown
    <3> QED BY <1>2, <1>4, <3>1
  <2> QED BY <2>1 DEF Shown
<1>9. \A r \in closed : r.end = 0 => r \in rs /\ r.node \notin names
  <2> SUFFICES ASSUME NEW r \in rs, c(r).end = 0 PROVE c(r) \in rs /\ r.node \notin names
    BY <1>2
  <2>1. r.node \notin names
    BY <1>2
  <2> QED BY <1>3, <2>1
<1> HIDE DEF closed
<1> QED BY <1>1, <1>6, <1>7, <1>8, <1>9

\* A new row for a name that shows nothing now.
LEMMA InsertShows ==
  ASSUME NEW t \in Nat \ {0}, NEW rs, RowsOK(rs, t),
         NEW new \in EventRow, new.start = t, new.end = 0, new.node # Whole => new.cpus = 1,
         \A q \in rs : q.node = new.node => q.start # t, Shown(rs, new.node, t) = {}
  PROVE  /\ RowsOK(rs \cup {new}, t)
         /\ SamePast(rs \cup {new}, rs, t)
         /\ \A n : Shown(rs \cup {new}, n, t) = IF n = new.node THEN {new.cpus} ELSE Shown(rs, n, t)
<1>1. \A s \in 1..t : Covers(new, s) <=> s = t
  BY DEF Covers, Events!Covers
<1>2. \A r \in rs : r.node = new.node => ~Covers(r, t)
  BY DEF Shown
<1>3. RowsOK(rs \cup {new}, t)
  <2>1. \A q, r \in rs \cup {new} : q.node = r.node /\ q.start = r.start => q = r
    BY DEF RowsOK
  <2>2. \A s \in 1..t : \A q, r \in rs \cup {new} :
          q.node = r.node /\ Covers(q, s) /\ Covers(r, s) => q = r
    BY <1>1, <1>2 DEF RowsOK
  <2>3. new.start \in 1..t /\ new.end <= t
    OBVIOUS
  <2> QED BY <2>1, <2>2, <2>3 DEF RowsOK
<1>4. ASSUME NEW n, NEW s \in 1..t, s # t PROVE Shown(rs \cup {new}, n, s) = Shown(rs, n, s)
  <2>1. ~Covers(new, s)
    BY <1>1, <1>4
  <2> QED BY <2>1 DEF Shown
<1>5. ASSUME NEW n
      PROVE  Shown(rs \cup {new}, n, t) = IF n = new.node THEN {new.cpus} ELSE Shown(rs, n, t)
  <2>0. t \in 1..t
    OBVIOUS
  <2>1. Covers(new, t)
    BY <1>1, <2>0
  <2>2. \A x : x \in Shown(rs \cup {new}, n, t)
          <=> x \in Shown(rs, n, t) \/ (n = new.node /\ x = new.cpus)
    BY <2>1 DEF Shown
  <2> QED BY <2>2
<1> QED BY <1>3, <1>4, <1>5 DEF SamePast

\* The row that began now is opened again.
LEMMA ReopenShows ==
  ASSUME NEW t \in Nat \ {0}, NEW rs, RowsOK(rs, t),
         NEW old \in rs, old.start = t, Shown(rs, old.node, t) = {}
  PROVE  LET rows2 == (rs \ {old}) \cup {[old EXCEPT !.end = 0]} IN
         /\ RowsOK(rows2, t)
         /\ SamePast(rows2, rs, t)
         /\ \A n : Shown(rows2, n, t) = IF n = old.node THEN {old.cpus} ELSE Shown(rs, n, t)
<1> DEFINE new == [old EXCEPT !.end = 0]
           rest == rs \ {old}
<1>1. old \in EventRow /\ old.end \in Nat /\ old.end <= t /\ (old.node # Whole => old.cpus = 1)
  BY DEF RowsOK, EventRow
<1>2. /\ new \in EventRow /\ new.start = t /\ new.end = 0 /\ new.node = old.node
      /\ new.cpus = old.cpus
  BY <1>1 DEF EventRow
<1> HIDE DEF new
<1>3. RowsOK(rest, t)
  BY DEF RowsOK
<1>4. \A s \in 1..t : s # t => ~Covers(old, s)
  BY DEF Covers, Events!Covers
<1>4a. ~Covers(old, t)
  BY DEF Shown
<1>5. \A n : \A s \in 1..t : Shown(rest, n, s) = Shown(rs, n, s)
  <2> TAKE n
  <2> TAKE s \in 1..t
  <2>1. ~Covers(old, s)
    BY <1>4, <1>4a
  <2> QED BY <2>1 DEF Shown
<1>6. \A q \in rest : q.node = new.node => q.start # t
  BY <1>2 DEF RowsOK
<1>7. t \in 1..t
  OBVIOUS
<1>8. Shown(rest, new.node, t) = {}
  BY <1>2, <1>5, <1>7
<1>9. /\ RowsOK(rest \cup {new}, t) /\ SamePast(rest \cup {new}, rest, t)
      /\ \A n : Shown(rest \cup {new}, n, t) = IF n = new.node THEN {new.cpus} ELSE Shown(rest, n, t)
  <2>1. new.node # Whole => new.cpus = 1
    BY <1>1, <1>2
  <2> HIDE DEF rest
  <2> QED BY <1>2, <1>3, <1>6, <1>8, <2>1, InsertShows
<1>10. SamePast(rest \cup {new}, rs, t)
  BY <1>5, <1>9 DEF SamePast
<1>11. \A n : Shown(rest \cup {new}, n, t) = IF n = old.node THEN {old.cpus} ELSE Shown(rs, n, t)
  BY <1>2, <1>5, <1>7, <1>9
<1> QED BY <1>9, <1>10, <1>11 DEF new

\* The nodes of the cluster's row are filled in.
LEMMA FillShows ==
  ASSUME NEW t \in Nat \ {0}, NEW rs, RowsOK(rs, t), NEW old \in rs,
         NEW names \in NodeLists \cup {"", "(null)"}
  PROVE  LET rows2 == (rs \ {old}) \cup {[old EXCEPT !.nodes = names]} IN
         /\ RowsOK(rows2, t)
         /\ \A n, s : Shown(rows2, n, s) = Shown(rs, n, s)
<1> DEFINE new == [old EXCEPT !.nodes = names]
           rows2 == (rs \ {old}) \cup {new}
<1>1. old \in EventRow /\ old.start \in 1..t /\ old.end <= t /\ (old.node # Whole => old.cpus = 1)
  BY DEF RowsOK
<1>2. /\ new \in EventRow /\ new.start = old.start /\ new.end = old.end /\ new.node = old.node
      /\ new.cpus = old.cpus
  BY <1>1 DEF EventRow
<1>3. \A s : Covers(new, s) <=> Covers(old, s)
  BY <1>2 DEF Covers, Events!Covers
<1> HIDE DEF new
<1>4. RowsOK(rows2, t)
  <2>1. ASSUME NEW q \in rows2, NEW r \in rows2, q.node = r.node, q.start = r.start PROVE q = r
    <3>1. \A x \in rows2 : x = new \/ (x \in rs /\ x # old)
      OBVIOUS
    <3>2. \A x, y \in rs : x.node = y.node /\ x.start = y.start => x = y
      BY DEF RowsOK
    <3> HIDE DEF rows2
    <3> QED BY <1>2, <2>1, <3>1, <3>2
  <2>2. \A s \in 1..t : \A q, r \in rows2 :
          q.node = r.node /\ Covers(q, s) /\ Covers(r, s) => q = r
    BY <1>2, <1>3 DEF RowsOK
  <2>3. rows2 \subseteq EventRow
    BY <1>2 DEF RowsOK
  <2>4. \A r \in rows2 : r.start \in 1..t /\ r.end <= t /\ (r.node # Whole => r.cpus = 1)
    BY <1>1, <1>2 DEF RowsOK
  <2> QED BY <2>1, <2>2, <2>3, <2>4 DEF RowsOK
<1>5. ASSUME NEW n, NEW s PROVE Shown(rows2, n, s) = Shown(rs, n, s)
  <2>1. \A x : x \in Shown(rows2, n, s)
          <=> (\E r \in rs \ {old} : r.node = n /\ Covers(r, s) /\ x = r.cpus)
              \/ (new.node = n /\ Covers(new, s) /\ x = new.cpus)
    BY DEF Shown
  <2>2. \A x : x \in Shown(rs, n, s)
          <=> (\E r \in rs \ {old} : r.node = n /\ Covers(r, s) /\ x = r.cpus)
              \/ (old.node = n /\ Covers(old, s) /\ x = old.cpus)
    BY DEF Shown
  <2> QED BY <1>2, <1>3, <2>1, <2>2
<1> QED BY <1>4, <1>5 DEF new

\* At most one row of a name is open.
LEMMA OneOpen ==
  ASSUME NEW t \in Nat \ {0}, NEW rs, RowsOK(rs, t), NEW q \in rs, NEW r \in rs,
         q.node = r.node, q.end = 0, r.end = 0
  PROVE  q = r
<1>1. Covers(q, t) /\ Covers(r, t) /\ t \in 1..t
  BY OpenCovers
<1> QED BY <1>1 DEF RowsOK

\* clusteracct_storage_p_node_down
LEMMA NodeDownShows ==
  ASSUME NEW t \in Nat \ {0}, NEW rs, RowsOK(rs, t), NEW n \in Nodes
  PROVE  LET rows2 == Events!NodeDownRows(rs, n, t) IN
         /\ RowsOK(rows2, t)
         /\ SamePast(rows2, rs, t)
         /\ \A m : Shown(rows2, m, t) = IF m = n THEN {1} ELSE Shown(rs, m, t)
         /\ \E r \in rows2 : r.node = n /\ r.start = t /\ r.end = 0
         /\ \A r \in rows2 : r.node # n /\ r.end = 0 => r \in rs
<1> DEFINE closed == Events!Close(rs, {n}, t)
           new == Events!Row(n, 1, "", t)
           old == Events!Same(closed, new)
           rows2 == Events!NodeDownRows(rs, n, t)
<1>1. /\ RowsOK(closed, t) /\ SamePast(closed, rs, t)
      /\ \A m : Shown(closed, m, t) = IF m \in {n} THEN {} ELSE Shown(rs, m, t)
      /\ \A r \in closed : r.end = 0 => r \in rs /\ r.node \notin {n}
  BY CloseShows
<1>2. /\ new \in EventRow /\ new.node = n /\ new.cpus = 1 /\ new.start = t /\ new.end = 0
  BY DEF Events!Row, EventRow
<1>3. n # Whole
  BY TablesAssumption DEF Whole, Events!Whole
<1>4. old = {q \in closed : q.node = n /\ q.start = t}
  BY <1>2 DEF Events!Same
<1>5. rows2 = IF old = {} THEN closed \cup {new}
              ELSE (closed \ old) \cup {[r EXCEPT !.end = 0] : r \in old}
  BY DEF Events!NodeDownRows
<1> SUFFICES /\ RowsOK(rows2, t)
             /\ SamePast(rows2, rs, t)
             /\ \A m : Shown(rows2, m, t) = IF m = n THEN {1} ELSE Shown(rs, m, t)
             /\ \E r \in rows2 : r.node = n /\ r.start = t /\ r.end = 0
             /\ \A r \in rows2 : r.node # n /\ r.end = 0 => r \in rs
  OBVIOUS
<1> HIDE DEF closed, new, old, rows2
<1>6. Shown(closed, n, t) = {}
  BY <1>1
<1>7. CASE old = {}
  <2>1. \A q \in closed : q.node = new.node => q.start # t
    BY <1>2, <1>4, <1>7
  <2>0. /\ RowsOK(closed, t) /\ new \in EventRow /\ new.start = t /\ new.end = 0
        /\ (new.node # Whole => new.cpus = 1) /\ Shown(closed, new.node, t) = {}
    BY <1>1, <1>2, <1>6
  <2>2. /\ RowsOK(closed \cup {new}, t) /\ SamePast(closed \cup {new}, closed, t)
        /\ \A m : Shown(closed \cup {new}, m, t)
                    = IF m = new.node THEN {new.cpus} ELSE Shown(closed, m, t)
    BY <2>0, <2>1, InsertShows
  <2>3. \A r \in closed \cup {new} : r.node # n /\ r.end = 0 => r \in rs
    BY <1>1, <1>2
  <2>4. rows2 = closed \cup {new}
    BY <1>5, <1>7
  <2>5. SamePast(rows2, rs, t)
    BY <1>1, <2>2, <2>4 DEF SamePast
  <2>6. \A m : Shown(rows2, m, t) = IF m = n THEN {1} ELSE Shown(rs, m, t)
    BY <1>1, <1>2, <2>2, <2>4
  <2>7. \E r \in rows2 : r.node = n /\ r.start = t /\ r.end = 0
    BY <1>2, <2>4
  <2> QED BY <2>2, <2>3, <2>4, <2>5, <2>6, <2>7
<1>8. CASE old # {}
  <2>1. PICK o \in closed : o \in old
    BY <1>4, <1>8
  <2>2. o.node = n /\ o.start = t /\ o \in EventRow /\ o.cpus = 1
    BY <1>1, <1>3, <1>4, <2>1 DEF RowsOK
  <2>3. old = {o}
    BY <1>1, <1>4, <2>1, <2>2 DEF RowsOK
  <2> DEFINE o2 == [o EXCEPT !.end = 0]
  <2>4. o2.node = n /\ o2.start = t /\ o2.end = 0
    BY <2>2 DEF EventRow
  <2>5. rows2 = (closed \ {o}) \cup {o2}
    BY <1>5, <1>8, <2>3
  <2>6. /\ RowsOK((closed \ {o}) \cup {o2}, t) /\ SamePast((closed \ {o}) \cup {o2}, closed, t)
        /\ \A m : Shown((closed \ {o}) \cup {o2}, m, t)
                    = IF m = o.node THEN {o.cpus} ELSE Shown(closed, m, t)
    BY <1>1, <1>6, <2>1, <2>2, ReopenShows
  <2> HIDE DEF o2
  <2>7. \A r \in rows2 : r.node # n /\ r.end = 0 => r \in rs
    BY <1>1, <2>4, <2>5
  <2>8. SamePast(rows2, rs, t)
    BY <1>1, <2>5, <2>6 DEF SamePast
  <2>9. \A m : Shown(rows2, m, t) = IF m = n THEN {1} ELSE Shown(rs, m, t)
    BY <1>1, <2>2, <2>5, <2>6
  <2>10. \E r \in rows2 : r.node = n /\ r.start = t /\ r.end = 0
    BY <2>4, <2>5
  <2> QED BY <2>5, <2>6, <2>7, <2>8, <2>9, <2>10
<1> QED BY <1>7, <1>8

\* The same call made again changes nothing: the row it opened is closed and
\* opened again.
LEMMA NodeDownAgain ==
  ASSUME NEW t \in Nat \ {0}, NEW rs, RowsOK(rs, t), NEW row \in rs, row.end = 0
  PROVE  Events!NodeDownRows(rs, row.node, row.start) = rs
<1> DEFINE n == row.node
           u == row.start
           shut == [row EXCEPT !.end = u]
           closed == Events!Close(rs, {n}, u)
           new == Events!Row(n, 1, "", u)
           old == Events!Same(closed, new)
<1>1. row \in EventRow /\ u \in 1..t
  BY DEF RowsOK
<1>2. shut.node = n /\ shut.start = u /\ [shut EXCEPT !.end = 0] = row
  BY <1>1 DEF EventRow
<1>3. \A r \in rs \ {row} : ~(r.node = n /\ r.end = 0)
  BY OneOpen
<1>4. closed = (rs \ {row}) \cup {shut}
  <2> DEFINE c(r) == [r EXCEPT !.end = IF @ = 0 /\ r.node \in {n} THEN u ELSE @]
  <2>1. closed = {c(r) : r \in rs}
    BY DEF Events!Close
  <2>2. \A r \in rs \ {row} : c(r) = r
    <3> TAKE r \in rs \ {row}
    <3>1. c(r) = [r EXCEPT !.end = @] /\ r \in EventRow
      BY <1>3 DEF RowsOK
    <3> QED BY <3>1 DEF EventRow
  <2>3. c(row) = shut
    OBVIOUS
  <2> HIDE DEF c, shut
  <2> QED BY <2>1, <2>2, <2>3
<1>5. \A q \in rs \ {row} : ~(q.node = n /\ q.start = u)
  BY DEF RowsOK
<1>6. new.node = n /\ new.start = u
  BY DEF Events!Row
<1>7. old = {q \in closed : q.node = n /\ q.start = u}
  BY <1>6 DEF Events!Same
<1>8. Events!NodeDownRows(rs, n, u) =
        IF old = {} THEN closed \cup {new}
        ELSE (closed \ old) \cup {[r EXCEPT !.end = 0] : r \in old}
  BY DEF Events!NodeDownRows
<1> HIDE DEF shut, closed, new, old, n, u
<1>9. old = {shut}
  BY <1>2, <1>4, <1>5, <1>7
<1>10. closed \ old = rs \ {row}
  BY <1>2, <1>4, <1>5, <1>9
<1>11. Events!NodeDownRows(rs, n, u) = (rs \ {row}) \cup {row}
  BY <1>2, <1>8, <1>9, <1>10
<1> QED BY <1>11 DEF n, u

\* Closing what is closed changes nothing.
LEMMA CloseAgain ==
  ASSUME NEW rs, rs \subseteq EventRow, NEW names, NEW u,
         \A r \in rs : r.node \in names => r.end # 0
  PROVE  Events!Close(rs, names, u) = rs
<1> DEFINE c(r) == [r EXCEPT !.end = IF @ = 0 /\ r.node \in names THEN u ELSE @]
<1>1. Events!Close(rs, names, u) = {c(r) : r \in rs}
  BY DEF Events!Close
<1>2. \A r \in rs : c(r) = r
  <2> TAKE r \in rs
  <2>1. c(r) = [r EXCEPT !.end = @] /\ r \in EventRow
    OBVIOUS
  <2> QED BY <2>1 DEF EventRow
<1> HIDE DEF c
<1> QED BY <1>1, <1>2

OpenCluster(rs) == Events!OpenCluster(rs)
NULL == Events!NULL

\* At most one row of the cluster is open, and it is the one cluster_procs reads.
LEMMA ClusterRow ==
  ASSUME NEW t \in Nat \ {0}, NEW rs, RowsOK(rs, t), NEW row \in OpenCluster(rs)
  PROVE  /\ OpenCluster(rs) = {row} /\ (CHOOSE r \in OpenCluster(rs) : TRUE) = row
         /\ row \in rs /\ row \in EventRow /\ row.node = Whole /\ row.end = 0
         /\ Shown(rs, Whole, t) = {row.cpus}
<1>1. row \in rs /\ row.node = Whole /\ row.end = 0 /\ row \in EventRow
  BY DEF OpenCluster, Events!OpenCluster, Whole, RowsOK
<1>2. OpenCluster(rs) = {row}
  <2>1. \A r \in OpenCluster(rs) : r \in rs /\ r.node = Whole /\ r.end = 0
    BY DEF OpenCluster, Events!OpenCluster, Whole
  <2>2. \A r \in OpenCluster(rs) : r = row
    BY <1>1, <2>1, OneOpen
  <2> QED BY <2>2
<1>3. Covers(row, t) /\ t \in 1..t
  BY <1>1, OpenCovers
<1>4. \A q \in rs : q.node = Whole /\ Covers(q, t) => q = row
  BY <1>1, <1>3 DEF RowsOK
<1>5. Shown(rs, Whole, t) = {row.cpus}
  BY <1>1, <1>3, <1>4 DEF Shown
<1> QED BY <1>1, <1>2, <1>5

LEMMA NoClusterRow ==
  ASSUME NEW t \in Nat \ {0}, NEW rs, RowsOK(rs, t), OpenCluster(rs) = {}
  PROVE  Shown(rs, Whole, t) = {}
<1>1. \A r \in rs : r.node = Whole => r.end # 0
  BY DEF OpenCluster, Events!OpenCluster, Whole
<1>2. \A r \in rs : r.node = Whole => ~Covers(r, t)
  BY <1>1, OpenCovers
<1> QED BY <1>2 DEF Shown

\* What a registration leaves of the rows qs, which show nothing now: the count.
Registered(qs, rows2, procs, nodes, t) ==
  /\ RowsOK(rows2, t)
  /\ SamePast(rows2, qs, t)
  /\ \A n : Shown(rows2, n, t) = IF n = Whole THEN {procs} ELSE Shown(qs, n, t)
  /\ \E r \in OpenCluster(rows2) : r.cpus = procs /\ nodes \in {r.nodes, NULL}

LEMMA AddItShows ==
  ASSUME NEW t \in Nat \ {0}, NEW qs, RowsOK(qs, t), Shown(qs, Whole, t) = {},
         NEW procs \in Counts, NEW nodes \in NodeLists \cup {NULL},
         Events!AddIt(qs, procs, nodes, t).rc # "SLURM_ERROR"
  PROVE  /\ Registered(qs, Events!AddIt(qs, procs, nodes, t).rows, procs, nodes, t)
         /\ Events!AddIt(qs, procs, nodes, t).rc = "ACCOUNTING_FIRST_REG"
<1> DEFINE new == Events!Row(Whole, procs, Events!Printed(nodes), t)
           res == Events!AddIt(qs, procs, nodes, t)
<1>1. /\ new \in EventRow /\ new.node = Whole /\ new.cpus = procs /\ new.start = t /\ new.end = 0
      /\ nodes # NULL => new.nodes = nodes
  <2>1. Events!Printed(nodes) \in NodeLists \cup {"", "(null)"}
    BY DEF Events!Printed, NULL
  <2>2. nodes # NULL => Events!Printed(nodes) = nodes
    BY DEF Events!Printed, NULL
  <2>3. procs \in Nat
    BY TablesAssumption
  <2> QED BY <2>1, <2>2, <2>3 DEF Events!Row, EventRow
<1>2. /\ Events!Same(qs, new) = {}
      /\ res.rows = qs \cup {new} /\ res.rc = "ACCOUNTING_FIRST_REG"
  BY DEF Events!AddIt, Whole
<1> HIDE DEF new, res
<1>3. \A q \in qs : q.node = new.node => q.start # t
  BY <1>1, <1>2 DEF Events!Same
<1>4. new \in EventRow /\ new.start = t /\ new.end = 0 /\ (new.node # Whole => new.cpus = 1)
      /\ Shown(qs, new.node, t) = {}
  BY <1>1
<1>5. /\ RowsOK(qs \cup {new}, t) /\ SamePast(qs \cup {new}, qs, t)
      /\ \A n : Shown(qs \cup {new}, n, t) = IF n = new.node THEN {new.cpus} ELSE Shown(qs, n, t)
  BY <1>3, <1>4, InsertShows
<1>6. new \in OpenCluster(qs \cup {new})
  BY <1>1 DEF OpenCluster, Events!OpenCluster, Whole
<1>7. new.cpus = procs /\ nodes \in {new.nodes, NULL}
  BY <1>1
<1>8. Registered(qs, qs \cup {new}, procs, nodes, t)
  BY <1>1, <1>5, <1>6, <1>7 DEF Registered
<1> QED BY <1>2, <1>8 DEF res

\* clusteracct_storage_p_cluster_procs, when the insert is not refused: the count
\* holds from now on, and a new row ends the down nodes' rows with the old one.
LEMMA ProcsShows ==
  ASSUME NEW t \in Nat \ {0}, NEW rs, RowsOK(rs, t),
         OpenCluster(rs) = {} => \A n \in Nodes : Shown(rs, n, t) = {},
         NEW procs \in Counts, NEW nodes \in NodeLists \cup {NULL},
         Events!ClusterProcs(rs, procs, nodes, t).rc # "SLURM_ERROR"
  PROVE  LET res == Events!ClusterProcs(rs, procs, nodes, t) IN
         /\ RowsOK(res.rows, t)
         /\ SamePast(res.rows, rs, t)
         /\ Shown(res.rows, Whole, t) = {procs}
         /\ \A n \in Nodes : Shown(res.rows, n, t)
                               = IF res.rc = "ACCOUNTING_FIRST_REG" THEN {} ELSE Shown(rs, n, t)
         /\ \E r \in OpenCluster(res.rows) : r.cpus = procs /\ nodes \in {r.nodes, NULL}
<1> DEFINE res == Events!ClusterProcs(rs, procs, nodes, t)
           open == OpenCluster(rs)
           row == CHOOSE r \in open : TRUE
           qs == Events!Close(rs, Nodes \cup {Whole}, t)
<1>0. \A n \in Nodes : n # Whole
  BY TablesAssumption DEF Whole, Events!Whole
<1>a. res =
        CASE open = {} -> Events!AddIt(rs, procs, nodes, t)
          [] open # {} /\ row.cpus = procs /\ nodes \in {row.nodes, NULL} ->
               [rows |-> rs, rc |-> "SLURM_SUCCESS"]
          [] open # {} /\ row.cpus = procs /\ row.nodes = "" /\ nodes \notin {"", NULL} ->
               [rows |-> (rs \ open) \cup {[r EXCEPT !.nodes = nodes] : r \in open},
                rc |-> "SLURM_SUCCESS"]
          [] OTHER -> Events!AddIt(qs, procs, nodes, t)
  BY DEF Events!ClusterProcs, OpenCluster, NULL, Whole
<1> SUFFICES /\ RowsOK(res.rows, t)
             /\ SamePast(res.rows, rs, t)
             /\ Shown(res.rows, Whole, t) = {procs}
             /\ \A n \in Nodes : Shown(res.rows, n, t)
                                   = IF res.rc = "ACCOUNTING_FIRST_REG" THEN {} ELSE Shown(rs, n, t)
             /\ \E r \in OpenCluster(res.rows) : r.cpus = procs /\ nodes \in {r.nodes, NULL}
  OBVIOUS
<1>b. res.rc # "SLURM_ERROR"
  OBVIOUS
<1> HIDE DEF res, row, qs, open
<1>1. CASE open = {}
  <2>1. res = Events!AddIt(rs, procs, nodes, t)
    BY <1>a, <1>1
  <2>2. Shown(rs, Whole, t) = {}
    BY <1>1, NoClusterRow DEF open
  <2>3. Registered(rs, res.rows, procs, nodes, t) /\ res.rc = "ACCOUNTING_FIRST_REG"
    BY <1>b, <2>1, <2>2, AddItShows
  <2> QED BY <1>0, <1>1, <2>3 DEF Registered, open
<1>2. CASE open # {}
  <2>1. PICK w \in open : TRUE
    BY <1>2
  <2>2. /\ open = {w} /\ row = w /\ w \in rs /\ w \in EventRow /\ w.node = Whole /\ w.end = 0
        /\ Shown(rs, Whole, t) = {w.cpus}
    BY <2>1, ClusterRow DEF open, row
  <2>3. CASE w.cpus = procs /\ nodes \in {w.nodes, NULL}
    <3>0. open # {} /\ row.cpus = procs /\ nodes \in {row.nodes, NULL}
      BY <1>2, <2>2, <2>3
    <3>1. res = [rows |-> rs, rc |-> "SLURM_SUCCESS"]
      BY <1>a, <3>0
    <3>2. res.rows = rs /\ res.rc # "ACCOUNTING_FIRST_REG"
      BY <3>1
    <3>3. w \in OpenCluster(res.rows)
      BY <2>1, <3>2 DEF open
    <3> QED BY <2>2, <2>3, <3>2, <3>3 DEF SamePast
  <2>4. CASE w.cpus = procs /\ w.nodes = "" /\ nodes \notin {"", NULL}
    <3> DEFINE w2 == [w EXCEPT !.nodes = nodes]
    <3>1. res = [rows |-> (rs \ {w}) \cup {w2}, rc |-> "SLURM_SUCCESS"]
      <4>1. {[r EXCEPT !.nodes = nodes] : r \in open} = {w2}
        BY <2>2
      <4> QED BY <1>2, <1>a, <2>2, <2>4, <4>1
    <3>2. w2.node = Whole /\ w2.end = 0 /\ w2.cpus = procs /\ w2.nodes = nodes
      BY <2>2, <2>4 DEF EventRow
    <3>3. /\ RowsOK((rs \ {w}) \cup {w2}, t)
          /\ \A n, s : Shown((rs \ {w}) \cup {w2}, n, s) = Shown(rs, n, s)
      <4>1. nodes \in NodeLists \cup {"", "(null)"}
        BY <2>4
      <4>2. w \in rs
        BY <2>2
      <4> HIDE DEF w2
      <4> QED BY <4>1, <4>2, FillShows, ZenonT(60) DEF w2
    <3> HIDE DEF w2
    <3>4. res.rows = (rs \ {w}) \cup {w2} /\ res.rc # "ACCOUNTING_FIRST_REG"
      BY <3>1
    <3>5. w2 \in OpenCluster(res.rows)
      BY <3>2, <3>4 DEF OpenCluster, Events!OpenCluster, Whole
    <3>6. RowsOK(res.rows, t) /\ \A n, s : Shown(res.rows, n, s) = Shown(rs, n, s)
      BY <3>3, <3>4
    <3> QED BY <2>2, <2>4, <3>2, <3>4, <3>5, <3>6 DEF SamePast
  <2>5. CASE ~(w.cpus = procs /\ nodes \in {w.nodes, NULL})
             /\ ~(w.cpus = procs /\ w.nodes = "" /\ nodes \notin {"", NULL})
    <3>1. res = Events!AddIt(qs, procs, nodes, t)
      BY <1>2, <1>a, <2>2, <2>5
    <3>2. /\ RowsOK(qs, t) /\ SamePast(qs, rs, t)
          /\ \A n : Shown(qs, n, t) = IF n \in Nodes \cup {Whole} THEN {} ELSE Shown(rs, n, t)
      BY CloseShows DEF qs
    <3>3. Registered(qs, res.rows, procs, nodes, t) /\ res.rc = "ACCOUNTING_FIRST_REG"
      BY <1>b, <3>1, <3>2, AddItShows
    <3>4. SamePast(res.rows, rs, t)
      BY <3>2, <3>3 DEF Registered, SamePast
    <3> QED BY <1>0, <3>2, <3>3, <3>4 DEF Registered
  <2> QED BY <2>3, <2>4, <2>5
<1> QED BY <1>1, <1>2

\* The same registration made again finds its row.
LEMMA ProcsAgain ==
  ASSUME NEW t \in Nat \ {0}, NEW rs, RowsOK(rs, t), NEW u, NEW nodes,
         NEW w \in OpenCluster(rs), nodes \in {w.nodes, NULL}
  PROVE  Events!ClusterProcs(rs, w.cpus, nodes, u).rows = rs
<1>1. OpenCluster(rs) # {} /\ (CHOOSE r \in OpenCluster(rs) : TRUE) = w
  BY ClusterRow
<1> DEFINE open == OpenCluster(rs)
           row == CHOOSE r \in open : TRUE
           procs == w.cpus
<1>2. Events!ClusterProcs(rs, procs, nodes, u) =
        CASE open = {} -> Events!AddIt(rs, procs, nodes, u)
          [] open # {} /\ row.cpus = procs /\ nodes \in {row.nodes, NULL} ->
               [rows |-> rs, rc |-> "SLURM_SUCCESS"]
          [] open # {} /\ row.cpus = procs /\ row.nodes = "" /\ nodes \notin {"", NULL} ->
               [rows |-> (rs \ open) \cup {[r EXCEPT !.nodes = nodes] : r \in open},
                rc |-> "SLURM_SUCCESS"]
          [] OTHER -> Events!AddIt(Events!Close(rs, Nodes \cup {Whole}, u), procs, nodes, u)
  BY DEF Events!ClusterProcs, OpenCluster, NULL, Whole
<1> HIDE DEF row, open
<1>3. open # {} /\ row.cpus = procs /\ nodes \in {row.nodes, NULL}
  BY <1>1 DEF row, open
<1>4. Events!ClusterProcs(rs, procs, nodes, u) = [rows |-> rs, rc |-> "SLURM_SUCCESS"]
  BY <1>2, <1>3
<1> QED BY <1>4

-----------------------------------------------------------------------------
(* The invariant of the event table.                                       *)

Moment == [cpus : Counts \cup {0}, down : SUBSET Nodes]

EventTypes ==
  /\ now \in Nat \ {0}
  /\ cluster \in [cpus : Counts \cup {0}, nodes : NodeLists \cup {NULL}, down : SUBSET Nodes]
  /\ recall \in SUBSET Nodes /\ recall \subseteq cluster.down
  /\ hist \in Seq(Moment) /\ Len(hist) = now - 1
  /\ refused \in BOOLEAN

\* What the table is to show of n in a second in which x was true.
Truth(n, x) ==
  IF n = Whole THEN (IF x.cpus = 0 THEN {} ELSE {x.cpus})
  ELSE IF n \in x.down THEN {1} ELSE {}

Names == Nodes \cup {Whole}

Recorded ==
  /\ RowsOK(events, now)
  /\ \A n \in Names, s \in 1..now : Shown(events, n, s) = Truth(n, Events!At(s))

NodesGiven == cluster.nodes # NULL => \A r \in OpenCluster(events) : r.nodes = cluster.nodes

\* What the last call has left, so that making it again changes nothing.
ToldOK ==
  /\ told.op = "down" =>
       \E r \in events : r.node = told.node /\ r.start = told.time /\ r.end = 0
  /\ told.op = "up" => \A r \in events : r.node = told.node => r.end # 0
  /\ told.op = "procs" =>
       \E r \in OpenCluster(events) : r.cpus = told.procs /\ told.nodes \in {r.nodes, NULL}

EventInv ==
  /\ EventTypes
  /\ ~refused => /\ Recorded /\ NodesGiven /\ ToldOK
                 /\ cluster.cpus = 0 => cluster.down = {}

\* A call changes what is true now, and the table with it.
LEMMA RecordedNow ==
  ASSUME EventTypes, Recorded, now' = now, hist' = hist,
         RowsOK(events', now), SamePast(events', events, now),
         \A n \in Names : Shown(events', n, now) = Truth(n, Events!Current')
  PROVE  Recorded'
<1>1. ASSUME NEW n \in Names, NEW s \in 1..now
      PROVE  Shown(events', n, s) = Truth(n, Events!At(s)')
  <2>1. CASE s = now
    <3>1. Events!At(s)' = Events!Current'
      BY <2>1 DEF Events!At
    <3> QED BY <2>1, <3>1
  <2>2. CASE s # now
    <3>1. Events!At(s)' = hist[s] /\ Events!At(s) = hist[s]
      BY <2>2 DEF Events!At
    <3>2. Shown(events', n, s) = Shown(events, n, s)
      BY <2>2 DEF SamePast
    <3>3. Shown(events, n, s) = Truth(n, Events!At(s))
      BY DEF Recorded
    <3> QED BY <3>1, <3>2, <3>3
  <2> QED BY <2>1, <2>2
<1> QED BY <1>1 DEF Recorded, Shown, Truth, RowsOK, Covers, Events!Covers

LEMMA EventInit == Events!Init => EventInv
<1> SUFFICES ASSUME Events!Init PROVE EventInv
  OBVIOUS
<1>0. \/ events = {} /\ cluster = [cpus |-> 0, nodes |-> NULL, down |-> {}]
      \/ \E c \in Counts : /\ events = {Events!Row(Whole, c, "", 1)}
                           /\ cluster = [cpus |-> c, nodes |-> NULL, down |-> {}]
  BY DEF Events!Init, NULL, Whole
<1>a. told = [op |-> "none"]
  BY DEF Events!Init
<1>1. now = 1 /\ recall = {} /\ hist = <<>> /\ refused = FALSE
  BY DEF Events!Init
<1>b. /\ cluster \in [cpus : Counts \cup {0}, nodes : NodeLists \cup {NULL}, down : SUBSET Nodes]
      /\ cluster.down = {} /\ cluster.nodes = NULL
  <2>1. ASSUME NEW c \in Counts \cup {0}, cluster = [cpus |-> c, nodes |-> NULL, down |-> {}]
        PROVE  /\ cluster \in [cpus : Counts \cup {0}, nodes : NodeLists \cup {NULL},
                                down : SUBSET Nodes]
               /\ cluster.down = {} /\ cluster.nodes = NULL
    BY <2>1
  <2> QED BY <1>0, <2>1
<1>2. EventTypes
  <2>1. Len(hist) = now - 1
    BY <1>1
  <2>2. hist \in Seq(Moment)
    BY <1>1
  <2>3. now \in Nat \ {0} /\ recall \in SUBSET Nodes /\ recall \subseteq cluster.down
    BY <1>1
  <2>4. refused \in BOOLEAN
    BY <1>1, Zenon
  <2> QED BY <1>b, <2>1, <2>2, <2>3, <2>4 DEF EventTypes
<1>3. NodesGiven /\ ToldOK /\ cluster.down = {}
  BY <1>a, <1>b DEF NodesGiven, ToldOK
<1>4. \A s \in 1..now : s = 1 /\ Events!At(s) = [cpus |-> cluster.cpus, down |-> {}]
  <2> TAKE s \in 1..now
  <2>1. s = now
    BY <1>1
  <2>2. Events!Current = [cpus |-> cluster.cpus, down |-> {}]
    BY <1>1, <1>3 DEF Events!Current
  <2> QED BY <1>1, <2>1, <2>2 DEF Events!At
<1>5. CASE events = {} /\ cluster = [cpus |-> 0, nodes |-> NULL, down |-> {}]
  <2>1. RowsOK(events, now)
    BY <1>5 DEF RowsOK
  <2>2. \A n, s : Shown(events, n, s) = {}
    BY <1>5 DEF Shown
  <2>3. \A n, s \in 1..now : Truth(n, Events!At(s)) = {}
    BY <1>4, <1>5 DEF Truth
  <2>4. \A n \in Names, s \in 1..now : Shown(events, n, s) = Truth(n, Events!At(s))
    <3> TAKE n \in Names, s \in 1..now
    <3>1. Events!At(s).cpus = 0 /\ Events!At(s).down = {}
      BY <1>4, <1>5
    <3> QED BY <2>2, <3>1 DEF Truth
  <2> QED BY <1>2, <1>3, <2>1, <2>4 DEF EventInv, Recorded
<1>6. ASSUME NEW c \in Counts, events = {Events!Row(Whole, c, "", 1)},
             cluster = [cpus |-> c, nodes |-> NULL, down |-> {}]
      PROVE  EventInv
  <2> DEFINE row == Events!Row(Whole, c, "", 1)
  <2>1. c \in Nat /\ c # 0
    BY TablesAssumption
  <2>2. /\ row \in EventRow /\ row.node = Whole /\ row.cpus = c /\ row.start = 1 /\ row.end = 0
    BY <2>1 DEF Events!Row, EventRow
  <2>3. events = {row}
    BY <1>6
  <2> HIDE DEF row
  <2>4. RowsOK(events, now)
    BY <1>1, <2>2, <2>3 DEF RowsOK
  <2>5. Covers(row, 1)
    BY <2>2 DEF Covers, Events!Covers
  <2>6. \A n : Shown(events, n, 1) = IF n = Whole THEN {c} ELSE {}
    BY <2>2, <2>3, <2>5 DEF Shown
  <2>7. \A n \in Names, s \in 1..now : Shown(events, n, s) = Truth(n, Events!At(s))
    <3> TAKE n \in Names, s \in 1..now
    <3>1. Events!At(s) = [cpus |-> cluster.cpus, down |-> {}] /\ s = 1 /\ cluster.cpus = c
      BY <1>4, <1>6
    <3>2. Events!At(s).cpus = c /\ Events!At(s).down = {}
      BY <3>1
    <3> QED BY <2>1, <2>6, <3>1, <3>2 DEF Truth
  <2> QED BY <1>2, <1>3, <2>4, <2>7 DEF EventInv, Recorded
<1> QED BY <1>0, <1>5, <1>6

LEMMA EventTick == ASSUME EventInv, Events!Tick PROVE EventInv'
<1>1. /\ now' = now + 1 /\ hist' = Append(hist, Events!Current)
      /\ UNCHANGED <<events, cluster, recall, told, refused>>
  BY DEF Events!Tick
<1>2. EventTypes
  BY DEF EventInv
<1>3. Events!Current \in Moment
  BY <1>2 DEF Events!Current, Moment, EventTypes
<1>4. EventTypes'
  <2>1. hist' \in Seq(Moment) /\ Len(hist') = now' - 1
    BY <1>1, <1>2, <1>3 DEF EventTypes
  <2> QED BY <1>1, <1>2, <2>1 DEF EventTypes
<1>5. ASSUME ~refused PROVE Recorded'
  <2>1. Recorded
    BY <1>5 DEF EventInv
  <2> DEFINE t == now
  <2>2. t \in Nat \ {0} /\ RowsOK(events, t)
    BY <1>2, <2>1 DEF Recorded, EventTypes
  <2>3. \A r \in events : /\ r.start \in 1..t /\ r.end \in Nat /\ r.end <= t
                          /\ Covers(r, t + 1) <=> Covers(r, t)
    <3> HIDE DEF t
    <3> TAKE r \in events
    <3>1. r.start \in 1..t /\ r.end \in Nat /\ r.end <= t
      BY <2>2 DEF RowsOK, EventRow
    <3> QED BY <2>2, <3>1 DEF Covers, Events!Covers
  <2> HIDE DEF t
  <2>4. RowsOK(events, t + 1)
    <3>1. \A r \in events : r.start \in 1..(t + 1) /\ r.end <= t + 1
      BY <2>2, <2>3
    <3>2. \A s \in 1..(t + 1) : \A q, r \in events :
            q.node = r.node /\ Covers(q, s) /\ Covers(r, s) => q = r
      <4> TAKE s \in 1..(t + 1)
      <4>1. CASE s = t + 1
        <5>1. t \in 1..t
          BY <2>2
        <5> QED BY <2>2, <2>3, <4>1, <5>1 DEF RowsOK
      <4>2. CASE s # t + 1
        <5>1. s \in 1..t
          BY <2>2, <4>2
        <5> QED BY <2>2, <5>1 DEF RowsOK
      <4> QED BY <4>1, <4>2
    <3> QED BY <2>2, <3>1, <3>2 DEF RowsOK
  <2>5. \A n : Shown(events, n, t + 1) = Shown(events, n, t)
    BY <2>3 DEF Shown
  <2>6. ASSUME NEW n \in Names, NEW s \in 1..(t + 1)
        PROVE  Shown(events, n, s) = Truth(n, Events!At(s)')
    <3>0. Len(hist) = t - 1 /\ hist \in Seq(Moment) /\ t \in 1..t
      BY <1>2, <2>2 DEF EventTypes, t
    <3>1. CASE s = t + 1
      <4>1. Events!At(s)' = Events!Current' /\ Events!Current' = Events!Current
        BY <1>1, <3>1 DEF Events!At, Events!Current, t
      <4>2. Events!At(t) = Events!Current
        BY DEF Events!At, t
      <4>3. Shown(events, n, t) = Truth(n, Events!At(t))
        BY <2>1, <3>0 DEF Recorded, t
      <4> QED BY <2>5, <3>1, <4>1, <4>2, <4>3
    <3>2. CASE s # t + 1
      <4>1. s \in 1..t /\ s # now'
        BY <1>1, <2>2, <3>2 DEF t
      <4>2. Events!At(s)' = hist'[s]
        BY <4>1 DEF Events!At
      <4>3. hist'[s] = IF s = t THEN Events!Current ELSE hist[s]
        BY <1>1, <3>0, <4>1
      <4>4. Events!At(s)' = Events!At(s)
        BY <4>2, <4>3 DEF Events!At, t
      <4>5. Shown(events, n, s) = Truth(n, Events!At(s))
        BY <2>1, <4>1 DEF Recorded, t
      <4> QED BY <4>4, <4>5
    <3> QED BY <3>1, <3>2
  <2>7. now' = t + 1 /\ events' = events
    BY <1>1 DEF t
  <2> QED BY <2>4, <2>6, <2>7 DEF Recorded
<1>6. ASSUME ~refused PROVE NodesGiven' /\ ToldOK' /\ (cluster.cpus = 0 => cluster.down = {})'
  BY <1>1, <1>6 DEF EventInv, NodesGiven, ToldOK
<1> QED BY <1>1, <1>4, <1>5, <1>6 DEF EventInv

\* What the invariant says of the present second.
LEMMA NowRecorded ==
  ASSUME EventInv, ~refused
  PROVE  /\ now \in Nat \ {0} /\ RowsOK(events, now)
         /\ \A n \in Names : Shown(events, n, now) = Truth(n, Events!Current)
         /\ EventTypes /\ Recorded
<1>1. EventTypes /\ Recorded /\ now \in Nat \ {0} /\ now \in 1..now
  BY DEF EventInv, EventTypes
<1>2. Events!At(now) = Events!Current
  BY DEF Events!At
<1> QED BY <1>1, <1>2 DEF Recorded

LEMMA EventRegister ==
  ASSUME EventInv, NEW procs \in Counts, NEW nodes \in NodeLists \cup {NULL},
         NEW gone \in SUBSET Nodes, Events!Register(procs, nodes, gone)
  PROVE  EventInv'
<1> DEFINE res == Events!ClusterProcs(events, procs, nodes, now)
           first == res.rc = "ACCOUNTING_FIRST_REG"
<1>1. /\ ~refused /\ gone \subseteq cluster.down
      /\ gone # {} => first
      /\ events' = res.rows
      /\ cluster' = [cpus |-> procs, nodes |-> nodes, down |-> cluster.down \ gone]
      /\ recall' = IF first THEN cluster.down \ gone ELSE recall
      /\ now' = now /\ hist' = hist
  BY DEF Events!Register
<1>a. told' = [op |-> "procs", procs |-> procs, nodes |-> nodes, time |-> now]
  BY DEF Events!Register
<1>b. refused' = (res.rc = "SLURM_ERROR")
  BY DEF Events!Register
<1>2. /\ now \in Nat \ {0} /\ RowsOK(events, now)
      /\ \A n \in Names : Shown(events, n, now) = Truth(n, Events!Current)
      /\ EventTypes /\ Recorded
  BY <1>1, NowRecorded
<1>3. procs \in Nat /\ procs # 0 /\ \A n \in Nodes : n # Whole
  BY TablesAssumption DEF Whole, Events!Whole
<1>4. OpenCluster(events) = {} => \A n \in Nodes : Shown(events, n, now) = {}
  <2> SUFFICES ASSUME OpenCluster(events) = {}, NEW n \in Nodes PROVE Shown(events, n, now) = {}
    OBVIOUS
  <2>1. Shown(events, Whole, now) = {}
    BY <1>2, NoClusterRow
  <2>2. Truth(Whole, Events!Current) = {}
    BY <1>2, <2>1 DEF Names
  <2>3. Events!Current.cpus = 0
    BY <2>2 DEF Truth
  <2>4. cluster.cpus = 0
    BY <2>3 DEF Events!Current
  <2>5. cluster.down = {}
    BY <1>1, <2>4 DEF EventInv
  <2>6. Events!Current.down = {}
    BY <2>5 DEF Events!Current
  <2> QED BY <1>2, <1>3, <2>6 DEF Names, Truth
<1> HIDE DEF res
<1>5. EventTypes'
  <2>1. cluster.down \in SUBSET Nodes /\ recall \in SUBSET Nodes /\ recall \subseteq cluster.down
    BY <1>2 DEF EventTypes
  <2>2. cluster' \in [cpus : Counts \cup {0}, nodes : NodeLists \cup {NULL}, down : SUBSET Nodes]
        /\ cluster'.down = cluster.down \ gone
    BY <1>1, <2>1
  <2>3. recall' \in SUBSET Nodes /\ recall' \subseteq cluster'.down
    <3>1. CASE first
      BY <1>1, <2>1, <2>2, <3>1
    <3>2. CASE ~first
      BY <1>1, <2>1, <2>2, <3>2
    <3> QED BY <3>1, <3>2
  <2>4. refused' \in BOOLEAN
    BY <1>b, Zenon
  <2>5. hist' \in Seq(Moment) /\ Len(hist') = now' - 1 /\ now' \in Nat \ {0}
    BY <1>1, <1>2 DEF EventTypes
  <2> QED BY <2>2, <2>3, <2>4, <2>5 DEF EventTypes
<1>6. SUFFICES ASSUME res.rc # "SLURM_ERROR"
               PROVE  Recorded' /\ NodesGiven' /\ ToldOK' /\ (cluster.cpus = 0 => cluster.down = {})'
  <2>1. refused' \/ res.rc # "SLURM_ERROR"
    BY <1>b, Zenon
  <2> QED BY <1>5, <2>1 DEF EventInv
<1>7. /\ RowsOK(events', now)
      /\ SamePast(events', events, now)
      /\ Shown(events', Whole, now) = {procs}
      /\ \A n \in Nodes : Shown(events', n, now) = IF first THEN {} ELSE Shown(events, n, now)
      /\ \E r \in OpenCluster(events') : r.cpus = procs /\ nodes \in {r.nodes, NULL}
  <2>1. Events!ClusterProcs(events, procs, nodes, now).rc # "SLURM_ERROR"
    BY <1>6 DEF res
  <2> QED BY <1>1, <1>2, <1>4, <2>1, ProcsShows DEF res
<1>8. Events!Current'.cpus = procs
      /\ Events!Current'.down = IF first THEN {} ELSE Events!Current.down
  <2>1. Events!Current' = [cpus |-> procs, down |-> (cluster.down \ gone) \ recall']
    BY <1>1 DEF Events!Current
  <2>2. Events!Current.down = cluster.down \ recall
    BY DEF Events!Current
  <2>3. CASE first
    BY <1>1, <2>1, <2>3
  <2>4. CASE ~first
    BY <1>1, <2>1, <2>2, <2>4
  <2> QED BY <2>3, <2>4
<1> HIDE DEF first
<1>9. \A n \in Names : Shown(events', n, now) = Truth(n, Events!Current')
  <2> TAKE n \in Names
  <2>1. CASE n = Whole
    BY <1>3, <1>7, <1>8, <2>1 DEF Truth
  <2>2. CASE n # Whole
    <3>1. n \in Nodes
      BY <2>2 DEF Names
    <3>2. CASE first
      BY <1>7, <1>8, <2>2, <3>1, <3>2 DEF Truth
    <3>3. CASE ~first
      <4>1. Shown(events', n, now) = Shown(events, n, now)
        BY <1>7, <3>1, <3>3
      <4>2. Shown(events, n, now) = Truth(n, Events!Current)
        BY <1>2
      <4> QED BY <1>8, <2>2, <3>3, <4>1, <4>2 DEF Truth
    <3> QED BY <3>2, <3>3
  <2> QED BY <2>1, <2>2
<1>10. Recorded'
  BY <1>1, <1>2, <1>7, <1>9, RecordedNow
<1>11. NodesGiven'
  <2> SUFFICES ASSUME cluster'.nodes # NULL, NEW r \in OpenCluster(events')
               PROVE  r.nodes = cluster'.nodes
    BY DEF NodesGiven, OpenCluster, Events!OpenCluster
  <2>1. PICK w \in OpenCluster(events') : w.cpus = procs /\ nodes \in {w.nodes, NULL}
    BY <1>7
  <2>2. OpenCluster(events') = {w}
    BY <1>2, <1>7, ClusterRow
  <2> QED BY <1>1, <2>1, <2>2
<1>12. ToldOK'
  <2>1. told'.op = "procs" /\ told'.procs = procs /\ told'.nodes = nodes
    BY <1>a
  <2> QED BY <1>7, <2>1 DEF ToldOK, OpenCluster, Events!OpenCluster
<1> QED BY <1>1, <1>3, <1>10, <1>11, <1>12

LEMMA EventTellDown ==
  ASSUME EventInv, NEW n \in Nodes, Events!Down(n) \/ Events!Again(n)
  PROVE  EventInv'
<1>1. /\ ~refused /\ refused' = refused /\ now' = now /\ hist' = hist
      /\ events' = Events!NodeDownRows(events, n, now)
      /\ told' = [op |-> "down", node |-> n, time |-> now]
  BY DEF Events!Down, Events!Again, Events!TellDown
<1>2. /\ now \in Nat \ {0} /\ RowsOK(events, now)
      /\ \A m \in Names : Shown(events, m, now) = Truth(m, Events!Current)
      /\ EventTypes /\ Recorded
  BY <1>1, NowRecorded
<1>3. \A m \in Nodes : m # Whole
  BY TablesAssumption DEF Whole, Events!Whole
<1>4. /\ cluster' \in [cpus : Counts \cup {0}, nodes : NodeLists \cup {NULL}, down : SUBSET Nodes]
      /\ recall' \in SUBSET Nodes /\ recall' \subseteq cluster'.down
      /\ cluster'.down \ recall' = (cluster.down \ recall) \cup {n}
      /\ cluster'.cpus = cluster.cpus /\ cluster'.nodes = cluster.nodes
      /\ cluster.cpus # 0
  <2>1. /\ cluster \in [cpus : Counts \cup {0}, nodes : NodeLists \cup {NULL}, down : SUBSET Nodes]
        /\ recall \in SUBSET Nodes /\ recall \subseteq cluster.down
    BY <1>2 DEF EventTypes
  <2>2. CASE Events!Down(n)
    <3>1. /\ cluster' = [cluster EXCEPT !.down = @ \cup {n}] /\ recall' = recall
          /\ n \notin cluster.down /\ cluster.cpus # 0
      BY <2>2 DEF Events!Down
    <3>2. /\ cluster' \in [cpus : Counts \cup {0}, nodes : NodeLists \cup {NULL},
                           down : SUBSET Nodes]
          /\ cluster'.down = cluster.down \cup {n} /\ cluster'.cpus = cluster.cpus
          /\ cluster'.nodes = cluster.nodes
      BY <2>1, <3>1
    <3> QED BY <2>1, <3>1, <3>2
  <2>3. CASE Events!Again(n)
    <3>1. cluster' = cluster /\ recall' = recall \ {n} /\ n \in cluster.down
      BY <2>3 DEF Events!Again
    <3>2. cluster.cpus # 0
      BY <1>1, <3>1 DEF EventInv
    <3> QED BY <2>1, <3>1, <3>2
  <2> QED BY <2>2, <2>3
<1>5. EventTypes'
  <2>1. hist' \in Seq(Moment) /\ Len(hist') = now' - 1 /\ now' \in Nat \ {0}
    BY <1>1, <1>2 DEF EventTypes
  <2>2. refused' \in BOOLEAN
    BY <1>1, <1>2, Zenon DEF EventTypes
  <2> QED BY <1>4, <2>1, <2>2 DEF EventTypes
<1>6. /\ RowsOK(events', now)
      /\ SamePast(events', events, now)
      /\ \A m : Shown(events', m, now) = IF m = n THEN {1} ELSE Shown(events, m, now)
      /\ \E r \in events' : r.node = n /\ r.start = now /\ r.end = 0
      /\ \A r \in events' : r.node # n /\ r.end = 0 => r \in events
  BY <1>1, <1>2, NodeDownShows
<1>7. Events!Current'.cpus = Events!Current.cpus
      /\ Events!Current'.down = Events!Current.down \cup {n}
  BY <1>4 DEF Events!Current
<1>8. \A m \in Names : Shown(events', m, now) = Truth(m, Events!Current')
  <2> TAKE m \in Names
  <2>1. Shown(events, m, now) = Truth(m, Events!Current)
    BY <1>2
  <2>2. CASE m = n
    BY <1>3, <1>6, <1>7, <2>2 DEF Truth
  <2>3. CASE m # n
    <3>1. Shown(events', m, now) = Truth(m, Events!Current)
      BY <1>6, <2>1, <2>3
    <3> QED BY <1>7, <2>3, <3>1 DEF Truth
  <2> QED BY <2>2, <2>3
<1>9. Recorded'
  BY <1>1, <1>2, <1>6, <1>8, RecordedNow
<1>10. NodesGiven'
  <2> SUFFICES ASSUME cluster'.nodes # NULL, NEW r \in OpenCluster(events')
               PROVE  r.nodes = cluster'.nodes
    BY DEF NodesGiven, OpenCluster, Events!OpenCluster
  <2>1. r \in events' /\ r.node = Whole /\ r.end = 0
    BY DEF OpenCluster, Events!OpenCluster, Whole
  <2>2. r \in OpenCluster(events)
    BY <1>3, <1>6, <2>1 DEF OpenCluster, Events!OpenCluster, Whole
  <2>3. NodesGiven
    BY <1>1 DEF EventInv
  <2> QED BY <1>4, <2>2, <2>3 DEF NodesGiven
<1>11. ToldOK'
  <2>1. told'.op = "down" /\ told'.node = n /\ told'.time = now
    BY <1>1
  <2> QED BY <1>6, <2>1 DEF ToldOK
<1> QED BY <1>4, <1>5, <1>9, <1>10, <1>11 DEF EventInv

LEMMA EventUp == ASSUME EventInv, NEW n \in Nodes, Events!Up(n) PROVE EventInv'
<1>1. /\ ~refused /\ refused' = refused /\ now' = now /\ hist' = hist
      /\ cluster' = [cluster EXCEPT !.down = @ \ {n}] /\ recall' = recall \ {n}
      /\ events' = Events!Close(events, {n}, now)
  BY DEF Events!Up, Events!NodeUpRows
<1>a. told' = [op |-> "up", node |-> n, time |-> now]
  BY DEF Events!Up
<1>2. /\ now \in Nat \ {0} /\ RowsOK(events, now)
      /\ \A m \in Names : Shown(events, m, now) = Truth(m, Events!Current)
      /\ EventTypes /\ Recorded
  BY <1>1, NowRecorded
<1>3. \A m \in Nodes : m # Whole
  BY TablesAssumption DEF Whole, Events!Whole
<1>4. /\ cluster' \in [cpus : Counts \cup {0}, nodes : NodeLists \cup {NULL}, down : SUBSET Nodes]
      /\ recall' \in SUBSET Nodes /\ recall' \subseteq cluster'.down
      /\ cluster'.down = cluster.down \ {n}
      /\ cluster'.cpus = cluster.cpus /\ cluster'.nodes = cluster.nodes
  BY <1>1, <1>2 DEF EventTypes
<1>5. EventTypes'
  <2>1. hist' \in Seq(Moment) /\ Len(hist') = now' - 1 /\ now' \in Nat \ {0}
    BY <1>1, <1>2 DEF EventTypes
  <2>2. refused' \in BOOLEAN
    BY <1>1, <1>2, Zenon DEF EventTypes
  <2> QED BY <1>4, <2>1, <2>2 DEF EventTypes
<1>6. /\ RowsOK(events', now)
      /\ SamePast(events', events, now)
      /\ \A m : Shown(events', m, now) = IF m \in {n} THEN {} ELSE Shown(events, m, now)
      /\ \A r \in events' : r.end = 0 => r \in events /\ r.node \notin {n}
  BY <1>1, <1>2, CloseShows
<1>7. Events!Current'.cpus = Events!Current.cpus
      /\ Events!Current'.down = Events!Current.down \ {n}
  BY <1>1, <1>4 DEF Events!Current
<1>8. \A m \in Names : Shown(events', m, now) = Truth(m, Events!Current')
  <2> TAKE m \in Names
  <2>1. Shown(events, m, now) = Truth(m, Events!Current)
    BY <1>2
  <2>2. CASE m = n
    BY <1>3, <1>6, <1>7, <2>2 DEF Truth
  <2>3. CASE m # n
    <3>1. Shown(events', m, now) = Truth(m, Events!Current)
      BY <1>6, <2>1, <2>3
    <3> QED BY <1>7, <2>3, <3>1 DEF Truth
  <2> QED BY <2>2, <2>3
<1>9. Recorded'
  BY <1>1, <1>2, <1>6, <1>8, RecordedNow
<1>10. NodesGiven'
  <2> SUFFICES ASSUME cluster'.nodes # NULL, NEW r \in OpenCluster(events')
               PROVE  r.nodes = cluster'.nodes
    BY DEF NodesGiven, OpenCluster, Events!OpenCluster
  <2>1. r \in events' /\ r.node = Whole /\ r.end = 0
    BY DEF OpenCluster, Events!OpenCluster, Whole
  <2>2. r \in OpenCluster(events)
    BY <1>6, <2>1 DEF OpenCluster, Events!OpenCluster, Whole
  <2>3. NodesGiven
    BY <1>1 DEF EventInv
  <2> QED BY <1>4, <2>2, <2>3 DEF NodesGiven
<1>11. ToldOK'
  <2>1. told'.op = "up" /\ told'.node = n
    BY <1>a
  <2> QED BY <1>6, <2>1 DEF ToldOK
<1>12. (cluster.cpus = 0 => cluster.down = {})'
  <2>1. cluster.cpus = 0 => cluster.down = {}
    BY <1>1 DEF EventInv
  <2> QED BY <1>4, <2>1
<1> QED BY <1>5, <1>9, <1>10, <1>11, <1>12 DEF EventInv

LEMMA EventRepeat == ASSUME EventInv, Events!Repeat PROVE EventInv'
<1>1. ~refused /\ UNCHANGED <<now, cluster, recall, hist, told, refused>>
  BY DEF Events!Repeat
<1>2. now \in Nat \ {0} /\ RowsOK(events, now) /\ events \subseteq EventRow /\ ToldOK
  BY <1>1, NowRecorded DEF EventInv, RowsOK
<1>3. CASE told.op = "down" /\ events' = Events!NodeDownRows(events, told.node, told.time)
  <2>1. PICK r \in events : r.node = told.node /\ r.start = told.time /\ r.end = 0
    BY <1>2, <1>3 DEF ToldOK
  <2>2. Events!NodeDownRows(events, r.node, r.start) = events
    BY <1>2, <2>1, NodeDownAgain
  <2>3. events' = events
    BY <1>3, <2>1, <2>2
  <2> QED BY <1>1, <2>3 DEF EventInv, EventTypes, Recorded, NodesGiven, ToldOK, Events!At,
                             Events!Current
<1>4. CASE told.op = "up" /\ events' = Events!NodeUpRows(events, told.node, told.time)
  <2>1. \A r \in events : r.node \in {told.node} => r.end # 0
    BY <1>2, <1>4 DEF ToldOK
  <2>2. Events!Close(events, {told.node}, told.time) = events
    BY <1>2, <2>1, CloseAgain
  <2>3. events' = events
    BY <1>4, <2>2 DEF Events!NodeUpRows
  <2> QED BY <1>1, <2>3 DEF EventInv, EventTypes, Recorded, NodesGiven, ToldOK, Events!At,
                             Events!Current
<1>5. CASE told.op = "procs"
           /\ events' = Events!ClusterProcs(events, told.procs, told.nodes, told.time).rows
  <2>1. PICK w \in OpenCluster(events) : w.cpus = told.procs /\ told.nodes \in {w.nodes, NULL}
    BY <1>2, <1>5 DEF ToldOK
  <2>2. Events!ClusterProcs(events, w.cpus, told.nodes, told.time).rows = events
    BY <1>2, <2>1, ProcsAgain
  <2>3. events' = events
    BY <1>5, <2>1, <2>2
  <2> QED BY <1>1, <2>3 DEF EventInv, EventTypes, Recorded, NodesGiven, ToldOK, Events!At,
                             Events!Current
<1> QED BY <1>3, <1>4, <1>5 DEF Events!Repeat

LEMMA EventInvInductive ==
  ASSUME EventInv, Events!Next \/ UNCHANGED <<now, eventVars>> PROVE EventInv'
<1>1. CASE UNCHANGED <<now, eventVars>>
  BY <1>1 DEF eventVars, EventInv, EventTypes, Recorded, NodesGiven, ToldOK, Events!At,
              Events!Current
<1>2. CASE Events!Next
  <2>1. CASE Events!Tick
    BY <2>1, EventTick
  <2>2. CASE Events!Repeat
    BY <2>2, EventRepeat
  <2>3. ASSUME NEW procs \in Counts, NEW nodes \in NodeLists \cup {NULL}, NEW gone \in SUBSET Nodes,
               Events!Register(procs, nodes, gone)
        PROVE  EventInv'
    BY <2>3, EventRegister
  <2>4. ASSUME NEW n \in Nodes, Events!Down(n) \/ Events!Again(n) PROVE EventInv'
    BY <2>4, EventTellDown
  <2>5. ASSUME NEW n \in Nodes, Events!Up(n) PROVE EventInv'
    BY <2>5, EventUp
  <2> QED BY <1>2, <2>1, <2>2, <2>3, <2>4, <2>5 DEF Events!Next, NULL
<1> QED BY <1>1, <1>2

\* Cardinality as ClusterEvents names it.
LEMMA SameCardinality == \A S : Events!Cardinality(S) = Cardinality(S)
BY DEF Events!Cardinality, Cardinality

\* The cardinalities of EventsOnce, from what the rows show.
LEMMA EventInvImplies == EventInv => Events!EventsOnce
<1> SUFFICES ASSUME EventInv, ~refused PROVE Events!CountedOnce /\ Events!DownOnce
  BY DEF Events!EventsOnce, Events!CountedOnce, Events!DownOnce
<1>1. RowsOK(events, now) /\ NodesGiven
      /\ \A n \in Names, s \in 1..now : Shown(events, n, s) = Truth(n, Events!At(s))
  BY DEF EventInv, Recorded
<1> DEFINE R(n, s) == {r \in events : r.node = n /\ Covers(r, s)}
<1>2. \A n, s : Shown(events, n, s) = {r.cpus : r \in R(n, s)}
  BY DEF Shown
<1>3. ASSUME NEW n, NEW s \in 1..now
      PROVE  /\ Shown(events, n, s) = {} => R(n, s) = {} /\ Cardinality(R(n, s)) = 0
             /\ \A c : Shown(events, n, s) = {c} =>
                  Cardinality(R(n, s)) = 1 /\ \A r \in R(n, s) : r.cpus = c
  <2>1. Shown(events, n, s) = {} => R(n, s) = {} /\ Cardinality(R(n, s)) = 0
    <3> HIDE DEF R
    <3>0. \A r \in R(n, s) : r.cpus \in Shown(events, n, s)
      BY <1>2
    <3>1. Shown(events, n, s) = {} => R(n, s) = {}
      BY <3>0
    <3> QED BY <3>1, FS_EmptySet
  <2>2. ASSUME NEW c, Shown(events, n, s) = {c}
        PROVE  Cardinality(R(n, s)) = 1 /\ \A r \in R(n, s) : r.cpus = c
    <3>1. PICK w \in R(n, s) : w.cpus = c
      BY <1>2, <2>2
    <3>2. \A r \in R(n, s) : r = w
      BY <1>1, <3>1 DEF RowsOK
    <3> HIDE DEF R
    <3>3. R(n, s) = {w}
      BY <3>1, <3>2
    <3> QED BY <3>1, <3>3, FS_Singleton
  <2> QED BY <2>1, <2>2
<1>4. \A n, s : R(n, s) = {r \in events : r.node = n /\ Events!Covers(r, s)}
  BY DEF Covers
<1> HIDE DEF R
<1>5. Events!CountedOnce
  <2>1. ASSUME NEW s \in 1..now
        PROVE  LET rows2 == {r \in events : r.node = Whole /\ Events!Covers(r, s)} IN
               IF Events!At(s).cpus = 0 THEN rows2 = {}
               ELSE Cardinality(rows2) = 1 /\ \A r \in rows2 : r.cpus = Events!At(s).cpus
    <3>1. Shown(events, Whole, s) = IF Events!At(s).cpus = 0 THEN {} ELSE {Events!At(s).cpus}
      BY <1>1 DEF Names, Truth
    <3>2. R(Whole, s) = {r \in events : r.node = Whole /\ Events!Covers(r, s)}
      BY <1>4
    <3>3. IF Events!At(s).cpus = 0 THEN R(Whole, s) = {}
          ELSE Cardinality(R(Whole, s)) = 1 /\ \A r \in R(Whole, s) : r.cpus = Events!At(s).cpus
      BY <1>3, <3>1
    <3> QED BY <3>2, <3>3
  <2>2. cluster.nodes # NULL => \A r \in OpenCluster(events) : r.nodes = cluster.nodes
    BY <1>1 DEF NodesGiven
  <2> QED BY <2>1, <2>2, SameCardinality DEF Events!CountedOnce, Whole, NULL, OpenCluster
<1>6. Events!DownOnce
  <2>1. ASSUME NEW n \in Nodes, NEW s \in 1..now
        PROVE  Cardinality({r \in events : r.node = n /\ Events!Covers(r, s)})
                 = (IF n \in Events!At(s).down THEN 1 ELSE 0)
    <3>1. n # Whole
      BY TablesAssumption DEF Whole, Events!Whole
    <3>2. Shown(events, n, s) = IF n \in Events!At(s).down THEN {1} ELSE {}
      BY <1>1, <3>1 DEF Names, Truth
    <3>3. R(n, s) = {r \in events : r.node = n /\ Events!Covers(r, s)}
      BY <1>4
    <3>4. Cardinality(R(n, s)) = (IF n \in Events!At(s).down THEN 1 ELSE 0)
      BY <1>3, <3>2
    <3> QED BY <3>3, <3>4
  <2> QED BY <2>1, SameCardinality DEF Events!DownOnce
<1> QED BY <1>5, <1>6

\* The event table tells the history of the cluster (clusteracct_storage_p_node_down,
\* _node_up, _cluster_procs): for all nodes, counts and lengths of time, each second
\* has one row with the count and one for each node that was down.
THEOREM EventsOnceAlways == TablesSpec => []EventsOnce
<1> DEFINE Inv == scene = "cluster" => EventInv
<1>1. TablesInit => Inv
  BY EventInit DEF TablesInit
<1>2. Inv /\ [TablesNext]_TablesVars => Inv'
  <2> SUFFICES ASSUME Inv, [TablesNext]_TablesVars,
                      scene' = "cluster"
               PROVE  EventInv'
    OBVIOUS
  <2>1. scene = "cluster" /\ (Events!Next \/ UNCHANGED <<now, eventVars>>)
    BY DEF TablesNext, TablesVars, vars
  <2> QED BY <2>1, EventInvInductive
<1>3. Inv => EventsOnce
  BY EventInvImplies DEF EventsOnce
<1> QED BY <1>1, <1>2, <1>3, PTL DEF TablesSpec

-----------------------------------------------------------------------------
(* The rows of a reservation.  Calls may be waiting: the invariant is about *)
(* the rows as they will be when the calls in pending have been applied,    *)
(* one by one, and about what each modify call will find then.              *)

ResvRow  == [start : Int, end : Int, cpus : Int]
ResvCall == [op : {"add", "modify", "remove"}, start : Int, end : Int, prev : Int, cpus : Int]

ResvCovers(S, s) == {r \in S : r.start <= s /\ s < r.end}

\* The seconds that are over are shown as ReservedOnce says.
ResvShows(S) ==
  \A s \in 1..clock - 1 :
    IF reserved[s] = 0 \/ s \in lost THEN ResvCovers(S, s) = {}
    ELSE \E r \in S : ResvCovers(S, s) = {r} /\ r.cpus = reserved[s]

\* The rows but for one that a late change left over.
ResvRest(S) == {r \in S : r.start \notin late}

\* The last row is the reservation as the controller has it; the others are over.
ResvLast(S) ==
  /\ ResvShows(S)
  /\ resv = Resv!NoResv => S = {}
  /\ resv # Resv!NoResv =>
       /\ resv \in S /\ \A q \in S \ {resv} : q.start < resv.start /\ q.end < clock
       /\ clock < resv.start => S = {resv}

\* A row that is left over is over before the reservation begins, which has no
\* other row.
ResvEnds(S) ==
  /\ ResvLast(ResvRest(S))
  /\ late # {} => ResvRest(S) \subseteq {resv}
  /\ resv # Resv!NoResv => \A r \in S : r.start \in late => r.end < resv.start

\* What a modify call finds: the row it is about is the last one; with another start
\* it is the only one, or has begun and is to be ended.
ResvChange(S, m, row, t) ==
  /\ row \in S /\ row.start = m.prev /\ \A q \in S \ {row} : q.start < m.prev
  /\ \/ m.start = m.prev
     \/ m.cpus = Resv!NO_VAL /\ S = {row}
     \/ m.start # m.prev /\ m.cpus # Resv!NO_VAL /\ m.prev > t /\ S = {row}
     \/ m.start # m.prev /\ m.cpus # Resv!NO_VAL /\ m.prev <= t /\ (S = {row} \/ m.prev < m.start)

\* And what it makes of the rows.
ResvNew(m, row) ==
  [start |-> m.start, end |-> m.end, cpus |-> IF m.cpus = Resv!NO_VAL THEN row.cpus ELSE m.cpus]

ResvEffect(S, m, row, t) ==
  IF m.start # m.prev /\ m.cpus # Resv!NO_VAL /\ m.prev <= t
  THEN (S \ {row}) \cup {[row EXCEPT !.end = m.start - 1], ResvNew(m, row)}
  ELSE (S \ {row}) \cup {ResvNew(m, row)}

\* S[k]: the rows after the first k of the calls that wait.
ResvReplay(S) ==
  /\ S \in [0..Len(pending) -> SUBSET ResvRow] /\ S[0] = rows
  /\ \A k \in 1..Len(pending) :
       /\ S[k] = Resv!Applied(S[k - 1], pending[k], clock)
       /\ pending[k].op = "modify" => \E row : ResvChange(S[k - 1], pending[k], row, clock)

ResvTypes ==
  /\ clock \in Nat \ {0}
  /\ resv \in ResvRow
  /\ resv # Resv!NoResv => resv.start >= 1 /\ resv.cpus \in Cpus
  /\ pending \in Seq(ResvCall)
  /\ reserved \in Seq(Int) /\ Len(reserved) = clock - 1
  /\ lost \subseteq 1..clock - 1
  /\ changes \in Nat

\* The first change, while it waits: only a removal comes after it, and no other
\* start has been passed.
ResvFirst ==
  /\ changes = 0 => late = {}
  /\ \A i \in 1..Len(pending) : (pending[i].op = "modify" /\ changes <= 1) =>
       /\ changes = 1 /\ late \subseteq {pending[i].prev}
       /\ resv # Resv!NoResv => resv.start = pending[i].start
       /\ \A k \in 1..Len(pending) : k > i =>
            k = Len(pending) /\ pending[k].op = "remove" /\ pending[k].start = pending[i].start
  /\ \A k \in 1..Len(pending) : pending[k].op = "remove" => removed # "no"

ResvTimely == late = {} \/ changes = 1

ResvKept == \E S : ResvReplay(S) /\ ResvEnds(S[Len(pending)])

ResvInv ==
  /\ ResvTypes /\ ResvFirst
  /\ removed = "before" => resv = Resv!NoResv
  /\ resv = Resv!NoResv /\ removed = "no" => pending = <<>> /\ changes = 0
  /\ ResvTimely => ResvKept

\* ModifyRows, when it finds that.
LEMMA ResvModify ==
  ASSUME NEW S \in SUBSET ResvRow, NEW m \in ResvCall, NEW row, NEW t \in Int,
         m.op = "modify", ResvChange(S, m, row, t)
  PROVE  /\ Resv!Applied(S, m, t) = ResvEffect(S, m, row, t)
         /\ Resv!Applied(S, m, t) \in SUBSET ResvRow
<1> DEFINE new == ResvNew(m, row)
           ended == [row EXCEPT !.end = m.start - 1]
<1>1. row \in ResvRow /\ row \in S /\ row.start = m.prev /\ m.start \in Int /\ m.prev \in Int
      /\ m.end \in Int /\ m.cpus \in Int
  BY DEF ResvChange, ResvCall
<1>2. new \in ResvRow /\ new.start = m.start /\ ended \in ResvRow /\ ended.start = m.prev
  BY <1>1 DEF ResvRow, ResvNew
<1>3. {r \in S : r.start \in {m.start, m.prev}} = {row}
  BY <1>1 DEF ResvChange, ResvRow
<1>4. Resv!RowOf(S, m) = {row}
  BY <1>3 DEF Resv!RowOf
<1>5. Resv!Latest({row}) = row
  BY <1>1 DEF Resv!Latest, ResvRow
<1>6. Resv!Applied(S, m, t)
        = IF row.start > t \/ m.cpus = Resv!NO_VAL
          THEN IF \E q \in S \ {row} : q.start = new.start THEN S ELSE (S \ {row}) \cup {new}
          ELSE Resv!AddRow((S \ {row}) \cup {ended}, new)
  BY <1>4, <1>5 DEF Resv!Applied, Resv!ModifyRows, ResvNew
<1> HIDE DEF new, ended
<1>7. \A q \in S \ {row} : q.start < m.prev /\ q.start \in Int
  BY DEF ResvChange, ResvRow
<1>8. Resv!AddRow((S \ {row}) \cup {ended}, new)
        = {q \in (S \ {row}) \cup {ended} : q.start # m.start} \cup {new}
  BY <1>2 DEF Resv!AddRow
<1>9. Resv!Applied(S, m, t) = ResvEffect(S, m, row, t)
  <2>1. CASE m.start = m.prev
    <3>1. ~ \E q \in S \ {row} : q.start = new.start
      BY <1>1, <1>2, <1>7, <2>1
    <3>2. {q \in (S \ {row}) \cup {ended} : q.start # m.start} = S \ {row}
      BY <1>1, <1>2, <1>7, <2>1
    <3> QED BY <1>6, <1>8, <2>1, <3>1, <3>2 DEF ResvEffect, new
  <2>2. CASE m.start # m.prev /\ (m.cpus = Resv!NO_VAL \/ m.prev > t) /\ S = {row}
    BY <1>1, <1>6, <2>2 DEF ResvEffect, new
  <2>3. CASE /\ m.start # m.prev /\ m.cpus # Resv!NO_VAL /\ m.prev <= t
             /\ S = {row} \/ m.prev < m.start
    <3>1. ~ (row.start > t)
      BY <1>1, <2>3
    <3>2. {q \in (S \ {row}) \cup {ended} : q.start # m.start} = (S \ {row}) \cup {ended}
      BY <1>1, <1>2, <1>7, <2>3
    <3> QED BY <1>6, <1>8, <2>3, <3>1, <3>2 DEF ResvEffect, new, ended
  <2> QED BY <2>1, <2>2, <2>3 DEF ResvChange
<1>10. ResvEffect(S, m, row, t) \in SUBSET ResvRow
  BY <1>2 DEF ResvEffect, new, ended
<1> QED BY <1>9, <1>10

\* The calls of the others.
LEMMA ResvAdd ==
  ASSUME NEW S \in SUBSET ResvRow, NEW m \in ResvCall, NEW t, m.op = "add"
  PROVE  /\ Resv!Applied(S, m, t)
              = {q \in S : q.start # m.start} \cup {[start |-> m.start, end |-> m.end, cpus |-> m.cpus]}
         /\ Resv!Applied(S, m, t) \in SUBSET ResvRow
<1>1. [start |-> m.start, end |-> m.end, cpus |-> m.cpus] \in ResvRow
  BY DEF ResvCall, ResvRow
<1>2. Resv!Applied(S, m, t) = Resv!AddRow(S, [start |-> m.start, end |-> m.end, cpus |-> m.cpus])
  BY DEF Resv!Applied
<1> QED BY <1>1, <1>2 DEF Resv!AddRow

LEMMA ResvRemove ==
  ASSUME NEW S \in SUBSET ResvRow, NEW m \in ResvCall, NEW t, m.op = "remove"
  PROVE  /\ Resv!Applied(S, m, t) = {r \in S : ~(r.start > m.prev /\ r.start = m.start)}
         /\ Resv!Applied(S, m, t) \in SUBSET ResvRow
<1>1. Resv!Applied(S, m, t) = Resv!RemoveRows(S, m)
  BY DEF Resv!Applied
<1> QED BY <1>1 DEF Resv!RemoveRows

LEMMA ResvCopyIs ==
  ASSUME NEW S, ResvReplay(S), ResvTypes
  PROVE  Len(pending) \in Nat /\ S[Len(pending)] \in SUBSET ResvRow
<1>1. Len(pending) \in Nat
  BY DEF ResvTypes
<1>2. Len(pending) \in 0..Len(pending)
  BY <1>1
<1>3. S \in [0..Len(pending) -> SUBSET ResvRow]
  BY DEF ResvReplay
<1> QED BY <1>1, <1>2, <1>3

\* A call that waits finds the same a second later, unless it is overtaken.
LEMMA ResvLater ==
  ASSUME NEW S \in SUBSET ResvRow, NEW m \in ResvCall, clock \in Int,
         m.op = "modify" => \E row : ResvChange(S, m, row, clock),
         ~Resv!Overtaken(m, clock + 1)
  PROVE  /\ Resv!Applied(S, m, clock + 1) = Resv!Applied(S, m, clock)
         /\ m.op = "modify" => \E row : ResvChange(S, m, row, clock + 1)
<1>1. CASE m.op = "add"
  BY <1>1, ResvAdd, ZenonT(60)
<1>2. CASE m.op = "remove"
  BY <1>2, ResvRemove, ZenonT(60)
<1>3. CASE m.op = "modify"
  <2>1. PICK row : ResvChange(S, m, row, clock)
    BY <1>3
  <2>2. m.prev \in Int /\ m.start \in Int
    BY DEF ResvCall
  <2>3. ResvChange(S, m, row, clock + 1)
    BY <1>3, <2>1, <2>2 DEF ResvChange, Resv!Overtaken
  <2>4. ResvEffect(S, m, row, clock + 1) = ResvEffect(S, m, row, clock)
    <3>1. CASE m.start # m.prev /\ m.cpus # Resv!NO_VAL
      <4>1. m.prev <= clock <=> m.prev <= clock + 1
        BY <1>3, <2>2, <3>1 DEF Resv!Overtaken
      <4> QED BY <3>1, <4>1 DEF ResvEffect
    <3>2. CASE ~(m.start # m.prev /\ m.cpus # Resv!NO_VAL)
      BY <3>2, Zenon DEF ResvEffect
    <3> QED BY <3>1, <3>2
  <2>5. Resv!Applied(S, m, clock) = ResvEffect(S, m, row, clock)
    BY <1>3, <2>1, ResvModify
  <2>6. clock + 1 \in Int
    OBVIOUS
  <2>7. Resv!Applied(S, m, clock + 1) = ResvEffect(S, m, row, clock + 1)
    BY <1>3, <2>3, <2>6, ResvModify
  <2> QED BY <2>3, <2>4, <2>5, <2>7
<1> QED BY <1>1, <1>2, <1>3 DEF ResvCall

\* One more call.
LEMMA ResvAppend ==
  ASSUME NEW S, NEW m \in ResvCall, NEW T, pending \in Seq(ResvCall), ResvReplay(S),
         T = Resv!Applied(S[Len(pending)], m, clock), T \in SUBSET ResvRow,
         m.op = "modify" => \E row : ResvChange(S[Len(pending)], m, row, clock),
         pending' = Append(pending, m), rows' = rows, clock' = clock
  PROVE  \E S2 : ResvReplay(S2)' /\ S2[Len(pending')] = T
<1> DEFINE n == Len(pending)
<1>1. n \in Nat /\ Len(pending') = n + 1 /\ pending'[n + 1] = m
      /\ \A k \in 1..n : pending'[k] = pending[k]
  OBVIOUS
<1>2. S \in [0..n -> SUBSET ResvRow] /\ S[0] = rows
      /\ \A k \in 1..n :
           /\ S[k] = Resv!Applied(S[k - 1], pending[k], clock)
           /\ pending[k].op = "modify" => \E row : ResvChange(S[k - 1], pending[k], row, clock)
  BY DEF ResvReplay
<1> HIDE DEF n
<1>3. PICK S2 : S2 \in [0..n + 1 -> SUBSET ResvRow] /\ S2[0] = rows /\ S2[n + 1] = T
                /\ \A k \in 0..n : S2[k] = S[k]
  <2> DEFINE Q == [k \in 0..n + 1 |-> IF k = n + 1 THEN T ELSE S[k]]
  <2>1. Q \in [0..n + 1 -> SUBSET ResvRow] /\ Q[0] = rows /\ Q[n + 1] = T
        /\ \A k \in 0..n : Q[k] = S[k]
    BY <1>1, <1>2
  <2> HIDE DEF Q
  <2> QED BY <2>1
<1>4. ASSUME NEW k \in 1..n + 1
      PROVE  /\ S2[k] = Resv!Applied(S2[k - 1], pending'[k], clock)
             /\ pending'[k].op = "modify" => \E row : ResvChange(S2[k - 1], pending'[k], row, clock)
  <2>1. CASE k = n + 1
    <3>1. k - 1 = n /\ S2[k - 1] = S[n] /\ pending'[k] = m /\ S2[k] = T
      BY <1>1, <1>3, <2>1
    <3> QED BY <3>1 DEF n
  <2>2. CASE k # n + 1
    <3>1. k \in 1..n /\ k - 1 \in 0..n /\ k \in 0..n
      BY <1>1, <2>2
    <3>2. S2[k - 1] = S[k - 1] /\ S2[k] = S[k] /\ pending'[k] = pending[k]
      BY <1>1, <1>3, <3>1
    <3> QED BY <1>2, <3>1, <3>2
  <2> QED BY <2>1, <2>2
<1>5. ResvReplay(S2)'
  BY <1>1, <1>3, <1>4 DEF ResvReplay, ResvChange
<1> QED BY <1>1, <1>3, <1>5

\* A call is delivered: the rows to come are the same.
LEMMA ResvShift ==
  ASSUME NEW S, pending \in Seq(ResvCall), pending # <<>>, ResvReplay(S),
         pending' = Tail(pending), rows' = Resv!Applied(rows, Head(pending), clock), clock' = clock
  PROVE  \E S2 : ResvReplay(S2)' /\ S2[Len(pending')] = S[Len(pending)]
<1> DEFINE n == Len(pending)
<1>1. n \in Nat \ {0} /\ Len(pending') = n - 1 /\ Head(pending) = pending[1]
      /\ \A k \in 1..n - 1 : pending'[k] = pending[k + 1]
  OBVIOUS
<1>2. S \in [0..n -> SUBSET ResvRow] /\ S[0] = rows
      /\ \A k \in 1..n :
           /\ S[k] = Resv!Applied(S[k - 1], pending[k], clock)
           /\ pending[k].op = "modify" => \E row : ResvChange(S[k - 1], pending[k], row, clock)
  BY DEF ResvReplay
<1> HIDE DEF n
<1>3. PICK S2 : S2 \in [0..n - 1 -> SUBSET ResvRow] /\ \A k \in 0..n - 1 : S2[k] = S[k + 1]
  <2> DEFINE Q == [k \in 0..n - 1 |-> S[k + 1]]
  <2>1. Q \in [0..n - 1 -> SUBSET ResvRow] /\ \A k \in 0..n - 1 : Q[k] = S[k + 1]
    BY <1>1, <1>2
  <2> HIDE DEF Q
  <2> QED BY <2>1
<1>4. S2[0] = rows'
  <2>1. S2[0] = S[1] /\ S[1] = Resv!Applied(S[0], pending[1], clock)
    BY <1>1, <1>2, <1>3
  <2> QED BY <2>1, <1>1, <1>2
<1>5. ASSUME NEW k \in 1..n - 1
      PROVE  /\ S2[k] = Resv!Applied(S2[k - 1], pending'[k], clock)
             /\ pending'[k].op = "modify" => \E row : ResvChange(S2[k - 1], pending'[k], row, clock)
  <2>1. k + 1 \in 1..n /\ (k + 1) - 1 = k /\ k \in 0..n - 1 /\ k - 1 \in 0..n - 1
        /\ (k - 1) + 1 = k
    BY <1>1
  <2>2. S2[k] = S[k + 1] /\ S2[k - 1] = S[k] /\ pending'[k] = pending[k + 1]
    BY <1>1, <1>3, <2>1
  <2>3. /\ S[k + 1] = Resv!Applied(S[(k + 1) - 1], pending[k + 1], clock)
        /\ pending[k + 1].op = "modify" =>
              \E row : ResvChange(S[(k + 1) - 1], pending[k + 1], row, clock)
    BY <1>2, <2>1
  <2> QED BY <2>1, <2>2, <2>3
<1>6. ResvReplay(S2)'
  BY <1>1, <1>3, <1>4, <1>5 DEF ResvReplay, ResvChange
<1>7. S2[n - 1] = S[n]
  BY <1>1, <1>3
<1> QED BY <1>1, <1>6, <1>7 DEF n

\* A second passes.
LEMMA ResvWait ==
  ASSUME NEW S, pending \in Seq(ResvCall), clock \in Int, ResvReplay(S),
         \A i \in DOMAIN pending : ~Resv!Overtaken(pending[i], clock + 1),
         pending' = pending, rows' = rows, clock' = clock + 1
  PROVE  ResvReplay(S)'
<1>1. S \in [0..Len(pending) -> SUBSET ResvRow] /\ S[0] = rows
      /\ \A k \in 1..Len(pending) :
           /\ S[k] = Resv!Applied(S[k - 1], pending[k], clock)
           /\ pending[k].op = "modify" => \E row : ResvChange(S[k - 1], pending[k], row, clock)
  BY DEF ResvReplay
<1>2. ASSUME NEW k \in 1..Len(pending)
      PROVE  /\ S[k] = Resv!Applied(S[k - 1], pending[k], clock + 1)
             /\ pending[k].op = "modify" => \E row : ResvChange(S[k - 1], pending[k], row, clock + 1)
  <2>1. S[k - 1] \in SUBSET ResvRow /\ pending[k] \in ResvCall /\ k \in DOMAIN pending
    BY <1>1
  <2>2. ~Resv!Overtaken(pending[k], clock + 1)
    BY <2>1
  <2>3. pending[k].op = "modify" => \E row : ResvChange(S[k - 1], pending[k], row, clock)
    BY <1>1
  <2>4. /\ Resv!Applied(S[k - 1], pending[k], clock + 1) = Resv!Applied(S[k - 1], pending[k], clock)
        /\ pending[k].op = "modify" => \E row : ResvChange(S[k - 1], pending[k], row, clock + 1)
    BY <2>1, <2>2, <2>3, ResvLater
  <2> QED BY <1>1, <2>4
<1> QED BY <1>1, <1>2 DEF ResvReplay, ResvChange

LEMMA ResvCpus == Cpus \subseteq Nat \ {0}
BY TablesAssumption

LEMMA ResvInit == Resv!Init => ResvInv
<1> SUFFICES ASSUME Resv!Init PROVE ResvInv
  OBVIOUS
<1>1. clock = 1 /\ resv = Resv!NoResv /\ rows = {} /\ pending = <<>> /\ reserved = <<>>
      /\ lost = {} /\ late = {} /\ changes = 0 /\ removed = "no"
  BY DEF Resv!Init
<1>2. ResvTypes
  BY <1>1 DEF ResvTypes, Resv!NoResv, ResvRow
<1>3. ResvReplay([k \in 0..0 |-> {}])
  BY <1>1 DEF ResvReplay
<1>4. ResvEnds([k \in 0..0 |-> {}][Len(pending)])
  BY <1>1 DEF ResvEnds, ResvLast, ResvShows, ResvRest
<1>5. ResvFirst
  BY <1>1 DEF ResvFirst
<1> QED BY <1>1, <1>2, <1>3, <1>4, <1>5 DEF ResvInv, ResvKept

\* A second passes: the rows show it as Tick records it.
LEMMA ResvSecond ==
  ASSUME ResvTypes, NEW F \in SUBSET ResvRow, ResvLast(F),
         clock' = clock + 1, resv' = resv, lost' = lost,
         reserved' = Append(reserved, IF Resv!InForce(resv, clock) THEN resv.cpus ELSE 0)
  PROVE  ResvLast(F)' /\ reserved' \in Seq(Int) /\ Len(reserved') = clock'  - 1
<1>7. clock \in Nat \ {0} /\ Len(reserved) = clock - 1 /\ reserved \in Seq(Int)
      /\ resv \in ResvRow
  BY DEF ResvTypes
<1> DEFINE c == IF Resv!InForce(resv, clock) THEN resv.cpus ELSE 0
<1>8. c \in Int /\ reserved'[clock] = c /\ \A s \in 1..clock - 1 : reserved'[s] = reserved[s]
  BY <1>7 DEF ResvRow
<1>9. reserved' \in Seq(Int) /\ Len(reserved') = clock
  BY <1>7, <1>8
<1>11. IF c = 0 THEN ResvCovers(F, clock) = {}
       ELSE ResvCovers(F, clock) = {resv} /\ resv \in F
  <2>1. CASE resv = Resv!NoResv
    BY <2>1 DEF ResvLast, ResvCovers, Resv!InForce, Resv!NoResv
  <2>2. CASE resv # Resv!NoResv
    <3>1. resv \in F /\ \A q \in F \ {resv} : q.end < clock
      BY <2>2 DEF ResvLast
    <3>2. resv.start \in Int /\ resv.end \in Int /\ resv.start # 0 /\ resv.cpus # 0
      <4>1. resv.start >= 1 /\ resv.cpus \in Cpus
        BY <2>2 DEF ResvTypes
      <4> QED BY <1>7, <4>1, ResvCpus DEF ResvRow
    <3>3. Resv!InForce(resv, clock) <=> resv.start <= clock /\ clock < resv.end
      BY <3>2 DEF Resv!InForce
    <3>4. \A q \in F \ {resv} : ~(clock < q.end)
      BY <1>7, <3>1 DEF ResvRow
    <3> QED BY <3>1, <3>2, <3>3, <3>4 DEF ResvCovers
  <2> QED BY <2>1, <2>2
<1> HIDE DEF c
<1>12. ResvShows(F)'
  <2> SUFFICES ASSUME NEW s \in 1..clock
               PROVE  IF reserved'[s] = 0 \/ s \in lost THEN ResvCovers(F, s) = {}
                      ELSE \E r \in F : ResvCovers(F, s) = {r} /\ r.cpus = reserved'[s]
    BY <1>7 DEF ResvShows, ResvCovers
  <2>1. CASE s = clock
    <3>1. s \notin lost
      BY <1>7, <2>1 DEF ResvTypes
    <3>2. reserved'[s] = c /\ (c # 0 => c = resv.cpus)
      BY <1>8, <2>1 DEF c
    <3> QED BY <1>11, <2>1, <3>1, <3>2
  <2>2. CASE s # clock
    <3>1. s \in 1..clock - 1
      BY <1>7, <2>2
    <3> QED BY <1>8, <3>1 DEF ResvLast, ResvShows
  <2> QED BY <2>1, <2>2
<1>13. ResvLast(F)'
  <2>1. resv # Resv!NoResv =>
          /\ resv \in F /\ \A q \in F \ {resv} : q.start < resv.start /\ q.end < clock + 1
          /\ clock + 1 < resv.start => F = {resv}
    BY <1>7 DEF ResvLast, ResvRow
  <2> QED BY <1>12, <2>1 DEF ResvLast
<1> QED BY <1>7, <1>9, <1>13

\* The first change is overtaken: it will end the row, and a new one will begin.
LEMMA ResvLateChange ==
  ASSUME ResvTypes, ResvFirst, changes = 1, NEW i \in 1..Len(pending),
         Resv!Overtaken(pending[i], clock + 1),
         NEW S, ResvReplay(S), pending' = pending, rows' = rows, clock' = clock + 1,
         late' = late \cup {clock + 1}
  PROVE  \E S2 : /\ ResvReplay(S2)'
                 /\ ResvRest(S2[Len(pending)])' = ResvRest(S[Len(pending)])
                 /\ \A q, r \in ResvRest(S[Len(pending)]) : q = r
                 /\ resv # Resv!NoResv =>
                      \A r \in S2[Len(pending)] : r.start \in late' => r.end < resv.start
<1> DEFINE n == Len(pending)
           m == pending[i]
<1>1. n \in Nat /\ clock \in Int /\ pending \in Seq(ResvCall) /\ m \in ResvCall
      /\ \A k \in 1..n : pending[k] \in ResvCall
  BY DEF ResvTypes
<1>2. /\ m.op = "modify" /\ m.start # m.prev /\ m.cpus # Resv!NO_VAL /\ m.prev = clock + 1
      /\ m.start \in Int /\ m.prev \in Int
  BY <1>1 DEF Resv!Overtaken, ResvCall
<1>3. S \in [0..n -> SUBSET ResvRow] /\ S[0] = rows
      /\ \A k \in 1..n :
           /\ S[k] = Resv!Applied(S[k - 1], pending[k], clock)
           /\ pending[k].op = "modify" => \E row : ResvChange(S[k - 1], pending[k], row, clock)
  BY DEF ResvReplay
<1>4. /\ late \subseteq {m.prev} /\ (resv # Resv!NoResv => resv.start = m.start)
      /\ \A k \in 1..n : k > i => k = n /\ pending[k].op = "remove" /\ pending[k].start = m.start
  BY <1>2 DEF ResvFirst
<1>5. ASSUME NEW k \in 1..n, k < i PROVE pending[k].op # "modify"
  <2>1. SUFFICES ASSUME pending[k].op = "modify" PROVE FALSE
    OBVIOUS
  <2>2. pending[i].op = "remove"
    BY <1>5, <2>1 DEF ResvFirst
  <2> QED BY <1>2, <2>2
<1>6. PICK row : ResvChange(S[i - 1], m, row, clock)
  BY <1>2, <1>3
<1>7. S[i - 1] \in SUBSET ResvRow /\ S[i - 1] = {row} /\ row \in ResvRow /\ row.start = m.prev
  <2>1. i - 1 \in 0..n
    BY <1>1
  <2>2. S[i - 1] \in SUBSET ResvRow
    BY <1>3, <2>1
  <2> QED BY <1>1, <1>2, <1>6, <2>2 DEF ResvChange
<1> HIDE DEF m
<1> DEFINE new == ResvNew(m, row)
           ended == [row EXCEPT !.end = m.start - 1]
<1>8. new.start = m.start /\ ended \in ResvRow /\ ended.start = clock + 1 /\ ended.end = m.start - 1
  BY <1>2, <1>7 DEF ResvNew, ResvRow
<1>9. S[i] = {new}
  <2>1. S[i] = ResvEffect({row}, m, row, clock)
    <3>1. S[i] = Resv!Applied({row}, m, clock)
      BY <1>3, <1>7 DEF m
    <3>2. {row} \in SUBSET ResvRow /\ m \in ResvCall /\ clock \in Int
          /\ m.op = "modify" /\ ResvChange({row}, m, row, clock)
      BY <1>1, <1>2, <1>6, <1>7 DEF m
    <3> QED BY <3>1, <3>2, ResvModify
  <2>2. ~(m.prev <= clock)
    BY <1>1, <1>2
  <2>3. ResvEffect({row}, m, row, clock) = {new}
    BY <2>2, Zenon DEF ResvEffect
  <2> QED BY <2>1, <2>3
<1>10. /\ ResvChange({row}, m, row, clock + 1)
       /\ Resv!Applied({row}, m, clock + 1) = {new, ended}
  <2>1. ResvChange({row}, m, row, clock + 1)
    BY <1>1, <1>2, <1>7 DEF ResvChange
  <2>2. clock + 1 \in Int /\ {row} \in SUBSET ResvRow /\ m \in ResvCall
    BY <1>1, <1>7 DEF m
  <2>3. Resv!Applied({row}, m, clock + 1) = ResvEffect({row}, m, row, clock + 1)
    BY <1>2, <2>1, <2>2, ResvModify
  <2>4. m.prev <= clock + 1
    BY <1>1, <1>2
  <2>5. ResvEffect({row}, m, row, clock + 1) = {new, ended}
    BY <1>2, <2>4, Zenon DEF ResvEffect
  <2> QED BY <2>1, <2>3, <2>5
<1> HIDE DEF new, ended, n
<1>11. PICK S2 : S2 \in [0..n -> SUBSET ResvRow]
                 /\ \A k \in 0..n : S2[k] = IF k < i THEN S[k] ELSE S[k] \cup {ended}
  <2> DEFINE Q == [k \in 0..n |-> IF k < i THEN S[k] ELSE S[k] \cup {ended}]
  <2>1. Q \in [0..n -> SUBSET ResvRow]
        /\ \A k \in 0..n : Q[k] = IF k < i THEN S[k] ELSE S[k] \cup {ended}
    BY <1>3, <1>8
  <2> HIDE DEF Q
  <2> QED BY <2>1
<1>12. i \in 1..n /\ i \in Nat /\ n \in Nat
  BY <1>1 DEF n
<1>13. ASSUME NEW k \in 1..n
       PROVE  /\ S2[k] = Resv!Applied(S2[k - 1], pending[k], clock + 1)
              /\ pending[k].op = "modify" =>
                    \E q : ResvChange(S2[k - 1], pending[k], q, clock + 1)
  <2>1. /\ k - 1 \in 0..n /\ k \in 0..n /\ S[k - 1] \in SUBSET ResvRow
        /\ pending[k] \in ResvCall /\ clock \in Int /\ clock + 1 \in Int
    <3>1. k - 1 \in 0..n /\ k \in 0..n
      BY <1>12
    <3>2. S[k - 1] \in SUBSET ResvRow
      BY <1>3, <3>1
    <3>3. pending[k] \in ResvCall
      BY <1>1
    <3> QED BY <1>1, <3>1, <3>2, <3>3
  <2>2. CASE k < i
    <3>1. S2[k] = S[k] /\ S2[k - 1] = S[k - 1]
      BY <1>11, <1>12, <2>1, <2>2
    <3>2. pending[k].op # "modify"
      BY <1>5, <2>2
    <3>3. Resv!Applied(S[k - 1], pending[k], clock) = Resv!Applied(S[k - 1], pending[k], clock + 1)
      <4>0. PICK R, q, u : R = S[k - 1] /\ q = pending[k] /\ u = clock + 1
        OBVIOUS
      <4>1. R \in SUBSET ResvRow /\ q \in ResvCall
        BY <2>1, <4>0
      <4>2. q.op = "add" => Resv!Applied(R, q, clock) = Resv!Applied(R, q, u)
        BY <4>1, ResvAdd, ZenonT(60)
      <4>3. q.op = "remove" => Resv!Applied(R, q, clock) = Resv!Applied(R, q, u)
        BY <4>1, ResvRemove, ZenonT(60)
      <4>4. q.op = "add" \/ q.op = "remove"
        BY <3>2, <4>0, <4>1 DEF ResvCall
      <4> QED BY <4>0, <4>2, <4>3, <4>4
    <3>4. S[k] = Resv!Applied(S[k - 1], pending[k], clock)
      BY <1>3
    <3> QED BY <3>1, <3>2, <3>3, <3>4
  <2>3. CASE k = i
    <3>1. S2[k] = {new, ended} /\ S2[k - 1] = {row} /\ pending[k] = m
      BY <1>7, <1>9, <1>11, <1>12, <2>1, <2>3 DEF m
    <3> QED BY <1>10, <3>1
  <2>4. CASE k > i
    <3>1. k = n /\ pending[k].op = "remove" /\ pending[k].start = m.start /\ i \in 1..n
          /\ \A j \in 1..n : j > i => j = n
      BY <1>4, <1>12, <2>4
    <3>2. k - 1 = i
      <4>1. CASE k - 1 > i
        <5>1. k - 1 \in 1..n
          BY <1>12, <4>1
        <5> QED BY <1>12, <3>1, <4>1, <5>1
      <4> QED BY <1>12, <2>4, <4>1
    <3>3. S2[k] = S[k] \cup {ended} /\ S2[k - 1] = S[k - 1] \cup {ended}
      BY <1>11, <1>12, <2>1, <2>4, <3>2
    <3>4. /\ S[k] = {r \in S[k - 1] : ~(r.start > pending[k].prev /\ r.start = pending[k].start)}
          /\ Resv!Applied(S2[k - 1], pending[k], clock + 1)
               = {r \in S2[k - 1] : ~(r.start > pending[k].prev /\ r.start = pending[k].start)}
      <4>1. S[k] = Resv!Applied(S[k - 1], pending[k], clock) /\ S2[k - 1] \in SUBSET ResvRow
        BY <1>3, <1>11, <2>1
      <4> QED BY <2>1, <3>1, <4>1, ResvRemove
    <3>5. ended.start # pending[k].start
      BY <1>2, <1>8, <3>1
    <3> QED BY <3>1, <3>3, <3>4, <3>5
  <2> QED BY <1>12, <2>2, <2>3, <2>4
<1>14. ResvReplay(S2)'
  <2>1. 0 < i /\ 0 \in 0..n
    BY <1>12
  <2>2. S2[0] = rows
    BY <1>3, <1>11, <2>1
  <2> QED BY <1>11, <1>13, <2>2 DEF ResvReplay, ResvChange, n
<1>15. S2[n] = S[n] \cup {ended}
  <2>1. n \in 0..n /\ ~(n < i)
    BY <1>12
  <2> QED BY <1>11, <2>1
<1>16. \A r \in S[n] : r = new
  <2>1. CASE n = i
    BY <1>9, <2>1
  <2>2. CASE n # i
    <3>1. n \in 1..n /\ n > i
      BY <1>12, <2>2
    <3>2. \A j \in 1..n : j > i => j = n
      BY <1>4
    <3>3. n - 1 = i
      <4>1. CASE n - 1 > i
        <5>1. n - 1 \in 1..n
          BY <1>12, <4>1
        <5> QED BY <1>12, <3>2, <4>1, <5>1
      <4> QED BY <1>12, <3>1, <4>1
    <3>4. S[n] = Resv!Applied(S[n - 1], pending[n], clock) /\ pending[n].op = "remove"
          /\ pending[n] \in ResvCall /\ n - 1 \in 0..n /\ S[n - 1] = {new}
      BY <1>1, <1>3, <1>4, <1>9, <1>12, <3>1, <3>3
    <3>5. S[n - 1] \in SUBSET ResvRow
      BY <1>3, <3>4
    <3>6. S[n] = {r \in S[n - 1] : ~(r.start > pending[n].prev /\ r.start = pending[n].start)}
      BY <3>4, <3>5, ResvRemove
    <3> QED BY <3>4, <3>6
  <2> QED BY <2>1, <2>2
<1>17. ResvRest(S2[n])' = ResvRest(S[n])
  <2>1. \A r \in S[n] : r.start # clock + 1
    BY <1>2, <1>8, <1>16
  <2>2. ResvRest(S2[n])' = {r \in S2[n] : r.start \notin late'}
    <3>1. (S2[n])' = S2[n]
      BY DEF n
    <3> QED BY <3>1 DEF ResvRest
  <2> QED BY <1>8, <1>15, <2>1, <2>2 DEF ResvRest
<1>18. resv # Resv!NoResv => \A r \in S2[n] : r.start \in late' => r.end < resv.start
  <2> SUFFICES ASSUME resv # Resv!NoResv, NEW r \in S2[n], r.start \in late'
               PROVE  r.end < resv.start
    OBVIOUS
  <2>1. r.start = clock + 1
    BY <1>2, <1>4
  <2>2. r = ended
    BY <1>2, <1>8, <1>15, <1>16, <2>1
  <2> QED BY <1>2, <1>4, <1>8, <2>2
<1>19. \A q, r \in ResvRest(S[n]) : q = r
  BY <1>16 DEF ResvRest
<1> QED BY <1>14, <1>17, <1>18, <1>19 DEF n

LEMMA ResvTick == ASSUME ResvInv, Resv!Tick PROVE ResvInv'
<1>1. /\ clock' = clock + 1 /\ resv' = resv /\ rows' = rows /\ pending' = pending
      /\ lost' = lost /\ changes' = changes /\ removed' = removed
      /\ reserved' = Append(reserved, IF Resv!InForce(resv, clock) THEN resv.cpus ELSE 0)
      /\ late' = late \cup {t \in {clock + 1} :
                            \E i \in DOMAIN pending : Resv!Overtaken(pending[i], t)}
  BY DEF Resv!Tick
<1>2. /\ ResvTypes /\ ResvFirst /\ (ResvTimely => ResvKept)
      /\ (removed = "before" => resv = Resv!NoResv)
      /\ (resv = Resv!NoResv /\ removed = "no" => pending = <<>> /\ changes = 0)
  BY DEF ResvInv
<1>3. DOMAIN pending = 1..Len(pending) /\ clock \in Nat /\ changes \in Nat
  BY <1>2 DEF ResvTypes
<1>4. ResvTypes'
  <2>1. reserved' \in Seq(Int) /\ Len(reserved') = clock
    <3>1. IF Resv!InForce(resv, clock) THEN resv.cpus \in Int ELSE TRUE
      BY <1>2 DEF ResvTypes, ResvRow
    <3> QED BY <1>1, <1>2, <3>1 DEF ResvTypes
  <2> QED BY <1>1, <1>2, <2>1 DEF ResvTypes
<1>5. \A i \in 1..Len(pending) : (\E t \in {clock + 1} : Resv!Overtaken(pending[i], t)) =>
        pending[i].op = "modify" /\ pending[i].prev = clock + 1
  BY DEF Resv!Overtaken
<1>6. ResvFirst'
  <2>1. changes = 0 => late' = {}
    BY <1>1, <1>2, <1>3, <1>5 DEF ResvFirst
  <2>2. ASSUME NEW i \in 1..Len(pending), pending[i].op = "modify", changes <= 1
        PROVE  late' \subseteq {pending[i].prev}
    <3>1. late \subseteq {pending[i].prev}
      BY <1>2, <2>2 DEF ResvFirst
    <3>2. ASSUME NEW k \in 1..Len(pending), pending[k].op = "modify" PROVE k = i
      <4>1. ~(k > i) /\ ~(i > k)
        BY <1>2, <2>2, <3>2 DEF ResvFirst
      <4> QED BY <4>1
    <3> QED BY <1>1, <1>3, <1>5, <3>1, <3>2
  <2> QED BY <1>1, <1>2, <2>1, <2>2 DEF ResvFirst
<1>7. ASSUME ResvTimely' PROVE ResvKept'
  <2>1. CASE \E i \in 1..Len(pending) : Resv!Overtaken(pending[i], clock + 1)
    <3>1. late' = late \cup {clock + 1} /\ changes = 1
      BY <1>1, <1>3, <1>7, <2>1 DEF ResvTimely
    <3>2. PICK i \in 1..Len(pending) : Resv!Overtaken(pending[i], clock + 1)
      BY <2>1
    <3>3. PICK S : ResvReplay(S) /\ ResvEnds(S[Len(pending)])
      BY <1>2, <3>1 DEF ResvTimely, ResvKept
    <3>4. PICK S2 : /\ ResvReplay(S2)'
                    /\ ResvRest(S2[Len(pending)])' = ResvRest(S[Len(pending)])
                    /\ \A q, r \in ResvRest(S[Len(pending)]) : q = r
                    /\ resv # Resv!NoResv =>
                         \A r \in S2[Len(pending)] : r.start \in late' => r.end < resv.start
      BY <1>1, <1>2, <3>1, <3>2, <3>3, ResvLateChange
    <3>5. PICK G : G = ResvRest(S[Len(pending)])
      OBVIOUS
    <3>6. G \in SUBSET ResvRow /\ ResvLast(G)
      BY <1>2, <3>3, <3>5, ResvCopyIs DEF ResvEnds, ResvRest
    <3>7. ResvLast(G)'
      BY <1>1, <1>2, <3>6, ResvSecond
    <3>8. ResvLast(ResvRest(S2[Len(pending)]))'
      BY <3>4, <3>5, <3>7
    <3>9. ResvRest(S2[Len(pending)])' \subseteq {resv'}
      BY <1>1, <3>4, <3>5, <3>6 DEF ResvLast
    <3>10. ResvEnds(S2[Len(pending)])'
      BY <1>1, <3>4, <3>8, <3>9 DEF ResvEnds
    <3> QED BY <1>1, <3>4, <3>10 DEF ResvKept
  <2>2. CASE ~ \E i \in 1..Len(pending) : Resv!Overtaken(pending[i], clock + 1)
    <3>1. late' = late
      BY <1>1, <1>3, <2>2
    <3>2. PICK S : ResvReplay(S) /\ ResvEnds(S[Len(pending)])
      BY <1>1, <1>2, <1>7, <3>1 DEF ResvTimely, ResvKept
    <3>3. ResvReplay(S)'
      BY <1>1, <1>2, <1>3, <2>2, <3>2, ResvWait DEF ResvTypes
    <3>4. PICK G : G = ResvRest(S[Len(pending)])
      OBVIOUS
    <3>5. G \in SUBSET ResvRow /\ ResvLast(G)
      BY <1>2, <3>2, <3>4, ResvCopyIs DEF ResvEnds, ResvRest
    <3>6. ResvLast(G)'
      BY <1>1, <1>2, <3>5, ResvSecond
    <3>7. G' = ResvRest(S[Len(pending)])'
      BY <1>1, <3>1, <3>4 DEF ResvRest
    <3>8. ResvLast(ResvRest(S[Len(pending)]))'
      BY <3>6, <3>7
    <3>9. ResvEnds(S[Len(pending)])'
      <4>1. PICK F : F = S[Len(pending)]
        OBVIOUS
      <4>2. F' = S[Len(pending)]'
        BY <1>1, <4>1
      <4>3. /\ late # {} => ResvRest(F) \subseteq {resv}
            /\ resv # Resv!NoResv => \A r \in F : r.start \in late => r.end < resv.start
        BY <3>2, <4>1 DEF ResvEnds
      <4>4. ResvRest(F)' = ResvRest(F)
        BY <3>1 DEF ResvRest
      <4>5. ResvLast(ResvRest(F))'
        BY <3>8, <4>2
      <4>6. ResvEnds(F)'
        BY <1>1, <3>1, <4>3, <4>4, <4>5 DEF ResvEnds
      <4> QED BY <4>2, <4>6
    <3> QED BY <3>3, <3>9 DEF ResvKept
  <2> QED BY <2>1, <2>2
<1> QED BY <1>1, <1>2, <1>4, <1>6, <1>7 DEF ResvInv

LEMMA ResvDeliver == ASSUME ResvInv, Resv!Deliver PROVE ResvInv'
<1>1. /\ pending # <<>> /\ pending' = Tail(pending)
      /\ rows' = Resv!Applied(rows, Head(pending), clock)
      /\ UNCHANGED <<clock, resv, reserved, lost, late, changes, removed>>
  BY DEF Resv!Deliver
<1>2. /\ ResvTypes /\ ResvFirst /\ (ResvTimely => ResvKept)
      /\ (removed = "before" => resv = Resv!NoResv)
      /\ ~(resv = Resv!NoResv /\ removed = "no")
  BY <1>1 DEF ResvInv
<1>3. ResvTypes'
  BY <1>1, <1>2 DEF ResvTypes
<1>4. ResvFirst'
  <2>1. /\ Len(pending) \in Nat \ {0} /\ Len(pending') = Len(pending) - 1
        /\ \A k \in 1..Len(pending') :
             pending'[k] = pending[k + 1] /\ k + 1 \in 1..Len(pending)
    BY <1>1, <1>2 DEF ResvTypes
  <2>2. ASSUME NEW i \in 1..Len(pending'), pending'[i].op = "modify", changes <= 1
        PROVE  /\ changes = 1 /\ late \subseteq {pending'[i].prev}
               /\ resv # Resv!NoResv => resv.start = pending'[i].start
               /\ \A k \in 1..Len(pending') : k > i =>
                    /\ k = Len(pending') /\ pending'[k].op = "remove"
                    /\ pending'[k].start = pending'[i].start
    <3>1. i + 1 \in 1..Len(pending) /\ pending[i + 1].op = "modify" /\ pending'[i] = pending[i + 1]
      BY <2>1, <2>2
    <3>2. /\ changes = 1 /\ late \subseteq {pending[i + 1].prev}
          /\ resv # Resv!NoResv => resv.start = pending[i + 1].start
          /\ \A k \in 1..Len(pending) : k > i + 1 =>
               /\ k = Len(pending) /\ pending[k].op = "remove"
               /\ pending[k].start = pending[i + 1].start
      BY <1>2, <2>2, <3>1 DEF ResvFirst
    <3>3. ASSUME NEW k \in 1..Len(pending'), k > i
          PROVE  /\ k = Len(pending') /\ pending'[k].op = "remove"
                 /\ pending'[k].start = pending'[i].start
      <4>1. k + 1 \in 1..Len(pending) /\ k + 1 > i + 1 /\ pending'[k] = pending[k + 1]
        BY <2>1, <3>3
      <4>2. k + 1 = Len(pending) /\ pending[k + 1].op = "remove"
            /\ pending[k + 1].start = pending[i + 1].start
        <5>1. PICK j : j = k + 1
          OBVIOUS
        <5>2. j \in 1..Len(pending) /\ j > i + 1
          BY <4>1, <5>1
        <5>3. j = Len(pending) /\ pending[j].op = "remove" /\ pending[j].start = pending[i + 1].start
          BY <3>2, <5>2
        <5> QED BY <5>1, <5>3
      <4>3. k = Len(pending')
        BY <2>1, <4>2
      <4> QED BY <3>1, <4>1, <4>2, <4>3
    <3> QED BY <3>1, <3>2, <3>3
  <2>3. \A k \in 1..Len(pending') : pending'[k].op = "remove" => removed # "no"
    BY <1>2, <2>1 DEF ResvFirst
  <2> QED BY <1>1, <1>2, <2>2, <2>3 DEF ResvFirst
<1>5. ASSUME ResvTimely PROVE ResvKept'
  <2>1. PICK S : ResvReplay(S) /\ ResvEnds(S[Len(pending)])
    BY <1>2, <1>5 DEF ResvKept
  <2>2. PICK S2 : ResvReplay(S2)' /\ S2[Len(pending')] = S[Len(pending)]
    BY <1>1, <1>2, <2>1, ResvShift DEF ResvTypes
  <2>3. PICK F : F = S[Len(pending)] /\ F = S2[Len(pending')]
    BY <2>2
  <2>4. ResvEnds(F)'
    BY <1>1, <2>1, <2>3 DEF ResvEnds, ResvRest, ResvLast, ResvShows
  <2>5. ResvEnds(S2[Len(pending)])'
    BY <2>3, <2>4
  <2> QED BY <2>2, <2>5 DEF ResvKept
<1>6. ResvTimely' => ResvTimely
  BY <1>1 DEF ResvTimely
<1> QED BY <1>1, <1>2, <1>3, <1>4, <1>5, <1>6 DEF ResvInv

\* What the steps that make a call have in common.
LEMMA ResvCalled ==
  ASSUME NEW m \in ResvCall, NEW S, NEW T, pending \in Seq(ResvCall),
         ResvReplay(S), T = Resv!Applied(S[Len(pending)], m, clock), T \in SUBSET ResvRow,
         m.op = "modify" => \E row : ResvChange(S[Len(pending)], m, row, clock),
         pending' = Append(pending, m), rows' = rows, clock' = clock,
         ResvEnds(T)'
  PROVE  ResvKept'
<1>1. PICK S2 : ResvReplay(S2)' /\ S2[Len(pending')] = T
  BY ResvAppend
<1>2. ResvEnds(S2[Len(pending)])'
  BY <1>1
<1> QED BY <1>1, <1>2 DEF ResvKept

\* With no start passed all the rows count.
LEMMA ResvAll ==
  ASSUME NEW S, late = {} PROVE ResvRest(S) = S /\ (ResvEnds(S) <=> ResvLast(S))
BY DEF ResvRest, ResvEnds

LEMMA ResvReserve ==
  ASSUME ResvInv, NEW start \in Nat, NEW end \in Nat, NEW c \in Cpus,
         Resv!Reserve([start |-> start, end |-> end, cpus |-> c])
  PROVE  ResvInv'
<1> DEFINE r == [start |-> start, end |-> end, cpus |-> c]
           m == Resv!Call("add", r, 0, r.cpus)
<1>1. /\ resv = Resv!NoResv /\ removed = "no" /\ start >= clock /\ start < end
      /\ resv' = r /\ pending' = Append(pending, m)
      /\ UNCHANGED <<clock, rows, reserved, lost, late, changes, removed>>
  BY DEF Resv!Reserve
<1>2. ResvKept /\ ResvTypes /\ pending = <<>> /\ changes = 0 /\ late = {}
  BY <1>1 DEF ResvInv, ResvFirst, ResvTimely
<1>3. PICK S : ResvReplay(S) /\ ResvLast(S[Len(pending)])
  BY <1>2, ResvAll DEF ResvKept
<1>4. S[Len(pending)] = {}
  BY <1>1, <1>3 DEF ResvLast
<1>5. c \in Int /\ c \in Cpus /\ clock \in Nat \ {0}
  BY <1>2, ResvCpus DEF ResvTypes
<1>6. m \in ResvCall /\ m.op = "add" /\ m.start = start /\ m.end = end /\ m.cpus = c
  BY <1>5 DEF ResvCall, Resv!Call
<1>7. Resv!Applied(S[Len(pending)], m, clock) = {r} /\ {r} \in SUBSET ResvRow
  <2>1. Resv!Applied({}, m, clock) = {[start |-> m.start, end |-> m.end, cpus |-> m.cpus]}
    BY <1>6, ResvAdd
  <2> QED BY <1>4, <1>5, <1>6, <2>1 DEF ResvRow
<1>8. r # Resv!NoResv
  BY <1>1, <1>5 DEF Resv!NoResv
<1>9. r \in ResvRow /\ r.start = start /\ r.cpus = c
  BY <1>5 DEF ResvRow
<1> HIDE DEF m, r
<1>10. ResvTypes'
  <2>1. pending' \in Seq(ResvCall)
    BY <1>1, <1>2, <1>6 DEF ResvTypes
  <2> QED BY <1>1, <1>2, <1>5, <1>9, <2>1 DEF ResvTypes
<1>11. ResvLast({r})'
  <2>1. \A s \in 1..clock - 1 : reserved[s] = 0 \/ s \in lost
    BY <1>3, <1>4 DEF ResvLast, ResvShows
  <2>2. \A s \in 1..clock - 1 : ResvCovers({r}, s) = {}
    BY <1>1, <1>5, <1>9 DEF ResvCovers
  <2> QED BY <1>1, <1>8, <2>1, <2>2 DEF ResvLast, ResvShows
<1>12. ResvFirst'
  <2>1. Len(pending') = 1 /\ pending'[1] = m
    BY <1>1, <1>2
  <2>2. \A k \in 1..Len(pending') : pending'[k] = m
    BY <2>1
  <2> QED BY <1>1, <1>2, <1>6, <2>2 DEF ResvFirst
<1>13. PICK T : T = {r}
  OBVIOUS
<1>14. ResvEnds(T)'
  BY <1>1, <1>2, <1>11, <1>13 DEF ResvEnds, ResvRest
<1>15. ResvKept'
  BY <1>1, <1>2, <1>3, <1>6, <1>7, <1>13, <1>14, ResvCalled DEF ResvTypes
<1> QED BY <1>1, <1>8, <1>10, <1>12, <1>15 DEF ResvInv

\* A row takes the place of the reservation's in what a second shows.
LEMMA ResvSwap ==
  ASSUME NEW F, NEW T, NEW s, NEW a \in T, resv \in F,
         ResvCovers(T, s) = IF resv \in ResvCovers(F, s) THEN (ResvCovers(F, s) \ {resv}) \cup {a}
                            ELSE ResvCovers(F, s),
         resv \in ResvCovers(F, s) => a.cpus = resv.cpus,
         IF reserved[s] = 0 \/ s \in lost THEN ResvCovers(F, s) = {}
         ELSE \E r \in F : ResvCovers(F, s) = {r} /\ r.cpus = reserved[s]
  PROVE  IF reserved[s] = 0 \/ s \in lost THEN ResvCovers(T, s) = {}
         ELSE \E r \in T : ResvCovers(T, s) = {r} /\ r.cpus = reserved[s]
<1>1. CASE reserved[s] = 0 \/ s \in lost
  BY <1>1
<1>2. CASE ~(reserved[s] = 0 \/ s \in lost)
  <2>1. PICK r \in F : ResvCovers(F, s) = {r} /\ r.cpus = reserved[s]
    BY <1>2
  <2>2. CASE r = resv
    BY <1>2, <2>1, <2>2
  <2>3. CASE r # resv
    <3>1. ResvCovers(T, s) = {r}
      BY <2>1, <2>3
    <3>2. r \in T
      BY <3>1 DEF ResvCovers
    <3> QED BY <1>2, <2>1, <3>1, <3>2
  <2> QED BY <2>2, <2>3
<1> QED BY <1>1, <1>2

\* One more change of the reservation: from then on there is more than one, or it
\* is the first.
LEMMA ResvChanged ==
  ASSUME ResvTypes, ResvFirst, NEW m \in ResvCall, m.op = "modify", m.start = resv'.start,
         removed' = "no", removed = "no", pending' = Append(pending, m), late' = late, changes' = changes + 1
  PROVE  ResvFirst'
<1>1. /\ pending \in Seq(ResvCall) /\ changes \in Nat /\ Len(pending) \in Nat
      /\ Len(pending') = Len(pending) + 1 /\ pending'[Len(pending')] = m
      /\ \A k \in 1..Len(pending) : pending'[k] = pending[k]
  BY DEF ResvTypes
<1>2. changes' # 0
  BY <1>1
<1>3. ASSUME NEW i \in 1..Len(pending'), pending'[i].op = "modify", changes' <= 1
      PROVE  /\ changes' = 1 /\ late' \subseteq {pending'[i].prev}
             /\ resv' # Resv!NoResv => resv'.start = pending'[i].start
             /\ \A k \in 1..Len(pending') : k <= i
  <2>1. changes = 0 /\ late = {}
    BY <1>1, <1>3 DEF ResvFirst
  <2>2. CASE i # Len(pending')
    <3>1. i \in 1..Len(pending) /\ pending[i].op = "modify"
      BY <1>1, <1>3, <2>2
    <3> QED BY <2>1, <3>1 DEF ResvFirst
  <2>3. CASE i = Len(pending')
    BY <1>1, <2>1, <2>3
  <2> QED BY <2>2, <2>3
<1>4. \A k \in 1..Len(pending') : pending'[k].op # "remove"
  <2> SUFFICES ASSUME NEW k \in 1..Len(pending') PROVE pending'[k].op # "remove"
    OBVIOUS
  <2>1. CASE k = Len(pending')
    BY <1>1, <2>1
  <2>2. CASE k # Len(pending')
    <3>1. k \in 1..Len(pending)
      BY <1>1, <2>2
    <3> QED BY <1>1, <3>1 DEF ResvFirst
  <2> QED BY <2>1, <2>2
<1>5. \A i, k \in 1..Len(pending') : k <= i => ~(k > i)
  BY <1>1
<1> QED BY <1>2, <1>3, <1>4, <1>5 DEF ResvFirst

LEMMA ResvMove ==
  ASSUME ResvInv, NEW start \in Nat, NEW end \in Nat, NEW c \in Cpus \cup {Resv!NO_VAL}, start >= 1,
         Resv!Move(start, end, c)
  PROVE  ResvInv'
<1> DEFINE r == [start |-> start, end |-> end, cpus |-> IF c = Resv!NO_VAL THEN resv.cpus ELSE c]
           m == Resv!Call("modify", r, resv.start, c)
<1>1. /\ resv # Resv!NoResv /\ removed = "no" /\ changes' = changes + 1 /\ clock < resv.end
      /\ start < end /\ end >= clock
      /\ IF resv.start <= clock THEN start = resv.start /\ c = Resv!NO_VAL ELSE start >= clock
      /\ resv' = r /\ pending' = Append(pending, m)
      /\ UNCHANGED <<clock, rows, reserved, lost, late, removed>>
  BY DEF Resv!Move
<1>2. ResvTypes /\ ResvFirst
  BY DEF ResvInv
<1>5. clock \in Nat \ {0} /\ clock \in Int /\ resv \in ResvRow /\ resv.start \in Int
      /\ resv.end \in Int /\ resv.cpus \in Cpus /\ resv.cpus \in Int /\ c \in Int
      /\ (c # Resv!NO_VAL => c \in Cpus)
  BY <1>1, <1>2, ResvCpus DEF ResvTypes, ResvRow, Resv!NO_VAL
<1>6. m \in ResvCall /\ m.op = "modify" /\ m.start = start /\ m.end = end /\ m.prev = resv.start
      /\ m.cpus = c
  BY <1>5 DEF ResvCall, Resv!Call
<1>7. r \in ResvRow /\ r.start = start /\ r.end = end /\ r.cpus \in Cpus
      /\ (resv.start <= clock => r.cpus = resv.cpus) /\ r = ResvNew(m, resv)
  BY <1>1, <1>5, <1>6 DEF ResvRow, ResvNew
<1>8. r # Resv!NoResv
  BY DEF Resv!NoResv
<1> HIDE DEF m, r
<1>16. ResvTypes'
  <2>1. pending' \in Seq(ResvCall)
    BY <1>1, <1>2, <1>6 DEF ResvTypes
  <2> QED BY <1>1, <1>2, <1>5, <1>7, <2>1 DEF ResvTypes
<1>17. ResvFirst'
  BY <1>1, <1>2, <1>6, <1>7, ResvChanged DEF ResvTypes
<1>18. SUFFICES ASSUME ResvTimely' PROVE ResvKept'
  BY <1>1, <1>8, <1>16, <1>17 DEF ResvInv
<1>19. late = {} /\ late' = {} /\ ResvKept
  BY <1>1, <1>2, <1>18 DEF ResvInv, ResvFirst, ResvTimely, ResvTypes
<1>3. PICK S : ResvReplay(S) /\ ResvLast(S[Len(pending)])
  BY <1>19, ResvAll DEF ResvKept
<1>4. PICK F : F = S[Len(pending)] /\ F \in SUBSET ResvRow /\ ResvLast(F)
  BY <1>2, <1>3, ResvCopyIs
<1>9. resv \in F /\ (\A q \in F \ {resv} : q.start < resv.start /\ q.end < clock)
      /\ (clock < resv.start => F = {resv})
  BY <1>1, <1>4 DEF ResvLast
<1>10. ResvChange(F, m, resv, clock)
  <2>1. CASE resv.start <= clock
    BY <1>1, <1>6, <1>9, <2>1 DEF ResvChange
  <2>2. CASE clock < resv.start
    BY <1>6, <1>9, <2>2 DEF ResvChange
  <2> QED BY <1>5, <2>1, <2>2
<1>11. PICK T : T = (F \ {resv}) \cup {r}
  OBVIOUS
<1>12. T = Resv!Applied(F, m, clock) /\ T \in SUBSET ResvRow
  <2>1. ~(m.start # m.prev /\ m.cpus # Resv!NO_VAL /\ m.prev <= clock)
    BY <1>1, <1>5, <1>6
  <2>2. ResvEffect(F, m, resv, clock) = T
    BY <1>7, <1>11, <2>1, Zenon DEF ResvEffect
  <2>3. F \in SUBSET ResvRow /\ m \in ResvCall /\ clock \in Int /\ m.op = "modify"
    BY <1>4, <1>5, <1>6
  <2>4. /\ Resv!Applied(F, m, clock) = ResvEffect(F, m, resv, clock)
        /\ Resv!Applied(F, m, clock) \in SUBSET ResvRow
    BY <1>10, <2>3, ResvModify
  <2> QED BY <2>2, <2>4
<1>14. ResvLast(T)'
  <2>1. ASSUME NEW s \in 1..clock - 1
        PROVE  IF reserved[s] = 0 \/ s \in lost THEN ResvCovers(T, s) = {}
               ELSE \E q \in T : ResvCovers(T, s) = {q} /\ q.cpus = reserved[s]
    <3>1. s \in Int /\ s < clock
      BY <1>5
    <3>2. (resv.start <= s /\ s < resv.end) <=> (r.start <= s /\ s < r.end)
      BY <1>1, <1>5, <1>7, <3>1
    <3>3. resv \in ResvCovers(F, s) => r.cpus = resv.cpus
      BY <1>5, <1>7, <3>1 DEF ResvCovers
    <3>4. ResvCovers(T, s) = IF resv \in ResvCovers(F, s) THEN (ResvCovers(F, s) \ {resv}) \cup {r}
                             ELSE ResvCovers(F, s)
      BY <1>9, <1>11, <3>2 DEF ResvCovers
    <3>5. IF reserved[s] = 0 \/ s \in lost THEN ResvCovers(F, s) = {}
          ELSE \E q \in F : ResvCovers(F, s) = {q} /\ q.cpus = reserved[s]
      BY <1>4 DEF ResvLast, ResvShows
    <3>6. r \in T
      BY <1>11
    <3> QED BY <1>9, <3>3, <3>4, <3>5, <3>6, ResvSwap
  <2>2. r \in T /\ (clock < r.start => T = {r})
    BY <1>1, <1>5, <1>7, <1>9, <1>11
  <2>3. \A q \in T \ {r} : q.start < r.start /\ q.end < clock
    <3>1. CASE resv.start <= clock
      BY <1>1, <1>7, <1>9, <1>11, <3>1
    <3>2. CASE clock < resv.start
      BY <1>9, <1>11, <3>2
    <3> QED BY <1>5, <3>1, <3>2
  <2>4. ResvShows(T)'
    BY <1>1, <2>1 DEF ResvShows
  <2> QED BY <1>1, <1>8, <2>2, <2>3, <2>4 DEF ResvLast
<1>15. ResvEnds(T)'
  BY <1>14, <1>19 DEF ResvEnds, ResvRest
<1> QED BY <1>1, <1>2, <1>3, <1>4, <1>6, <1>10, <1>12, <1>15, ResvCalled DEF ResvTypes

LEMMA ResvResize ==
  ASSUME ResvInv, NEW c \in Cpus, Resv!Resize(c) PROVE ResvInv'
<1> DEFINE start == IF resv.start < clock THEN clock ELSE resv.start
           r == [resv EXCEPT !.start = start, !.cpus = c]
           m == Resv!Call("modify", r, resv.start, c)
<1>1. /\ resv # Resv!NoResv /\ removed = "no" /\ changes' = changes + 1 /\ clock < resv.end
      /\ resv' = r /\ pending' = Append(pending, m)
      /\ lost' = IF resv.start < clock THEN lost \cup {clock - 1} ELSE lost
      /\ UNCHANGED <<clock, rows, reserved, late, removed>>
  BY DEF Resv!Resize
<1>2. ResvTypes /\ ResvFirst
  BY DEF ResvInv
<1>5. clock \in Nat \ {0} /\ clock \in Int /\ resv \in ResvRow /\ resv.start \in Int
      /\ resv.start >= 1 /\ resv.end \in Int /\ resv.cpus \in Int /\ c \in Int /\ c # Resv!NO_VAL
  BY <1>1, <1>2, ResvCpus DEF ResvTypes, ResvRow, Resv!NO_VAL
<1>6. start \in Int /\ start >= 1 /\ (resv.start < clock => start = clock)
      /\ (resv.start >= clock => start = resv.start)
  BY <1>5
<1> HIDE DEF start
<1>7. r \in ResvRow /\ r.start = start /\ r.end = resv.end /\ r.cpus = c
  BY <1>5, <1>6 DEF ResvRow
<1> HIDE DEF r
<1>8. r # Resv!NoResv
  <2>1. Resv!NoResv.start = 0
    BY DEF Resv!NoResv
  <2> QED BY <1>6, <1>7, <2>1
<1>9. m \in ResvCall /\ m.op = "modify" /\ m.start = start /\ m.end = resv.end
      /\ m.prev = resv.start /\ m.cpus = c
  BY <1>5, <1>6, <1>7 DEF ResvCall, Resv!Call
<1> HIDE DEF m
<1>10. r = ResvNew(m, resv)
  BY <1>5, <1>7, <1>9 DEF ResvNew, ResvRow
<1>17. ResvTypes'
  <2>1. pending' \in Seq(ResvCall)
    BY <1>1, <1>2, <1>9 DEF ResvTypes
  <2>2. lost' \subseteq 1..clock - 1
    BY <1>1, <1>2, <1>5 DEF ResvTypes
  <2> QED BY <1>1, <1>2, <1>6, <1>7, <2>1, <2>2 DEF ResvTypes
<1>18. ResvFirst'
  BY <1>1, <1>2, <1>7, <1>9, ResvChanged DEF ResvTypes
<1>19. SUFFICES ASSUME ResvTimely' PROVE ResvKept'
  BY <1>1, <1>8, <1>17, <1>18 DEF ResvInv
<1>20. late = {} /\ late' = {} /\ ResvKept
  BY <1>1, <1>2, <1>19 DEF ResvInv, ResvFirst, ResvTimely, ResvTypes
<1>3. PICK S : ResvReplay(S) /\ ResvLast(S[Len(pending)])
  BY <1>20, ResvAll DEF ResvKept
<1>4. PICK F : F = S[Len(pending)] /\ F \in SUBSET ResvRow /\ ResvLast(F)
  BY <1>2, <1>3, ResvCopyIs
<1>11. resv \in F /\ (\A q \in F \ {resv} : q.start < resv.start /\ q.end < clock)
      /\ (clock < resv.start => F = {resv})
  BY <1>1, <1>4 DEF ResvLast
<1>12. ResvChange(F, m, resv, clock)
  BY <1>5, <1>6, <1>9, <1>11 DEF ResvChange
<1>13. \A T : ResvLast(T)' => ResvEnds(T)'
  BY <1>20 DEF ResvEnds, ResvRest
<1>15. CASE resv.start >= clock
  <2>1. PICK T : T = (F \ {resv}) \cup {r}
    OBVIOUS
  <2>2. T = Resv!Applied(F, m, clock) /\ T \in SUBSET ResvRow
    <3>1. ~(m.start # m.prev /\ m.cpus # Resv!NO_VAL /\ m.prev <= clock)
      BY <1>6, <1>9, <1>15
    <3>2. ResvEffect(F, m, resv, clock) = T
      BY <1>10, <2>1, <3>1, Zenon DEF ResvEffect
    <3>3. F \in SUBSET ResvRow /\ m \in ResvCall /\ clock \in Int /\ m.op = "modify"
      BY <1>4, <1>5, <1>9
    <3>4. /\ Resv!Applied(F, m, clock) = ResvEffect(F, m, resv, clock)
          /\ Resv!Applied(F, m, clock) \in SUBSET ResvRow
      BY <1>12, <3>3, ResvModify
    <3> QED BY <3>2, <3>4
  <2>3. ASSUME NEW s \in 1..clock - 1
        PROVE  IF reserved[s] = 0 \/ s \in lost THEN ResvCovers(T, s) = {}
               ELSE \E q \in T : ResvCovers(T, s) = {q} /\ q.cpus = reserved[s]
    <3>1. ~(resv.start <= s) /\ ~(r.start <= s)
      BY <1>5, <1>6, <1>7, <1>15
    <3>2. resv \notin ResvCovers(F, s) /\ ResvCovers(T, s) = ResvCovers(F, s)
      BY <1>11, <2>1, <3>1 DEF ResvCovers
    <3>3. IF reserved[s] = 0 \/ s \in lost THEN ResvCovers(F, s) = {}
          ELSE \E q \in F : ResvCovers(F, s) = {q} /\ q.cpus = reserved[s]
      BY <1>4 DEF ResvLast, ResvShows
    <3>4. r \in T
      BY <2>1
    <3> QED BY <1>11, <3>2, <3>3, <3>4, ResvSwap
  <2>4. lost' = lost
    BY <1>1, <1>5, <1>15
  <2>5. ResvShows(T)'
    BY <1>1, <2>3, <2>4 DEF ResvShows
  <2>6. r \in T /\ (\A q \in T \ {r} : q.start < r.start /\ q.end < clock)
        /\ (clock < r.start => T = {r})
    BY <1>6, <1>7, <1>11, <1>15, <2>1
  <2>7. ResvLast(T)'
    BY <1>1, <1>8, <2>5, <2>6 DEF ResvLast
  <2> QED BY <1>1, <1>2, <1>3, <1>4, <1>9, <1>12, <1>13, <2>2, <2>7, ResvCalled DEF ResvTypes
<1>16. CASE resv.start < clock
  <2> DEFINE e == [resv EXCEPT !.end = m.start - 1]
  <2>1. e \in ResvRow /\ e.start = resv.start /\ e.end = clock - 1 /\ e.cpus = resv.cpus
    BY <1>5, <1>6, <1>9, <1>16 DEF ResvRow
  <2>2. PICK T : T = (F \ {resv}) \cup {e, r}
    OBVIOUS
  <2>3. T = Resv!Applied(F, m, clock) /\ T \in SUBSET ResvRow
    <3>1. m.start # m.prev /\ m.cpus # Resv!NO_VAL /\ m.prev <= clock
      BY <1>5, <1>6, <1>9, <1>16
    <3>2. ResvEffect(F, m, resv, clock) = T
      BY <1>10, <2>2, <3>1, Zenon DEF ResvEffect
    <3>3. F \in SUBSET ResvRow /\ m \in ResvCall /\ clock \in Int /\ m.op = "modify"
      BY <1>4, <1>5, <1>9
    <3>4. /\ Resv!Applied(F, m, clock) = ResvEffect(F, m, resv, clock)
          /\ Resv!Applied(F, m, clock) \in SUBSET ResvRow
      BY <1>12, <3>3, ResvModify
    <3> QED BY <3>2, <3>4
  <2> HIDE DEF e
  <2>4. ASSUME NEW s \in 1..clock - 1
        PROVE  IF reserved[s] = 0 \/ s \in lost' THEN ResvCovers(T, s) = {}
               ELSE \E q \in T : ResvCovers(T, s) = {q} /\ q.cpus = reserved[s]
    <3>0. s \in Int /\ s < clock /\ ~(r.start <= s) /\ s < resv.end
          /\ lost' = lost \cup {clock - 1}
      BY <1>1, <1>5, <1>6, <1>7, <1>16
    <3>1. CASE s = clock - 1
      <4>1. \A q \in F \ {resv} : ~(s < q.end)
        BY <1>4, <1>5, <1>11, <3>1 DEF ResvRow
      <4>2. ~(s < e.end)
        BY <2>1, <3>0, <3>1
      <4>3. ResvCovers(T, s) = {}
        BY <2>2, <3>0, <4>1, <4>2 DEF ResvCovers
      <4> QED BY <3>0, <3>1, <4>3
    <3>2. CASE s # clock - 1
      <4>1. (resv.start <= s /\ s < resv.end) <=> (e.start <= s /\ s < e.end)
        BY <1>5, <2>1, <3>0, <3>2
      <4>2. ResvCovers(T, s) = IF resv \in ResvCovers(F, s)
                               THEN (ResvCovers(F, s) \ {resv}) \cup {e} ELSE ResvCovers(F, s)
        BY <1>11, <2>2, <3>0, <4>1 DEF ResvCovers
      <4>3. IF reserved[s] = 0 \/ s \in lost THEN ResvCovers(F, s) = {}
            ELSE \E q \in F : ResvCovers(F, s) = {q} /\ q.cpus = reserved[s]
        BY <1>4 DEF ResvLast, ResvShows
      <4>4. e \in T /\ e.cpus = resv.cpus
        BY <2>1, <2>2
      <4>5. IF reserved[s] = 0 \/ s \in lost THEN ResvCovers(T, s) = {}
            ELSE \E q \in T : ResvCovers(T, s) = {q} /\ q.cpus = reserved[s]
        BY <1>11, <4>2, <4>3, <4>4, ResvSwap
      <4>6. s \in lost' <=> s \in lost
        BY <3>0, <3>2
      <4> QED BY <4>5, <4>6
    <3> QED BY <3>1, <3>2
  <2>5. ResvShows(T)'
    BY <1>1, <2>4 DEF ResvShows
  <2>6. r \in T /\ (\A q \in T \ {r} : q.start < r.start /\ q.end < clock)
        /\ ~(clock < r.start)
    <3>1. \A q \in F \ {resv} : q.start \in Int
      BY <1>4 DEF ResvRow
    <3> QED BY <1>5, <1>6, <1>7, <1>11, <1>16, <2>1, <2>2, <3>1
  <2>7. ResvLast(T)'
    BY <1>1, <1>8, <2>5, <2>6 DEF ResvLast
  <2> QED BY <1>1, <1>2, <1>3, <1>4, <1>9, <1>12, <1>13, <2>3, <2>7, ResvCalled DEF ResvTypes
<1> QED BY <1>5, <1>15, <1>16

LEMMA ResvGone == ASSUME ResvInv, Resv!Remove PROVE ResvInv'
<1> DEFINE m == Resv!Call("remove", resv, clock, Resv!NO_VAL)
<1>1. /\ resv # Resv!NoResv /\ removed = "no"
      /\ \/ resv.start > clock /\ removed' = "before" /\ resv' = Resv!NoResv
         \/ resv.start <= clock /\ removed' = "within" /\ resv' = resv
      /\ pending' = Append(pending, m)
      /\ UNCHANGED <<clock, rows, reserved, lost, late, changes>>
  BY DEF Resv!Remove
<1>2. ResvTypes /\ ResvFirst /\ (ResvTimely => ResvKept)
  BY DEF ResvInv
<1>3. clock \in Nat \ {0} /\ clock \in Int /\ resv \in ResvRow /\ resv.start \in Int
      /\ pending \in Seq(ResvCall) /\ Len(pending) \in Nat /\ removed' # "no"
  BY <1>1, <1>2 DEF ResvTypes, ResvRow
<1>4. m \in ResvCall /\ m.op = "remove" /\ m.start = resv.start /\ m.prev = clock
  BY <1>3 DEF ResvCall, ResvRow, Resv!Call, Resv!NO_VAL
<1> HIDE DEF m
<1>5. ResvTypes'
  <2>1. pending' \in Seq(ResvCall)
    BY <1>1, <1>3, <1>4
  <2>2. resv' \in ResvRow /\ (resv' # Resv!NoResv => resv' = resv)
    BY <1>1, <1>3 DEF Resv!NoResv, ResvRow
  <2> QED BY <1>1, <1>2, <2>1, <2>2 DEF ResvTypes
<1>6. ResvFirst'
  <2>1. /\ Len(pending') = Len(pending) + 1 /\ pending'[Len(pending')] = m
        /\ \A k \in 1..Len(pending) : pending'[k] = pending[k] /\ k \in 1..Len(pending')
    BY <1>1, <1>3, <1>4
  <2>2. ASSUME NEW i \in 1..Len(pending'), pending'[i].op = "modify", changes <= 1
        PROVE  /\ changes = 1 /\ late \subseteq {pending'[i].prev}
               /\ resv' # Resv!NoResv => resv'.start = pending'[i].start
               /\ \A k \in 1..Len(pending') : k > i =>
                    /\ k = Len(pending') /\ pending'[k].op = "remove"
                    /\ pending'[k].start = pending'[i].start
    <3>1. i # Len(pending')
      BY <1>4, <2>1, <2>2
    <3>2. i \in 1..Len(pending) /\ pending'[i] = pending[i] /\ pending[i].op = "modify"
      BY <1>3, <2>1, <2>2, <3>1
    <3>3. /\ changes = 1 /\ late \subseteq {pending[i].prev} /\ resv.start = pending[i].start
          /\ \A k \in 1..Len(pending) : k > i => pending[k].op = "remove"
      BY <1>1, <1>2, <2>2, <3>2 DEF ResvFirst
    <3>4. \A k \in 1..Len(pending) : pending[k].op # "remove"
      BY <1>1, <1>2 DEF ResvFirst
    <3>5. ASSUME NEW k \in 1..Len(pending'), k > i PROVE k = Len(pending')
      <4>1. CASE k # Len(pending')
        <5>1. k \in 1..Len(pending)
          BY <1>3, <2>1, <4>1
        <5> QED BY <3>3, <3>4, <3>5, <5>1
      <4> QED BY <4>1
    <3> QED BY <1>1, <1>4, <2>1, <3>2, <3>3, <3>5
  <2> QED BY <1>1, <1>2, <1>3, <2>2 DEF ResvFirst
<1>7. SUFFICES ASSUME ResvTimely' PROVE ResvKept'
  <2>1. removed' = "before" => resv' = Resv!NoResv
    BY <1>1
  <2> QED BY <1>3, <1>5, <1>6, <1>7, <2>1 DEF ResvInv
<1>8. PICK S : ResvReplay(S) /\ ResvEnds(S[Len(pending)])
  BY <1>1, <1>2, <1>7 DEF ResvTimely, ResvKept
<1>9. PICK F : F = S[Len(pending)] /\ F \in SUBSET ResvRow /\ ResvEnds(F)
  BY <1>2, <1>8, ResvCopyIs
<1>10. PICK T : T = {r \in F : ~(r.start > clock /\ r.start = resv.start)}
  OBVIOUS
<1>11. T = Resv!Applied(F, m, clock) /\ T \in SUBSET ResvRow
  <2>1. Resv!Applied(F, m, clock) = {r \in F : ~(r.start > m.prev /\ r.start = m.start)}
    BY <1>4, <1>9, ResvRemove
  <2> QED BY <1>4, <1>9, <1>10, <2>1
<1>12. ResvEnds(T)'
  <2>1. CASE resv.start > clock
    <3>1. resv' = Resv!NoResv
      BY <1>1, <1>3, <2>1
    <3>2. ResvLast(ResvRest(F)) /\ ResvRest(F) = {resv}
      BY <1>1, <1>9, <2>1 DEF ResvEnds, ResvLast
    <3>3. ResvRest(T) = {}
      BY <1>10, <2>1, <3>2 DEF ResvRest
    <3>4. \A s \in 1..clock - 1 : reserved[s] = 0 \/ s \in lost
      <4>1. ASSUME NEW s \in 1..clock - 1 PROVE ResvCovers({resv}, s) = {}
        <5>1. ~(resv.start <= s)
          BY <1>3, <2>1
        <5> QED BY <5>1 DEF ResvCovers
      <4> QED BY <3>2, <4>1 DEF ResvLast, ResvShows
    <3>5. ResvLast({})'
      BY <1>1, <3>1, <3>4 DEF ResvLast, ResvShows, ResvCovers
    <3>6. ResvRest(T)' = {}
      BY <1>1, <3>3 DEF ResvRest
    <3> QED BY <3>1, <3>5, <3>6 DEF ResvEnds
  <2>2. CASE resv.start <= clock
    <3>1. T = F /\ resv' = resv
      BY <1>1, <1>3, <1>10, <2>2
    <3>2. ResvEnds(F)'
      BY <1>1, <1>9, <3>1 DEF ResvEnds, ResvRest, ResvLast, ResvShows
    <3> QED BY <3>1, <3>2
  <2> QED BY <1>3, <2>1, <2>2
<1> QED BY <1>1, <1>3, <1>4, <1>8, <1>9, <1>11, <1>12, ResvCalled

LEMMA ResvInvInductive ==
  ASSUME ResvInv, Resv!Next \/ UNCHANGED resvVars PROVE ResvInv'
<1>1. CASE UNCHANGED resvVars
  <2>1. /\ clock' = clock /\ resv' = resv /\ rows' = rows /\ pending' = pending
        /\ reserved' = reserved /\ lost' = lost /\ removed' = removed
        /\ late' = late /\ changes' = changes
    BY <1>1 DEF resvVars
  <2>2. ResvTypes' = ResvTypes
    BY <2>1, Zenon DEF ResvTypes
  <2>3. \A S : ResvReplay(S)' = ResvReplay(S)
    BY <2>1, ZenonT(60) DEF ResvReplay, ResvChange
  <2>4. \A S : ResvEnds(S)' = ResvEnds(S)
    <3>1. \A S : ResvRest(S)' = ResvRest(S)
      BY <2>1, Zenon DEF ResvRest
    <3>2. \A S : ResvLast(ResvRest(S))' = ResvLast(ResvRest(S))
      BY <2>1, Zenon DEF ResvLast, ResvShows, ResvRest
    <3> QED BY <2>1, <3>1, <3>2, Zenon DEF ResvEnds
  <2>5. ResvKept' = ResvKept
    BY <2>1, <2>2, <2>3, <2>4, Zenon DEF ResvKept
  <2>6. ResvFirst <=> ResvFirst'
    BY <2>1 DEF ResvFirst
  <2>7. ResvTimely' = ResvTimely
    BY <2>1, Zenon DEF ResvTimely
  <2> QED BY <2>1, <2>2, <2>5, <2>6, <2>7, Zenon DEF ResvInv
<1>2. CASE Resv!Next
  <2>1. CASE Resv!Tick
    BY <2>1, ResvTick
  <2>2. CASE Resv!Remove
    BY <2>2, ResvGone
  <2>3. CASE Resv!Deliver
    BY <2>3, ResvDeliver
  <2>4. ASSUME NEW start \in 1..ResvHorizon, NEW end \in 2..ResvHorizon,
               \/ \E c \in Cpus \cup {Resv!NO_VAL} : Resv!Move(start, end, c)
               \/ \E c \in Cpus : Resv!Reserve([start |-> start, end |-> end, cpus |-> c])
        PROVE  ResvInv'
    <3>1. start \in Nat /\ start >= 1 /\ end \in Nat
      OBVIOUS
    <3>2. ASSUME NEW c \in Cpus \cup {Resv!NO_VAL}, Resv!Move(start, end, c) PROVE ResvInv'
      BY <3>1, <3>2, ResvMove
    <3>3. ASSUME NEW c \in Cpus, Resv!Reserve([start |-> start, end |-> end, cpus |-> c])
          PROVE  ResvInv'
      BY <3>1, <3>3, ResvReserve
    <3> QED BY <2>4, <3>2, <3>3
  <2>5. ASSUME NEW c \in Cpus, Resv!Resize(c) PROVE ResvInv'
    BY <2>5, ResvResize
  <2> QED BY <1>2, <2>1, <2>2, <2>3, <2>4, <2>5 DEF Resv!Next
<1> QED BY <1>1, <1>2

LEMMA ResvInvImplies == ResvInv => Resv!ReservedOnce
<1> DEFINE over == {r \in rows : r.start \in late}
<1> SUFFICES ASSUME ResvInv, pending = <<>>, late # {} => changes = 1
             PROVE  /\ \A s \in 1..clock - 1 :
                         LET covers == {r \in rows \ over : r.start <= s /\ s < r.end} IN
                         IF reserved[s] = 0 \/ s \in lost THEN covers = {}
                         ELSE Resv!Cardinality(covers) = 1 /\ \A r \in covers : r.cpus = reserved[s]
                    /\ \A r \in over, q \in rows \ over : r.end < q.start
  BY DEF Resv!ReservedOnce
<1>1. ResvKept /\ ResvTypes
  BY DEF ResvInv, ResvTimely
<1>2. PICK S : ResvReplay(S) /\ ResvEnds(S[Len(pending)])
  BY <1>1 DEF ResvKept
<1>3. Len(pending) = 0 /\ S[0] = rows
  BY <1>2 DEF ResvReplay
<1>4. rows \in SUBSET ResvRow /\ ResvEnds(rows) /\ ResvRest(rows) = rows \ over
  BY <1>1, <1>2, <1>3, ResvCopyIs DEF ResvRest
<1>5. ResvShows(rows \ over)
  BY <1>4 DEF ResvEnds, ResvLast
<1>6. ASSUME NEW s \in 1..clock - 1
      PROVE  LET covers == {r \in rows \ over : r.start <= s /\ s < r.end} IN
             IF reserved[s] = 0 \/ s \in lost THEN covers = {}
             ELSE Resv!Cardinality(covers) = 1 /\ \A r \in covers : r.cpus = reserved[s]
  <2>1. ResvCovers(rows \ over, s) = {r \in rows \ over : r.start <= s /\ s < r.end}
    BY DEF ResvCovers
  <2>2. CASE reserved[s] = 0 \/ s \in lost
    BY <1>5, <2>1, <2>2 DEF ResvShows
  <2>3. CASE ~(reserved[s] = 0 \/ s \in lost)
    <3>1. PICK r \in rows \ over : ResvCovers(rows \ over, s) = {r} /\ r.cpus = reserved[s]
      BY <1>5, <2>3 DEF ResvShows
    <3>2. Cardinality({r}) = 1
      BY FS_Singleton
    <3>3. \A X : Resv!Cardinality(X) = Cardinality(X)
      BY DEF Resv!Cardinality, Cardinality
    <3> QED BY <2>1, <2>3, <3>1, <3>2, <3>3
  <2> QED BY <2>2, <2>3
<1>7. ASSUME NEW r \in over, NEW q \in rows \ over PROVE r.end < q.start
  <2>1. resv # Resv!NoResv /\ q \in ResvRest(rows)
    BY <1>4 DEF ResvEnds, ResvLast
  <2>2. r.end < resv.start
    BY <1>4, <2>1 DEF ResvEnds
  <2>3. late # {}
    OBVIOUS
  <2>4. q = resv
    BY <1>4, <2>1, <2>3 DEF ResvEnds
  <2> QED BY <2>2, <2>4
<1> QED BY <1>6, <1>7

\* The rows of a reservation tell what it reserved (acct_storage_p_add_reservation,
\* _modify_reservation, _remove_reservation): for all processors, lengths of time and
\* moments of delivery, each second it was in force is covered by one row with the
\* processors it had then, but for the last second before a change; one removed in
\* force goes on in the rows to its end; and a change that comes after the start it
\* changes leaves one row over, up to the new start, if it is the only change (with
\* others the theorem covers the calls that come before that).
THEOREM ReservedOnceAlways == TablesSpec => []ReservedOnce
<1> DEFINE Inv == scene = "resv" => ResvInv
<1>1. TablesInit => Inv
  BY ResvInit DEF TablesInit
<1>2. Inv /\ [TablesNext]_TablesVars => Inv'
  <2> SUFFICES ASSUME Inv, [TablesNext]_TablesVars,
                      scene' = "resv"
               PROVE  ResvInv'
    OBVIOUS
  <2>1. scene = "resv" /\ (Resv!Next \/ UNCHANGED resvVars)
    BY DEF TablesNext, TablesVars, resvVars
  <2> QED BY <2>1, ResvInvInductive
<1>3. Inv => ReservedOnce
  BY ResvInvImplies DEF ReservedOnce
<1> QED BY <1>1, <1>2, <1>3, PTL DEF TablesSpec

-----------------------------------------------------------------------------
(* The archive.  A row is kept by its table, or by a file under its name or *)
(* its .old; what is in a file stays there, because a name has the last     *)
(* second of what it archives, which each month moves on, and two archives  *)
(* of a month write it at most twice.                                       *)

\* The rows in the files fs and the old files os.
ArchHeld(fs, os) == (UNION {fs[n] : n \in DOMAIN fs}) \cup (UNION {os[n] : n \in DOMAIN os})

ArchRow == [item : Items, table : {"event", "suspend", "step", "job"}, at : Int,
            over : BOOLEAN, deleted : BOOLEAN]

\* The rows the archive is to keep: h are the items a failure has hurt.
ArchKept(k, h) == k.table \in Archived /\ ~(k.table = "job" /\ k.at % 4 = 1) /\ k.item \notin h

\* What ArchiveKeeps says, and what it takes: a row is one that was inserted, one
\* that is marked deleted came from a file, and no file is from a later month.
ArchOK(tbs, fs, os, h) ==
  /\ \A k \in known : ArchKept(k, h) => \E r \in tbs \cup ArchHeld(fs, os) : r.item = k.item
  /\ \A r \in tbs \cup ArchHeld(fs, os) :
       r \in ArchRow /\ \E k \in known : k.item = r.item /\ k.table = r.table /\ k.at = r.at
  /\ \A r \in tbs : r.deleted => r.item \in h \/ \E q \in ArchHeld(fs, os) : q.item = r.item
  /\ \A n \in DOMAIN fs \cup DOMAIN os : n[3] \in Int /\ n[3] <= Arch!CurrEnd(n[1])

\* In the n-th archive of the month, with the tables in T still to do: a file of this
\* month that is there was written by an earlier archive, or its table is done.
ArchTurn(fs, os, n, T) ==
  /\ \A f \in DOMAIN fs : f[3] = Arch!CurrEnd(f[1]) /\ n = 0 => f[1] \notin T
  /\ \A f \in DOMAIN os : f[3] = Arch!CurrEnd(f[1]) => n # 0 /\ f[1] \notin T

\* An item is inserted once.
ArchKnown ==
  /\ month \in Int
  /\ \A k \in known : k.at \in Int
  /\ \A k, q \in known : k.item = q.item => k = q

ArchInv ==
  /\ ArchKnown /\ runs \in 0..2
  /\ ArchOK(tables, files, olds, hurt)
  /\ \A f \in DOMAIN files : f[3] = Arch!CurrEnd(f[1]) => runs # 0
  /\ \A f \in DOMAIN olds : f[3] = Arch!CurrEnd(f[1]) => runs = 2

LEMMA ArchHeldIn ==
  ASSUME NEW fs, NEW os, NEW r
  PROVE  r \in ArchHeld(fs, os) <=> (\E n \in DOMAIN fs : r \in fs[n]) \/ (\E n \in DOMAIN os : r \in os[n])
<1>1. ASSUME NEW f PROVE r \in UNION {f[n] : n \in DOMAIN f} <=> \E n \in DOMAIN f : r \in f[n]
  OBVIOUS
<1> DEFINE F == UNION {fs[n] : n \in DOMAIN fs}
           O == UNION {os[n] : n \in DOMAIN os}
<1>2. ArchHeld(fs, os) = F \cup O
  BY DEF ArchHeld
<1>3. (r \in F <=> \E n \in DOMAIN fs : r \in fs[n]) /\ (r \in O <=> \E n \in DOMAIN os : r \in os[n])
  BY <1>1
<1> HIDE DEF F, O
<1> QED BY <1>2, <1>3

LEMMA ArchDisk ==
  ASSUME NEW tbs, NEW fs, NEW os, NEW h
  PROVE  LET d == Arch!Disk(tbs, fs, os, h) IN
         d.tables = tbs /\ d.files = fs /\ d.olds = os /\ d.hurt = h
BY DEF Arch!Disk

\* A file is put in the place of the one of its name, or of none, and that one in
\* the place of its .old: what leaves the files was in it, or was not put there.
ArchShuffled(fs, os, name, rs, fs2, os2) ==
  /\ \A r : r \in ArchHeld(fs2, os2) => r \in ArchHeld(fs, os) \cup rs
  /\ \A r \in ArchHeld(fs, os) : \/ r \in ArchHeld(fs2, os2)
                                 \/ name \in DOMAIN fs /\ r \in fs[name]
  /\ name \in DOMAIN os2 => \A r \in fs[name] : r \in ArchHeld(fs2, os2)
  /\ fs2 = Arch!Put(fs, name, rs) => \A r \in rs : r \in ArchHeld(fs2, os2)
  /\ DOMAIN fs2 \subseteq DOMAIN fs \cup {name} /\ DOMAIN os2 \subseteq DOMAIN os \cup {name}
  /\ name \in DOMAIN os2 => name \in DOMAIN fs

LEMMA ArchShuffle ==
  ASSUME NEW fs, NEW os, NEW name, NEW rs, NEW fs2, NEW os2, name \notin DOMAIN os,
         fs2 = Arch!Put(fs, name, rs) \/ fs2 = Arch!Unlink(fs, name),
         \/ name \in DOMAIN fs /\ os2 = Arch!Put(os, name, fs[name])
         \/ os2 = Arch!Unlink(os, name)
  PROVE  ArchShuffled(fs, os, name, rs, fs2, os2)
<1>1. /\ DOMAIN fs2 \subseteq DOMAIN fs \cup {name} /\ DOMAIN fs \ {name} \subseteq DOMAIN fs2
      /\ \A n \in DOMAIN fs \ {name} : fs2[n] = fs[n]
      /\ name \in DOMAIN fs2 => fs2[name] = rs
      /\ fs2 = Arch!Put(fs, name, rs) => name \in DOMAIN fs2
  BY DEF Arch!Put, Arch!Unlink
<1>2. /\ DOMAIN os2 \subseteq DOMAIN os \cup {name} /\ DOMAIN os \subseteq DOMAIN os2
      /\ \A n \in DOMAIN os : os2[n] = os[n]
      /\ name \in DOMAIN os2 => name \in DOMAIN fs /\ os2[name] = fs[name]
  BY DEF Arch!Put, Arch!Unlink
<1>3. \A r : r \in ArchHeld(fs, os) <=> (\E n \in DOMAIN fs : r \in fs[n]) \/ (\E n \in DOMAIN os : r \in os[n])
  BY ArchHeldIn
<1>4. \A r : r \in ArchHeld(fs2, os2)
               <=> (\E n \in DOMAIN fs2 : r \in fs2[n]) \/ (\E n \in DOMAIN os2 : r \in os2[n])
  BY ArchHeldIn
<1>5. ASSUME NEW r \in ArchHeld(fs2, os2) PROVE r \in ArchHeld(fs, os) \cup rs
  <2>1. CASE \E n \in DOMAIN fs2 : r \in fs2[n]
    BY <1>1, <1>3, <2>1
  <2>2. CASE \E n \in DOMAIN os2 : r \in os2[n]
    BY <1>2, <1>3, <2>2
  <2> QED BY <1>4, <2>1, <2>2
<1>6. ASSUME NEW r \in ArchHeld(fs, os)
      PROVE  r \in ArchHeld(fs2, os2) \/ (name \in DOMAIN fs /\ r \in fs[name])
  BY <1>1, <1>2, <1>3, <1>4
<1>7. name \in DOMAIN os2 => \A r \in fs[name] : r \in ArchHeld(fs2, os2)
  BY <1>2, <1>4
<1>8. fs2 = Arch!Put(fs, name, rs) => \A r \in rs : r \in ArchHeld(fs2, os2)
  BY <1>1, <1>4
<1> QED BY <1>1, <1>2, <1>5, <1>6, <1>7, <1>8 DEF ArchShuffled

LEMMA ArchEnds ==
  ASSUME ArchKnown
  PROVE  \A t : Arch!CurrEnd(t) \in Int
<1> DEFINE first == 4 * (month - 1 - Purge)
<1>0. month \in Int /\ Purge \in Int
  <2>1. month \in Int
    BY DEF ArchKnown
  <2>2. Purge \in Nat
    BY TablesAssumption
  <2> QED BY <2>1, <2>2
<1>1. first \in Int /\ first + 3 \in Int /\ first + 1 \in Int
  BY <1>0
<1>2. \A t : Arch!CurrEnd(t) = IF t = "step" THEN first + 3 ELSE first + 1
  BY DEF Arch!CurrEnd
<1> HIDE DEF first
<1> QED BY <1>1, <1>2

\* What writing the rows rs of table t leaves.
ArchStored(tbs, fs, os, h, n, T, t, rs, fault) ==
  \E fs2, os2, h2 :
    /\ \A us : Arch!WriteArchiveFile(Arch!Disk(us, fs, os, h), t, rs, fault)
                 = Arch!Disk(us, fs2, os2, h2)
    /\ \A r \in rs : r.item \in h2 \/ r \in ArchHeld(fs2, os2)
    /\ ArchOK(tbs, fs2, os2, h2) /\ ArchTurn(fs2, os2, n, T \ {t})

\* Rows of a table whose turn it is are written, and what is not is hurt.
LEMMA ArchStore ==
  ASSUME NEW tbs, NEW fs, NEW os, NEW h, NEW n \in {0, 1}, NEW T, NEW t \in T, NEW rs \in SUBSET tbs,
         NEW fault, ArchKnown, ArchOK(tbs, fs, os, h), ArchTurn(fs, os, n, T)
  PROVE  ArchStored(tbs, fs, os, h, n, T, t, rs, fault)
<1>1. PICK name : name = Arch!Name(rs, t)
  OBVIOUS
<1>2. PICK left : left = IF t = fault.table THEN rs \cap fault.left ELSE rs
  OBVIOUS
<1>3. PICK failing : failing = IF t = fault.table THEN fault.links ELSE {}
  OBVIOUS
<1>4. PICK fs2 : fs2 = IF "reg" \in failing THEN Arch!Unlink(fs, name) ELSE Arch!Put(fs, name, left)
  OBVIOUS
<1>5. PICK os2 : os2 = IF name \in DOMAIN fs /\ "old" \notin failing THEN Arch!Put(os, name, fs[name])
                       ELSE Arch!Unlink(os, name)
  OBVIOUS
<1>6. PICK h2 : h2 = h \cup Arch!ItemsOf(IF name \in DOMAIN fs /\ "old" \in failing THEN fs[name] ELSE {})
                       \cup Arch!ItemsOf(IF "reg" \in failing THEN rs ELSE rs \ left)
  OBVIOUS
<1>7. name[1] = t /\ name[3] = Arch!CurrEnd(t)
  BY <1>1 DEF Arch!Name
<1>8. ASSUME NEW us
      PROVE  Arch!WriteArchiveFile(Arch!Disk(us, fs, os, h), t, rs, fault) = Arch!Disk(us, fs2, os2, h2)
  <2>1. PICK d : d = Arch!Disk(us, fs, os, h)
    OBVIOUS
  <2>2. d.tables = us /\ d.files = fs /\ d.olds = os /\ d.hurt = h
    BY <2>1, ArchDisk
  <2>3. Arch!WriteArchiveFile(d, t, rs, fault) = Arch!Disk(us, fs2, os2, h2)
    BY <1>1, <1>2, <1>3, <1>4, <1>5, <1>6, <2>2, Zenon DEF Arch!WriteArchiveFile
  <2> QED BY <2>1, <2>3, Zenon
<1>9. (name \in DOMAIN fs => n # 0) /\ name \notin DOMAIN os
  BY <1>7 DEF ArchTurn
<1>10. left \subseteq rs
  BY <1>2
<1>11. /\ fs2 = Arch!Put(fs, name, left) \/ (fs2 = Arch!Unlink(fs, name) /\ "reg" \in failing)
       /\ \/ name \in DOMAIN fs /\ os2 = Arch!Put(os, name, fs[name])
          \/ os2 = Arch!Unlink(os, name) /\ (name \in DOMAIN fs => "old" \in failing)
  BY <1>4, <1>5
<1>12. /\ \A r : r \in ArchHeld(fs2, os2) => r \in ArchHeld(fs, os) \cup left
       /\ \A r \in ArchHeld(fs, os) : \/ r \in ArchHeld(fs2, os2)
                                      \/ name \in DOMAIN fs /\ r \in fs[name]
       /\ name \in DOMAIN os2 => \A r \in fs[name] : r \in ArchHeld(fs2, os2)
       /\ fs2 = Arch!Put(fs, name, left) => \A r \in left : r \in ArchHeld(fs2, os2)
       /\ DOMAIN fs2 \subseteq DOMAIN fs \cup {name} /\ DOMAIN os2 \subseteq DOMAIN os \cup {name}
       /\ name \in DOMAIN os2 => name \in DOMAIN fs
  <2>1. fs2 = Arch!Put(fs, name, left) \/ fs2 = Arch!Unlink(fs, name)
    BY <1>11
  <2>2. \/ name \in DOMAIN fs /\ os2 = Arch!Put(os, name, fs[name])
        \/ os2 = Arch!Unlink(os, name)
    BY <1>11
  <2>3. ArchShuffled(fs, os, name, left, fs2, os2)
    BY <1>9, <2>1, <2>2, ArchShuffle
  <2> QED BY <2>3 DEF ArchShuffled
<1>13. h \subseteq h2
  BY <1>6
<1>14. ASSUME NEW r \in ArchHeld(fs, os) PROVE r.item \in h2 \/ r \in ArchHeld(fs2, os2)
  <2>1. CASE name \in DOMAIN os2
    BY <1>12, <2>1
  <2>2. CASE name \notin DOMAIN os2 /\ name \in DOMAIN fs
    <3>1. "old" \in failing
      BY <1>11, <2>2 DEF Arch!Put
    <3>2. h2 = h \cup Arch!ItemsOf(fs[name]) \cup Arch!ItemsOf(IF "reg" \in failing THEN rs ELSE rs \ left)
      BY <1>6, <2>2, <3>1
    <3>3. \A q \in fs[name] : q.item \in h2
      BY <3>2 DEF Arch!ItemsOf
    <3> QED BY <1>12, <3>3
  <2>3. CASE name \notin DOMAIN fs
    BY <1>12, <2>3
  <2> QED BY <2>1, <2>2, <2>3
<1>15. ASSUME NEW r \in rs PROVE r.item \in h2 \/ r \in ArchHeld(fs2, os2)
  <2>1. PICK gone : gone = IF "reg" \in failing THEN rs ELSE rs \ left
    OBVIOUS
  <2>2. \A q \in gone : q.item \in h2
    BY <1>6, <2>1 DEF Arch!ItemsOf
  <2>3. CASE "reg" \in failing
    BY <2>1, <2>2, <2>3
  <2>4. CASE "reg" \notin failing
    BY <1>11, <1>12, <2>1, <2>2, <2>4
  <2> QED BY <2>3, <2>4
<1>16. ArchOK(tbs, fs2, os2, h2)
  <2>1. ASSUME NEW k \in known, ArchKept(k, h2)
        PROVE  \E r \in tbs \cup ArchHeld(fs2, os2) : r.item = k.item
    <3>1. ArchKept(k, h)
      BY <1>13, <2>1 DEF ArchKept
    <3>2. PICK r \in tbs \cup ArchHeld(fs, os) : r.item = k.item
      BY <3>1 DEF ArchOK
    <3> QED BY <1>14, <2>1, <3>2 DEF ArchKept
  <2>2. \A r \in tbs \cup ArchHeld(fs2, os2) :
          r \in ArchRow /\ \E k \in known : k.item = r.item /\ k.table = r.table /\ k.at = r.at
    <3>1. \A r \in tbs \cup ArchHeld(fs2, os2) : r \in tbs \cup ArchHeld(fs, os)
      BY <1>10, <1>12
    <3> QED BY <3>1 DEF ArchOK
  <2>3. ASSUME NEW r \in tbs, r.deleted PROVE r.item \in h2 \/ \E q \in ArchHeld(fs2, os2) : q.item = r.item
    <3>1. r.item \in h \/ \E q \in ArchHeld(fs, os) : q.item = r.item
      BY <2>3 DEF ArchOK
    <3> QED BY <1>13, <1>14, <3>1
  <2>4. \A m \in DOMAIN fs2 \cup DOMAIN os2 : m[3] \in Int /\ m[3] <= Arch!CurrEnd(m[1])
    BY <1>7, <1>12, ArchEnds DEF ArchOK
  <2> QED BY <2>1, <2>2, <2>3, <2>4 DEF ArchOK
<1>17. ArchTurn(fs2, os2, n, T \ {t})
  BY <1>7, <1>9, <1>12 DEF ArchTurn
<1> QED BY <1>8, <1>15, <1>16, <1>17 DEF ArchStored

\* Rows are deleted that are in a file, or that need not be kept.
LEMMA ArchDrop ==
  ASSUME NEW tbs, NEW fs, NEW os, NEW h, NEW del, ArchKnown, ArchOK(tbs, fs, os, h),
         \A r \in del \cap tbs : ArchKept(r, h) => \E q \in ArchHeld(fs, os) : q.item = r.item
  PROVE  ArchOK(tbs \ del, fs, os, h)
<1> DEFINE held == ArchHeld(fs, os)
<1>1. ASSUME NEW k \in known, ArchKept(k, h)
      PROVE  \E r \in (tbs \ del) \cup held : r.item = k.item
  <2>1. PICK r \in tbs \cup held : r.item = k.item
    BY <1>1 DEF ArchOK
  <2>2. PICK q \in known : q.item = r.item /\ q.table = r.table /\ q.at = r.at
    BY DEF ArchOK
  <2>3. ArchKept(r, h)
    BY <1>1, <2>1, <2>2 DEF ArchKnown, ArchKept
  <2> HIDE DEF held
  <2> QED BY <2>1, <2>3 DEF held
<1>2. \A r \in (tbs \ del) \cup held :
        r \in ArchRow /\ \E k \in known : k.item = r.item /\ k.table = r.table /\ k.at = r.at
  BY DEF ArchOK
<1>3. \A r \in tbs \ del : r.deleted => r.item \in h \/ \E q \in held : q.item = r.item
  BY DEF ArchOK
<1>4. \A n \in DOMAIN fs \cup DOMAIN os : n[3] \in Int /\ n[3] <= Arch!CurrEnd(n[1])
  BY DEF ArchOK
<1> QED BY <1>1, <1>2, <1>3, <1>4 DEF ArchOK

\* A disk on which nothing is lost.
ArchGood(d, n, T) ==
  /\ d = Arch!Disk(d.tables, d.files, d.olds, d.hurt)
  /\ ArchOK(d.tables, d.files, d.olds, d.hurt) /\ ArchTurn(d.files, d.olds, n, T)

\* A job submitted at curr_end was submitted in the last second of a first day.
LEMMA ArchJobEnd ==
  ASSUME ArchKnown
  PROVE  Arch!CurrEnd("job") % 4 = 1
<1>1. PICK m : m = month - 1 - Purge
  OBVIOUS
<1>2. m \in Int
  <2>1. month \in Int
    BY DEF ArchKnown
  <2>2. Purge \in Nat
    BY TablesAssumption
  <2> QED BY <1>1, <2>1, <2>2
<1>3. Arch!CurrEnd("job") = 4 * m + 1
  BY <1>1 DEF Arch!CurrEnd
<1> QED BY <1>2, <1>3

\* One table is archived.
LEMMA ArchTable ==
  ASSUME NEW d, NEW n \in {0, 1}, NEW T, NEW t \in T, NEW fault, ArchKnown, ArchGood(d, n, T)
  PROVE  ArchGood(Arch!ArchiveTable(d, t, fault), n, T \ {t})
<1> DEFINE del == Arch!Deleted(d.tables, t)
           rs == Arch!Listed(d.tables, t)
<1>1. \A r \in del : r \in d.tables /\ r.table = t /\ r.over /\ r.at <= Arch!CurrEnd(t)
  BY DEF Arch!Deleted
<1>2. rs \in SUBSET d.tables
  BY DEF Arch!Listed
<1>3. ASSUME NEW r \in del, r \notin rs, ~(r.table = "job" /\ r.at % 4 = 1)
      PROVE  r.deleted
  <2>1. r.at \in Int
    BY <1>1 DEF ArchGood, ArchOK, ArchKnown
  <2>2. ~(t = "job" /\ r.at = Arch!CurrEnd(t))
    BY <1>1, <1>3, ArchJobEnd
  <2>3. Arch!CurrEnd(t) \in Int
    BY ArchEnds
  <2>4. t = "job" => r.at < Arch!CurrEnd(t)
    BY <1>1, <2>1, <2>2, <2>3
  <2> QED BY <1>1, <1>3, <2>4 DEF Arch!Listed
<1>4. ArchTurn(d.files, d.olds, n, T \ {t})
  BY DEF ArchGood, ArchTurn
<1>5. Arch!ArchiveTable(d, t, fault) =
        IF t \notin Archived THEN Arch!Disk(d.tables \ del, d.files, d.olds, d.hurt)
        ELSE IF rs = {} THEN d
        ELSE Arch!WriteArchiveFile(Arch!Disk(d.tables \ del, d.files, d.olds, d.hurt), t, rs, fault)
  BY Zenon DEF Arch!ArchiveTable
<1> HIDE DEF del, rs
<1>6. CASE t \notin Archived
  <2>1. ArchOK(d.tables \ del, d.files, d.olds, d.hurt)
    <3>1. \A r \in del \cap d.tables : ArchKept(r, d.hurt) =>
             \E q \in ArchHeld(d.files, d.olds) : q.item = r.item
      BY <1>1, <1>6 DEF ArchKept
    <3> QED BY <3>1, ArchDrop DEF ArchGood
  <2> QED BY <1>4, <1>5, <1>6, <2>1, ArchDisk DEF ArchGood
<1>7. CASE t \in Archived /\ rs = {}
  BY <1>4, <1>5, <1>7 DEF ArchGood
<1>8. CASE t \in Archived /\ rs # {}
  <2>1. PICK fs2, os2, h2 :
           /\ Arch!WriteArchiveFile(Arch!Disk(d.tables \ del, d.files, d.olds, d.hurt), t, rs, fault)
                = Arch!Disk(d.tables \ del, fs2, os2, h2)
           /\ \A r \in rs : r.item \in h2 \/ r \in ArchHeld(fs2, os2)
           /\ ArchOK(d.tables, fs2, os2, h2) /\ ArchTurn(fs2, os2, n, T \ {t})
    <3>1. ArchOK(d.tables, d.files, d.olds, d.hurt) /\ ArchTurn(d.files, d.olds, n, T)
      BY DEF ArchGood
    <3>2. ArchStored(d.tables, d.files, d.olds, d.hurt, n, T, t, rs, fault)
      BY <1>2, <3>1, ArchStore
    <3> QED BY <3>2 DEF ArchStored
  <2>2. ArchOK(d.tables \ del, fs2, os2, h2)
    <3>1. ASSUME NEW r \in del \cap d.tables, ArchKept(r, h2)
          PROVE  \E q \in ArchHeld(fs2, os2) : q.item = r.item
      <4>1. r.item \notin h2 /\ ~(r.table = "job" /\ r.at % 4 = 1)
        BY <3>1 DEF ArchKept
      <4>2. CASE r \in rs
        BY <2>1, <4>1, <4>2
      <4>3. CASE r \notin rs
        <5>1. r.deleted
          BY <1>3, <4>1, <4>3
        <5> QED BY <2>1, <4>1, <5>1 DEF ArchOK
      <4> QED BY <4>2, <4>3
    <3> QED BY <2>1, <3>1, ArchDrop
  <2> QED BY <1>5, <1>8, <2>1, <2>2, ArchDisk DEF ArchGood
<1> QED BY <1>6, <1>7, <1>8

\* A file is written and nothing deleted.
LEMMA ArchWritten ==
  ASSUME NEW d, NEW n \in {0, 1}, NEW T, NEW t \in T, NEW fault, ArchKnown, ArchGood(d, n, T)
  PROVE  ArchGood(Arch!WriteArchiveFile(d, t, Arch!Listed(d.tables, t), fault), n, T \ {t})
<1> DEFINE rs == Arch!Listed(d.tables, t)
<1>1. rs \in SUBSET d.tables
  BY DEF Arch!Listed
<1> HIDE DEF rs
<1>2. PICK fs2, os2, h2 :
         /\ Arch!WriteArchiveFile(Arch!Disk(d.tables, d.files, d.olds, d.hurt), t, rs, fault)
              = Arch!Disk(d.tables, fs2, os2, h2)
         /\ ArchOK(d.tables, fs2, os2, h2) /\ ArchTurn(fs2, os2, n, T \ {t})
  <2>1. ArchOK(d.tables, d.files, d.olds, d.hurt) /\ ArchTurn(d.files, d.olds, n, T)
    BY DEF ArchGood
  <2>2. ArchStored(d.tables, d.files, d.olds, d.hurt, n, T, t, rs, fault)
    BY <1>1, <2>1, ArchStore
  <2> QED BY <2>2 DEF ArchStored
<1>3. Arch!WriteArchiveFile(d, t, rs, fault) = Arch!Disk(d.tables, fs2, os2, h2)
  BY <1>2, Zenon DEF ArchGood
<1> QED BY <1>2, <1>3, ArchDisk DEF ArchGood, rs

\* The disks after each of the first n tables.
ArchSteps(f, n, fault) ==
  f = [k \in 0..n |-> IF k = 0 THEN Arch!Disk(tables, files, olds, hurt)
                      ELSE Arch!ArchiveTable(f[k-1], Arch!TableOrder[k], fault)]

LEMMA ArchStepsAre ==
  ASSUME NEW n \in 0..4, NEW fault
  PROVE  \E f : ArchSteps(f, n, fault) /\ Arch!ArchiveTables(n, fault) = f[n]
<1> DEFINE f == CHOOSE g : g = [k \in 0..n |-> IF k = 0 THEN Arch!Disk(tables, files, olds, hurt)
                                               ELSE Arch!ArchiveTable(g[k-1], Arch!TableOrder[k], fault)]
<1>1. \E g : ArchSteps(g, n, fault)
  <2>0. PICK d0 : d0 = Arch!Disk(tables, files, olds, hurt)
    OBVIOUS
  <2>1. PICK d1 : d1 = Arch!ArchiveTable(d0, Arch!TableOrder[1], fault)
    OBVIOUS
  <2>2. PICK d2 : d2 = Arch!ArchiveTable(d1, Arch!TableOrder[2], fault)
    OBVIOUS
  <2>3. PICK d3 : d3 = Arch!ArchiveTable(d2, Arch!TableOrder[3], fault)
    OBVIOUS
  <2>4. PICK d4 : d4 = Arch!ArchiveTable(d3, Arch!TableOrder[4], fault)
    OBVIOUS
  <2> DEFINE g == [k \in 0..n |-> IF k = 0 THEN d0 ELSE IF k = 1 THEN d1 ELSE IF k = 2 THEN d2
                                  ELSE IF k = 3 THEN d3 ELSE d4]
             h == [k \in 0..n |-> IF k = 0 THEN Arch!Disk(tables, files, olds, hurt)
                                  ELSE Arch!ArchiveTable(g[k-1], Arch!TableOrder[k], fault)]
  <2>5. ASSUME NEW k \in 0..n PROVE g[k] = h[k]
    <3>1. CASE k = 0
      BY <2>0, <3>1
    <3>2. CASE k = 1
      <4>1. g[1] = d1 /\ g[0] = d0
        BY <3>2
      <4>2. h[1] = Arch!ArchiveTable(g[0], Arch!TableOrder[1], fault)
        BY <3>2
      <4> QED BY <2>1, <3>2, <4>1, <4>2
    <3>3. CASE k = 2
      <4>1. g[2] = d2 /\ g[1] = d1
        BY <3>3
      <4>2. h[2] = Arch!ArchiveTable(g[1], Arch!TableOrder[2], fault)
        BY <3>3
      <4> QED BY <2>2, <3>3, <4>1, <4>2
    <3>4. CASE k = 3
      <4>1. g[3] = d3 /\ g[2] = d2
        BY <3>4
      <4>2. h[3] = Arch!ArchiveTable(g[2], Arch!TableOrder[3], fault)
        BY <3>4
      <4> QED BY <2>3, <3>4, <4>1, <4>2
    <3>5. CASE k = 4
      <4>1. g[4] = d4 /\ g[3] = d3
        BY <3>5
      <4>2. h[4] = Arch!ArchiveTable(g[3], Arch!TableOrder[4], fault)
        BY <3>5
      <4> QED BY <2>4, <3>5, <4>1, <4>2
    <3> QED BY <3>1, <3>2, <3>3, <3>4, <3>5
  <2>6. g = h
    BY <2>5
  <2> QED BY <2>6, Zenon DEF ArchSteps
<1>2. ArchSteps(f, n, fault)
  BY <1>1 DEF ArchSteps
<1>3. Arch!ArchiveTables(n, fault) = f[n]
  BY DEF Arch!ArchiveTables
<1> HIDE DEF f
<1> QED BY <1>2, <1>3

\* Tables that are not among the first k.
ArchLater(k) == {Arch!TableOrder[i] : i \in k + 1 .. 4}

LEMMA ArchTables ==
  ASSUME NEW n \in 0..4, NEW m \in {0, 1}, NEW fault, ArchKnown,
         ArchGood(Arch!Disk(tables, files, olds, hurt), m, ArchLater(0))
  PROVE  ArchGood(Arch!ArchiveTables(n, fault), m, ArchLater(n))
<1>1. PICK f : ArchSteps(f, n, fault) /\ Arch!ArchiveTables(n, fault) = f[n]
  BY ArchStepsAre
<1>2. f[0] = Arch!Disk(tables, files, olds, hurt)
  BY <1>1 DEF ArchSteps
<1>3. ASSUME NEW k \in 1..n PROVE f[k] = Arch!ArchiveTable(f[k-1], Arch!TableOrder[k], fault)
  BY <1>1 DEF ArchSteps
<1>4. ASSUME NEW k \in 1..4 PROVE /\ Arch!TableOrder[k] \in ArchLater(k - 1)
                                /\ ArchLater(k) = ArchLater(k - 1) \ {Arch!TableOrder[k]}
  BY DEF ArchLater, Arch!TableOrder
<1>5. ASSUME NEW k \in 1..n, ArchGood(f[k-1], m, ArchLater(k - 1))
      PROVE  ArchGood(f[k], m, ArchLater(k))
  <2>1. Arch!TableOrder[k] \in ArchLater(k - 1) /\ ArchLater(k) = ArchLater(k - 1) \ {Arch!TableOrder[k]}
    BY <1>4
  <2>2. ArchGood(Arch!ArchiveTable(f[k-1], Arch!TableOrder[k], fault), m,
                 ArchLater(k - 1) \ {Arch!TableOrder[k]})
    BY <1>5, <2>1, ArchTable
  <2> QED BY <1>3, <2>1, <2>2
<1>6. ArchGood(f[0], m, ArchLater(0))
  BY <1>2
<1>7. n >= 1 => ArchGood(f[1], m, ArchLater(1))
  BY <1>5, <1>6
<1>8. n >= 2 => ArchGood(f[2], m, ArchLater(2))
  BY <1>5, <1>7
<1>9. n >= 3 => ArchGood(f[3], m, ArchLater(3))
  BY <1>5, <1>8
<1>10. n = 4 => ArchGood(f[4], m, ArchLater(4))
  BY <1>5, <1>9
<1> QED BY <1>1, <1>6, <1>7, <1>8, <1>9, <1>10

LEMMA ArchLaterNone == ArchLater(4) = {}
BY DEF ArchLater

\* Before the next archive of the month, if it is not the third.
LEMMA ArchBegin ==
  ASSUME ArchInv, runs \in {0, 1}
  PROVE  ArchGood(Arch!Disk(tables, files, olds, hurt), runs, ArchLater(0))
<1>1. ArchTurn(files, olds, runs, ArchLater(0))
  BY DEF ArchInv, ArchTurn
<1> QED BY <1>1, ArchDisk DEF ArchInv, ArchGood

\* And after it.
LEMMA ArchEnd ==
  ASSUME ArchInv, runs \in {0, 1}, NEW d, NEW T, ArchGood(d, runs, T), Arch!Settle(d),
         runs' = runs + 1, UNCHANGED <<month, known>>
  PROVE  ArchInv'
<1>1. /\ tables' = d.tables /\ files' = d.files /\ olds' = d.olds /\ hurt' = d.hurt
      /\ month' = month /\ known' = known
  BY DEF Arch!Settle
<1>2. \A t : Arch!CurrEnd(t)' = Arch!CurrEnd(t)
  BY <1>1 DEF Arch!CurrEnd
<1>3. ArchKnown'
  BY <1>1 DEF ArchInv, ArchKnown
<1>4. ArchOK(tables, files, olds, hurt)'
  BY <1>1, <1>2 DEF ArchGood, ArchOK, ArchHeld
<1>5. \A f \in DOMAIN files' : f[3] = Arch!CurrEnd(f[1])' => runs' # 0
  OBVIOUS
<1>6. \A f \in DOMAIN olds' : f[3] = Arch!CurrEnd(f[1])' => runs' = 2
  BY <1>1, <1>2 DEF ArchGood, ArchTurn
<1> QED BY <1>3, <1>4, <1>5, <1>6 DEF ArchInv

LEMMA ArchRun ==
  ASSUME ArchInv, MaxRuns \in 0..2, NEW n \in 0..4, NEW fault, Arch!Run(n, fault)
  PROVE  ArchInv'
<1>1. runs \in {0, 1} /\ runs' = runs + 1 /\ UNCHANGED <<month, known>>
  BY DEF ArchInv, Arch!Run
<1>2. ArchGood(Arch!Disk(tables, files, olds, hurt), runs, ArchLater(0)) /\ ArchKnown
  BY <1>1, ArchBegin DEF ArchInv
<1>3. \A k \in 0..4 : ArchGood(Arch!ArchiveTables(k, fault), runs, ArchLater(k))
  BY <1>1, <1>2, ArchTables
<1>4. CASE Arch!Settle(Arch!ArchiveTables(n, fault))
  BY <1>1, <1>3, <1>4, ArchEnd
<1>5. CASE n > 0 /\ Arch!Settle(Arch!WrittenOnly(n, fault))
  <2>1. PICK d : d = Arch!ArchiveTables(n - 1, fault)
    OBVIOUS
  <2>2. PICK t : t = Arch!TableOrder[n]
    OBVIOUS
  <2>3. n - 1 \in 0..4 /\ ArchGood(d, runs, ArchLater(n - 1)) /\ t \in ArchLater(n - 1)
    <3>1. n - 1 \in 0..4 /\ n \in (n - 1) + 1 .. 4
      BY <1>5
    <3>2. ArchGood(d, runs, ArchLater(n - 1))
      BY <1>3, <2>1, <3>1
    <3> QED BY <2>2, <3>1, <3>2 DEF ArchLater
  <2>4. ArchGood(Arch!WriteArchiveFile(d, t, Arch!Listed(d.tables, t), fault), runs, ArchLater(n - 1) \ {t})
    BY <1>1, <1>2, <2>3, ArchWritten
  <2>5. Arch!WrittenOnly(n, fault) =
          IF t \in Archived /\ Arch!Listed(d.tables, t) # {}
          THEN Arch!WriteArchiveFile(d, t, Arch!Listed(d.tables, t), fault) ELSE d
    BY <2>1, <2>2, Zenon DEF Arch!WrittenOnly
  <2>6. \E T : ArchGood(Arch!WrittenOnly(n, fault), runs, T)
    BY <2>3, <2>4, <2>5
  <2> QED BY <1>1, <1>5, <2>6, ArchEnd
<1> QED BY <1>4, <1>5 DEF Arch!Run

\* In the next month no file is of this month.
LEMMA ArchNextMonth ==
  ASSUME ArchInv, Arch!NextMonth
  PROVE  ArchInv'
<1>1. /\ month \in Int /\ month' = month + 1 /\ runs' = 0
      /\ tables' = tables /\ files' = files /\ olds' = olds /\ known' = known /\ hurt' = hurt
  BY DEF ArchInv, ArchKnown, Arch!NextMonth
<1>2. \A t : Arch!CurrEnd(t) \in Int /\ Arch!CurrEnd(t)' = Arch!CurrEnd(t) + 4
  <2>1. PICK m : m = month - 1 - Purge
    OBVIOUS
  <2>2. m \in Int /\ month' - 1 - Purge = m + 1
    <3>1. Purge \in Nat
      BY TablesAssumption
    <3> QED BY <1>1, <2>1, <3>1
  <2>3. \A t : Arch!CurrEnd(t) = IF t = "step" THEN 4 * m + 3 ELSE 4 * m + 1
    BY <2>1 DEF Arch!CurrEnd
  <2>4. \A t : Arch!CurrEnd(t)' = IF t = "step" THEN 4 * (m + 1) + 3 ELSE 4 * (m + 1) + 1
    BY <2>2 DEF Arch!CurrEnd
  <2> QED BY <2>2, <2>3, <2>4
<1>3. ArchKnown'
  BY <1>1 DEF ArchInv, ArchKnown
<1>4. \A f \in DOMAIN files \cup DOMAIN olds :
        f[3] \in Int /\ f[3] <= Arch!CurrEnd(f[1]) /\ f[3] < Arch!CurrEnd(f[1])'
  BY <1>2 DEF ArchInv, ArchOK
<1>5. ArchOK(tables, files, olds, hurt)'
  BY <1>1, <1>2, <1>4 DEF ArchInv, ArchOK, ArchHeld
<1>6. /\ \A f \in DOMAIN files : f[3] # Arch!CurrEnd(f[1])'
      /\ \A f \in DOMAIN olds : f[3] # Arch!CurrEnd(f[1])'
  BY <1>2, <1>4
<1> QED BY <1>1, <1>3, <1>5, <1>6 DEF ArchInv

\* The files stay as they are, and the month.
LEMMA ArchTablesOnly ==
  ASSUME ArchInv, UNCHANGED <<month, files, olds, runs, hurt>>, ArchKnown',
         NEW held, held = ArchHeld(files, olds),
         \A k \in known' : ArchKept(k, hurt) =>
           \E r \in tables' \cup held : r.item = k.item,
         \A r \in tables' \cup held :
           r \in ArchRow /\ \E k \in known' : k.item = r.item /\ k.table = r.table /\ k.at = r.at,
         \A r \in tables' : r.deleted => r.item \in hurt \/ \E q \in held : q.item = r.item
  PROVE  ArchInv'
<1>1. \A t : Arch!CurrEnd(t)' = Arch!CurrEnd(t)
  BY DEF Arch!CurrEnd
<1>2. files' = files /\ olds' = olds /\ runs' = runs /\ hurt' = hurt
  OBVIOUS
<1>3. ArchHeld(files, olds)' = held
  BY <1>2 DEF ArchHeld
<1>4. \A n \in DOMAIN files' \cup DOMAIN olds' : n[3] \in Int /\ n[3] <= Arch!CurrEnd(n[1])'
  BY <1>1, <1>2 DEF ArchInv, ArchOK
<1>5. ArchOK(tables, files, olds, hurt)'
  BY <1>3, <1>4 DEF ArchOK
<1> QED BY <1>1, <1>2, <1>5 DEF ArchInv

\* What the invariant says of the rows, with the files kept apart.
LEMMA ArchRows ==
  ASSUME ArchInv, NEW held, held = ArchHeld(files, olds)
  PROVE  /\ \A k \in known : ArchKept(k, hurt) =>
              \E r \in tables \cup held : r.item = k.item
         /\ \A r \in tables \cup held :
              r \in ArchRow /\ \E k \in known : k.item = r.item /\ k.table = r.table /\ k.at = r.at
         /\ \A r \in tables : r.deleted => r.item \in hurt \/ \E q \in held : q.item = r.item
BY DEF ArchInv, ArchOK

LEMMA ArchInsert ==
  ASSUME ArchInv, NEW i \in Items, NEW t \in {"event", "suspend", "step", "job"}, NEW at \in Int,
         Arch!Insert(i, t, at)
  PROVE  ArchInv'
<1>1. PICK held : held = ArchHeld(files, olds)
  OBVIOUS
<1>2. PICK row : row = Arch!Row(i, t, at)
  OBVIOUS
<1>3. row \in ArchRow /\ row.item = i /\ row.table = t /\ row.at = at /\ ~row.deleted
  BY <1>2 DEF Arch!Row, ArchRow
<1>4. /\ tables' = tables \cup {row} /\ known' = known \cup {row}
      /\ UNCHANGED <<month, files, olds, runs, hurt>>
      /\ \A r \in known : r.item # i
  BY <1>2 DEF Arch!Insert
<1>5. ArchKnown'
  BY <1>3, <1>4 DEF ArchInv, ArchKnown
<1>6. \A k \in known' : ArchKept(k, hurt) =>
        \E r \in tables' \cup held : r.item = k.item
  BY <1>1, <1>4, ArchRows
<1>7. \A r \in tables' \cup held :
        r \in ArchRow /\ \E k \in known' : k.item = r.item /\ k.table = r.table /\ k.at = r.at
  BY <1>1, <1>3, <1>4, ArchRows
<1>8. \A r \in tables' : r.deleted => r.item \in hurt \/ \E q \in held : q.item = r.item
  BY <1>1, <1>3, <1>4, ArchRows
<1> QED BY <1>1, <1>4, <1>5, <1>6, <1>7, <1>8, ArchTablesOnly

LEMMA ArchOver ==
  ASSUME ArchInv, NEW q \in tables, Arch!End(q)
  PROVE  ArchInv'
<1>1. PICK held : held = ArchHeld(files, olds)
  OBVIOUS
<1>2. PICK row : row = [q EXCEPT !.over = TRUE]
  OBVIOUS
<1>3. /\ row \in ArchRow /\ row.item = q.item /\ row.table = q.table /\ row.at = q.at
      /\ row.deleted = q.deleted
  <2>1. q \in ArchRow
    BY <1>1, ArchRows
  <2> QED BY <1>2, <2>1 DEF ArchRow
<1>4. /\ tables' = (tables \ {q}) \cup {row} /\ known' = known
      /\ UNCHANGED <<month, files, olds, runs, hurt>>
  BY <1>2 DEF Arch!End
<1>5. ArchKnown'
  BY <1>4 DEF ArchInv, ArchKnown
<1>6. \A k \in known' : ArchKept(k, hurt) =>
        \E r \in tables' \cup held : r.item = k.item
  BY <1>1, <1>3, <1>4, ArchRows
<1>7. \A r \in tables' \cup held :
        r \in ArchRow /\ \E k \in known' : k.item = r.item /\ k.table = r.table /\ k.at = r.at
  BY <1>1, <1>3, <1>4, ArchRows
<1>8. \A r \in tables' : r.deleted => r.item \in hurt \/ \E p \in held : p.item = r.item
  BY <1>1, <1>3, <1>4, ArchRows
<1> QED BY <1>1, <1>4, <1>5, <1>6, <1>7, <1>8, ArchTablesOnly

\* The rows of a file that is loaded are still in it.
LEMMA ArchLoad ==
  ASSUME ArchInv, NEW name \in DOMAIN files, Arch!Load(name)
  PROVE  ArchInv'
<1>1. PICK held : held = ArchHeld(files, olds)
  OBVIOUS
<1>2. PICK mark \in BOOLEAN : mark = (name[1] \in {"step", "job"})
  <2>1. CASE name[1] \in {"step", "job"}
    <3>1. TRUE = (name[1] \in {"step", "job"})
      BY <2>1
    <3> QED BY <3>1, Zenon
  <2>2. CASE name[1] \notin {"step", "job"}
    <3>1. FALSE = (name[1] \in {"step", "job"})
      BY <2>2
    <3> QED BY <3>1, Zenon
  <2> QED BY <2>1, <2>2
<1>3. PICK items : items = {r.item : r \in files[name]}
  OBVIOUS
<1>4. /\ tables' = {r \in tables : r.item \notin items} \cup {[r EXCEPT !.deleted = mark] : r \in files[name]}
      /\ known' = known /\ UNCHANGED <<month, files, olds, runs, hurt>>
  BY <1>2, <1>3, Zenon DEF Arch!Load
<1>5. files[name] \subseteq held
  BY <1>1, ArchHeldIn
<1>6. ASSUME NEW r \in files[name]
      PROVE  LET l == [r EXCEPT !.deleted = mark] IN
             l \in ArchRow /\ l.item = r.item /\ l.table = r.table /\ l.at = r.at
  <2>1. r \in ArchRow
    BY <1>1, <1>5, ArchRows
  <2> QED BY <2>1 DEF ArchRow
<1>7. ArchKnown'
  BY <1>4 DEF ArchInv, ArchKnown
<1>8. ASSUME NEW k \in known, ArchKept(k, hurt)
      PROVE  \E r \in tables' \cup held : r.item = k.item
  <2>1. PICK r \in tables \cup held : r.item = k.item
    BY <1>1, <1>8, ArchRows
  <2>2. CASE r.item \in items
    <3>1. PICK q \in files[name] : q.item = r.item
      BY <1>3, <2>2
    <3> QED BY <1>5, <2>1, <3>1
  <2>3. CASE r.item \notin items
    BY <1>4, <2>1, <2>3
  <2> QED BY <2>2, <2>3
<1>9. ASSUME NEW r \in tables' \cup held
      PROVE  r \in ArchRow /\ \E k \in known' : k.item = r.item /\ k.table = r.table /\ k.at = r.at
  <2>1. CASE r \in tables \cup held
    BY <1>1, <1>4, <2>1, ArchRows
  <2>2. CASE \E q \in files[name] : r = [q EXCEPT !.deleted = mark]
    <3>1. PICK q \in files[name] : r = [q EXCEPT !.deleted = mark]
      BY <2>2
    <3>2. r \in ArchRow /\ r.item = q.item /\ r.table = q.table /\ r.at = q.at
      BY <1>6, <3>1
    <3>3. \E k \in known : k.item = q.item /\ k.table = q.table /\ k.at = q.at
      BY <1>1, <1>5, ArchRows
    <3> QED BY <1>4, <3>2, <3>3
  <2> QED BY <1>4, <2>1, <2>2
<1>10. ASSUME NEW r \in tables', r.deleted PROVE r.item \in hurt \/ \E q \in held : q.item = r.item
  <2>1. CASE r \in tables
    BY <1>1, <1>10, <2>1, ArchRows
  <2>2. CASE \E q \in files[name] : r = [q EXCEPT !.deleted = mark]
    BY <1>5, <1>6, <2>2
  <2> QED BY <1>4, <2>1, <2>2
<1>11. /\ UNCHANGED <<month, files, olds, runs, hurt>> /\ ArchKnown' /\ held = ArchHeld(files, olds)
       /\ \A k \in known' : ArchKept(k, hurt) =>
            \E r \in tables' \cup held : r.item = k.item
       /\ \A r \in tables' \cup held :
            r \in ArchRow /\ \E k \in known' : k.item = r.item /\ k.table = r.table /\ k.at = r.at
       /\ \A r \in tables' : r.deleted => r.item \in hurt \/ \E q \in held : q.item = r.item
  <2>1. known' = known /\ UNCHANGED <<month, files, olds, runs, hurt>>
    BY <1>4
  <2> QED BY <1>1, <1>7, <1>8, <1>9, <1>10, <2>1
<1> QED BY <1>11, ArchTablesOnly

LEMMA ArchInit ==
  ASSUME Arch!Init
  PROVE  ArchInv
<1>1. month = 1 /\ tables = {} /\ files = <<>> /\ olds = <<>> /\ runs = 0 /\ known = {} /\ hurt = {}
  BY DEF Arch!Init
<1>2. DOMAIN files = {} /\ DOMAIN olds = {}
  BY <1>1
<1>3. ArchHeld(files, olds) = {}
  BY <1>2 DEF ArchHeld
<1>4. ArchOK(tables, files, olds, hurt)
  BY <1>1, <1>2, <1>3 DEF ArchOK
<1> QED BY <1>1, <1>2, <1>4 DEF ArchInv, ArchKnown

LEMMA ArchInductive ==
  ASSUME ArchInv, MaxRuns \in 0..2, Arch!Next \/ UNCHANGED archVars
  PROVE  ArchInv'
<1>1. CASE UNCHANGED archVars
  BY <1>1 DEF archVars, ArchInv, ArchKnown, ArchOK, ArchHeld, Arch!CurrEnd
<1>2. CASE Arch!Next
  <2>1. CASE Arch!NextMonth
    BY <2>1, ArchNextMonth
  <2>2. ASSUME NEW i \in Items, NEW k \in 1..4, NEW at \in Arch!Moments(month),
               Arch!Insert(i, Arch!TableOrder[k], at)
        PROVE  ArchInv'
    <3>1. at \in Int
      BY <2>2 DEF Arch!Moments, ArchInv, ArchKnown
    <3>2. Arch!TableOrder[k] \in {"event", "suspend", "step", "job"}
      BY DEF Arch!TableOrder
    <3> QED BY <2>2, <3>1, <3>2, ArchInsert
  <2>3. ASSUME NEW r \in tables, Arch!End(r) PROVE ArchInv'
    BY <2>3, ArchOver
  <2>4. ASSUME NEW n \in 0..4, NEW fault, Arch!Run(n, fault) PROVE ArchInv'
    BY <2>4, ArchRun
  <2>5. ASSUME NEW name \in DOMAIN files, Arch!Load(name) PROVE ArchInv'
    BY <2>5, ArchLoad
  <2> QED BY <1>2, <2>1, <2>2, <2>3, <2>4, <2>5 DEF Arch!Next
<1> QED BY <1>1, <1>2

LEMMA ArchInvImplies == ArchInv => Arch!ArchiveKeeps
<1>1. Arch!InFiles = ArchHeld(files, olds)
  BY DEF Arch!InFiles, ArchHeld
<1> QED BY <1>1 DEF ArchInv, ArchOK, ArchKept, Arch!ArchiveKeeps

\* The archive loses no row (mysql_jobacct_process_archive, _load): for all rows,
\* months and tables, whatever failed after the write of a file and before its
\* delete, and whatever was loaded again, a row of a table that is archived is in
\* its table or in a file, when no month has more than two archives and but for a
\* job submitted in the last second of a month's first day.  The writes and links
\* whose failure the code does not look at may fail, for any rows and any number of
\* times, and do no harm but to the rows that were not written, whose file was not
\* linked to its name, or whose file of the month's first archive was not to its .old.
THEOREM ArchiveKeepsAlways ==
  ASSUME MaxRuns \in 0..2
  PROVE  TablesSpec => []ArchiveKeeps
<1> DEFINE Inv == scene = "archive" => ArchInv
<1>1. TablesInit => Inv
  BY ArchInit DEF TablesInit
<1>2. Inv /\ [TablesNext]_TablesVars => Inv'
  <2> SUFFICES ASSUME Inv, [TablesNext]_TablesVars,
                      scene' = "archive"
               PROVE  ArchInv'
    OBVIOUS
  <2>1. scene = "archive" /\ (Arch!Next \/ UNCHANGED archVars)
    BY DEF TablesNext, TablesVars, archVars
  <2> QED BY <2>1, ArchInductive
<1>3. Inv => ArchiveKeeps
  BY ArchInvImplies DEF ArchiveKeeps
<1> QED BY <1>1, <1>2, <1>3, PTL DEF TablesSpec

-----------------------------------------------------------------------------
(* The usage tables: what a report adds up to.  The lemmas first: what a   *)
(* sum over the periods of a table is made of.                             *)

LEMMA TotalPlus ==
  ASSUME NEW n \in Nat, NEW u, NEW v, NEW w,
         \A k \in 1..n : u[k] \in Nat /\ v[k] \in Nat /\ w[k] = u[k] + v[k]
  PROVE  Total(w, n) = Total(u, n) + Total(v, n)
<1> DEFINE T == {i \in Nat : i <= n => /\ Total(u, i) \in Nat /\ Total(v, i) \in Nat
                                       /\ Total(w, i) = Total(u, i) + Total(v, i)}
<1>1. 0 \in T
  BY TotalStep
<1>2. ASSUME NEW i \in Nat, i \in T PROVE i + 1 \in T
  <2> SUFFICES ASSUME i + 1 <= n
               PROVE  /\ Total(u, i + 1) \in Nat /\ Total(v, i + 1) \in Nat
                      /\ Total(w, i + 1) = Total(u, i + 1) + Total(v, i + 1)
    OBVIOUS
  <2>1. /\ Total(u, i) \in Nat /\ Total(v, i) \in Nat
        /\ Total(w, i) = Total(u, i) + Total(v, i)
    BY <1>2
  <2>2. i + 1 \in 1..n
    OBVIOUS
  <2>3. u[i + 1] \in Nat /\ v[i + 1] \in Nat /\ w[i + 1] = u[i + 1] + v[i + 1]
    BY <2>2
  <2>4. /\ Total(u, i + 1) = Total(u, i) + u[i + 1]
        /\ Total(v, i + 1) = Total(v, i) + v[i + 1]
        /\ Total(w, i + 1) = Total(w, i) + w[i + 1]
    BY TotalStep
  <2> QED BY <2>1, <2>3, <2>4
<1>3. T \subseteq Nat
  OBVIOUS
<1>4. T = Nat
  <2> HIDE DEF T
  <2> QED BY <1>1, <1>2, <1>3, NatBySets
<1> QED BY <1>4

LEMMA TotalZero ==
  ASSUME NEW n \in Nat, NEW w, \A k \in 1..n : w[k] = 0
  PROVE  Total(w, n) = 0
<1> DEFINE T == {i \in Nat : i <= n => Total(w, i) = 0}
<1>1. 0 \in T
  BY TotalStep
<1>2. ASSUME NEW i \in Nat, i \in T PROVE i + 1 \in T
  <2> SUFFICES ASSUME i + 1 <= n PROVE Total(w, i + 1) = 0
    OBVIOUS
  <2>1. Total(w, i) = 0 /\ w[i + 1] = 0
    BY <1>2
  <2> QED BY <2>1, TotalStep
<1>3. T \subseteq Nat
  OBVIOUS
<1>4. T = Nat
  <2> HIDE DEF T
  <2> QED BY <1>1, <1>2, <1>3, NatBySets
<1> QED BY <1>4

\* A single row.
LEMMA TotalOne ==
  ASSUME NEW n \in Nat, NEW j \in 1..n, NEW w, w[j] \in Nat, \A k \in 1..n : k # j => w[k] = 0
  PROVE  Total(w, n) = w[j]
<1> DEFINE T == {i \in Nat : j + i <= n => Total(w, j + i) = w[j]}
<1>1. 0 \in T
  <2>1. Total(w, j - 1) = 0
    BY TotalZero
  <2>2. Total(w, (j - 1) + 1) = Total(w, j - 1) + w[(j - 1) + 1]
    BY TotalStep
  <2> QED BY <2>1, <2>2
<1>2. ASSUME NEW i \in Nat, i \in T PROVE i + 1 \in T
  <2> SUFFICES ASSUME j + (i + 1) <= n PROVE Total(w, j + (i + 1)) = w[j]
    OBVIOUS
  <2>1. Total(w, j + i) = w[j] /\ w[j + i + 1] = 0
    BY <1>2
  <2>2. Total(w, (j + i) + 1) = Total(w, j + i) + w[(j + i) + 1]
    BY TotalStep
  <2> QED BY <2>1, <2>2
<1>3. T \subseteq Nat
  OBVIOUS
<1>4. T = Nat
  <2> HIDE DEF T
  <2> QED BY <1>1, <1>2, <1>3, NatBySets
<1>5. n - j \in Nat /\ j + (n - j) = n
  OBVIOUS
<1>6. n - j \in T
  BY <1>4, <1>5
<1> QED BY <1>5, <1>6

-----------------------------------------------------------------------------
(* SumIn, the sums of the roll-up and of the reports.                      *)

UsageRow(n) == [0..n-1 -> Nat]

\* The rows of the periods of len hours from from to till.
Picked(row, n, len, from, till) ==
  [k \in 1..n |-> IF from <= (k-1) * len /\ (k-1) * len < till THEN row[k-1] ELSE 0]

LEMMA SumInTotal ==
  ASSUME NEW row, NEW n, NEW len, NEW from, NEW till
  PROVE  Usage!SumIn(row, n, len, from, till) = Total(Picked(row, n, len, from, till), n)
BY DEF Usage!SumIn, Picked, Total, Usage!Total

\* A sum depends on the rows of its periods only.
LEMMA SumInSame ==
  ASSUME NEW n \in Nat, NEW len \in Nat, NEW v, NEW w, NEW from \in Int, NEW till \in Int,
         \A k \in 0..n-1 : from <= k * len /\ k * len < till => v[k] = w[k]
  PROVE  Usage!SumIn(v, n, len, from, till) = Usage!SumIn(w, n, len, from, till)
<1>1. ASSUME NEW k \in 1..n
      PROVE  Picked(v, n, len, from, till)[k] = Picked(w, n, len, from, till)[k]
  <2>1. k - 1 \in 0..n-1
    OBVIOUS
  <2>2. from <= (k-1) * len /\ (k-1) * len < till => v[k-1] = w[k-1]
    BY <2>1
  <2> QED BY <2>2 DEF Picked
<1> QED BY <1>1, TotalSame, SumInTotal

\* No period begins in the window.
LEMMA SumInEmpty ==
  ASSUME NEW n \in Nat, NEW len \in Nat, NEW w, NEW from \in Int, NEW till \in Int,
         \A k \in 0..n-1 : ~(from <= k * len /\ k * len < till)
  PROVE  Usage!SumIn(w, n, len, from, till) = 0
<1>1. ASSUME NEW k \in 1..n PROVE Picked(w, n, len, from, till)[k] = 0
  <2>1. k - 1 \in 0..n-1
    OBVIOUS
  <2>2. ~(from <= (k-1) * len /\ (k-1) * len < till)
    BY <2>1
  <2> QED BY <2>2 DEF Picked
<1> QED BY <1>1, TotalZero, SumInTotal

\* A window in two parts.
LEMMA SumInParts ==
  ASSUME NEW n \in Nat, NEW len \in Nat, NEW w \in UsageRow(n),
         NEW from \in Int, NEW mid \in Int, NEW till \in Int, from <= mid, mid <= till
  PROVE  Usage!SumIn(w, n, len, from, till)
           = Usage!SumIn(w, n, len, from, mid) + Usage!SumIn(w, n, len, mid, till)
<1>1. ASSUME NEW k \in 1..n
      PROVE  /\ Picked(w, n, len, from, mid)[k] \in Nat
             /\ Picked(w, n, len, mid, till)[k] \in Nat
             /\ Picked(w, n, len, from, till)[k]
                  = Picked(w, n, len, from, mid)[k] + Picked(w, n, len, mid, till)[k]
  <2> DEFINE p == (k-1) * len
  <2>1. p \in Int /\ w[k-1] \in Nat
    BY DEF UsageRow
  <2> HIDE DEF p
  <2>2. /\ Picked(w, n, len, from, mid)[k] = IF from <= p /\ p < mid THEN w[k-1] ELSE 0
        /\ Picked(w, n, len, mid, till)[k] = IF mid <= p /\ p < till THEN w[k-1] ELSE 0
        /\ Picked(w, n, len, from, till)[k] = IF from <= p /\ p < till THEN w[k-1] ELSE 0
    BY DEF Picked, p
  <2> QED BY <2>1, <2>2
<1> QED BY <1>1, TotalPlus, SumInTotal

LEMMA SumInNat ==
  ASSUME NEW n \in Nat, NEW len \in Nat, NEW w \in UsageRow(n), NEW from \in Int, NEW till \in Int
  PROVE  Usage!SumIn(w, n, len, from, till) \in Nat
<1>1. ASSUME NEW k \in 1..n PROVE Picked(w, n, len, from, till)[k] \in Nat
  <2>1. w[k-1] \in Nat
    BY DEF UsageRow
  <2> QED BY <2>1 DEF Picked
<1> QED BY <1>1, TotalNat, SumInTotal

\* Multiples of a length: periods do not overlap.
LEMMA Multiples ==
  ASSUME NEW len \in Nat \ {0}, NEW i \in Int, NEW j \in Int
  PROVE  /\ i * len \in Int /\ j * len \in Int /\ (i + 1) * len = i * len + len
         /\ i < j <=> i * len < j * len
         /\ i <= j <=> i * len <= j * len
         /\ i < j => (i + 1) * len <= j * len
<1>1. i * len \in Int /\ j * len \in Int /\ (i + 1) * len = i * len + len
  OBVIOUS
<1>2. i < j => i * len < j * len
  OBVIOUS
<1>3. j < i => j * len < i * len
  OBVIOUS
<1>4. i = j => i * len = j * len
  OBVIOUS
<1>5. i < j => (i + 1) * len <= j * len
  OBVIOUS
<1> QED BY <1>1, <1>2, <1>3, <1>4, <1>5

\* One period ends no later than a later one begins.
LEMMA PeriodEnds ==
  ASSUME NEW len \in Nat \ {0}, NEW i \in Nat, NEW j \in Nat, i * len < j * len
  PROVE  /\ i < j /\ (i + 1) * len <= j * len
         /\ (i + 1) * len = i * len + len
<1>1. i < j
  <2>1. i < j <=> i * len < j * len
    BY Multiples
  <2> QED BY <2>1
<1>2. (i + 1) * len <= j * len
  BY <1>1, Multiples
<1>3. (i + 1) * len = i * len + len
  BY Multiples
<1> QED BY <1>1, <1>2, <1>3

\* One period.
LEMMA SumInOne ==
  ASSUME NEW n \in Nat, NEW len \in Nat \ {0}, NEW w \in UsageRow(n), NEW d \in 0..n-1
  PROVE  Usage!SumIn(w, n, len, d * len, (d + 1) * len) = w[d]
<1> DEFINE from == d * len
           till == (d + 1) * len
           P == Picked(w, n, len, from, till)
<1>1. ASSUME NEW k \in 1..n PROVE (from <= (k-1) * len /\ (k-1) * len < till) <=> k = d + 1
  <2>1. /\ d <= k - 1 <=> d * len <= (k - 1) * len
        /\ k - 1 < d + 1 <=> (k - 1) * len < (d + 1) * len
    BY Multiples
  <2> QED BY <2>1
<1>2. \A k \in 1..n : P[k] = IF k = d + 1 THEN w[k-1] ELSE 0
  <2> TAKE k \in 1..n
  <2>1. P[k] = IF from <= (k-1) * len /\ (k-1) * len < till THEN w[k-1] ELSE 0
    BY DEF Picked
  <2> HIDE DEF from, till, P
  <2> QED BY <1>1, <2>1
<1>3. d + 1 \in 1..n /\ w[(d + 1) - 1] = w[d] /\ w[d] \in Nat
  BY DEF UsageRow
<1>4. Total(P, n) = P[d + 1]
  <2>1. P[d + 1] \in Nat /\ \A k \in 1..n : k # d + 1 => P[k] = 0
    BY <1>2, <1>3
  <2> HIDE DEF P
  <2> QED BY <1>3, <2>1, TotalOne
<1>5. P[d + 1] = w[d]
  <2> HIDE DEF P
  <2> QED BY <1>2, <1>3
<1> QED BY <1>4, <1>5, SumInTotal

\* A table of longer periods, each the sum of its shorter ones, adds up to the
\* shorter ones.
Grouped(v, w, n, len, m, wide, f, g) ==
  \A d \in 0..m-1 : f <= d /\ d < g =>
    v[d] = Usage!SumIn(w, n, len, d * wide, (d + 1) * wide)

LEMMA SumInGroups ==
  ASSUME NEW n \in Nat, NEW len \in Nat \ {0}, NEW w \in UsageRow(n),
         NEW m \in Nat, NEW wide \in Nat \ {0}, NEW v \in UsageRow(m),
         NEW f \in Nat, NEW g \in Nat, f <= g, g <= m, Grouped(v, w, n, len, m, wide, f, g)
  PROVE  Usage!SumIn(v, m, wide, f * wide, g * wide) = Usage!SumIn(w, n, len, f * wide, g * wide)
<1> DEFINE V(i) == Usage!SumIn(v, m, wide, f * wide, i * wide)
           W(i) == Usage!SumIn(w, n, len, f * wide, i * wide)
           T == {i \in Nat : f + i <= g => V(f + i) = W(f + i)}
<1>1. 0 \in T
  <2>1. f * wide \in Int
    OBVIOUS
  <2>2. V(f) = 0
    BY <2>1, SumInEmpty
  <2>3. W(f) = 0
    BY <2>1, SumInEmpty
  <2> QED BY <2>2, <2>3
<1>2. ASSUME NEW i \in Nat, i \in T PROVE i + 1 \in T
  <2> SUFFICES ASSUME f + (i + 1) <= g PROVE V(f + (i + 1)) = W(f + (i + 1))
    OBVIOUS
  <2> DEFINE d == f + i
  <2>1. d \in 0..m-1 /\ d \in Nat /\ f <= d /\ d < g /\ f + (i + 1) = d + 1
    OBVIOUS
  <2>2. V(d) = W(d)
    BY <1>2
  <2>3. /\ f * wide \in Int /\ d * wide \in Int /\ (d + 1) * wide \in Int
        /\ f * wide <= d * wide /\ d * wide <= (d + 1) * wide
    BY <2>1, Multiples
  <2> HIDE DEF d
  <2>4. V(d + 1) = V(d) + Usage!SumIn(v, m, wide, d * wide, (d + 1) * wide)
    BY <2>1, <2>3, SumInParts
  <2>5. W(d + 1) = W(d) + Usage!SumIn(w, n, len, d * wide, (d + 1) * wide)
    BY <2>1, <2>3, SumInParts
  <2>6. Usage!SumIn(v, m, wide, d * wide, (d + 1) * wide) = v[d]
    BY <2>1, SumInOne
  <2>7. v[d] = Usage!SumIn(w, n, len, d * wide, (d + 1) * wide)
    BY <2>1 DEF Grouped
  <2> QED BY <2>1, <2>2, <2>4, <2>5, <2>6, <2>7
<1>3. T \subseteq Nat
  OBVIOUS
<1>4. T = Nat
  <2> HIDE DEF T
  <2> QED BY <1>1, <1>2, <1>3, NatBySets
<1>5. g - f \in Nat /\ f + (g - f) = g
  OBVIOUS
<1>6. g - f \in T
  BY <1>4, <1>5
<1> QED BY <1>5, <1>6

\* Whole periods below a time.
LEMMA FloorOf ==
  ASSUME NEW len \in Nat \ {0}, NEW t \in Nat
  PROVE  LET q == t \div len
         IN  q \in Nat /\ q * len \in Nat /\ q * len <= t /\ t < q * len + len
<1> DEFINE q == t \div len
<1>1. q \in Nat /\ q * len <= t /\ t < (q + 1) * len
  OBVIOUS
<1>2. q * len \in Nat
  BY <1>1
<1> QED BY <1>1, <1>2, Multiples

LEMMA FloorOfMonotone ==
  ASSUME NEW len \in Nat \ {0}, NEW s \in Nat, NEW t \in Nat, s <= t
  PROVE  s \div len <= t \div len /\ (s \div len) * len <= (t \div len) * len
<1> DEFINE p == s \div len
           q == t \div len
<1>1. /\ p \in Nat /\ q \in Nat /\ p * len \in Nat /\ q * len \in Nat
      /\ p * len <= s /\ t < q * len + len
  BY FloorOf
<1> HIDE DEF p, q
<1>2. p * len < (q + 1) * len
  BY <1>1, Multiples
<1>3. p < q + 1
  BY <1>1, <1>2, Multiples
<1>4. p <= q
  BY <1>1, <1>3
<1>5. p * len <= q * len
  BY <1>1, <1>4, Multiples
<1> QED BY <1>4, <1>5 DEF p, q

\* A multiple is its own floor.
LEMMA FloorOfMultiple ==
  ASSUME NEW len \in Nat \ {0}, NEW i \in Nat
  PROVE  (i * len) \div len = i
<1> DEFINE q == (i * len) \div len
<1>1. i * len \in Nat
  OBVIOUS
<1>2. q \in Nat /\ q * len <= i * len /\ i * len < q * len + len
  BY <1>1, FloorOf
<1> HIDE DEF q
<1>3. q <= i
  BY <1>2, Multiples
<1>4. i < q + 1
  <2>1. i * len < (q + 1) * len
    BY <1>2, Multiples
  <2> QED BY <1>2, <2>1, Multiples
<1> QED BY <1>2, <1>3, <1>4 DEF q

-----------------------------------------------------------------------------
(* The tables are tables.                                                  *)

HC == Usage!HourCount
DC == Usage!DayCount
MonthLen == DayHours * MonthDays

LEMMA Lengths ==
  /\ DayHours \in Nat \ {0} /\ MonthLen \in Nat \ {0} /\ Months \in Nat \ {0}
  /\ MonthDays \in Nat \ {0}
  /\ DC \in Nat \ {0} /\ HC \in Nat \ {0}
  /\ DC = Months * MonthDays /\ HC = DC * DayHours
<1>1. DayHours \in Nat \ {0} /\ Months \in Nat \ {0} /\ MonthDays \in Nat \ {0}
  BY TablesAssumption
<1>2. DC = Months * MonthDays /\ HC = DC * DayHours
  BY DEF DC, HC, Usage!DayCount, Usage!HourCount
<1>3. MonthLen \in Nat \ {0}
  BY <1>1 DEF MonthLen
<1>4. DC \in Nat \ {0}
  BY <1>1, <1>2
<1>5. HC \in Nat \ {0}
  BY <1>1, <1>2, <1>4
<1> QED BY <1>1, <1>2, <1>3, <1>4, <1>5

MarksRec == [hour : Nat, day : Nat, month : Nat]
RollRec  == [level : {"idle", "hour", "day", "month"}, at : Nat, till : Nat, last : MarksRec,
             my_time : Nat, sent : BOOLEAN]

UsageTypes ==
  /\ hour \in 0..HC-1
  /\ used \in [Usage!Assocs -> UsageRow(HC)] /\ hours \in [Usage!Assocs -> UsageRow(HC)]
  /\ days \in [Usage!Assocs -> UsageRow(DC)] /\ months \in [Usage!Assocs -> UsageRow(Months)]
  /\ marks \in MarksRec /\ global_last_rollup \in Nat /\ failed \in BOOLEAN
  /\ roll \in RollRec /\ (roll.level = "idle" => roll = Usage!Idle)

LEMMA FloorNat ==
  ASSUME NEW t \in Nat
  PROVE  Usage!Midnight(t) \in Nat /\ Usage!FirstOf(t) \in Nat
BY Lengths, FloorOf DEF Usage!Midnight, Usage!FirstOf, MonthLen

LEMMA UsageTypesInit ==
  ASSUME Usage!Init
  PROVE  UsageTypes
<1>1. HC \in Nat \ {0} /\ DC \in Nat \ {0} /\ Months \in Nat \ {0}
  BY Lengths
<1>2. /\ [h \in 0..Usage!HourCount-1 |-> 0] \in UsageRow(HC)
      /\ [d \in 0..Usage!DayCount-1 |-> 0] \in UsageRow(DC)
      /\ [m \in 0..Months-1 |-> 0] \in UsageRow(Months)
  BY DEF UsageRow, HC, DC
<1>3. /\ used \in [Usage!Assocs -> UsageRow(HC)] /\ hours \in [Usage!Assocs -> UsageRow(HC)]
      /\ days \in [Usage!Assocs -> UsageRow(DC)] /\ months \in [Usage!Assocs -> UsageRow(Months)]
  BY <1>2 DEF Usage!Init
<1>4. marks \in MarksRec /\ roll \in RollRec
  BY DEF Usage!Init, MarksRec, RollRec, Usage!Idle
<1>5. hour \in 0..HC-1
  BY <1>1 DEF Usage!Init
<1> QED BY <1>3, <1>4, <1>5 DEF Usage!Init, UsageTypes

LEMMA UsageTypesStep ==
  ASSUME UsageTypes, Usage!Next \/ UNCHANGED usageVars
  PROVE  UsageTypes'
<1> USE DEF UsageTypes
<1>0. HC \in Nat /\ hour \in Nat /\ HC = Usage!HourCount
  BY Lengths DEF HC
<1>1. CASE Usage!Tick
  BY <1>0, <1>1 DEF Usage!Tick
<1>2. ASSUME NEW a \in Users, NEW h \in 0..hour, NEW s \in Amounts, Usage!JobCall(a, h, s)
      PROVE  UsageTypes'
  <2>1. h \in Nat /\ s \in Nat
    <3>1. h \in Nat
      BY <1>0
    <3>2. s \in Nat
      BY TablesAssumption
    <3> QED BY <3>1, <3>2
  <2>2. used' \in [Usage!Assocs -> UsageRow(HC)]
    BY <1>2, <2>1 DEF Usage!JobCall, UsageRow
  <2>3. marks' \in MarksRec /\ global_last_rollup' \in Nat
    BY <1>2, <2>1 DEF Usage!JobCall, Usage!ResetMarks, MarksRec
  <2> QED BY <1>2, <2>2, <2>3 DEF Usage!JobCall
<1>3. ASSUME NEW s \in {-1} \cup Nat, NEW e \in {-1} \cup Nat, Usage!RollBegin(s, e)
      PROVE  UsageTypes'
  <2>1. /\ (IF s = Usage!NotGiven THEN marks ELSE Usage!ResetMarks(s)) \in MarksRec
        /\ (IF e = Usage!NotGiven THEN hour ELSE e) \in Nat
    BY Lengths DEF Usage!NotGiven, Usage!ResetMarks, MarksRec
  <2> DEFINE begins == IF s = Usage!NotGiven THEN marks ELSE Usage!ResetMarks(s)
             my_time == IF e = Usage!NotGiven THEN hour ELSE e
             begun == [level |-> "hour", at |-> begins.hour, till |-> my_time, last |-> begins,
                       my_time |-> my_time, sent |-> e # Usage!NotGiven]
  <2>2. global_last_rollup' = my_time /\ roll' = begun
    BY <1>3 DEF Usage!RollBegin
  <2>3. begins \in MarksRec /\ my_time \in Nat
    BY <2>1
  <2> HIDE DEF begins, my_time
  <2>4. begun \in RollRec /\ begun.level = "hour"
    BY <2>3 DEF RollRec, MarksRec
  <2> HIDE DEF begun
  <2> QED BY <1>3, <2>2, <2>3, <2>4 DEF Usage!RollBegin
<1>4. CASE Usage!RollUsage
  BY <1>3, <1>4 DEF Usage!RollUsage, Usage!NotGiven
<1>5. CASE Usage!RollManually
  <2>1. PICK s \in {Usage!NotGiven} \cup (RollTimes \cap 0..hour),
             e \in {Usage!NotGiven} \cup (RollTimes \cap 0..hour) : Usage!RollBegin(s, e)
    BY <1>5 DEF Usage!RollManually
  <2>2. s \in {-1} \cup Nat /\ e \in {-1} \cup Nat
    BY TablesAssumption DEF Usage!NotGiven
  <2> QED BY <1>3, <2>1, <2>2
<1>6. CASE Usage!RollHour
  <2>1. ASSUME NEW a \in Usage!Assocs
        PROVE  Usage!RolledHour(hours[a], used[a][roll.at], roll.at) \in UsageRow(HC)
    <3>1. hours[a] \in [0..HC-1 -> Nat] /\ used[a] \in [0..HC-1 -> Nat]
      BY DEF UsageRow
    <3>2. CASE roll.at \in 0..HC-1
      <4>1. used[a][roll.at] \in Nat
        BY <3>1, <3>2
      <4> QED BY <3>1, <4>1 DEF Usage!RolledHour, UsageRow
    <3>3. CASE roll.at \notin 0..HC-1
      BY <3>1, <3>3 DEF Usage!RolledHour, UsageRow
    <3> QED BY <3>2, <3>3
  <2>2. hours' \in [Usage!Assocs -> UsageRow(HC)]
    BY <1>6, <2>1 DEF Usage!RollHour
  <2>3. roll' \in RollRec /\ roll'.level = "hour"
    BY <1>6 DEF Usage!RollHour, Usage!Working, RollRec
  <2> QED BY <1>6, <2>2, <2>3 DEF Usage!RollHour
<1>7. CASE Usage!RollDay
  <2>1. ASSUME NEW a \in Usage!Assocs
        PROVE  Usage!SumIn(hours[a], Usage!HourCount, 1, roll.at, roll.at + DayHours) \in Nat
    BY SumInNat, Lengths DEF HC, RollRec
  <2>2. days' \in [Usage!Assocs -> UsageRow(DC)]
    BY <1>7, <2>1 DEF Usage!RollDay, UsageRow
  <2>3. roll' \in RollRec /\ roll'.level = "day"
    BY <1>7, Lengths DEF Usage!RollDay, Usage!Working, RollRec
  <2> QED BY <1>7, <2>2, <2>3 DEF Usage!RollDay
<1>8. CASE Usage!RollMonth
  <2>1. ASSUME NEW a \in Usage!Assocs
        PROVE  Usage!SumIn(days[a], Usage!DayCount, DayHours, roll.at, roll.at + MonthLen) \in Nat
    BY SumInNat, Lengths DEF DC, RollRec
  <2>2. months' \in [Usage!Assocs -> UsageRow(Months)]
    BY <1>8, <2>1 DEF Usage!RollMonth, UsageRow, MonthLen
  <2>3. roll' \in RollRec /\ roll'.level = "month"
    <3>1. roll' = [roll EXCEPT !.at = @ + MonthLen]
      BY <1>8 DEF Usage!RollMonth, MonthLen
    <3> QED BY <1>8, <3>1, Lengths DEF Usage!RollMonth, Usage!Working, RollRec
  <2> QED BY <1>8, <2>2, <2>3 DEF Usage!RollMonth
<1>9. CASE Usage!NextLevel
  <2>1. roll.last.day \in Nat /\ roll.last.month \in Nat /\ roll.my_time \in Nat
    BY DEF RollRec, MarksRec
  <2>2. /\ Usage!Midnight(roll.last.day) \in Nat /\ Usage!Midnight(roll.my_time) \in Nat
        /\ Usage!FirstOf(roll.last.month) \in Nat /\ Usage!FirstOf(roll.my_time) \in Nat
    BY <2>1, FloorNat
  <2>3. roll' \in RollRec /\ roll'.level # "idle"
    BY <1>9, <2>2 DEF Usage!NextLevel, RollRec
  <2> QED BY <1>9, <2>3 DEF Usage!NextLevel
<1>10. CASE Usage!RollDone
  <2>1. roll.my_time \in Nat
    BY DEF RollRec
  <2>2. Usage!Midnight(roll.my_time) \in Nat /\ Usage!FirstOf(roll.my_time) \in Nat
    BY <2>1, FloorNat
  <2>3. marks' \in MarksRec
    BY <1>10, <2>1, <2>2 DEF Usage!RollDone, MarksRec
  <2>4. Usage!Idle \in RollRec
    BY DEF Usage!Idle, RollRec, MarksRec
  <2> QED BY <1>10, <2>3, <2>4 DEF Usage!RollDone
<1>11. CASE Usage!RollFail
  <2>1. Usage!Idle \in RollRec
    BY DEF Usage!Idle, RollRec, MarksRec
  <2> QED BY <1>11, <2>1 DEF Usage!RollFail
<1>12. CASE Usage!Restart
  BY <1>12 DEF Usage!Restart
<1>13. CASE UNCHANGED usageVars
  BY <1>13 DEF usageVars
<1> QED BY <1>1, <1>2, <1>4, <1>5, <1>6, <1>7, <1>8, <1>9, <1>10, <1>11, <1>12, <1>13
        DEF Usage!Next

-----------------------------------------------------------------------------
(* Midnights and firsts of a month.                                        *)

DayOf(t)   == t \div DayHours
MonthOf(t) == t \div MonthLen

LEMMA Midnights ==
  ASSUME NEW t \in Nat
  PROVE  /\ DayOf(t) \in Nat /\ Usage!Midnight(t) \in Nat
         /\ Usage!Midnight(t) = DayOf(t) * DayHours
         /\ Usage!Midnight(t) <= t /\ t < Usage!Midnight(t) + DayHours
         /\ DayOf(Usage!Midnight(t)) = DayOf(t)
         /\ Usage!Midnight(Usage!Midnight(t)) = Usage!Midnight(t)
<1>1. /\ DayOf(t) \in Nat /\ Usage!Midnight(t) \in Nat
      /\ Usage!Midnight(t) = DayOf(t) * DayHours
      /\ Usage!Midnight(t) <= t /\ t < Usage!Midnight(t) + DayHours
  BY Lengths, FloorOf DEF DayOf, Usage!Midnight
<1>2. DayOf(Usage!Midnight(t)) = DayOf(t)
  <2>1. (DayOf(t) * DayHours) \div DayHours = DayOf(t)
    BY <1>1, Lengths, FloorOfMultiple
  <2> QED BY <1>1, <2>1 DEF DayOf
<1>3. Usage!Midnight(Usage!Midnight(t)) = DayOf(Usage!Midnight(t)) * DayHours
  BY DEF DayOf, Usage!Midnight
<1> QED BY <1>1, <1>2, <1>3

LEMMA Firsts ==
  ASSUME NEW t \in Nat
  PROVE  /\ MonthOf(t) \in Nat /\ Usage!FirstOf(t) \in Nat
         /\ Usage!FirstOf(t) = MonthOf(t) * MonthLen
         /\ Usage!FirstOf(t) <= t /\ t < Usage!FirstOf(t) + MonthLen
         /\ MonthOf(Usage!FirstOf(t)) = MonthOf(t)
         /\ Usage!FirstOf(Usage!FirstOf(t)) = Usage!FirstOf(t)
<1>0. Usage!FirstOf(t) = MonthOf(t) * MonthLen
  BY DEF MonthOf, MonthLen, Usage!FirstOf
<1>1. /\ MonthOf(t) \in Nat /\ Usage!FirstOf(t) \in Nat
      /\ Usage!FirstOf(t) <= t /\ t < Usage!FirstOf(t) + MonthLen
  BY <1>0, Lengths, FloorOf DEF MonthOf
<1>2. MonthOf(Usage!FirstOf(t)) = MonthOf(t)
  <2>1. (MonthOf(t) * MonthLen) \div MonthLen = MonthOf(t)
    BY <1>1, Lengths, FloorOfMultiple
  <2> QED BY <1>0, <2>1 DEF MonthOf
<1>3. Usage!FirstOf(Usage!FirstOf(t)) = MonthOf(Usage!FirstOf(t)) * MonthLen
  BY DEF MonthOf, MonthLen, Usage!FirstOf
<1> QED BY <1>0, <1>1, <1>2, <1>3

LEMMA PeriodsOrdered ==
  ASSUME NEW s \in Nat, NEW t \in Nat, s <= t
  PROVE  /\ DayOf(s) <= DayOf(t) /\ Usage!Midnight(s) <= Usage!Midnight(t)
         /\ MonthOf(s) <= MonthOf(t) /\ Usage!FirstOf(s) <= Usage!FirstOf(t)
<1>1. DayOf(s) <= DayOf(t) /\ Usage!Midnight(s) <= Usage!Midnight(t)
  BY Lengths, FloorOfMonotone DEF DayOf, Usage!Midnight
<1>2. MonthOf(s) <= MonthOf(t) /\ MonthOf(s) * MonthLen <= MonthOf(t) * MonthLen
  BY Lengths, FloorOfMonotone DEF MonthOf
<1> QED BY <1>1, <1>2, Firsts

\* The period after one that has ended.
LEMMA NextMidnight ==
  ASSUME NEW s \in Nat, NEW t \in Nat, s = Usage!Midnight(s), s < Usage!Midnight(t)
  PROVE  /\ s + DayHours <= Usage!Midnight(t)
         /\ Usage!Midnight(s + DayHours) = s + DayHours
         /\ DayOf(s + DayHours) = DayOf(s) + 1
         /\ s + DayHours = (DayOf(s) + 1) * DayHours
<1>1. /\ DayOf(s) \in Nat /\ DayOf(t) \in Nat /\ DayOf(s) + 1 \in Nat
      /\ s = DayOf(s) * DayHours /\ Usage!Midnight(t) = DayOf(t) * DayHours
  BY Midnights
<1>2. DayOf(s) < DayOf(t) /\ (DayOf(s) + 1) * DayHours <= DayOf(t) * DayHours
      /\ (DayOf(s) + 1) * DayHours = DayOf(s) * DayHours + DayHours
  <2>1. DayHours \in Nat \ {0}
    BY Lengths
  <2>2. DayOf(s) * DayHours < DayOf(t) * DayHours
    BY <1>1
  <2> QED BY <1>1, <2>1, <2>2, PeriodEnds, ZenonT(30)
<1>3. ((DayOf(s) + 1) * DayHours) \div DayHours = DayOf(s) + 1
  BY <1>1, Lengths, FloorOfMultiple
<1>4. s + DayHours = (DayOf(s) + 1) * DayHours
  BY <1>1, <1>2
<1>5. DayOf(s + DayHours) = DayOf(s) + 1
  BY <1>3, <1>4 DEF DayOf
<1>6. Usage!Midnight(s + DayHours) = DayOf(s + DayHours) * DayHours
  BY DEF DayOf, Usage!Midnight
<1> QED BY <1>1, <1>2, <1>4, <1>5, <1>6

LEMMA NextFirst ==
  ASSUME NEW s \in Nat, NEW t \in Nat, s = Usage!FirstOf(s), s < Usage!FirstOf(t)
  PROVE  /\ s + MonthLen <= Usage!FirstOf(t)
         /\ Usage!FirstOf(s + MonthLen) = s + MonthLen
         /\ MonthOf(s + MonthLen) = MonthOf(s) + 1
         /\ s + MonthLen = (MonthOf(s) + 1) * MonthLen
<1>1. /\ MonthOf(s) \in Nat /\ MonthOf(t) \in Nat /\ MonthOf(s) + 1 \in Nat
      /\ s = MonthOf(s) * MonthLen /\ Usage!FirstOf(t) = MonthOf(t) * MonthLen
  BY Firsts
<1>2. MonthOf(s) < MonthOf(t) /\ (MonthOf(s) + 1) * MonthLen <= MonthOf(t) * MonthLen
      /\ (MonthOf(s) + 1) * MonthLen = MonthOf(s) * MonthLen + MonthLen
  <2>1. MonthLen \in Nat \ {0}
    BY Lengths
  <2>2. MonthOf(s) * MonthLen < MonthOf(t) * MonthLen
    BY <1>1
  <2> QED BY <1>1, <2>1, <2>2, PeriodEnds, ZenonT(30)
<1>3. ((MonthOf(s) + 1) * MonthLen) \div MonthLen = MonthOf(s) + 1
  BY <1>1, Lengths, FloorOfMultiple
<1>4. s + MonthLen = (MonthOf(s) + 1) * MonthLen
  BY <1>1, <1>2
<1>5. MonthOf(s + MonthLen) = MonthOf(s) + 1
  BY <1>3, <1>4 DEF MonthOf
<1>6. Usage!FirstOf(s + MonthLen) = MonthOf(s + MonthLen) * MonthLen
  BY DEF MonthOf, MonthLen, Usage!FirstOf
<1> QED BY <1>1, <1>2, <1>4, <1>5, <1>6

-----------------------------------------------------------------------------
(* The inductive invariant.  While nothing untoward has happened, each     *)
(* table is right below a limit: the mark of the hours, or where the roll  *)
(* that is under way has got to.                                           *)

\* The marks are of one day and month; a roll began with them.
MarksIdle ==
  /\ marks.hour <= global_last_rollup /\ global_last_rollup <= hour
  /\ ~failed => global_last_rollup = marks.hour

MarksRolling ==
  /\ ~roll.sent /\ roll.last = marks
  /\ global_last_rollup = roll.my_time /\ marks.hour <= roll.my_time /\ roll.my_time <= hour

AtHour == marks.hour <= roll.at /\ roll.at <= roll.my_time /\ roll.till = roll.my_time
AtDay  == /\ roll.at = Usage!Midnight(roll.at) /\ Usage!Midnight(marks.hour) <= roll.at
          /\ roll.at <= roll.till /\ roll.till = Usage!Midnight(roll.my_time)
AtMonth == /\ roll.at = Usage!FirstOf(roll.at) /\ Usage!FirstOf(marks.hour) <= roll.at
           /\ roll.at <= roll.till /\ roll.till = Usage!FirstOf(roll.my_time)

MarksInv ==
  /\ marks.hour <= hour
  /\ Usage!Midnight(marks.day) = Usage!Midnight(marks.hour)
  /\ Usage!FirstOf(marks.month) = Usage!FirstOf(marks.hour)
  /\ roll.level = "idle" => MarksIdle
  /\ roll.level # "idle" => MarksRolling
  /\ roll.level = "hour" => AtHour
  /\ roll.level = "day" => AtDay
  /\ roll.level = "month" => AtMonth

HourLimit == IF roll.level = "idle" THEN marks.hour
             ELSE IF roll.level = "hour" THEN roll.at ELSE roll.my_time
DayLimit == DayOf(IF roll.level \in {"idle", "hour"} THEN marks.hour
                  ELSE IF roll.level = "day" THEN roll.at ELSE roll.my_time)
MonthLimit == MonthOf(IF roll.level = "month" THEN roll.at ELSE marks.hour)

HoursInv == \A a \in Usage!Assocs : \A h \in 0..HC-1 : h < HourLimit => used[a][h] \in {0, hours[a][h]}

HoursOf(a, len, d) == Usage!SumIn(hours[a], HC, 1, d * len, (d + 1) * len)
DaysInv == \A a \in Usage!Assocs : \A d \in 0..DC-1 :
             d < DayLimit => days[a][d] = HoursOf(a, DayHours, d)
MonthsInv == \A a \in Usage!Assocs : \A m \in 0..Months-1 :
               m < MonthLimit => months[a][m] = HoursOf(a, MonthLen, m)

UsageInv == UsageTypes /\ (mishaps = {} => MarksInv /\ HoursInv /\ DaysInv /\ MonthsInv)

LEMMA NoMishap ==
  ASSUME Usage!Next \/ UNCHANGED usageVars
  PROVE  mishaps' = {} => mishaps = {}
BY DEF Usage!Next, Usage!Tick, Usage!JobCall, Usage!RollBegin, Usage!RollUsage, Usage!RollManually,
       Usage!Mishap, Usage!RollHour, Usage!RollDay, Usage!RollMonth, Usage!NextLevel, Usage!RollDone,
       Usage!RollFail, Usage!Restart, usageVars

Numbers ==
  /\ hour \in Nat /\ global_last_rollup \in Nat
  /\ marks.hour \in Nat /\ marks.day \in Nat /\ marks.month \in Nat
  /\ roll.at \in Nat /\ roll.till \in Nat /\ roll.my_time \in Nat
  /\ HourLimit \in Nat /\ DayLimit \in Nat /\ MonthLimit \in Nat

LEMMA NumbersAre == UsageTypes => Numbers
<1> SUFFICES ASSUME UsageTypes PROVE Numbers
  OBVIOUS
<1>1. hour \in Nat /\ global_last_rollup \in Nat
  BY Lengths DEF UsageTypes
<1>2. marks.hour \in Nat /\ marks.day \in Nat /\ marks.month \in Nat
  BY DEF UsageTypes, MarksRec
<1>3. roll.at \in Nat /\ roll.till \in Nat /\ roll.my_time \in Nat
  BY DEF UsageTypes, RollRec
<1>4. HourLimit \in Nat
  BY <1>2, <1>3 DEF HourLimit
<1>5. DayLimit \in Nat
  BY <1>2, <1>3, Midnights DEF DayLimit
<1>6. MonthLimit \in Nat
  BY <1>2, <1>3, Firsts DEF MonthLimit
<1> QED BY <1>1, <1>2, <1>3, <1>4, <1>5, <1>6 DEF Numbers

LEMMA NumbersNext == UsageTypes' => Numbers'
BY NumbersAre, PTL

\* The steps that touch no table and raise no limit.
Steady ==
  /\ UNCHANGED <<hours, days, months>>
  /\ HourLimit' <= HourLimit /\ DayLimit' <= DayLimit /\ MonthLimit' <= MonthLimit
  /\ \A a \in Usage!Assocs : \A h \in 0..HC-1 : h < HourLimit' => used'[a][h] = used[a][h]

LEMMA SteadyKeeps ==
  ASSUME UsageTypes, UsageTypes', HoursInv, DaysInv, MonthsInv, Steady
  PROVE  (HoursInv /\ DaysInv /\ MonthsInv)'
<1>1. /\ HourLimit \in Nat /\ DayLimit \in Nat /\ MonthLimit \in Nat
      /\ HourLimit' \in Nat /\ DayLimit' \in Nat /\ MonthLimit' \in Nat
  BY NumbersAre, NumbersNext DEF Numbers
<1>2. HC \in Nat /\ DC \in Nat /\ Months \in Nat
  BY Lengths
<1>3. HoursInv'
  <2> SUFFICES ASSUME NEW a \in Usage!Assocs, NEW h \in 0..HC-1, h < HourLimit'
               PROVE  used'[a][h] \in {0, hours'[a][h]}
    BY DEF HoursInv
  <2>1. h < HourLimit
    BY <1>1, <1>2 DEF Steady
  <2>2. used[a][h] \in {0, hours[a][h]}
    BY <2>1 DEF HoursInv
  <2> QED BY <2>2 DEF Steady
<1>4. DaysInv'
  <2> SUFFICES ASSUME NEW a \in Usage!Assocs, NEW d \in 0..DC-1, d < DayLimit'
               PROVE  days'[a][d] = HoursOf(a, DayHours, d)'
    BY DEF DaysInv
  <2>1. d < DayLimit
    BY <1>1, <1>2 DEF Steady
  <2>2. days[a][d] = HoursOf(a, DayHours, d)
    BY <2>1 DEF DaysInv
  <2> QED BY <2>2 DEF Steady, HoursOf
<1>5. MonthsInv'
  <2> SUFFICES ASSUME NEW a \in Usage!Assocs, NEW m \in 0..Months-1, m < MonthLimit'
               PROVE  months'[a][m] = HoursOf(a, MonthLen, m)'
    BY DEF MonthsInv
  <2>1. m < MonthLimit
    BY <1>1, <1>2 DEF Steady
  <2>2. months[a][m] = HoursOf(a, MonthLen, m)
    BY <2>1 DEF MonthsInv
  <2> QED BY <2>2 DEF Steady, HoursOf
<1> QED BY <1>3, <1>4, <1>5

Kept == MarksInv' /\ Steady

LEMMA TickKeeps ==
  ASSUME UsageTypes, MarksInv, Usage!Tick PROVE Kept
<1>1. Numbers
  BY NumbersAre
<1>2. MarksInv'
  BY <1>1 DEF Usage!Tick, MarksInv, MarksIdle, MarksRolling, AtHour, AtDay, AtMonth, Numbers
<1>3. Steady
  BY <1>1 DEF Usage!Tick, Steady, HourLimit, DayLimit, MonthLimit, Numbers
<1> QED BY <1>2, <1>3 DEF Kept

LEMMA JobCallKeeps ==
  ASSUME UsageTypes, MarksInv, mishaps' = {},
         NEW a \in Users, NEW h \in 0..hour, NEW s \in Amounts, Usage!JobCall(a, h, s)
  PROVE  Kept
<1>1. Numbers /\ h \in Nat
  BY NumbersAre DEF Numbers
<1>2. roll.level = "idle" /\ roll' = roll /\ failed' = failed /\ hour' = hour
  BY DEF Usage!JobCall, Usage!Idle
<1>3. MarksIdle
  BY <1>2 DEF MarksInv
<1>4. CASE h < global_last_rollup
  <2>1. /\ global_last_rollup' = h
        /\ marks'.hour = h /\ marks'.day = h /\ marks'.month = h
    BY <1>4 DEF Usage!JobCall, Usage!ResetMarks
  <2>2. ~failed
    BY <1>4 DEF Usage!JobCall
  <2>3. h < marks.hour
    BY <1>3, <1>4, <2>2 DEF MarksIdle
  <2>4. MarksInv'
    BY <1>1, <1>2, <2>1 DEF MarksInv, MarksIdle
  <2>5. HourLimit' = h /\ HourLimit = marks.hour
    BY <1>2, <2>1 DEF HourLimit
  <2>6. DayLimit' = DayOf(h) /\ DayLimit = DayOf(marks.hour)
    BY <1>2, <2>1 DEF DayLimit
  <2>7. MonthLimit' = MonthOf(h) /\ MonthLimit = MonthOf(marks.hour)
    BY <1>2, <2>1 DEF MonthLimit
  <2>8. h <= marks.hour /\ marks.hour \in Nat
    BY <1>1, <2>3 DEF Numbers
  <2>9. HourLimit' <= HourLimit /\ DayLimit' <= DayLimit /\ MonthLimit' <= MonthLimit
    BY <1>1, <2>5, <2>6, <2>7, <2>8, PeriodsOrdered
  <2>10. ASSUME NEW b \in Usage!Assocs, NEW k \in 0..HC-1, k < HourLimit'
         PROVE  used'[b][k] = used[b][k]
    <3>1. k # h
      BY <2>5, <2>10, <1>1, Lengths
    <3>2. used' = [used EXCEPT ![a][h] = s]
      BY DEF Usage!JobCall
    <3> QED BY <3>1, <3>2 DEF UsageTypes, UsageRow
  <2>11. UNCHANGED <<hours, days, months>>
    BY DEF Usage!JobCall
  <2> QED BY <2>4, <2>9, <2>10, <2>11 DEF Kept, Steady
<1>5. CASE ~(h < global_last_rollup)
  <2>1. UNCHANGED <<global_last_rollup, marks>>
    BY <1>5 DEF Usage!JobCall
  <2>2. MarksInv'
    BY <1>2, <2>1 DEF MarksInv, MarksIdle
  <2>3. HourLimit' = HourLimit /\ DayLimit' = DayLimit /\ MonthLimit' = MonthLimit
    BY <1>2, <2>1 DEF HourLimit, DayLimit, MonthLimit
  <2>4. HourLimit' <= h
    BY <1>1, <1>2, <1>3, <1>5, <2>1 DEF HourLimit, MarksIdle, Numbers
  <2>5. ASSUME NEW b \in Usage!Assocs, NEW k \in 0..HC-1, k < HourLimit'
        PROVE  used'[b][k] = used[b][k]
    <3>1. k # h
      BY <1>1, <2>3, <2>4, <2>5, Lengths DEF Numbers
    <3>2. used' = [used EXCEPT ![a][h] = s]
      BY DEF Usage!JobCall
    <3> QED BY <3>1, <3>2 DEF UsageTypes, UsageRow
  <2>6. UNCHANGED <<hours, days, months>>
    BY DEF Usage!JobCall
  <2>7. HourLimit' <= HourLimit /\ DayLimit' <= DayLimit /\ MonthLimit' <= MonthLimit
    BY <1>1, <2>3 DEF Numbers
  <2> QED BY <2>2, <2>5, <2>6, <2>7 DEF Kept, Steady
<1> QED BY <1>4, <1>5

LEMMA RollUsageKeeps ==
  ASSUME UsageTypes, MarksInv, Usage!RollUsage PROVE Kept
<1>1. Numbers
  BY NumbersAre
<1>2. /\ roll.level = "idle" /\ marks' = marks /\ hour' = hour
      /\ global_last_rollup' = hour
      /\ roll' = [level |-> "hour", at |-> marks.hour, till |-> hour, last |-> marks,
                  my_time |-> hour, sent |-> FALSE]
  BY DEF Usage!RollUsage, Usage!RollBegin, Usage!Idle
<1>3. MarksInv'
  BY <1>1, <1>2 DEF MarksInv, MarksRolling, AtHour, Numbers
<1>4. HourLimit' = HourLimit /\ DayLimit' = DayLimit /\ MonthLimit' = MonthLimit
  BY <1>2 DEF HourLimit, DayLimit, MonthLimit
<1>5. UNCHANGED <<used, hours, days, months>>
  BY DEF Usage!RollUsage, Usage!RollBegin
<1> QED BY <1>1, <1>3, <1>4, <1>5 DEF Kept, Steady, Numbers

LEMMA NextLevelKeeps ==
  ASSUME UsageTypes, MarksInv, Usage!NextLevel PROVE Kept
<1>1. Numbers
  BY NumbersAre
<1>2. roll.level \in {"hour", "day"} /\ roll.at >= roll.till
  BY DEF Usage!NextLevel
<1>3. MarksRolling
  BY <1>2 DEF MarksInv
<1>4. UNCHANGED <<hour, used, hours, days, months, marks, global_last_rollup, failed>>
  BY DEF Usage!NextLevel
<1>5. /\ marks.hour \in Nat /\ roll.my_time \in Nat /\ marks.hour <= roll.my_time
  BY <1>1, <1>3 DEF Numbers, MarksRolling
<1>6. CASE roll.level = "hour"
  <2>1. AtHour
    BY <1>6 DEF MarksInv
  <2>2. roll' = [roll EXCEPT !.level = "day", !.at = Usage!Midnight(roll.last.day),
                             !.till = Usage!Midnight(roll.my_time)]
    BY <1>6 DEF Usage!NextLevel
  <2>3. /\ roll'.level = "day" /\ roll'.at = Usage!Midnight(marks.hour)
        /\ roll'.till = Usage!Midnight(roll.my_time) /\ roll'.my_time = roll.my_time
        /\ roll'.last = roll.last /\ roll'.sent = roll.sent
    <3>1. Usage!Midnight(roll.last.day) = Usage!Midnight(marks.hour)
      BY <1>3 DEF MarksInv, MarksRolling
    <3> QED BY <2>2, <3>1 DEF UsageTypes, RollRec
  <2>4. MarksRolling'
    BY <1>3, <1>4, <2>3 DEF MarksRolling
  <2>5. AtDay'
    <3>1. /\ Usage!Midnight(marks.hour) <= Usage!Midnight(roll.my_time)
          /\ Usage!Midnight(Usage!Midnight(marks.hour)) = Usage!Midnight(marks.hour)
          /\ Usage!Midnight(marks.hour) \in Nat
      BY <1>5, Midnights, PeriodsOrdered
    <3> QED BY <1>4, <2>3, <3>1 DEF AtDay
  <2>6. MarksInv'
    BY <1>4, <2>3, <2>4, <2>5 DEF MarksInv
  <2>7. roll.at = roll.my_time
    BY <1>1, <1>2, <2>1 DEF AtHour, Numbers
  <2>8. HourLimit' = HourLimit
    BY <1>6, <2>3, <2>7 DEF HourLimit
  <2>9. DayLimit' = DayLimit
    <3>1. DayLimit' = DayOf(Usage!Midnight(marks.hour)) /\ DayLimit = DayOf(marks.hour)
      BY <1>6, <2>3 DEF DayLimit
    <3> QED BY <1>5, <3>1, Midnights
  <2>10. MonthLimit' = MonthLimit
    BY <1>4, <1>6, <2>3 DEF MonthLimit
  <2> QED BY <1>1, <1>4, <2>6, <2>8, <2>9, <2>10 DEF Kept, Steady, Numbers
<1>7. CASE roll.level = "day"
  <2>1. AtDay
    BY <1>7 DEF MarksInv
  <2>2. roll' = [roll EXCEPT !.level = "month", !.at = Usage!FirstOf(roll.last.month),
                             !.till = Usage!FirstOf(roll.my_time)]
    BY <1>7 DEF Usage!NextLevel
  <2>3. /\ roll'.level = "month" /\ roll'.at = Usage!FirstOf(marks.hour)
        /\ roll'.till = Usage!FirstOf(roll.my_time) /\ roll'.my_time = roll.my_time
        /\ roll'.last = roll.last /\ roll'.sent = roll.sent
    <3>1. Usage!FirstOf(roll.last.month) = Usage!FirstOf(marks.hour)
      BY <1>3 DEF MarksInv, MarksRolling
    <3> QED BY <2>2, <3>1 DEF UsageTypes, RollRec
  <2>4. MarksRolling'
    BY <1>3, <1>4, <2>3 DEF MarksRolling
  <2>5. AtMonth'
    <3>1. /\ Usage!FirstOf(marks.hour) <= Usage!FirstOf(roll.my_time)
          /\ Usage!FirstOf(Usage!FirstOf(marks.hour)) = Usage!FirstOf(marks.hour)
          /\ Usage!FirstOf(marks.hour) \in Nat
      BY <1>5, Firsts, PeriodsOrdered
    <3> QED BY <1>4, <2>3, <3>1 DEF AtMonth
  <2>6. MarksInv'
    BY <1>4, <2>3, <2>4, <2>5 DEF MarksInv
  <2>7. roll.at = Usage!Midnight(roll.my_time)
    BY <1>1, <1>2, <2>1 DEF AtDay, Numbers
  <2>8. HourLimit' = HourLimit
    BY <1>7, <2>3 DEF HourLimit
  <2>9. DayLimit' = DayLimit
    <3>1. DayLimit' = DayOf(roll.my_time) /\ DayLimit = DayOf(roll.at)
      BY <1>7, <2>3 DEF DayLimit
    <3> QED BY <1>5, <2>7, <3>1, Midnights
  <2>10. MonthLimit' = MonthLimit
    <3>1. MonthLimit' = MonthOf(Usage!FirstOf(marks.hour)) /\ MonthLimit = MonthOf(marks.hour)
      BY <1>7, <2>3 DEF MonthLimit
    <3> QED BY <1>5, <3>1, Firsts
  <2> QED BY <1>1, <1>4, <2>6, <2>8, <2>9, <2>10 DEF Kept, Steady, Numbers
<1> QED BY <1>2, <1>6, <1>7

LEMMA RollDoneKeeps ==
  ASSUME UsageTypes, MarksInv, Usage!RollDone PROVE Kept
<1>1. Numbers
  BY NumbersAre
<1> DEFINE t == roll.my_time
<1>2. roll.level = "month" /\ roll.at >= roll.till
  BY DEF Usage!RollDone
<1>3. MarksRolling /\ AtMonth
  BY <1>2 DEF MarksInv
<1>4. /\ UNCHANGED <<hour, used, hours, days, months, global_last_rollup>>
      /\ roll' = Usage!Idle /\ roll'.level = "idle" /\ failed' = FALSE
  BY DEF Usage!RollDone, Usage!Idle
<1>5. /\ t \in Nat /\ marks.hour \in Nat /\ marks.day \in Nat /\ marks.month \in Nat
      /\ marks.hour <= t /\ t <= hour /\ roll.last = marks /\ ~roll.sent
      /\ global_last_rollup = t
  BY <1>1, <1>3 DEF Numbers, MarksRolling
<1>6. /\ Usage!Midnight(marks.day) <= Usage!Midnight(t) /\ Usage!Midnight(marks.day) \in Nat
      /\ Usage!Midnight(t) \in Nat
      /\ Usage!FirstOf(marks.month) <= Usage!FirstOf(t) /\ Usage!FirstOf(marks.month) \in Nat
      /\ Usage!FirstOf(t) \in Nat
  <2>1. /\ Usage!Midnight(marks.hour) <= Usage!Midnight(t)
        /\ Usage!FirstOf(marks.hour) <= Usage!FirstOf(t)
    BY <1>5, PeriodsOrdered
  <2>2. /\ Usage!Midnight(marks.hour) \in Nat /\ Usage!Midnight(t) \in Nat
        /\ Usage!FirstOf(marks.hour) \in Nat /\ Usage!FirstOf(t) \in Nat
    BY <1>5, Midnights, Firsts
  <2> QED BY <2>1, <2>2 DEF MarksInv
<1>7. /\ marks'.hour = IF t > marks.hour THEN t ELSE marks.hour
      /\ marks'.day = IF Usage!Midnight(t) > Usage!Midnight(marks.day)
                      THEN Usage!Midnight(t) ELSE marks.day
      /\ marks'.month = IF Usage!FirstOf(t) > Usage!FirstOf(marks.month)
                        THEN Usage!FirstOf(t) ELSE marks.month
  BY <1>5 DEF Usage!RollDone
<1>8. marks'.hour = t
  BY <1>5, <1>7
<1>9. Usage!Midnight(marks'.day) = Usage!Midnight(t)
  BY <1>5, <1>6, <1>7, Midnights
<1>10. Usage!FirstOf(marks'.month) = Usage!FirstOf(t)
  BY <1>5, <1>6, <1>7, Firsts
<1>11. MarksIdle'
  BY <1>4, <1>5, <1>8 DEF MarksIdle
<1>12. MarksInv'
  BY <1>4, <1>5, <1>8, <1>9, <1>10, <1>11 DEF MarksInv
<1>13. HourLimit' = HourLimit
  BY <1>2, <1>4, <1>8 DEF HourLimit
<1>14. DayLimit' = DayLimit
  BY <1>2, <1>4, <1>8 DEF DayLimit
<1>15. MonthLimit' = MonthLimit
  <2>1. MonthLimit' = MonthOf(t) /\ MonthLimit = MonthOf(roll.at)
    BY <1>2, <1>4, <1>8 DEF MonthLimit
  <2>2. roll.at = Usage!FirstOf(t)
    BY <1>1, <1>2, <1>3 DEF AtMonth, Numbers
  <2> QED BY <1>5, <2>1, <2>2, Firsts
<1> QED BY <1>1, <1>4, <1>12, <1>13, <1>14, <1>15 DEF Kept, Steady, Numbers

LEMMA RollFailKeeps ==
  ASSUME UsageTypes, MarksInv, Usage!RollFail PROVE Kept
<1>1. Numbers
  BY NumbersAre
<1>2. roll.level \in {"hour", "day", "month"}
  BY DEF Usage!RollFail, Usage!Working
<1>3. MarksRolling
  BY <1>2 DEF MarksInv
<1>4. /\ UNCHANGED <<hour, used, hours, days, months, marks, global_last_rollup>>
      /\ roll' = Usage!Idle /\ roll'.level = "idle" /\ failed' = TRUE
  BY DEF Usage!RollFail, Usage!Idle
<1>5. /\ marks.hour \in Nat /\ roll.my_time \in Nat /\ roll.at \in Nat
      /\ marks.hour <= roll.my_time /\ roll.my_time <= hour /\ global_last_rollup = roll.my_time
  BY <1>1, <1>3 DEF Numbers, MarksRolling
<1>6. MarksInv'
  BY <1>4, <1>5 DEF MarksInv, MarksIdle
<1>7. /\ HourLimit' = marks.hour /\ DayLimit' = DayOf(marks.hour)
      /\ MonthLimit' = MonthOf(marks.hour)
  BY <1>4 DEF HourLimit, DayLimit, MonthLimit
<1>8. CASE roll.level = "hour"
  <2>1. HourLimit = roll.at /\ DayLimit = DayOf(marks.hour) /\ MonthLimit = MonthOf(marks.hour)
    BY <1>8 DEF HourLimit, DayLimit, MonthLimit
  <2>2. marks.hour <= roll.at
    BY <1>8 DEF MarksInv, AtHour
  <2> QED BY <1>1, <1>4, <1>6, <1>7, <2>1, <2>2 DEF Kept, Steady, Numbers
<1>9. CASE roll.level = "day"
  <2>1. HourLimit = roll.my_time /\ DayLimit = DayOf(roll.at) /\ MonthLimit = MonthOf(marks.hour)
    BY <1>9 DEF HourLimit, DayLimit, MonthLimit
  <2>2. Usage!Midnight(marks.hour) <= roll.at
    BY <1>9 DEF MarksInv, AtDay
  <2>3. DayOf(marks.hour) <= DayOf(roll.at)
    <3>1. Usage!Midnight(marks.hour) \in Nat /\ DayOf(Usage!Midnight(marks.hour)) = DayOf(marks.hour)
      BY <1>5, Midnights
    <3>2. DayOf(Usage!Midnight(marks.hour)) <= DayOf(roll.at)
      BY <1>5, <2>2, <3>1, PeriodsOrdered
    <3> QED BY <3>1, <3>2
  <2> QED BY <1>1, <1>4, <1>5, <1>6, <1>7, <2>1, <2>3 DEF Kept, Steady, Numbers
<1>10. CASE roll.level = "month"
  <2>1. HourLimit = roll.my_time /\ DayLimit = DayOf(roll.my_time) /\ MonthLimit = MonthOf(roll.at)
    BY <1>10 DEF HourLimit, DayLimit, MonthLimit
  <2>2. Usage!FirstOf(marks.hour) <= roll.at
    BY <1>10 DEF MarksInv, AtMonth
  <2>3. MonthOf(marks.hour) <= MonthOf(roll.at)
    <3>1. Usage!FirstOf(marks.hour) \in Nat /\ MonthOf(Usage!FirstOf(marks.hour)) = MonthOf(marks.hour)
      BY <1>5, Firsts
    <3>2. MonthOf(Usage!FirstOf(marks.hour)) <= MonthOf(roll.at)
      BY <1>5, <2>2, <3>1, PeriodsOrdered
    <3> QED BY <3>1, <3>2
  <2>4. DayOf(marks.hour) <= DayOf(roll.my_time)
    BY <1>5, PeriodsOrdered
  <2> QED BY <1>1, <1>4, <1>5, <1>6, <1>7, <2>1, <2>3, <2>4 DEF Kept, Steady, Numbers
<1> QED BY <1>2, <1>8, <1>9, <1>10

LEMMA StutterKeeps ==
  ASSUME UsageTypes, MarksInv, UNCHANGED usageVars PROVE Kept
<1>1. Numbers
  BY NumbersAre
<1>2. UNCHANGED <<hour, used, hours, days, months, marks, global_last_rollup, roll, failed>>
  BY DEF usageVars
<1>3. MarksInv'
  BY <1>2 DEF MarksInv, MarksIdle, MarksRolling, AtHour, AtDay, AtMonth
<1>4. HourLimit' = HourLimit /\ DayLimit' = DayLimit /\ MonthLimit' = MonthLimit
  BY <1>2 DEF HourLimit, DayLimit, MonthLimit
<1> QED BY <1>1, <1>2, <1>3, <1>4 DEF Kept, Steady, Numbers

-----------------------------------------------------------------------------
(* The turns of the roll-ups.                                              *)

\* Sums of the hours before a time at which an hour is rolled.
LEMMA HoursBefore ==
  ASSUME UsageTypes, Usage!RollHour, NEW a \in Usage!Assocs, NEW len \in Nat, NEW d \in Nat,
         (d + 1) * len \in Nat, d * len \in Nat, (d + 1) * len <= roll.at
  PROVE  HoursOf(a, len, d)' = HoursOf(a, len, d)
<1>1. roll.at \in Nat
  BY NumbersAre DEF Numbers
<1>2. HC \in Nat
  BY Lengths
<1>3. ASSUME NEW k \in 0..HC-1, d * len <= k * 1 /\ k * 1 < (d + 1) * len
      PROVE  hours'[a][k] = hours[a][k]
  <2>1. k # roll.at
    BY <1>1, <1>2, <1>3
  <2>2. hours'[a] = Usage!RolledHour(hours[a], used[a][roll.at], roll.at)
    BY DEF Usage!RollHour
  <2>3. hours[a] \in [0..HC-1 -> Nat]
    BY DEF UsageTypes, UsageRow
  <2> QED BY <2>1, <2>2, <2>3 DEF Usage!RolledHour
<1>4. Usage!SumIn(hours'[a], HC, 1, d * len, (d + 1) * len)
        = Usage!SumIn(hours[a], HC, 1, d * len, (d + 1) * len)
  BY <1>2, <1>3, SumInSame
<1> QED BY <1>4 DEF HoursOf

LEMMA RollHourKeeps ==
  ASSUME UsageTypes, UsageTypes', MarksInv, HoursInv, DaysInv, MonthsInv, Usage!RollHour
  PROVE  (MarksInv /\ HoursInv /\ DaysInv /\ MonthsInv)'
<1>1. Numbers /\ HC \in Nat /\ DC \in Nat /\ Months \in Nat
  BY NumbersAre, Lengths
<1>2. roll.level = "hour" /\ roll.at < roll.till
  BY DEF Usage!RollHour, Usage!Working
<1>3. MarksRolling /\ AtHour
  BY <1>2 DEF MarksInv
<1>4. UNCHANGED <<hour, used, days, months, marks, global_last_rollup, failed>>
  BY DEF Usage!RollHour
<1>5. /\ roll'.level = "hour" /\ roll'.at = roll.at + 1 /\ roll'.till = roll.till
      /\ roll'.my_time = roll.my_time /\ roll'.last = roll.last /\ roll'.sent = roll.sent
  BY <1>2 DEF Usage!RollHour, UsageTypes, RollRec
<1>6. MarksInv'
  <2>1. MarksRolling'
    BY <1>3, <1>4, <1>5 DEF MarksRolling
  <2>2. AtHour'
    BY <1>1, <1>2, <1>3, <1>4, <1>5 DEF AtHour, Numbers
  <2> QED BY <1>4, <1>5, <2>1, <2>2 DEF MarksInv
<1>7. /\ HourLimit = roll.at /\ HourLimit' = roll.at + 1
      /\ DayLimit' = DayLimit /\ DayLimit = DayOf(marks.hour)
      /\ MonthLimit' = MonthLimit /\ MonthLimit = MonthOf(marks.hour)
  BY <1>2, <1>4, <1>5 DEF HourLimit, DayLimit, MonthLimit
<1>8. HoursInv'
  <2> SUFFICES ASSUME NEW a \in Usage!Assocs, NEW h \in 0..HC-1, h < HourLimit'
               PROVE  used'[a][h] \in {0, hours'[a][h]}
    BY DEF HoursInv
  <2>1. hours'[a] = Usage!RolledHour(hours[a], used[a][roll.at], roll.at)
    BY DEF Usage!RollHour
  <2>2. hours[a] \in [0..HC-1 -> Nat]
    BY DEF UsageTypes, UsageRow
  <2>3. CASE h = roll.at
    BY <1>4, <2>1, <2>2, <2>3 DEF Usage!RolledHour
  <2>4. CASE h # roll.at
    <3>1. h < HourLimit
      BY <1>1, <1>7, <2>4 DEF Numbers
    <3>2. used[a][h] \in {0, hours[a][h]}
      BY <3>1 DEF HoursInv
    <3> QED BY <1>4, <2>1, <2>2, <2>4, <3>2 DEF Usage!RolledHour
  <2> QED BY <2>3, <2>4
<1>9. marks.hour \in Nat /\ marks.hour <= roll.at /\ roll.at \in Nat
  BY <1>1, <1>3 DEF AtHour, Numbers
<1>10. DaysInv'
  <2> SUFFICES ASSUME NEW a \in Usage!Assocs, NEW d \in 0..DC-1, d < DayLimit'
               PROVE  days'[a][d] = HoursOf(a, DayHours, d)'
    BY DEF DaysInv
  <2>1. d < DayLimit /\ d \in Nat
    BY <1>1, <1>7
  <2>2. days[a][d] = HoursOf(a, DayHours, d)
    BY <2>1 DEF DaysInv
  <2>3. /\ (d + 1) * DayHours <= DayOf(marks.hour) * DayHours
        /\ DayOf(marks.hour) * DayHours <= marks.hour /\ DayOf(marks.hour) \in Nat
    <3>1. /\ DayOf(marks.hour) \in Nat /\ DayOf(marks.hour) * DayHours <= marks.hour
          /\ d < DayOf(marks.hour)
      BY <1>7, <1>9, <2>1, Midnights
    <3>2. d \in Int /\ DayOf(marks.hour) \in Int /\ DayHours \in Nat \ {0}
      BY <2>1, <3>1, Lengths
    <3>3. d < DayOf(marks.hour) => (d + 1) * DayHours <= DayOf(marks.hour) * DayHours
      BY <3>2, Multiples
    <3> QED BY <3>1, <3>3
  <2>4. DayHours \in Nat /\ (d + 1) * DayHours \in Nat /\ d * DayHours \in Nat
        /\ DayOf(marks.hour) * DayHours \in Nat
    BY <2>1, <2>3, Lengths
  <2>5. (d + 1) * DayHours <= roll.at
    BY <1>9, <2>3, <2>4
  <2> QED BY <1>4, <2>1, <2>2, <2>4, <2>5, HoursBefore
<1>11. MonthsInv'
  <2> SUFFICES ASSUME NEW a \in Usage!Assocs, NEW m \in 0..Months-1, m < MonthLimit'
               PROVE  months'[a][m] = HoursOf(a, MonthLen, m)'
    BY DEF MonthsInv
  <2>1. m < MonthLimit /\ m \in Nat
    BY <1>1, <1>7
  <2>2. months[a][m] = HoursOf(a, MonthLen, m)
    BY <2>1 DEF MonthsInv
  <2>3. /\ (m + 1) * MonthLen <= MonthOf(marks.hour) * MonthLen
        /\ MonthOf(marks.hour) * MonthLen <= marks.hour /\ MonthOf(marks.hour) \in Nat
    <3>1. /\ MonthOf(marks.hour) \in Nat /\ MonthOf(marks.hour) * MonthLen <= marks.hour
          /\ m < MonthOf(marks.hour)
      BY <1>7, <1>9, <2>1, Firsts
    <3>2. m \in Int /\ MonthOf(marks.hour) \in Int /\ MonthLen \in Nat \ {0}
      BY <2>1, <3>1, Lengths
    <3>3. m < MonthOf(marks.hour) => (m + 1) * MonthLen <= MonthOf(marks.hour) * MonthLen
      BY <3>2, Multiples
    <3> QED BY <3>1, <3>3
  <2>4. MonthLen \in Nat /\ (m + 1) * MonthLen \in Nat /\ m * MonthLen \in Nat
        /\ MonthOf(marks.hour) * MonthLen \in Nat
    BY <2>1, <2>3, Lengths
  <2>5. (m + 1) * MonthLen <= roll.at
    BY <1>9, <2>3, <2>4
  <2> QED BY <1>4, <2>1, <2>2, <2>4, <2>5, HoursBefore
<1> QED BY <1>6, <1>8, <1>10, <1>11

LEMMA RollDayKeeps ==
  ASSUME UsageTypes, UsageTypes', MarksInv, HoursInv, DaysInv, MonthsInv, Usage!RollDay
  PROVE  (MarksInv /\ HoursInv /\ DaysInv /\ MonthsInv)'
<1>1. Numbers /\ HC \in Nat /\ DC \in Nat /\ Months \in Nat /\ HC = Usage!HourCount
  BY NumbersAre, Lengths DEF HC
<1>2. roll.level = "day" /\ roll.at < roll.till
  BY DEF Usage!RollDay, Usage!Working
<1>3. MarksRolling /\ AtDay
  BY <1>2 DEF MarksInv
<1>4. UNCHANGED <<hour, used, hours, months, marks, global_last_rollup, failed>>
  BY DEF Usage!RollDay
<1>5. /\ roll'.level = "day" /\ roll'.at = roll.at + DayHours /\ roll'.till = roll.till
      /\ roll'.my_time = roll.my_time /\ roll'.last = roll.last /\ roll'.sent = roll.sent
  BY <1>2 DEF Usage!RollDay, UsageTypes, RollRec
<1>6. /\ roll.at \in Nat /\ roll.my_time \in Nat /\ roll.at < Usage!Midnight(roll.my_time)
      /\ roll.at = Usage!Midnight(roll.at)
  BY <1>1, <1>2, <1>3 DEF AtDay, Numbers
<1>7. /\ roll.at + DayHours <= Usage!Midnight(roll.my_time)
      /\ Usage!Midnight(roll.at + DayHours) = roll.at + DayHours
      /\ DayOf(roll.at + DayHours) = DayOf(roll.at) + 1
      /\ roll.at + DayHours = (DayOf(roll.at) + 1) * DayHours
      /\ roll.at = DayOf(roll.at) * DayHours /\ DayOf(roll.at) \in Nat
  BY <1>6, NextMidnight, Midnights
<1>8. MarksInv'
  <2>1. MarksRolling'
    BY <1>3, <1>4, <1>5 DEF MarksRolling
  <2>2. Usage!Midnight(marks.hour) \in Nat /\ DayHours \in Nat
    BY <1>1, Midnights, Lengths DEF Numbers
  <2>3. AtDay'
    BY <1>1, <1>3, <1>4, <1>5, <1>7, <2>2 DEF AtDay, Numbers
  <2> QED BY <1>4, <1>5, <2>1, <2>3 DEF MarksInv
<1>9. /\ HourLimit' = HourLimit /\ DayLimit = DayOf(roll.at) /\ DayLimit' = DayOf(roll.at) + 1
      /\ MonthLimit' = MonthLimit
  BY <1>2, <1>4, <1>5, <1>7 DEF HourLimit, DayLimit, MonthLimit
<1>10. HoursInv'
  BY <1>4, <1>9 DEF HoursInv
<1>11. MonthsInv'
  BY <1>4, <1>9 DEF MonthsInv, HoursOf
<1>12. DaysInv'
  <2> SUFFICES ASSUME NEW a \in Usage!Assocs, NEW d \in 0..DC-1, d < DayLimit'
               PROVE  days'[a][d] = HoursOf(a, DayHours, d)
    BY <1>4 DEF DaysInv, HoursOf
  <2>1. days'[a] = [days[a] EXCEPT ![DayOf(roll.at)] =
                      Usage!SumIn(hours[a], HC, 1, roll.at, roll.at + DayHours)]
    BY <1>1 DEF Usage!RollDay, DayOf
  <2>2. days[a] \in [0..DC-1 -> Nat]
    BY DEF UsageTypes, UsageRow
  <2>3. CASE d = DayOf(roll.at)
    BY <1>7, <2>1, <2>2, <2>3 DEF HoursOf
  <2>4. CASE d # DayOf(roll.at)
    <3>1. d < DayLimit
      BY <1>1, <1>7, <1>9, <2>4
    <3>2. days[a][d] = HoursOf(a, DayHours, d)
      BY <3>1 DEF DaysInv
    <3> QED BY <2>1, <2>2, <2>4, <3>2
  <2> QED BY <2>3, <2>4
<1> QED BY <1>8, <1>10, <1>11, <1>12

\* The days of a month that has ended add up to its hours.
LEMMA MonthAddsUp ==
  ASSUME UsageTypes, DaysInv, NEW a \in Usage!Assocs, NEW m \in Nat,
         (m + 1) * MonthLen <= hour, (m + 1) * MonthDays <= DayLimit
  PROVE  Usage!SumIn(days[a], DC, DayHours, m * MonthLen, (m + 1) * MonthLen)
           = HoursOf(a, MonthLen, m)
<1> DEFINE f == m * MonthDays
           g == (m + 1) * MonthDays
<1>1. /\ HC \in Nat /\ DC \in Nat /\ DayHours \in Nat \ {0} /\ MonthDays \in Nat \ {0}
      /\ HC = DC * DayHours /\ 1 \in Nat \ {0}
  BY Lengths
<1>2. f \in Nat /\ g \in Nat /\ f <= g
  <2>1. f \in Nat /\ g \in Nat
    BY <1>1
  <2>2. g = f + MonthDays
    BY <1>1, Multiples
  <2> QED BY <1>1, <2>1, <2>2
<1>3. f * DayHours = m * MonthLen /\ g * DayHours = (m + 1) * MonthLen
  <2>1. ASSUME NEW i \in Nat PROVE (i * MonthDays) * DayHours = i * (DayHours * MonthDays)
    BY <1>1
  <2> QED BY <2>1 DEF MonthLen
<1>4. g <= DC
  <2>1. g * DayHours < DC * DayHours
    <3>1. hour \in Nat /\ hour < DC * DayHours
      BY <1>1 DEF UsageTypes
    <3>2. g * DayHours \in Nat /\ DC * DayHours \in Nat
      BY <1>1, <1>2
    <3> QED BY <1>3, <3>1, <3>2
  <2> HIDE DEF f, g
  <2>2. g < DC <=> g * DayHours < DC * DayHours
    BY <1>1, <1>2, Multiples
  <2> QED BY <1>1, <1>2, <2>1, <2>2
<1>5. days[a] \in UsageRow(DC) /\ hours[a] \in UsageRow(HC)
  BY DEF UsageTypes
<1>6. DayLimit \in Nat
  BY NumbersAre DEF Numbers
<1> HIDE DEF f, g
<1>7. Grouped(days[a], hours[a], HC, 1, DC, DayHours, f, g)
  <2> SUFFICES ASSUME NEW d \in 0..DC-1, f <= d /\ d < g
               PROVE  days[a][d] = Usage!SumIn(hours[a], HC, 1, d * DayHours, (d + 1) * DayHours)
    BY DEF Grouped
  <2>1. d < DayLimit
    BY <1>1, <1>2, <1>6 DEF g
  <2> QED BY <2>1 DEF DaysInv, HoursOf
<1>8. Usage!SumIn(days[a], DC, DayHours, f * DayHours, g * DayHours)
        = Usage!SumIn(hours[a], HC, 1, f * DayHours, g * DayHours)
  BY <1>1, <1>2, <1>4, <1>5, <1>7, SumInGroups
<1> QED BY <1>3, <1>8 DEF HoursOf

LEMMA RollMonthKeeps ==
  ASSUME UsageTypes, UsageTypes', MarksInv, HoursInv, DaysInv, MonthsInv, Usage!RollMonth
  PROVE  (MarksInv /\ HoursInv /\ DaysInv /\ MonthsInv)'
<1>1. Numbers /\ HC \in Nat /\ DC \in Nat /\ Months \in Nat /\ DC = Usage!DayCount
  BY NumbersAre, Lengths DEF DC
<1>2. roll.level = "month" /\ roll.at < roll.till
  BY DEF Usage!RollMonth, Usage!Working
<1>3. MarksRolling /\ AtMonth
  BY <1>2 DEF MarksInv
<1>4. /\ UNCHANGED <<hour, used, hours, days, marks, global_last_rollup, failed>>
      /\ roll' = [roll EXCEPT !.at = @ + MonthLen]
  BY DEF Usage!RollMonth, MonthLen
<1>5. /\ roll'.level = "month" /\ roll'.at = roll.at + MonthLen /\ roll'.till = roll.till
      /\ roll'.my_time = roll.my_time /\ roll'.last = roll.last /\ roll'.sent = roll.sent
  BY <1>2, <1>4 DEF UsageTypes, RollRec
<1>6. /\ roll.at \in Nat /\ roll.my_time \in Nat /\ roll.at < Usage!FirstOf(roll.my_time)
      /\ roll.at = Usage!FirstOf(roll.at)
  BY <1>1, <1>2, <1>3 DEF AtMonth, Numbers
<1> DEFINE m0 == MonthOf(roll.at)
<1>7. /\ roll.at + MonthLen <= Usage!FirstOf(roll.my_time)
      /\ Usage!FirstOf(roll.at + MonthLen) = roll.at + MonthLen
      /\ MonthOf(roll.at + MonthLen) = m0 + 1
      /\ roll.at + MonthLen = (m0 + 1) * MonthLen
      /\ roll.at = m0 * MonthLen /\ m0 \in Nat
  BY <1>6, NextFirst, Firsts
<1>8. MarksInv'
  <2>1. MarksRolling'
    BY <1>3, <1>4, <1>5 DEF MarksRolling
  <2>2. Usage!FirstOf(marks.hour) \in Nat /\ MonthLen \in Nat
    BY <1>1, Firsts, Lengths DEF Numbers
  <2>3. AtMonth'
    BY <1>1, <1>3, <1>4, <1>5, <1>7, <2>2 DEF AtMonth, Numbers
  <2> QED BY <1>4, <1>5, <2>1, <2>3 DEF MarksInv
<1>9. /\ HourLimit' = HourLimit /\ DayLimit = DayOf(roll.my_time) /\ DayLimit' = DayLimit
      /\ MonthLimit = m0 /\ MonthLimit' = m0 + 1
  BY <1>2, <1>4, <1>5, <1>7 DEF HourLimit, DayLimit, MonthLimit
<1>10. HoursInv'
  BY <1>4, <1>9 DEF HoursInv
<1>11. DaysInv'
  BY <1>4, <1>9 DEF DaysInv, HoursOf
<1>12. (m0 + 1) * MonthLen <= roll.my_time /\ (m0 + 1) * MonthLen <= hour
  <2>1. Usage!FirstOf(roll.my_time) \in Nat /\ Usage!FirstOf(roll.my_time) <= roll.my_time
    BY <1>6, Firsts
  <2>2. roll.my_time <= hour /\ hour \in Nat /\ MonthLen \in Nat
    BY <1>1, <1>3, Lengths DEF MarksRolling, Numbers
  <2> HIDE DEF m0
  <2>3. (m0 + 1) * MonthLen \in Nat
    BY <1>7, <2>2
  <2> QED BY <1>6, <1>7, <2>1, <2>2, <2>3
<1>13. (m0 + 1) * MonthDays <= DayLimit
  <2> DEFINE g == (m0 + 1) * MonthDays
  <2>1. DayHours \in Nat \ {0} /\ MonthDays \in Nat \ {0}
    BY Lengths
  <2>2. g \in Nat
    BY <1>7, <2>1
  <2>3. g * DayHours = (m0 + 1) * MonthLen
    <3>1. ASSUME NEW i \in Nat PROVE (i * MonthDays) * DayHours = i * (DayHours * MonthDays)
      BY <2>1
    <3>2. m0 + 1 \in Nat
      BY <1>7
    <3> QED BY <3>1, <3>2 DEF MonthLen
  <2> HIDE DEF g, m0
  <2>4. g * DayHours \in Nat /\ g * DayHours <= roll.my_time
    BY <1>12, <2>1, <2>2, <2>3
  <2>5. DayOf(g * DayHours) <= DayOf(roll.my_time)
    BY <1>6, <2>4, PeriodsOrdered
  <2>6. DayOf(g * DayHours) = g
    BY <2>1, <2>2, FloorOfMultiple DEF DayOf
  <2> QED BY <1>9, <2>5, <2>6 DEF g
<1>14. MonthsInv'
  <2> SUFFICES ASSUME NEW a \in Usage!Assocs, NEW m \in 0..Months-1, m < MonthLimit'
               PROVE  months'[a][m] = HoursOf(a, MonthLen, m)
    BY <1>4 DEF MonthsInv, HoursOf
  <2>1. months'[a] = [months[a] EXCEPT ![m0] =
                      Usage!SumIn(days[a], DC, DayHours, roll.at, roll.at + MonthLen)]
    BY <1>1 DEF Usage!RollMonth, MonthOf, MonthLen
  <2>2. months[a] \in [0..Months-1 -> Nat]
    BY DEF UsageTypes, UsageRow
  <2>3. CASE m = m0
    <3>1. Usage!SumIn(days[a], DC, DayHours, m0 * MonthLen, (m0 + 1) * MonthLen)
            = HoursOf(a, MonthLen, m0)
      BY <1>7, <1>12, <1>13, MonthAddsUp
    <3> HIDE DEF m0
    <3> QED BY <1>7, <2>1, <2>2, <2>3, <3>1
  <2>4. CASE m # m0
    <3> HIDE DEF m0
    <3>1. m < MonthLimit
      BY <1>1, <1>7, <1>9, <2>4
    <3>2. months[a][m] = HoursOf(a, MonthLen, m)
      BY <3>1 DEF MonthsInv
    <3> QED BY <2>1, <2>2, <2>4, <3>2
  <2> QED BY <2>3, <2>4
<1> QED BY <1>8, <1>10, <1>11, <1>14

LEMMA UsageInvInit ==
  ASSUME Usage!Init PROVE UsageInv
<1>1. UsageTypes
  BY UsageTypesInit
<1>2. /\ marks.hour = 0 /\ marks.day = 0 /\ marks.month = 0 /\ roll.level = "idle"
      /\ hour = 0 /\ global_last_rollup = 0
  BY DEF Usage!Init, Usage!Idle
<1>3. MarksInv
  BY <1>2 DEF MarksInv, MarksIdle
<1>4. DayOf(0) = 0 /\ MonthOf(0) = 0
  BY FloorOfMultiple, Lengths DEF DayOf, MonthOf
<1>5. HourLimit = 0 /\ DayLimit = 0 /\ MonthLimit = 0
  BY <1>2, <1>4 DEF HourLimit, DayLimit, MonthLimit
<1>6. HoursInv /\ DaysInv /\ MonthsInv
  BY <1>5, Lengths DEF HoursInv, DaysInv, MonthsInv
<1> QED BY <1>1, <1>3, <1>6 DEF UsageInv

LEMMA UsageInvStep ==
  ASSUME UsageInv, Usage!Next \/ UNCHANGED usageVars
  PROVE  UsageInv'
<1>1. UsageTypes /\ UsageTypes'
  BY UsageTypesStep DEF UsageInv
<1>2. SUFFICES ASSUME mishaps' = {}
               PROVE  (MarksInv /\ HoursInv /\ DaysInv /\ MonthsInv)'
  BY <1>1 DEF UsageInv
<1>3. MarksInv /\ HoursInv /\ DaysInv /\ MonthsInv
  BY <1>2, NoMishap DEF UsageInv
<1>4. Kept => (MarksInv /\ HoursInv /\ DaysInv /\ MonthsInv)'
  BY <1>1, <1>3, SteadyKeeps DEF Kept
<1>5. CASE Usage!Tick
  BY <1>1, <1>3, <1>4, <1>5, TickKeeps
<1>6. CASE \E a \in Users, h \in 0..hour, s \in Amounts : Usage!JobCall(a, h, s)
  BY <1>1, <1>2, <1>3, <1>4, <1>6, JobCallKeeps
<1>7. CASE Usage!RollUsage
  BY <1>1, <1>3, <1>4, <1>7, RollUsageKeeps
<1>8. CASE Usage!RollManually \/ Usage!Restart
  BY <1>2, <1>8 DEF Usage!RollManually, Usage!Restart, Usage!Mishap
<1>9. CASE Usage!RollHour
  BY <1>1, <1>3, <1>9, RollHourKeeps
<1>10. CASE Usage!RollDay
  BY <1>1, <1>3, <1>10, RollDayKeeps
<1>11. CASE Usage!RollMonth
  BY <1>1, <1>3, <1>11, RollMonthKeeps
<1>12. CASE Usage!NextLevel
  BY <1>1, <1>3, <1>4, <1>12, NextLevelKeeps
<1>13. CASE Usage!RollDone
  BY <1>1, <1>3, <1>4, <1>13, RollDoneKeeps
<1>14. CASE Usage!RollFail
  BY <1>1, <1>3, <1>4, <1>14, RollFailKeeps
<1>15. CASE UNCHANGED usageVars
  BY <1>1, <1>3, <1>4, <1>15, StutterKeeps
<1> QED BY <1>5, <1>6, <1>7, <1>8, <1>9, <1>10, <1>11, <1>12, <1>13, <1>14, <1>15 DEF Usage!Next

-----------------------------------------------------------------------------
(* What a report reads.                                                    *)

\* No period begins before 0.
LEMMA SumInCut ==
  ASSUME NEW n \in Nat, NEW len \in Nat, NEW w, NEW from \in Int, NEW till \in Int, from <= 0
  PROVE  Usage!SumIn(w, n, len, from, till) = Usage!SumIn(w, n, len, 0, till)
<1>1. ASSUME NEW k \in 1..n
      PROVE  Picked(w, n, len, from, till)[k] = Picked(w, n, len, 0, till)[k]
  <2> DEFINE p == (k-1) * len
  <2>1. p \in Nat
    OBVIOUS
  <2>2. /\ Picked(w, n, len, from, till)[k] = IF from <= p /\ p < till THEN w[k-1] ELSE 0
        /\ Picked(w, n, len, 0, till)[k] = IF 0 <= p /\ p < till THEN w[k-1] ELSE 0
    BY DEF Picked
  <2> HIDE DEF p
  <2>3. (from <= p /\ p < till) <=> (0 <= p /\ p < till)
    BY <2>1
  <2> QED BY <2>2, <2>3
<1> QED BY <1>1, TotalSame, SumInTotal

\* The days of a window of whole days that is rolled add up to its hours.
LEMMA DaysAddUp ==
  ASSUME UsageTypes, DaysInv, NEW b \in Usage!Assocs, NEW from \in Int, NEW till \in Int,
         from < till, 0 <= till, till < HC, from <= 0 \/ from % DayHours = 0, till % DayHours = 0,
         DayOf(till) <= DayLimit
  PROVE  Usage!SumIn(days[b], DC, DayHours, from, till) = Usage!SumIn(hours[b], HC, 1, from, till)
<1>1. /\ HC \in Nat /\ DC \in Nat /\ DayHours \in Nat \ {0} /\ HC = DC * DayHours
      /\ 1 \in Nat \ {0}
  BY Lengths
<1> DEFINE begin == IF from <= 0 THEN 0 ELSE from
<1>2. begin \in Nat /\ till \in Nat /\ begin <= till /\ begin % DayHours = 0
  BY <1>1
<1>3. /\ Usage!SumIn(days[b], DC, DayHours, from, till)
           = Usage!SumIn(days[b], DC, DayHours, begin, till)
      /\ Usage!SumIn(hours[b], HC, 1, from, till) = Usage!SumIn(hours[b], HC, 1, begin, till)
  BY <1>1, SumInCut
<1> HIDE DEF begin
<1> DEFINE f == DayOf(begin)
           g == DayOf(till)
<1>4. ASSUME NEW t \in Nat, t % DayHours = 0 PROVE DayOf(t) \in Nat /\ DayOf(t) * DayHours = t
  BY <1>1, <1>4 DEF DayOf
<1>5. f \in Nat /\ g \in Nat /\ begin = f * DayHours /\ till = g * DayHours
  BY <1>2, <1>4
<1>6. f <= g
  BY <1>2, PeriodsOrdered
<1>7. g <= DC
  <2> HIDE DEF g
  <2>1. g * DayHours < DC * DayHours
    BY <1>1, <1>5
  <2>2. g < DC <=> g * DayHours < DC * DayHours
    BY <1>1, <1>5, Multiples
  <2> QED BY <1>1, <1>5, <2>1, <2>2
<1>8. days[b] \in UsageRow(DC) /\ hours[b] \in UsageRow(HC)
  BY DEF UsageTypes
<1>9. DayLimit \in Nat
  BY NumbersAre DEF Numbers
<1>10. Grouped(days[b], hours[b], HC, 1, DC, DayHours, f, g)
  <2> SUFFICES ASSUME NEW d \in 0..DC-1, f <= d /\ d < g
               PROVE  days[b][d] = Usage!SumIn(hours[b], HC, 1, d * DayHours, (d + 1) * DayHours)
    BY DEF Grouped
  <2>1. d < DayLimit
    <3> HIDE DEF f
    <3>1. g \in Nat /\ g <= DayLimit
      BY <1>5
    <3> HIDE DEF g
    <3> QED BY <1>1, <1>9, <3>1
  <2> QED BY <2>1 DEF DaysInv, HoursOf
<1> HIDE DEF f, g
<1>11. Usage!SumIn(days[b], DC, DayHours, f * DayHours, g * DayHours)
         = Usage!SumIn(hours[b], HC, 1, f * DayHours, g * DayHours)
  BY <1>1, <1>5, <1>6, <1>7, <1>8, <1>10, SumInGroups
<1> QED BY <1>3, <1>5, <1>11

LEMMA WindowsAddUp ==
  ASSUME UsageTypes, MarksInv, DaysInv, roll.level = "idle" PROVE Usage!WindowsReported
<1> SUFFICES ASSUME NEW a \in Usage!Assocs,
                    NEW s \in {Usage!NotGiven} \cup 0..Usage!HourCount,
                    NEW e \in {Usage!NotGiven} \cup 0..Usage!HourCount,
                    Usage!Reached(Usage!UsageTable(Usage!Start(s), Usage!End(s, e)), Usage!End(s, e)),
                    NEW b \in Usage!Below(a)
             PROVE  Usage!GetUsage(a, s, e)[b]
                      = Usage!SumIn(hours[b], Usage!HourCount, 1, Usage!Start(s), Usage!End(s, e))
  BY DEF Usage!WindowsReported
<1> DEFINE from == Usage!Start(s)
           till == Usage!End(s, e)
           table == Usage!UsageTable(from, till)
<1>1. /\ Numbers /\ HC \in Nat /\ HC = Usage!HourCount /\ DC = Usage!DayCount
      /\ DayHours \in Nat \ {0} /\ MonthDays \in Nat \ {0} /\ hour < HC
  BY NumbersAre, Lengths DEF HC, DC, UsageTypes
<1>2. from \in Int /\ from >= -DayHours /\ (s = Usage!NotGiven => from % DayHours = 0 \/ from <= 0)
  <2>1. CASE s = Usage!NotGiven
    <3>1. from = Usage!Midnight(hour) - DayHours
      BY <2>1 DEF Usage!Start
    <3>2. /\ Usage!Midnight(hour) = DayOf(hour) * DayHours /\ DayOf(hour) \in Nat
          /\ Usage!Midnight(hour) \in Nat
      BY <1>1, Midnights DEF Numbers
    <3>3. CASE DayOf(hour) = 0
      BY <1>1, <3>1, <3>2, <3>3
    <3>4. CASE DayOf(hour) # 0
      <4>1. DayOf(hour) - 1 \in Nat
        BY <3>2, <3>4
      <4>2. from = (DayOf(hour) - 1) * DayHours
        BY <1>1, <3>1, <3>2
      <4>3. ASSUME NEW i \in Nat PROVE (i * DayHours) % DayHours = 0
        BY <1>1
      <4>4. ((DayOf(hour) - 1) * DayHours) % DayHours = 0
        BY <4>1, <4>3
      <4>5. from % DayHours = 0
        BY <4>2, <4>4
      <4>6. from \in Int /\ from >= -DayHours
        BY <1>1, <3>1, <3>2
      <4> QED BY <4>5, <4>6
    <3> QED BY <3>3, <3>4
  <2>2. CASE s # Usage!NotGiven
    BY <1>1, <2>2 DEF Usage!Start
  <2> QED BY <2>1, <2>2
<1>3. till \in Int
  <2>1. Usage!Midnight(hour) \in Nat
    BY <1>1, Midnights DEF Numbers
  <2> QED BY <1>1, <1>2, <2>1 DEF Usage!End
<1>4. b \in Usage!Assocs
  BY DEF Usage!Below, Usage!Assocs
<1> HIDE DEF from, till
<1>5. Usage!GetUsage(a, s, e)[b] = Usage!Read(table, b, from, till)
  BY DEF Usage!GetUsage, from, till
<1>6. Usage!Reached(table, till)
  BY DEF from, till
<1>7. table # "month"
  <2>1. ASSUME NEW t \in Int PROVE Usage!tm_mday(t) # 0
    <3>1. t \div DayHours \in Int
      BY <1>1
    <3>2. (t \div DayHours) % MonthDays \in Nat
      BY <1>1, <3>1
    <3> QED BY <3>2 DEF Usage!tm_mday
  <2> QED BY <1>2, <1>3, <2>1 DEF Usage!UsageTable
<1>8. CASE table = "hour"
  BY <1>1, <1>5, <1>8 DEF Usage!Read, from, till
<1>9. CASE table = "day"
  <2>1. /\ Usage!tm_hour(from) = 0 /\ Usage!tm_hour(till) = 0
        /\ ~(till - from < DayHours) /\ ~(till > hour)
    BY <1>9 DEF Usage!UsageTable
  <2>2. /\ from % DayHours = 0 /\ till % DayHours = 0
        /\ from < till /\ 0 <= till /\ till <= hour /\ till < HC
    BY <1>1, <1>2, <1>3, <2>1 DEF Usage!tm_hour, Numbers
  <2>3. till <= Usage!Midnight(marks.hour)
    BY <1>6, <1>9 DEF Usage!Reached, MarksInv
  <2>4. DayLimit = DayOf(marks.hour)
    BY DEF DayLimit
  <2>5. DayOf(till) <= DayLimit
    <3>1. /\ Usage!Midnight(marks.hour) \in Nat /\ marks.hour \in Nat
          /\ DayOf(Usage!Midnight(marks.hour)) = DayOf(marks.hour)
      BY <1>1, Midnights DEF Numbers
    <3>2. till \in Nat
      BY <1>3, <2>2
    <3>3. DayOf(till) <= DayOf(Usage!Midnight(marks.hour))
      BY <2>3, <3>1, <3>2, PeriodsOrdered
    <3> QED BY <2>4, <3>1, <3>3
  <2>6. Usage!SumIn(days[b], DC, DayHours, from, till) = Usage!SumIn(hours[b], HC, 1, from, till)
    BY <1>2, <1>3, <1>4, <2>2, <2>5, DaysAddUp
  <2> QED BY <1>1, <1>5, <1>9, <2>6 DEF Usage!Read, from, till
<1>10. table \in {"hour", "day", "month"}
  BY DEF Usage!UsageTable
<1> HIDE DEF table
<1> QED BY <1>7, <1>8, <1>9, <1>10

LEMMA UsageInvAddsUp ==
  ASSUME UsageInv PROVE Usage!ReportsAddUp
<1> SUFFICES ASSUME roll = Usage!Idle, mishaps = {}
             PROVE  Usage!HoursRolled /\ Usage!MonthsRolled /\ Usage!WindowsReported
  BY DEF Usage!ReportsAddUp
<1>1. UsageTypes /\ MarksInv /\ HoursInv /\ DaysInv /\ MonthsInv /\ roll.level = "idle"
  BY DEF UsageInv, Usage!Idle
<1>2. /\ Numbers /\ HC = Usage!HourCount /\ DC = Usage!DayCount
      /\ DayHours \in Nat \ {0} /\ MonthDays \in Nat \ {0} /\ Months \in Nat
      /\ MonthLen \in Nat \ {0}
  BY <1>1, NumbersAre, Lengths DEF HC, DC
<1>3. Usage!HoursRolled
  BY <1>1, <1>2 DEF HoursInv, HourLimit, Usage!HoursRolled
<1>4. Usage!MonthsRolled
  <2> SUFFICES ASSUME NEW a \in Usage!Assocs, NEW m \in 0..Months-1,
                      m * DayHours * MonthDays + DayHours * MonthDays
                        <= Usage!FirstOf(marks.month)
               PROVE  months[a][m]
                        = Usage!SumIn(hours[a], Usage!HourCount, 1, m * DayHours * MonthDays,
                                      m * DayHours * MonthDays + DayHours * MonthDays)
    BY DEF Usage!MonthsRolled
  <2>1. m \in Nat /\ m * DayHours * MonthDays = m * MonthLen
    <3>1. m \in Nat
      BY <1>2
    <3>2. ASSUME NEW i \in Nat PROVE i * DayHours * MonthDays = i * (DayHours * MonthDays)
      BY <1>2
    <3> QED BY <3>1, <3>2 DEF MonthLen
  <2>2. m * MonthLen + MonthLen = (m + 1) * MonthLen
    BY <1>2, <2>1, Multiples
  <2>3. (m + 1) * MonthLen <= Usage!FirstOf(marks.hour)
    BY <1>1, <2>1, <2>2 DEF MarksInv, MonthLen
  <2>4. /\ MonthOf(marks.hour) \in Nat
        /\ Usage!FirstOf(marks.hour) = MonthOf(marks.hour) * MonthLen
    BY <1>2, Firsts DEF Numbers
  <2>5. m + 1 <= MonthOf(marks.hour)
    <3>1. m + 1 \in Int
      BY <2>1
    <3>2. m + 1 <= MonthOf(marks.hour) <=> (m + 1) * MonthLen <= MonthOf(marks.hour) * MonthLen
      BY <1>2, <2>4, <3>1, Multiples
    <3> QED BY <2>3, <2>4, <3>2
  <2>6. m < MonthLimit
    BY <1>1, <2>1, <2>4, <2>5 DEF MonthLimit
  <2>7. months[a][m] = HoursOf(a, MonthLen, m)
    BY <1>1, <2>6 DEF MonthsInv
  <2> QED BY <1>2, <2>1, <2>2, <2>7 DEF HoursOf, MonthLen
<1>5. Usage!WindowsReported
  BY <1>1, WindowsAddUp
<1> QED BY <1>3, <1>4, <1>5

-----------------------------------------------------------------------------
\* What a report says an association used is what its job rows say: the hours
\* that mysql_hourly_rollup has rolled, the months and any window that
\* acct_storage_p_get_usage is asked for, whichever table _set_usage_information
\* picks.  Unless a roll was given its times, SlurmDBD was restarted between a
\* roll and a late record, or a record came late after a roll had failed.
THEOREM ReportsAddUpAlways == TablesSpec => []ReportsAddUp
<1> DEFINE Inv == scene = "usage" => UsageInv
<1>1. TablesInit => Inv
  BY UsageInvInit DEF TablesInit
<1>2. Inv /\ [TablesNext]_TablesVars => Inv'
  <2> SUFFICES ASSUME Inv, [TablesNext]_TablesVars, scene' = "usage" PROVE UsageInv'
    OBVIOUS
  <2>1. scene' = scene
    BY DEF TablesNext, TablesVars
  <2>2. UsageInv
    BY <2>1
  <2>3. Usage!Next \/ UNCHANGED usageVars
    BY <2>1 DEF TablesNext, TablesVars
  <2> QED BY <2>2, <2>3, UsageInvStep
<1>3. Inv => ReportsAddUp
  BY UsageInvAddsUp DEF ReportsAddUp
<1> QED BY <1>1, <1>2, <1>3, PTL DEF TablesSpec

=============================================================================
