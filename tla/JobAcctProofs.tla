---------------------------- MODULE JobAcctProofs ----------------------------
(***************************************************************************)
(* What the job calls leave of a job that is over, for any number of jobs, *)
(* suspensions, controller restarts, purged starts and repeated calls.     *)
(***************************************************************************)
EXTENDS AcctTables, SetInduction, FiniteSetTheorems

-----------------------------------------------------------------------------
(* The rows of a job.                                                      *)

JobRow == [start : Nat, end : Nat, state : Live \cup Done, suspended : Int]
Period == [start : Nat, end : Nat]
Tables == [row : JobRow \cup {NoRow}, step : JobRow \cup {NoRow}, susp : Seq(Period)]

\* A call as the plugin gets it: with a db_index only when the job has a row.
CallFor(m, d) ==
  /\ m.idx \in BOOLEAN /\ (m.idx => d.row # NoRow)
  /\ m.state \in Live \cup Done /\ m.start \in Nat /\ m.end \in Nat /\ m.time \in Nat

LEMMA NoRowIsNone == NoRow \notin JobRow
BY DEF NoRow, JobRow

\* A row is its four columns.
LEMMA SameRow ==
  ASSUME NEW a \in JobRow, NEW b \in JobRow,
         a.start = b.start, a.end = b.end, a.state = b.state, a.suspended = b.suspended
  PROVE  a = b
BY DEF JobRow

\* jobacct_storage_p_job_start leaves a row, with the state it is told.
LEMMA JobStartRow ==
  ASSUME NEW d \in Tables, NEW m, CallFor(m, d)
  PROVE  LET k == JobStart(d, m) IN
         /\ k \in Tables /\ k.row \in JobRow /\ k.row.state = m.state
         /\ k.step = d.step /\ k.susp = d.susp
         /\ k.row.end = IF d.row = NoRow THEN 0 ELSE d.row.end
         /\ k.row.suspended = IF d.row = NoRow THEN 0 ELSE d.row.suspended
<1> DEFINE k == JobStart(d, m)
<1> SUFFICES /\ k \in Tables /\ k.row \in JobRow /\ k.row.state = m.state
             /\ k.step = d.step /\ k.susp = d.susp
             /\ k.row.end = IF d.row = NoRow THEN 0 ELSE d.row.end
             /\ k.row.suspended = IF d.row = NoRow THEN 0 ELSE d.row.suspended
  OBVIOUS
<1>1. /\ m.state \in Live \cup Done /\ m.start \in Nat
      /\ m.idx => d.row # NoRow
  BY DEF CallFor
<1>2. CASE d.row = NoRow
  <2>1. k = [d EXCEPT !.row = Row(m.start, m.state)]
    BY <1>1, <1>2 DEF JobStart
  <2>2. Row(m.start, m.state) \in JobRow /\ Row(m.start, m.state).state = m.state
        /\ Row(m.start, m.state).end = 0 /\ Row(m.start, m.state).suspended = 0
    BY <1>1 DEF Row, JobRow
  <2> HIDE DEF k
  <2> QED BY <1>2, <2>1, <2>2 DEF Tables
<1>3. CASE d.row # NoRow
  <2>1. d.row \in JobRow
    BY <1>3 DEF Tables
  <2>2. CASE m.idx
    <3> DEFINE r == [d.row EXCEPT !.start = m.start, !.state = m.state]
    <3>1. k = [d EXCEPT !.row = r]
      BY <2>2 DEF JobStart, Tables
    <3>2. r \in JobRow /\ r.state = m.state /\ r.end = d.row.end /\ r.suspended = d.row.suspended
      BY <1>1, <2>1 DEF JobRow
    <3> HIDE DEF k, r
    <3> QED BY <1>3, <3>1, <3>2 DEF Tables
  <2>3. CASE ~m.idx
    <3> DEFINE r == [d.row EXCEPT !.state = m.state]
    <3>1. k = [d EXCEPT !.row = r]
      BY <1>3, <2>3 DEF JobStart, Tables
    <3>2. r \in JobRow /\ r.state = m.state /\ r.end = d.row.end /\ r.suspended = d.row.suspended
      BY <1>1, <2>1 DEF JobRow
    <3> HIDE DEF k, r
    <3> QED BY <1>3, <3>1, <3>2 DEF Tables
  <2> QED BY <2>2, <2>3
<1> QED BY <1>2, <1>3

\* The row a call finds, or adds.
LEMMA WithRowRow ==
  ASSUME NEW d \in Tables, NEW m, CallFor(m, d)
  PROVE  LET k == WithRow(d, m) IN
         /\ k \in Tables /\ k.row \in JobRow
         /\ k.step = d.step /\ k.susp = d.susp
         /\ d.row # NoRow => k = d
         /\ d.row = NoRow => k.row.end = 0 /\ k.row.suspended = 0
<1>1. CASE d.row # NoRow
  BY <1>1 DEF WithRow, Tables
<1>2. CASE d.row = NoRow
  <2>1. WithRow(d, m) = JobStart(d, m)
    BY <1>2 DEF WithRow, CallFor
  <2> QED BY <1>2, <2>1, JobStartRow
<1> QED BY <1>1, <1>2

\* jobacct_storage_p_job_complete
LEMMA JobCompleteRow ==
  ASSUME NEW d \in Tables, NEW m, CallFor(m, d), m.end # 0
  PROVE  LET k == JobComplete(d, m) IN
         /\ k \in Tables /\ k.row \in JobRow
         /\ k.row.start = (IF m.start > m.end THEN 0 ELSE m.start)
         /\ k.row.end = m.end /\ k.row.state = m.state
         /\ k.step = d.step /\ k.susp = d.susp
         /\ k.row.suspended = IF d.row = NoRow THEN 0 ELSE d.row.suspended
<1> DEFINE w == WithRow(d, m)
           s == IF m.start > m.end THEN 0 ELSE m.start
           r == [w.row EXCEPT !.start = s, !.end = m.end, !.state = m.state]
           k == JobComplete(d, m)
<1>1. /\ w \in Tables /\ w.row \in JobRow /\ w.step = d.step /\ w.susp = d.susp
      /\ d.row # NoRow => w = d
      /\ d.row = NoRow => w.row.end = 0 /\ w.row.suspended = 0
  BY WithRowRow
<1>2. k = [w EXCEPT !.row = r]
  BY <1>1 DEF JobComplete, Tables
<1>3. s \in Nat /\ m.end \in Nat /\ m.state \in Live \cup Done
  BY DEF CallFor
<1> HIDE DEF w, s
<1>4. r \in JobRow /\ r.start = s /\ r.end = m.end /\ r.state = m.state
      /\ r.suspended = w.row.suspended
  BY <1>1, <1>3 DEF JobRow
<1> HIDE DEF k, r
<1>5. /\ k \in Tables /\ k.row = r /\ k.step = d.step /\ k.susp = d.susp
  BY <1>1, <1>2, <1>4 DEF Tables
<1>6. r.suspended = IF d.row = NoRow THEN 0 ELSE d.row.suspended
  BY <1>1, <1>4
<1> QED BY <1>4, <1>5, <1>6 DEF k, s

\* jobacct_storage_p_step_start
LEMMA StepStartRow ==
  ASSUME NEW d \in Tables, NEW m, CallFor(m, d)
  PROVE  LET k == StepStart(d, m)
             w == WithRow(d, m) IN
         /\ k \in Tables /\ k.row = w.row /\ k.susp = d.susp
         /\ k.step \in JobRow /\ k.step.end = 0
         /\ d.step = NoRow => k.step.start = m.time /\ k.step.suspended = 0
         /\ d.step # NoRow => k.step.start = d.step.start /\ k.step.suspended = d.step.suspended
<1> DEFINE w == WithRow(d, m)
           k == StepStart(d, m)
<1>1. w \in Tables /\ w.row \in JobRow /\ w.step = d.step /\ w.susp = d.susp
  BY WithRowRow
<1>2. m.time \in Nat /\ "RUNNING" \in Live
  BY DEF CallFor, Live
<1> SUFFICES /\ k \in Tables /\ k.row = w.row /\ k.susp = d.susp
             /\ k.step \in JobRow /\ k.step.end = 0
             /\ d.step = NoRow => k.step.start = m.time /\ k.step.suspended = 0
             /\ d.step # NoRow => k.step.start = d.step.start
                                  /\ k.step.suspended = d.step.suspended
  OBVIOUS
<1>3. CASE d.step = NoRow
  <2> DEFINE r == Row(m.time, "RUNNING")
  <2>1. k = [w EXCEPT !.step = r]
    BY <1>1, <1>3 DEF StepStart
  <2>2. r \in JobRow /\ r.end = 0 /\ r.start = m.time /\ r.suspended = 0
    BY <1>2 DEF Row, JobRow
  <2> HIDE DEF k, r, w
  <2> QED BY <1>1, <1>3, <2>1, <2>2 DEF Tables
<1>4. CASE d.step # NoRow
  <2> DEFINE r == [d.step EXCEPT !.end = 0, !.state = "RUNNING"]
  <2>0. d.step \in JobRow
    BY <1>4 DEF Tables
  <2>1. k = [w EXCEPT !.step = r]
    BY <1>1, <1>4 DEF StepStart, Tables
  <2>2. r \in JobRow /\ r.end = 0 /\ r.start = d.step.start /\ r.suspended = d.step.suspended
    BY <1>2, <2>0 DEF JobRow
  <2> HIDE DEF k, r, w
  <2> QED BY <1>1, <1>4, <2>1, <2>2 DEF Tables
<1> QED BY <1>3, <1>4

\* jobacct_storage_p_step_complete
LEMMA StepCompleteRow ==
  ASSUME NEW d \in Tables, NEW m, CallFor(m, d)
  PROVE  LET k == StepComplete(d, m)
             w == WithRow(d, m) IN
         /\ k \in Tables /\ k.row = w.row /\ k.susp = d.susp
         /\ d.step = NoRow => k.step = NoRow
         /\ d.step # NoRow => k.step = [start |-> d.step.start, end |-> m.time, state |-> m.state,
                                        suspended |-> d.step.suspended]
<1> DEFINE w == WithRow(d, m)
           k == StepComplete(d, m)
<1>1. w \in Tables /\ w.row \in JobRow /\ w.step = d.step /\ w.susp = d.susp
  BY WithRowRow
<1>2. m.time \in Nat /\ m.state \in Live \cup Done
  BY DEF CallFor
<1> SUFFICES /\ k \in Tables /\ k.row = w.row /\ k.susp = d.susp
             /\ d.step = NoRow => k.step = NoRow
             /\ d.step # NoRow =>
                  k.step = [start |-> d.step.start, end |-> m.time, state |-> m.state,
                            suspended |-> d.step.suspended]
  OBVIOUS
<1>3. CASE d.step = NoRow
  BY <1>1, <1>3 DEF StepComplete
<1>4. CASE d.step # NoRow
  <2> DEFINE r == [d.step EXCEPT !.end = m.time, !.state = m.state]
  <2>0. d.step \in JobRow
    BY <1>4 DEF Tables
  <2>1. k = [w EXCEPT !.step = r]
    BY <1>1, <1>4 DEF StepComplete, Tables
  <2>2. r \in JobRow
    BY <1>2, <2>0 DEF JobRow
  <2>3. r = [start |-> d.step.start, end |-> m.time, state |-> m.state,
             suspended |-> d.step.suspended]
    <3> DEFINE q == [start |-> d.step.start, end |-> m.time, state |-> m.state,
                     suspended |-> d.step.suspended]
    <3>1. r.start = d.step.start /\ r.end = m.time /\ r.state = m.state
          /\ r.suspended = d.step.suspended
      BY <2>0 DEF JobRow
    <3>2. q \in JobRow /\ q.start = d.step.start /\ q.end = m.time /\ q.state = m.state
          /\ q.suspended = d.step.suspended
      BY <1>2, <2>0 DEF JobRow
    <3> HIDE DEF r, q
    <3>3. r = q
      BY <2>2, <3>1, <3>2, SameRow
    <3> QED BY <3>3 DEF q
  <2> HIDE DEF k, r, w
  <2>4. k \in Tables /\ k.row = w.row /\ k.susp = d.susp /\ k.step = r
    BY <1>1, <2>1, <2>2 DEF Tables
  <2> QED BY <1>4, <2>3, <2>4
<1> QED BY <1>3, <1>4

\* jobacct_storage_p_suspend
SuspendedRow(r, t, state) ==
  [start |-> r.start, end |-> r.end, state |-> state, suspended |-> t - r.suspended]

LEMMA SuspendRow ==
  ASSUME NEW d \in Tables, NEW m, CallFor(m, d)
  PROVE  LET k == Suspend(d, m)
             w == WithRow(d, m) IN
         /\ k.row = SuspendedRow(w.row, m.time, m.state) /\ k.row \in JobRow
         /\ k.step = IF d.step = NoRow \/ d.step.end # 0 THEN d.step
                     ELSE SuspendedRow(d.step, m.time, m.state)
         /\ k.step \in JobRow \cup {NoRow}
         /\ k.susp = IF m.state = "SUSPENDED" THEN Append(d.susp, [start |-> m.time, end |-> 0])
                     ELSE CloseSuspends(d.susp, m.time)
         /\ k = [row |-> k.row, step |-> k.step, susp |-> k.susp]
<1> DEFINE w == WithRow(d, m)
           k == Suspend(d, m)
<1>1. w \in Tables /\ w.row \in JobRow /\ w.step = d.step /\ w.susp = d.susp
  BY WithRowRow
<1>2. m.time \in Nat /\ m.state \in Live \cup Done
  BY DEF CallFor
<1>3. \A r \in JobRow : /\ [Suspended(r, m.time) EXCEPT !.state = m.state]
                              = SuspendedRow(r, m.time, m.state)
                        /\ SuspendedRow(r, m.time, m.state) \in JobRow
  <2> TAKE r \in JobRow
  <2> DEFINE a == [r EXCEPT !.suspended = m.time - @]
             b == [a EXCEPT !.state = m.state]
             c == SuspendedRow(r, m.time, m.state)
  <2>1. a \in JobRow /\ a.start = r.start /\ a.end = r.end /\ a.suspended = m.time - r.suspended
    BY <1>2 DEF JobRow
  <2>2. c \in JobRow /\ c.start = r.start /\ c.end = r.end /\ c.state = m.state
        /\ c.suspended = m.time - r.suspended
    BY <1>2 DEF JobRow, SuspendedRow
  <2>3. b = [Suspended(r, m.time) EXCEPT !.state = m.state]
    BY DEF Suspended
  <2> HIDE DEF a, c
  <2>4. b \in JobRow /\ b.start = r.start /\ b.end = r.end /\ b.state = m.state
        /\ b.suspended = m.time - r.suspended
    BY <1>2, <2>1 DEF JobRow
  <2> HIDE DEF b
  <2>5. b = c
    BY <2>2, <2>4, SameRow
  <2> QED BY <2>2, <2>3, <2>5 DEF c
<1>4. d.step \in JobRow \cup {NoRow}
  BY DEF Tables
<1>5. k = [row  |-> [Suspended(w.row, m.time) EXCEPT !.state = m.state],
           step |-> IF w.step = NoRow \/ w.step.end # 0 THEN w.step
                    ELSE [Suspended(w.step, m.time) EXCEPT !.state = m.state],
           susp |-> IF m.state = "SUSPENDED"
                    THEN Append(w.susp, [start |-> m.time, end |-> 0])
                    ELSE CloseSuspends(w.susp, m.time)]
  BY DEF Suspend
<1> HIDE DEF k, w
<1>6. k.row = SuspendedRow(w.row, m.time, m.state) /\ k.row \in JobRow
  BY <1>1, <1>3, <1>5
<1>7. k.step = IF d.step = NoRow \/ d.step.end # 0 THEN d.step
               ELSE SuspendedRow(d.step, m.time, m.state)
  BY <1>1, <1>3, <1>4, <1>5
<1>8. k.step \in JobRow \cup {NoRow}
  BY <1>3, <1>4, <1>7
<1>9. k.susp = IF m.state = "SUSPENDED" THEN Append(d.susp, [start |-> m.time, end |-> 0])
               ELSE CloseSuspends(d.susp, m.time)
  BY <1>1, <1>5
<1>10. k = [row |-> k.row, step |-> k.step, susp |-> k.susp]
  BY <1>5
<1> QED BY <1>6, <1>7, <1>8, <1>9, <1>10 DEF k, w

\* acct_storage_p_flush_jobs_on_cluster leaves no open row.
LEMMA FlushRow ==
  ASSUME NEW d \in Tables, NEW t \in Nat \ {0}
  PROVE  LET k == Flush(d, t) IN
         /\ k \in Tables
         /\ d.row = NoRow \/ d.row.end # 0 => k = d
         /\ k.row = NoRow \/ k.row.end # 0
         /\ d.row # NoRow => k.row # NoRow
<1> DEFINE k == Flush(d, t)
<1>1. CASE d.row = NoRow \/ d.row.end # 0
  BY <1>1 DEF Flush
<1>2. CASE d.row # NoRow /\ d.row.end = 0
  <2> DEFINE f == IF d.row.state # "SUSPENDED" THEN d
                  ELSE [row  |-> Suspended(d.row, t),
                        step |-> IF d.step = NoRow THEN d.step ELSE Suspended(d.step, t),
                        susp |-> CloseSuspends(d.susp, t)]
             r == [f.row EXCEPT !.end = t, !.state = "CANCELLED"]
             s == IF f.step = NoRow THEN f.step
                  ELSE [f.step EXCEPT !.end = t, !.state = "CANCELLED"]
  <2>1. d.row \in JobRow /\ d.step \in JobRow \cup {NoRow} /\ d.susp \in Seq(Period)
    BY <1>2 DEF Tables
  <2>2. \A x \in JobRow : Suspended(x, t) \in JobRow
    BY DEF JobRow, Suspended
  <2>3. CloseSuspends(d.susp, t) \in Seq(Period)
    <3>1. Len(d.susp) \in Nat /\ DOMAIN d.susp = 1..Len(d.susp)
          /\ \A i \in 1..Len(d.susp) : d.susp[i] \in Period
      BY <2>1
    <3>2. \A x \in Period : [x EXCEPT !.end = t] \in Period
      BY DEF Period
    <3> QED BY <3>1, <3>2 DEF CloseSuspends
  <2>4. f.row \in JobRow /\ f.step \in JobRow \cup {NoRow} /\ f.susp \in Seq(Period)
        /\ f = [row |-> f.row, step |-> f.step, susp |-> f.susp]
    BY <2>1, <2>2, <2>3 DEF Tables
  <2>5. k = [[f EXCEPT !.row.end = t, !.row.state = "CANCELLED"]
               EXCEPT !.step = IF @ = NoRow THEN @
                               ELSE [@ EXCEPT !.end = t, !.state = "CANCELLED"]]
    BY <1>2 DEF Flush
  <2> HIDE DEF f
  <2>6. k = [row |-> r, step |-> s, susp |-> f.susp]
    <3> HIDE DEF k
    <3> QED BY <2>4, <2>5
  <2>7. "CANCELLED" \in Live \cup Done
    BY DEF Done
  <2>8. r \in JobRow /\ r.end = t
    BY <2>4, <2>7 DEF JobRow
  <2>9. s \in JobRow \cup {NoRow}
    BY <2>4, <2>7 DEF JobRow
  <2> HIDE DEF r, s, k
  <2>10. k \in Tables /\ k.row = r
    BY <2>4, <2>6, <2>8, <2>9 DEF Tables
  <2> QED BY <1>2, <2>8, <2>10, NoRowIsNone DEF k
<1> QED BY <1>1, <1>2

-----------------------------------------------------------------------------
(* The suspensions of a job.                                               *)

SuspTotal(s, n) == Total([i \in DOMAIN s |-> s[i].end - s[i].start], n)

LEMMA SuspTotalSame ==
  ASSUME NEW a \in Seq(Period), NEW s \in Seq(Period), NEW n \in Nat, n <= Len(a), n <= Len(s),
         \A i \in 1..n : a[i] = s[i]
  PROVE  SuspTotal(a, n) = SuspTotal(s, n)
<1> DEFINE v == [i \in DOMAIN a |-> a[i].end - a[i].start]
           w == [i \in DOMAIN s |-> s[i].end - s[i].start]
<1>1. \A k \in 1..n : v[k] = w[k]
  OBVIOUS
<1> HIDE DEF v, w
<1>2. Total(v, n) = Total(w, n)
  BY <1>1, TotalSame
<1> QED BY <1>2 DEF SuspTotal, v, w

\* A suspension begins.
LEMMA SuspAppend ==
  ASSUME NEW s \in Seq(Period), NEW p \in Period
  PROVE  LET a == Append(s, p) IN
         /\ a \in Seq(Period) /\ a # <<>> /\ Len(a) = Len(s) + 1
         /\ a[Len(a)] = p /\ \A i \in 1..Len(s) : a[i] = s[i]
         /\ SuspTotal(a, Len(a) - 1) = SuspTotal(s, Len(s))
<1> DEFINE a == Append(s, p)
<1>1. a \in Seq(Period) /\ Len(a) = Len(s) + 1 /\ Len(s) \in Nat
      /\ a[Len(a)] = p /\ \A i \in 1..Len(s) : a[i] = s[i]
  OBVIOUS
<1> HIDE DEF a
<1>2. a # <<>>
  BY <1>1
<1>3. SuspTotal(a, Len(s)) = SuspTotal(s, Len(s))
  BY <1>1, SuspTotalSame
<1> QED BY <1>1, <1>2, <1>3 DEF a

\* Closing suspensions leaves the periods that are over, and ends the open ones.
LEMMA SuspClosed ==
  ASSUME NEW s \in Seq(Period), NEW t \in Nat
  PROVE  LET a == CloseSuspends(s, t) IN
         /\ a \in Seq(Period) /\ Len(a) = Len(s)
         /\ \A i \in 1..Len(s) :
              IF s[i].end = 0 THEN a[i].start = s[i].start /\ a[i].end = t ELSE a[i] = s[i]
<1> DEFINE a == CloseSuspends(s, t)
<1>1. Len(s) \in Nat /\ DOMAIN s = 1..Len(s) /\ \A i \in 1..Len(s) : s[i] \in Period
  OBVIOUS
<1>2. a = [i \in 1..Len(s) |-> IF s[i].end = 0 THEN [s[i] EXCEPT !.end = t] ELSE s[i]]
  BY <1>1 DEF CloseSuspends
<1>3. \A x \in Period : LET y == [x EXCEPT !.end = t] IN
                        y \in Period /\ y.start = x.start /\ y.end = t
  BY DEF Period
<1> HIDE DEF a
<1>4. ASSUME NEW i \in 1..Len(s)
      PROVE  /\ a[i] \in Period
             /\ IF s[i].end = 0 THEN a[i].start = s[i].start /\ a[i].end = t ELSE a[i] = s[i]
  BY <1>1, <1>2, <1>3
<1>5. a \in Seq(Period) /\ Len(a) = Len(s)
  <2>1. a = [i \in 1..Len(s) |-> a[i]]
    BY <1>2
  <2>2. \A i \in 1..Len(s) : a[i] \in Period
    BY <1>4
  <2> QED BY <1>1, <2>1, <2>2
<1> QED BY <1>4, <1>5 DEF a

\* The last suspension ends.
LEMMA SuspClose ==
  ASSUME NEW s \in Seq(Period), NEW t \in Nat \ {0}, NEW since \in Nat, s # <<>>,
         s[Len(s)] = [start |-> since, end |-> 0],
         \A i \in 1..Len(s) - 1 : s[i].end # 0
  PROVE  LET a == CloseSuspends(s, t) IN
         /\ a \in Seq(Period) /\ \A i \in 1..Len(a) : a[i].end # 0
         /\ SuspTotal(a, Len(a)) = SuspTotal(s, Len(s) - 1) + (t - since)
<1> DEFINE a == CloseSuspends(s, t)
           n == Len(s) - 1
           v == [i \in DOMAIN a |-> a[i].end - a[i].start]
<1>1. /\ a \in Seq(Period) /\ Len(a) = Len(s)
      /\ \A i \in 1..Len(s) :
           IF s[i].end = 0 THEN a[i].start = s[i].start /\ a[i].end = t ELSE a[i] = s[i]
  BY SuspClosed
<1>2. n \in Nat /\ Len(s) = n + 1
  OBVIOUS
<1> HIDE DEF a, n
<1>3. a[n + 1].start = since /\ a[n + 1].end = t
  BY <1>1, <1>2
<1>4. \A i \in 1..n : a[i] = s[i] /\ s[i].end # 0
  BY <1>1, <1>2 DEF n
<1>5. SuspTotal(a, n) = SuspTotal(s, n)
  BY <1>1, <1>2, <1>4, SuspTotalSame
<1>6. v[n + 1] = t - since
  BY <1>1, <1>2, <1>3
<1> HIDE DEF v
<1>7. Total(v, n + 1) = Total(v, n) + v[n + 1]
  BY <1>2, TotalStep
<1>8. SuspTotal(a, n + 1) = SuspTotal(a, n) + (t - since)
  BY <1>6, <1>7 DEF SuspTotal, v
<1>9. \A i \in 1..Len(a) : a[i].end # 0
  BY <1>1, <1>2, <1>3, <1>4
<1> QED BY <1>1, <1>2, <1>5, <1>8, <1>9 DEF a, n

\* The seconds of one more suspension.
LEMMA OffGrows ==
  ASSUME NEW since \in Nat \ {0}, NEW t \in Nat, since <= t, NEW off, off \subseteq 1..since - 1
  PROVE  LET more == off \cup (since .. t - 1) IN
         /\ more \subseteq 1..t - 1 /\ Cardinality(off) \in Nat
         /\ Cardinality(more) = Cardinality(off) + (t - since)
<1> DEFINE new == since .. t - 1
<1>1. IsFiniteSet(1..since - 1)
  BY FS_Interval
<1>2. IsFiniteSet(off) /\ Cardinality(off) \in Nat
  BY <1>1, FS_Subset, FS_CardinalityType
<1>3. IsFiniteSet(new) /\ Cardinality(new) = t - since
  <2>1. IsFiniteSet(new) /\ Cardinality(new) = IF since > t - 1 THEN 0 ELSE (t - 1) - since + 1
    BY FS_Interval
  <2> QED BY <2>1
<1>4. off \cap new = {} /\ off \cup new \subseteq 1..t - 1
  OBVIOUS
<1> HIDE DEF new
<1>5. Cardinality(off \cup new) = Cardinality(off) + Cardinality(new) - Cardinality({})
  BY <1>2, <1>3, <1>4, FS_Union
<1> QED BY <1>2, <1>3, <1>4, <1>5, FS_EmptySet DEF new

-----------------------------------------------------------------------------
(* The inductive invariant: what is true of a job (c), its rows (d) and the *)
(* call delivered last (l) at time t, as long as no flush has closed the   *)
(* rows (Kept), and whatever happened (the rest).                          *)

Ctl == [state : {"none"} \cup Live \cup Done, submit : Nat, start : Nat, end : Nat, since : Nat,
        off : SUBSET Nat, step : {"none", "RUNNING", "COMPLETE"}, sstart : Nat, send : Nat,
        ssus : Int]

Calls == [op : Ops \ {"flush"}, job : Jobs, idx : BOOLEAN, state : Live \cup Done,
          start : Nat, end : Nat, time : Nat]

Shape(c, d, t) ==
  /\ c \in Ctl /\ d \in Tables
  /\ c.start <= t /\ c.since <= t
  /\ d.row = NoRow => d.step = NoRow /\ d.susp = <<>>
  /\ c.state = "none" => d = NoRows /\ c = NewJob
  /\ c.state = "PENDING" => c.start = 0 /\ c.step = "none"

\* A job that is over has its row.
Over(c, d) ==
  c.state \in Done =>
    d.row.start = c.start /\ d.row.end = c.end /\ d.row.state = c.state /\ c.end # 0

\* The call delivered last is about what is true of its job, so that it can be
\* delivered again.
LastOK(j, c, d, l) ==
  (l \in Calls /\ l.job = j) =>
    /\ c.state # "none" /\ d.row # NoRow
    /\ l.op = "job_complete" <=> c.state \in Done
    /\ l.op = "job_complete" =>
         /\ l.end = c.end /\ l.state = c.state
         /\ (IF l.start > l.end THEN 0 ELSE l.start) = c.start
    /\ l.op = "step_start" =>
         c.step = "RUNNING" /\ c.state = "RUNNING" /\ d.step # NoRow
    /\ l.op = "step_complete" =>
         c.step = "COMPLETE" /\ l.time = c.send /\ l.state = "COMPLETE"

OpenRow(c, d) == (c.state \in Live /\ d.row # NoRow) => d.row.end = 0

\* The row of the step; while the job is suspended its column holds the time
\* since which, less what was suspended before.
StepRow(c, d) ==
  /\ c.step = "none" => d.step = NoRow /\ c.ssus = 0
  /\ c.step = "RUNNING" => c.state \in {"RUNNING", "SUSPENDED"}
  /\ (c.step = "RUNNING" /\ d.step # NoRow) =>
       /\ d.step.start = c.sstart /\ d.step.end = 0
       /\ d.step.suspended = IF c.state = "SUSPENDED" THEN c.since - c.ssus ELSE c.ssus
  /\ c.step = "COMPLETE" => c.send # 0
  /\ (c.step = "COMPLETE" /\ d.step # NoRow) =>
       d.step = [start |-> c.sstart, end |-> c.send, state |-> "COMPLETE", suspended |-> c.ssus]

\* The seconds the job was suspended, in its row and in suspend_table.
OffBefore(c, t) == IF c.state = "SUSPENDED" THEN c.since ELSE t

SuspRows(c, d, t) ==
  /\ c.off \subseteq 1..OffBefore(c, t) - 1
  /\ d.row = NoRow => c.off = {} /\ c.state # "SUSPENDED"
  /\ (d.row # NoRow /\ c.state # "SUSPENDED") =>
       /\ d.row.suspended = Cardinality(c.off)
       /\ \A i \in 1..Len(d.susp) : d.susp[i].end # 0
       /\ SuspTotal(d.susp, Len(d.susp)) = Cardinality(c.off)
  /\ c.state = "SUSPENDED" =>
       /\ c.since # 0
       /\ d.row.suspended = c.since - Cardinality(c.off)
       /\ d.susp # <<>> /\ d.susp[Len(d.susp)] = [start |-> c.since, end |-> 0]
       /\ \A i \in 1..Len(d.susp) - 1 : d.susp[i].end # 0
       /\ SuspTotal(d.susp, Len(d.susp) - 1) = Cardinality(c.off)

Kept(c, d, t) == OpenRow(c, d) /\ StepRow(c, d) /\ SuspRows(c, d, t)

JobFacts(j, c, d, l, t, f) ==
  /\ Shape(c, d, t) /\ Over(c, d) /\ LastOK(j, c, d, l)
  /\ ~f => Kept(c, d, t)

JobInv ==
  /\ now \in Nat \ {0}
  /\ DOMAIN ctl = Jobs /\ DOMAIN db = Jobs
  /\ last \in Calls \cup {NoCall} \cup [op : {"flush"}, time : Nat]
  /\ \A j \in Jobs : JobFacts(j, ctl[j], db[j], last, now, j \in spoilt)
  /\ \A j \in Jobs : j \in rejoin => ctl[j].state \in Live
  /\ last.op = "flush" => \A j \in Jobs : db[j].row = NoRow \/ db[j].row.end # 0

-----------------------------------------------------------------------------
(* What each call does to the job it is about.                             *)

\* A call that does not suspend or resume leaves the suspended seconds alone,
\* also when it adds the row.
LEMMA SuspRowsKept ==
  ASSUME NEW c, NEW d, NEW k, NEW t \in Nat, Shape(c, d, t), SuspRows(c, d, t),
         k.row # NoRow, k.susp = d.susp,
         k.row.suspended = IF d.row = NoRow THEN 0 ELSE d.row.suspended
  PROVE  SuspRows(c, k, t)
<1>1. CASE d.row # NoRow
  BY <1>1 DEF SuspRows
<1>2. CASE d.row = NoRow
  <2>1. d.susp = <<>> /\ c.off = {} /\ c.state # "SUSPENDED"
    BY <1>2 DEF Shape, SuspRows
  <2>2. SuspTotal(<<>>, 0) = 0
    BY TotalStep DEF SuspTotal
  <2>3. Cardinality(c.off) = 0
    BY <2>1, FS_EmptySet
  <2>4. Len(<<>>) = 0 /\ 1..0 = {}
    OBVIOUS
  <2>5. k.susp = <<>> /\ k.row.suspended = 0
    BY <1>2, <2>1
  <2>6. c.off \subseteq 1..OffBefore(c, t) - 1
    BY DEF SuspRows
  <2> QED BY <2>1, <2>2, <2>3, <2>4, <2>5, <2>6 DEF SuspRows
<1> QED BY <1>1, <1>2

LEMMA ShapeKept ==
  ASSUME NEW c, NEW d, NEW k, NEW t, Shape(c, d, t),
         k \in Tables, k.row # NoRow, c.state # "none"
  PROVE  Shape(c, k, t)
BY DEF Shape

\* A live job is announced: once more, by a restarted controller, or at first.
LEMMA StartKeeps ==
  ASSUME NEW j, NEW c, NEW d, NEW t \in Nat, NEW f \in BOOLEAN,
         Shape(c, d, t), ~f => Kept(c, d, t),
         NEW m \in Calls, m.op = "job_start", m.idx => d.row # NoRow, c.state \in Live
  PROVE  JobFacts(j, c, JobStart(d, m), m, t, f) /\ JobStart(d, m).row # NoRow
<1> DEFINE k == JobStart(d, m)
<1>1. d \in Tables /\ c \in Ctl
  BY DEF Shape
<1>2. CallFor(m, d)
  BY DEF CallFor, Calls
<1>3. /\ k \in Tables /\ k.row \in JobRow /\ k.step = d.step /\ k.susp = d.susp
      /\ k.row.end = IF d.row = NoRow THEN 0 ELSE d.row.end
      /\ k.row.suspended = IF d.row = NoRow THEN 0 ELSE d.row.suspended
  BY <1>1, <1>2, JobStartRow
<1>4. k.row # NoRow /\ c.state # "none" /\ c.state \notin Done
  BY <1>3, NoRowIsNone DEF Live, Done
<1> HIDE DEF k
<1>5. Shape(c, k, t)
  BY <1>3, <1>4, ShapeKept
<1>6. Over(c, k)
  BY <1>4 DEF Over
<1>7. LastOK(j, c, k, m)
  BY <1>4 DEF LastOK
<1>8. ASSUME ~f PROVE Kept(c, k, t)
  <2>1. OpenRow(c, d) /\ StepRow(c, d) /\ SuspRows(c, d, t)
    BY <1>8 DEF Kept
  <2>2. OpenRow(c, k)
    BY <1>3, <1>4, <2>1 DEF OpenRow
  <2>3. StepRow(c, k)
    BY <1>3, <2>1 DEF StepRow
  <2>4. SuspRows(c, k, t)
    BY <1>3, <1>4, <2>1, SuspRowsKept
  <2> QED BY <2>2, <2>3, <2>4 DEF Kept
<1> QED BY <1>4, <1>5, <1>6, <1>7, <1>8 DEF JobFacts, k

\* A job that is over is completed.
LEMMA CompleteKeeps ==
  ASSUME NEW j, NEW c, NEW d, NEW t \in Nat, NEW f \in BOOLEAN,
         Shape(c, d, t), ~f => StepRow(c, d) /\ SuspRows(c, d, t),
         NEW m \in Calls, m.op = "job_complete", m.idx => d.row # NoRow,
         c.state \in Done, c.end # 0, m.end = c.end, m.state = c.state,
         (IF m.start > m.end THEN 0 ELSE m.start) = c.start
  PROVE  JobFacts(j, c, JobComplete(d, m), m, t, f) /\ JobComplete(d, m).row # NoRow
<1> DEFINE k == JobComplete(d, m)
<1>1. d \in Tables /\ c \in Ctl
  BY DEF Shape
<1>2. CallFor(m, d) /\ m.end # 0
  BY DEF CallFor, Calls
<1>3. /\ k \in Tables /\ k.row \in JobRow
      /\ k.row.start = (IF m.start > m.end THEN 0 ELSE m.start)
      /\ k.row.end = m.end /\ k.row.state = m.state
      /\ k.step = d.step /\ k.susp = d.susp
      /\ k.row.suspended = IF d.row = NoRow THEN 0 ELSE d.row.suspended
  BY <1>1, <1>2, JobCompleteRow
<1>4. k.row # NoRow /\ c.state # "none" /\ c.state \notin Live
  BY <1>3, NoRowIsNone DEF Live, Done
<1> HIDE DEF k
<1>5. Shape(c, k, t)
  BY <1>3, <1>4, ShapeKept
<1>6. Over(c, k)
  BY <1>3 DEF Over
<1>7. LastOK(j, c, k, m)
  BY <1>4 DEF LastOK
<1>8. ASSUME ~f PROVE Kept(c, k, t)
  <2>1. StepRow(c, d) /\ SuspRows(c, d, t)
    BY <1>8
  <2>2. OpenRow(c, k)
    BY <1>4 DEF OpenRow
  <2>3. StepRow(c, k)
    BY <1>3, <2>1 DEF StepRow
  <2>4. SuspRows(c, k, t)
    BY <1>3, <1>4, <2>1, SuspRowsKept
  <2> QED BY <2>2, <2>3, <2>4 DEF Kept
<1> QED BY <1>4, <1>5, <1>6, <1>7, <1>8 DEF JobFacts, k

\* What WithRow leaves of the invariant.
LEMMA WithRowKeeps ==
  ASSUME NEW c, NEW d, NEW t \in Nat, NEW f \in BOOLEAN,
         Shape(c, d, t), ~f => OpenRow(c, d) /\ SuspRows(c, d, t),
         c.state # "none", NEW m, CallFor(m, d)
  PROVE  LET w == WithRow(d, m) IN
         /\ w \in Tables /\ w.row \in JobRow /\ w.row # NoRow
         /\ w.step = d.step /\ w.susp = d.susp
         /\ ~f => OpenRow(c, w) /\ SuspRows(c, w, t)
<1> DEFINE w == WithRow(d, m)
<1>1. d \in Tables /\ c \in Ctl
  BY DEF Shape
<1>2. /\ w \in Tables /\ w.row \in JobRow /\ w.step = d.step /\ w.susp = d.susp
      /\ d.row # NoRow => w = d
      /\ d.row = NoRow => w.row.end = 0 /\ w.row.suspended = 0
  BY <1>1, WithRowRow
<1>3. w.row # NoRow
  BY <1>2, NoRowIsNone
<1> HIDE DEF w
<1>4. ASSUME ~f PROVE OpenRow(c, w) /\ SuspRows(c, w, t)
  <2>1. OpenRow(c, d) /\ SuspRows(c, d, t)
    BY <1>4
  <2>2. OpenRow(c, w)
    BY <1>2, <2>1 DEF OpenRow
  <2>3. w.row.suspended = IF d.row = NoRow THEN 0 ELSE d.row.suspended
    BY <1>2
  <2>4. SuspRows(c, w, t)
    BY <1>2, <1>3, <2>1, <2>3, SuspRowsKept
  <2> QED BY <2>2, <2>4
<1> QED BY <1>2, <1>3, <1>4 DEF w

\* A step that runs is started, or its start is repeated.
LEMMA StepStartKeeps ==
  ASSUME NEW j, NEW c, NEW d, NEW t \in Nat, NEW f \in BOOLEAN,
         Shape(c, d, t), ~f => Kept(c, d, t),
         NEW m \in Calls, m.op = "step_start", m.idx => d.row # NoRow,
         c.state = "RUNNING", c.step = "RUNNING",
         (~f /\ d.step = NoRow) => m.time = c.sstart /\ c.ssus = 0
  PROVE  JobFacts(j, c, StepStart(d, m), m, t, f) /\ StepStart(d, m).row # NoRow
<1> DEFINE w == WithRow(d, m)
           k == StepStart(d, m)
<1>1. d \in Tables /\ c.state # "none" /\ c.state \in Live /\ c.state \notin Done
  BY DEF Shape, Live, Done
<1>2. CallFor(m, d)
  BY DEF CallFor, Calls
<1>3. /\ w.row # NoRow /\ w.susp = d.susp
      /\ ~f => OpenRow(c, w) /\ SuspRows(c, w, t)
  BY <1>1, <1>2, WithRowKeeps DEF Kept
<1>4. /\ k \in Tables /\ k.row = w.row /\ k.susp = d.susp
      /\ k.step \in JobRow /\ k.step.end = 0
      /\ d.step = NoRow => k.step.start = m.time /\ k.step.suspended = 0
      /\ d.step # NoRow => k.step.start = d.step.start /\ k.step.suspended = d.step.suspended
  BY <1>1, <1>2, StepStartRow
<1>5. k.step # NoRow
  BY <1>4, NoRowIsNone
<1> HIDE DEF w, k
<1>6. Shape(c, k, t)
  BY <1>1, <1>3, <1>4, ShapeKept
<1>7. Over(c, k) /\ LastOK(j, c, k, m)
  BY <1>1, <1>3, <1>4, <1>5 DEF Over, LastOK
<1>8. ASSUME ~f PROVE Kept(c, k, t)
  <2>1. OpenRow(c, k) /\ SuspRows(c, k, t)
    BY <1>3, <1>4, <1>8 DEF OpenRow, SuspRows
  <2>2. StepRow(c, d)
    BY <1>8 DEF Kept
  <2>3. k.step.start = c.sstart /\ k.step.suspended = c.ssus
    BY <1>4, <1>8, <2>2 DEF StepRow
  <2>4. StepRow(c, k)
    BY <1>4, <2>3 DEF StepRow
  <2> QED BY <2>1, <2>4 DEF Kept
<1> QED BY <1>3, <1>4, <1>6, <1>7, <1>8 DEF JobFacts, k

\* A step that is over is completed.
LEMMA StepCompleteKeeps ==
  ASSUME NEW j, NEW c, NEW d, NEW t \in Nat, NEW f \in BOOLEAN,
         Shape(c, d, t), ~f => OpenRow(c, d) /\ SuspRows(c, d, t) /\ c.send # 0,
         NEW m \in Calls, m.op = "step_complete", m.idx => d.row # NoRow,
         c.state \in Live, c.step = "COMPLETE", m.time = c.send,
         m.state = "COMPLETE",
         (~f /\ d.step # NoRow) => d.step.start = c.sstart /\ d.step.suspended = c.ssus
  PROVE  JobFacts(j, c, StepComplete(d, m), m, t, f) /\ StepComplete(d, m).row # NoRow
<1> DEFINE w == WithRow(d, m)
           k == StepComplete(d, m)
<1>1. d \in Tables /\ c.state # "none" /\ c.state \notin Done
  BY DEF Shape, Live, Done
<1>2. CallFor(m, d)
  BY DEF CallFor, Calls
<1>3. /\ w.row # NoRow /\ w.susp = d.susp
      /\ ~f => OpenRow(c, w) /\ SuspRows(c, w, t)
  BY <1>1, <1>2, WithRowKeeps
<1>4. /\ k \in Tables /\ k.row = w.row /\ k.susp = d.susp
      /\ d.step = NoRow => k.step = NoRow
      /\ d.step # NoRow => k.step = [start |-> d.step.start, end |-> m.time, state |-> m.state,
                                     suspended |-> d.step.suspended]
  BY <1>1, <1>2, StepCompleteRow
<1> HIDE DEF w, k
<1>5. Shape(c, k, t)
  BY <1>1, <1>3, <1>4, ShapeKept
<1>6. Over(c, k) /\ LastOK(j, c, k, m)
  BY <1>1, <1>3, <1>4 DEF Over, LastOK
<1>7. ASSUME ~f PROVE Kept(c, k, t)
  <2>1. OpenRow(c, k) /\ SuspRows(c, k, t)
    BY <1>3, <1>4, <1>7 DEF OpenRow, SuspRows
  <2>2. StepRow(c, k)
    BY <1>4, <1>7 DEF StepRow
  <2> QED BY <2>1, <2>2 DEF Kept
<1> QED BY <1>3, <1>4, <1>5, <1>6, <1>7 DEF JobFacts, k

\* A running job is suspended.
SuspendedJob(c, t) == [c EXCEPT !.state = "SUSPENDED", !.since = t]

LEMMA SuspendKeeps ==
  ASSUME NEW j, NEW c, NEW d, NEW t \in Nat \ {0}, NEW f \in BOOLEAN,
         Shape(c, d, t), ~f => Kept(c, d, t), c.state = "RUNNING",
         NEW m \in Calls, m.op = "suspend", m.idx => d.row # NoRow,
         m.state = "SUSPENDED", m.time = t
  PROVE  JobFacts(j, SuspendedJob(c, t), Suspend(d, m), m, t, f) /\ Suspend(d, m).row # NoRow
<1> DEFINE e == SuspendedJob(c, t)
           w == WithRow(d, m)
           k == Suspend(d, m)
           p == [start |-> t, end |-> 0]
<1>1. d \in Tables /\ c \in Ctl /\ c.state # "none" /\ t \in Nat
  BY DEF Shape
<1>2. CallFor(m, d)
  BY DEF CallFor, Calls
<1>3. /\ w.row # NoRow /\ w.row \in JobRow /\ w.susp = d.susp
      /\ ~f => OpenRow(c, w) /\ SuspRows(c, w, t)
  BY <1>1, <1>2, WithRowKeeps DEF Kept
<1>4. /\ k.row = SuspendedRow(w.row, t, "SUSPENDED") /\ k.row \in JobRow
      /\ k.step = IF d.step = NoRow \/ d.step.end # 0 THEN d.step
                  ELSE SuspendedRow(d.step, t, "SUSPENDED")
      /\ k.step \in JobRow \cup {NoRow}
      /\ k.susp = Append(d.susp, p)
      /\ k = [row |-> k.row, step |-> k.step, susp |-> k.susp]
  BY <1>1, <1>2, SuspendRow
<1>5. p \in Period /\ d.susp \in Seq(Period)
  BY <1>1 DEF Period, Tables
<1>6. /\ e \in Ctl /\ e.state = "SUSPENDED" /\ e.since = t /\ e.start = c.start
      /\ e.off = c.off /\ e.step = c.step /\ e.sstart = c.sstart /\ e.send = c.send
      /\ e.ssus = c.ssus
  BY <1>1 DEF Ctl, Live, SuspendedJob
<1>7. k.row # NoRow
  BY <1>4, NoRowIsNone
<1> HIDE DEF w, k, p
<1>8. /\ k.susp \in Seq(Period) /\ k.susp # <<>> /\ Len(k.susp) = Len(d.susp) + 1
      /\ k.susp[Len(k.susp)] = p /\ \A i \in 1..Len(d.susp) : k.susp[i] = d.susp[i]
      /\ SuspTotal(k.susp, Len(k.susp) - 1) = SuspTotal(d.susp, Len(d.susp))
  BY <1>4, <1>5, SuspAppend
<1>9. k \in Tables
  BY <1>4, <1>8 DEF Tables
<1>10. Shape(e, k, t)
  <2>1. e.start <= t /\ e.since <= t
    BY <1>1, <1>6 DEF Shape
  <2> QED BY <1>6, <1>7, <1>9, <2>1 DEF Shape
<1>11. Over(e, k) /\ LastOK(j, e, k, m)
  BY <1>6, <1>7 DEF Over, LastOK, Done
<1>12. ASSUME ~f PROVE Kept(e, k, t)
  <2>1. OpenRow(c, w) /\ SuspRows(c, w, t) /\ StepRow(c, d)
    BY <1>3, <1>12 DEF Kept
  <2>2. OpenRow(e, k)
    <3>1. w.row.end = 0
      BY <1>3, <2>1 DEF OpenRow, Live
    <3> QED BY <1>4, <3>1 DEF OpenRow, SuspendedRow
  <2>3. StepRow(e, k)
    <3>1. CASE c.step = "none"
      BY <1>4, <1>6, <2>1, <3>1 DEF StepRow
    <3>2. CASE c.step = "RUNNING"
      BY <1>4, <1>6, <2>1, <3>2, NoRowIsNone DEF StepRow, SuspendedRow
    <3>3. CASE c.step = "COMPLETE"
      <4>1. d.step # NoRow => d.step.end # 0
        BY <2>1, <3>3 DEF StepRow
      <4>2. k.step = d.step
        BY <1>4, <4>1
      <4> QED BY <1>6, <2>1, <3>3, <4>2 DEF StepRow
    <3> QED BY <1>1, <3>1, <3>2, <3>3 DEF Ctl
  <2>4. SuspRows(e, k, t)
    <3>1. /\ c.off \subseteq 1..t - 1
          /\ w.row.suspended = Cardinality(c.off)
          /\ \A i \in 1..Len(d.susp) : d.susp[i].end # 0
          /\ SuspTotal(d.susp, Len(d.susp)) = Cardinality(c.off)
      BY <1>3, <2>1 DEF SuspRows, OffBefore
    <3>2. e.off \subseteq 1..OffBefore(e, t) - 1
      BY <1>6, <3>1 DEF OffBefore
    <3>3. k.row.suspended = e.since - Cardinality(e.off)
      BY <1>4, <1>6, <3>1 DEF SuspendedRow
    <3>4. k.susp[Len(k.susp)] = [start |-> e.since, end |-> 0]
      BY <1>6, <1>8 DEF p
    <3>5. \A i \in 1..Len(k.susp) - 1 : k.susp[i].end # 0
      BY <1>5, <1>8, <3>1
    <3>6. SuspTotal(k.susp, Len(k.susp) - 1) = Cardinality(e.off)
      BY <1>6, <1>8, <3>1
    <3> QED BY <1>6, <1>7, <1>8, <3>2, <3>3, <3>4, <3>5, <3>6 DEF SuspRows
  <2> QED BY <2>2, <2>3, <2>4 DEF Kept
<1> QED BY <1>7, <1>10, <1>11, <1>12 DEF JobFacts, k

\* A suspended job is resumed.
ResumedJob(c, t) ==
  [c EXCEPT !.state = "RUNNING", !.off = @ \cup (c.since .. t - 1),
            !.ssus = IF c.step = "RUNNING" THEN @ + (t - c.since) ELSE @]

LEMMA ResumeKeeps ==
  ASSUME NEW j, NEW c, NEW d, NEW t \in Nat \ {0}, NEW f \in BOOLEAN,
         Shape(c, d, t), ~f => Kept(c, d, t), c.state = "SUSPENDED",
         NEW m \in Calls, m.op = "suspend", m.idx => d.row # NoRow,
         m.state = "RUNNING", m.time = t
  PROVE  JobFacts(j, ResumedJob(c, t), Suspend(d, m), m, t, f) /\ Suspend(d, m).row # NoRow
<1> DEFINE e == ResumedJob(c, t)
           w == WithRow(d, m)
           k == Suspend(d, m)
<1>1. d \in Tables /\ c \in Ctl /\ c.state # "none" /\ t \in Nat /\ c.since <= t /\ c.start <= t
      /\ c.since \in Nat /\ c.off \in SUBSET Nat /\ c.ssus \in Int
  BY DEF Shape, Ctl
<1>2. CallFor(m, d)
  BY DEF CallFor, Calls
<1>3. /\ w.row # NoRow /\ w.row \in JobRow /\ w.susp = d.susp
      /\ ~f => OpenRow(c, w) /\ SuspRows(c, w, t)
  BY <1>1, <1>2, WithRowKeeps DEF Kept
<1>4. /\ k.row = SuspendedRow(w.row, t, "RUNNING") /\ k.row \in JobRow
      /\ k.step = IF d.step = NoRow \/ d.step.end # 0 THEN d.step
                  ELSE SuspendedRow(d.step, t, "RUNNING")
      /\ k.step \in JobRow \cup {NoRow}
      /\ k.susp = CloseSuspends(d.susp, t)
      /\ k = [row |-> k.row, step |-> k.step, susp |-> k.susp]
  <2>1. m.state # "SUSPENDED" /\ m.state = "RUNNING" /\ m.time = t
    OBVIOUS
  <2>2. /\ k.row = SuspendedRow(w.row, m.time, m.state) /\ k.row \in JobRow
        /\ k.step = IF d.step = NoRow \/ d.step.end # 0 THEN d.step
                    ELSE SuspendedRow(d.step, m.time, m.state)
        /\ k.step \in JobRow \cup {NoRow}
        /\ k.susp = IF m.state = "SUSPENDED" THEN Append(d.susp, [start |-> m.time, end |-> 0])
                    ELSE CloseSuspends(d.susp, m.time)
        /\ k = [row |-> k.row, step |-> k.step, susp |-> k.susp]
    BY <1>1, <1>2, SuspendRow
  <2> HIDE DEF k, w
  <2> QED BY <2>1, <2>2
<1>5. d.susp \in Seq(Period)
  BY <1>1 DEF Tables
<1>6. /\ e.state = "RUNNING" /\ e.start = c.start /\ e.since = c.since
      /\ e.off = c.off \cup (c.since .. t - 1) /\ e.step = c.step /\ e.sstart = c.sstart
      /\ e.send = c.send
      /\ e.ssus = IF c.step = "RUNNING" THEN c.ssus + (t - c.since) ELSE c.ssus
  BY <1>1 DEF Ctl, ResumedJob
<1>7. e \in Ctl
  <2>1. e.off \in SUBSET Nat /\ e.ssus \in Int
    BY <1>1, <1>6
  <2> DEFINE x == c.off \cup (c.since .. t - 1)
             y == IF c.step = "RUNNING" THEN c.ssus + (t - c.since) ELSE c.ssus
  <2>2. x \in SUBSET Nat /\ y \in Int
    BY <1>6, <2>1
  <2>3. e = [c EXCEPT !.state = "RUNNING", !.off = x, !.ssus = y]
    BY <1>1 DEF Ctl, ResumedJob
  <2> HIDE DEF x, y
  <2> QED BY <1>1, <2>2, <2>3 DEF Ctl, Live
<1>8. k.row # NoRow
  BY <1>4, NoRowIsNone
<1> HIDE DEF w, k
<1>9. k.susp \in Seq(Period)
  BY <1>4, <1>5, <1>1, SuspClosed
<1>10. k \in Tables
  BY <1>4, <1>9 DEF Tables
<1>11. Shape(e, k, t)
  BY <1>1, <1>6, <1>7, <1>8, <1>10 DEF Shape
<1>12. Over(e, k) /\ LastOK(j, e, k, m)
  BY <1>6, <1>8 DEF Over, LastOK, Done
<1>13. ASSUME ~f PROVE Kept(e, k, t)
  <2>1. OpenRow(c, w) /\ SuspRows(c, w, t) /\ StepRow(c, d)
    BY <1>3, <1>13 DEF Kept
  <2>2. OpenRow(e, k)
    <3>1. w.row.end = 0
      BY <1>3, <2>1 DEF OpenRow, Live
    <3> QED BY <1>4, <3>1 DEF OpenRow, SuspendedRow
  <2>3. StepRow(e, k)
    <3>1. CASE c.step = "none"
      BY <1>4, <1>6, <2>1, <3>1 DEF StepRow
    <3>2. CASE c.step = "RUNNING"
      <4>1. CASE d.step = NoRow
        BY <1>4, <1>6, <3>2, <4>1 DEF StepRow
      <4>2. CASE d.step # NoRow
        <5>1. d.step.start = c.sstart /\ d.step.end = 0 /\ d.step.suspended = c.since - c.ssus
          BY <2>1, <3>2, <4>2 DEF StepRow
        <5>2. k.step.start = c.sstart /\ k.step.end = 0 /\ k.step.suspended = t - d.step.suspended
          BY <1>4, <4>2, <5>1 DEF SuspendedRow
        <5>3. e.ssus = t - d.step.suspended
          BY <1>1, <1>6, <3>2, <5>1
        <5> QED BY <1>6, <3>2, <5>2, <5>3 DEF StepRow
      <4> QED BY <4>1, <4>2
    <3>3. CASE c.step = "COMPLETE"
      <4>1. d.step # NoRow => d.step.end # 0
        BY <2>1, <3>3 DEF StepRow
      <4>2. k.step = d.step
        BY <1>4, <4>1
      <4> QED BY <1>6, <2>1, <3>3, <4>2 DEF StepRow
    <3> QED BY <1>1, <3>1, <3>2, <3>3 DEF Ctl
  <2>4. SuspRows(e, k, t)
    <3>1. /\ c.off \subseteq 1..c.since - 1
          /\ c.since # 0
          /\ w.row.suspended = c.since - Cardinality(c.off)
          /\ d.susp # <<>> /\ d.susp[Len(d.susp)] = [start |-> c.since, end |-> 0]
          /\ \A i \in 1..Len(d.susp) - 1 : d.susp[i].end # 0
          /\ SuspTotal(d.susp, Len(d.susp) - 1) = Cardinality(c.off)
      BY <1>3, <2>1 DEF SuspRows, OffBefore
    <3>2. e.off \subseteq 1..t - 1 /\ Cardinality(c.off) \in Nat
          /\ Cardinality(e.off) = Cardinality(c.off) + (t - c.since)
      <4>1. c.since \in Nat \ {0}
        BY <1>1, <3>1
      <4>2. c.since <= t /\ t \in Nat /\ c.off \subseteq 1..c.since - 1
        BY <1>1, <3>1
      <4> DEFINE more == c.off \cup (c.since .. t - 1)
      <4>3. more \subseteq 1..t - 1 /\ Cardinality(c.off) \in Nat
            /\ Cardinality(more) = Cardinality(c.off) + (t - c.since)
        BY <4>1, <4>2, OffGrows
      <4> QED BY <1>6, <4>3
    <3>3. /\ \A i \in 1..Len(k.susp) : k.susp[i].end # 0
          /\ SuspTotal(k.susp, Len(k.susp)) = SuspTotal(d.susp, Len(d.susp) - 1) + (t - c.since)
      <4>1. c.since \in Nat /\ d.susp # <<>> /\ d.susp[Len(d.susp)] = [start |-> c.since, end |-> 0]
            /\ \A i \in 1..Len(d.susp) - 1 : d.susp[i].end # 0
        BY <1>1, <3>1
      <4> DEFINE a == CloseSuspends(d.susp, t)
      <4>2. /\ \A i \in 1..Len(a) : a[i].end # 0
            /\ SuspTotal(a, Len(a)) = SuspTotal(d.susp, Len(d.susp) - 1) + (t - c.since)
        BY <1>5, <4>1, SuspClose
      <4>3. k.susp = a
        BY <1>4
      <4> QED BY <4>2, <4>3
    <3>4. k.row.suspended = Cardinality(e.off)
      <4>1. k.row.suspended = t - w.row.suspended
        BY <1>4 DEF SuspendedRow
      <4> QED BY <1>1, <3>1, <3>2, <4>1
    <3>5. SuspTotal(k.susp, Len(k.susp)) = Cardinality(e.off)
      BY <1>1, <3>1, <3>2, <3>3
    <3>6. e.off \subseteq 1..OffBefore(e, t) - 1
      BY <1>6, <3>2 DEF OffBefore
    <3> QED BY <1>6, <1>8, <3>3, <3>4, <3>5, <3>6 DEF SuspRows
  <2> QED BY <2>2, <2>3, <2>4 DEF Kept
<1> QED BY <1>8, <1>11, <1>12, <1>13 DEF JobFacts, k

-----------------------------------------------------------------------------
(* Every step keeps the invariant.                                         *)

IsFlush(l) == l \in [op : {"flush"}, time : Nat]

LEMMA CallIsNoFlush ==
  /\ \A m \in Calls : ~IsFlush(m) /\ m # NoCall /\ m.op # "flush"
  /\ \A l : IsFlush(l) => l \notin Calls /\ l.op = "flush"
  /\ NoCall \notin Calls /\ NoCall.op = "none"
<1>1. \A m \in Calls : m.op \in Ops /\ m.op # "flush" /\ m.op # "none"
  BY DEF Calls, Ops
<1>2. \A l : IsFlush(l) => l.op = "flush"
  BY DEF IsFlush
<1>3. NoCall.op = "none"
  BY DEF NoCall
<1> QED BY <1>1, <1>2, <1>3

\* What a call of the agent is, and does to the rows.
LEMMA CallFields ==
  ASSUME NEW o \in Ops \ {"flush"}, NEW j \in Jobs, NEW i \in BOOLEAN, NEW s \in Live \cup Done,
         NEW a \in Nat, NEW b \in Nat, NEW t \in Nat
  PROVE  LET m == Call(o, j, i, s, a, b, t) IN
         /\ m \in Calls /\ m.op = o /\ m.job = j /\ m.idx = i /\ m.state = s
         /\ m.start = a /\ m.end = b /\ m.time = t
BY DEF Call, Calls

Effect(d, m) ==
  CASE m.op = "job_start"     -> JobStart(d, m)
    [] m.op = "job_complete"  -> JobComplete(d, m)
    [] m.op = "step_start"    -> StepStart(d, m)
    [] m.op = "step_complete" -> StepComplete(d, m)
    [] m.op = "suspend"       -> Suspend(d, m)

Unless(j, f, g, x) == DOMAIN f = Jobs /\ f[j] = x /\ \A i \in Jobs \ {j} : f[i] = g[i]

LEMMA DeliverOne ==
  ASSUME DOMAIN db = Jobs, NEW m \in Calls, Deliver(m)
  PROVE  Unless(m.job, db', db, Effect(db[m.job], m)) /\ last' = m
<1>1. m.job \in Jobs
      /\ m.op \in {"job_start", "job_complete", "step_start", "step_complete", "suspend"}
  BY DEF Calls, Ops
<1>2. db' = Apply(db, m) /\ last' = m
  BY DEF Deliver
<1>3. CASE m.op = "job_start"
  BY <1>1, <1>2, <1>3 DEF Apply, Effect, Unless
<1>4. CASE m.op = "job_complete"
  BY <1>1, <1>2, <1>4 DEF Apply, Effect, Unless
<1>5. CASE m.op = "step_start"
  BY <1>1, <1>2, <1>5 DEF Apply, Effect, Unless
<1>6. CASE m.op = "step_complete"
  BY <1>1, <1>2, <1>6 DEF Apply, Effect, Unless
<1>7. CASE m.op = "suspend"
  BY <1>1, <1>2, <1>7 DEF Apply, Effect, Unless
<1> QED BY <1>1, <1>3, <1>4, <1>5, <1>6, <1>7

\* A suspend that is delivered again leaves the row of its job where it is: only
\* the suspended times are no longer what they were.
LEMMA SuspendAgain ==
  ASSUME NEW j, NEW c, NEW d, NEW t \in Nat, Shape(c, d, t),
         c.state \notin Done, c.state # "none", d.row # NoRow,
         NEW m \in Calls, m.op = "suspend"
  PROVE  JobFacts(j, c, Suspend(d, m), m, t, TRUE)
<1> DEFINE w == WithRow(d, m)
           k == Suspend(d, m)
           p == [start |-> m.time, end |-> 0]
<1>1. d \in Tables /\ CallFor(m, d) /\ m.time \in Nat
  BY DEF Shape, CallFor, Calls
<1>2. /\ k.row \in JobRow /\ k.step \in JobRow \cup {NoRow}
      /\ k.susp = IF m.state = "SUSPENDED" THEN Append(d.susp, p) ELSE CloseSuspends(d.susp, m.time)
      /\ k = [row |-> k.row, step |-> k.step, susp |-> k.susp]
  BY <1>1, SuspendRow
<1>3. p \in Period /\ d.susp \in Seq(Period)
  BY <1>1 DEF Period, Tables
<1> HIDE DEF k, p
<1>4. Append(d.susp, p) \in Seq(Period) /\ CloseSuspends(d.susp, m.time) \in Seq(Period)
  BY <1>1, <1>3, SuspAppend, SuspClosed
<1>5. k \in Tables /\ k.row # NoRow
  BY <1>2, <1>4, NoRowIsNone DEF Tables
<1>6. Shape(c, k, t)
  BY <1>5, ShapeKept
<1>7. Over(c, k) /\ LastOK(j, c, k, m)
  BY <1>5 DEF Over, LastOK
<1> QED BY <1>6, <1>7 DEF JobFacts, k

\* A step of one job: the others keep what they have.
LEMMA OtherCall ==
  ASSUME NEW j, NEW i, NEW c, NEW d, NEW t, NEW f, NEW l, NEW m,
         JobFacts(i, c, d, l, t, f), m.job = j, i # j
  PROVE  JobFacts(i, c, d, m, t, f)
BY DEF JobFacts, LastOK

\* A call about one job, which may spoil it.
LEMMA DeliveredTo ==
  ASSUME JobInv, NEW j \in Jobs, NEW e, NEW m \in Calls, m.job = j, Deliver(m),
         Unless(j, ctl', ctl, e),
         JobFacts(j, e, Effect(db[j], m), m, now, j \in spoilt'),
         now' = now, spoilt \subseteq spoilt', rejoin' \subseteq rejoin,
         j \in rejoin' => e.state \in Live
  PROVE  JobInv'
<1>1. Unless(j, db', db, Effect(db[j], m)) /\ last' = m
  BY DeliverOne DEF JobInv
<1>2. ASSUME NEW i \in Jobs PROVE JobFacts(i, ctl[i], db[i], last, now, i \in spoilt)
  BY DEF JobInv
<1>3. ASSUME NEW i \in Jobs PROVE JobFacts(i, ctl'[i], db'[i], m, now, i \in spoilt')
  <2>1. CASE i = j
    BY <1>1, <2>1 DEF Unless
  <2>2. CASE i # j
    <3>1. ctl'[i] = ctl[i] /\ db'[i] = db[i]
      BY <1>1, <2>2 DEF Unless
    <3>2. JobFacts(i, ctl[i], db[i], m, now, i \in spoilt)
      BY <1>2, <2>2, OtherCall
    <3>3. JobFacts(i, ctl[i], db[i], m, now, i \in spoilt')
      <4>1. i \in spoilt => i \in spoilt'
        OBVIOUS
      <4> QED BY <3>2, <4>1 DEF JobFacts
    <3> QED BY <3>1, <3>3
  <2> QED BY <2>1, <2>2
<1>4. \A i \in Jobs : i \in rejoin' => ctl'[i].state \in Live
  BY DEF JobInv, Unless
<1>5. m.op # "flush"
  BY CallIsNoFlush
<1>6. now \in Nat \ {0} /\ DOMAIN ctl' = Jobs /\ DOMAIN db' = Jobs
  BY <1>1 DEF JobInv, Unless
<1> QED BY <1>1, <1>3, <1>4, <1>5, <1>6 DEF JobInv

LEMMA Delivered ==
  ASSUME JobInv, NEW j \in Jobs, NEW e, NEW m \in Calls, m.job = j, Deliver(m),
         Unless(j, ctl', ctl, e),
         JobFacts(j, e, Effect(db[j], m), m, now, j \in spoilt),
         now' = now, spoilt' = spoilt, rejoin' \subseteq rejoin,
         j \in rejoin' => e.state \in Live
  PROVE  JobInv'
<1>1. JobFacts(j, e, Effect(db[j], m), m, now, j \in spoilt') /\ spoilt \subseteq spoilt'
  OBVIOUS
<1> QED BY <1>1, DeliveredTo

LEMMA NotSent ==
  ASSUME JobInv, NEW j \in Jobs, NEW e, Unless(j, ctl', ctl, e),
         JobFacts(j, e, db[j], last, now, j \in spoilt), rejoin = {},
         UNCHANGED <<now, db, last, spoilt, rejoin>>
  PROVE  JobInv'
<1>1. ASSUME NEW i \in Jobs PROVE JobFacts(i, ctl'[i], db[i], last, now, i \in spoilt)
  BY DEF JobInv, Unless
<1>2. DOMAIN ctl' = Jobs
  BY DEF Unless
<1> QED BY <1>1, <1>2 DEF JobInv

LEMMA KnownRow ==
  ASSUME NEW j, NEW i \in Known(j)
  PROVE  i \in BOOLEAN /\ (i => db[j].row # NoRow)
BY DEF Known

LEMMA ShapeOf ==
  ASSUME JobInv, NEW j \in Jobs
  PROVE  /\ JobFacts(j, ctl[j], db[j], last, now, j \in spoilt)
         /\ Shape(ctl[j], db[j], now) /\ Over(ctl[j], db[j]) /\ LastOK(j, ctl[j], db[j], last)
         /\ j \notin spoilt => Kept(ctl[j], db[j], now)
         /\ ctl[j] \in Ctl /\ db[j] \in Tables
         /\ now \in Nat /\ now # 0 /\ DOMAIN ctl = Jobs /\ DOMAIN db = Jobs
         /\ (j \in spoilt) \in BOOLEAN
<1>1. JobFacts(j, ctl[j], db[j], last, now, j \in spoilt)
  BY DEF JobInv
<1>2. now \in Nat /\ now # 0 /\ DOMAIN ctl = Jobs /\ DOMAIN db = Jobs
  BY DEF JobInv
<1> QED BY <1>1, <1>2 DEF JobFacts, Shape

\* A start call, sent or purged.
LEMMA SendStartKeeps ==
  ASSUME JobInv, NEW j \in Jobs, NEW e, NEW m \in Calls, m.job = j, SendStart(m),
         Unless(j, ctl', ctl, e), rejoin = {},
         JobFacts(j, e, db[j], last, now, j \in spoilt),
         JobFacts(j, e, Effect(db[j], m), m, now, j \in spoilt),
         UNCHANGED <<now, spoilt, rejoin>>
  PROVE  JobInv'
<1>1. CASE Deliver(m)
  BY <1>1, Delivered
<1>2. CASE UNCHANGED <<db, last>>
  BY <1>2, NotSent
<1> QED BY <1>1, <1>2 DEF SendStart

LEMMA SubmitKeeps ==
  ASSUME JobInv, NEW j \in Jobs, Submit(j)
  PROVE  JobInv'
<1> DEFINE c == ctl[j]
           d == db[j]
           f == j \in spoilt
           e == [c EXCEPT !.state = "PENDING", !.submit = now]
<1> PICK no \in BOOLEAN : no = FALSE
  OBVIOUS
<1> DEFINE m == Call("job_start", j, no, "PENDING", 0, 0, now)
<1>1. /\ Shape(c, d, now) /\ c \in Ctl /\ d \in Tables /\ LastOK(j, c, d, last)
      /\ now \in Nat /\ now # 0 /\ DOMAIN ctl = Jobs /\ f \in BOOLEAN
  BY ShapeOf
<1>2. /\ rejoin = {} /\ c.state = "none" /\ SendStart(m)
      /\ ctl' = [ctl EXCEPT ![j].state = "PENDING", ![j].submit = now]
      /\ UNCHANGED <<now, rejoin, spoilt>>
  BY DEF Submit
<1>3. Unless(j, ctl', ctl, e)
  BY <1>1, <1>2 DEF Unless
<1>4. m \in Calls /\ m.op = "job_start" /\ m.job = j /\ ~m.idx
  <2>1. "job_start" \in Ops \ {"flush"} /\ "PENDING" \in Live \cup Done /\ 0 \in Nat
    BY DEF Ops, Live
  <2>2. m \in Calls /\ m.op = "job_start" /\ m.job = j /\ m.idx = no
    BY <1>1, <2>1, CallFields
  <2> HIDE DEF m
  <2> QED BY <2>2
<1>5. d = NoRows /\ c = NewJob
  BY <1>1, <1>2 DEF Shape
<1>6. /\ e \in Ctl /\ e.state = "PENDING" /\ e.start = 0 /\ e.step = "none" /\ e.ssus = 0
      /\ e.off = {} /\ e.since = 0
  <2>1. /\ c.start = 0 /\ c.step = "none" /\ c.ssus = 0 /\ c.off = {} /\ c.since = 0
    BY <1>5 DEF NewJob
  <2>2. e \in Ctl
    BY <1>1 DEF Ctl, Live
  <2>3. /\ e.state = "PENDING" /\ e.start = c.start /\ e.step = c.step /\ e.ssus = c.ssus
        /\ e.off = c.off /\ e.since = c.since
    BY <1>1 DEF Ctl
  <2> QED BY <2>1, <2>2, <2>3
<1>7. d.row = NoRow /\ d.step = NoRow /\ d.susp = <<>>
  BY <1>5 DEF NoRows
<1> HIDE DEF e, m
<1>8. Shape(e, d, now)
  BY <1>1, <1>6, <1>7 DEF Shape
<1>9. Kept(e, d, now)
  <2>1. OpenRow(e, d)
    BY <1>7 DEF OpenRow
  <2>2. StepRow(e, d)
    BY <1>6, <1>7 DEF StepRow
  <2>3. SuspRows(e, d, now)
    BY <1>6, <1>7 DEF SuspRows
  <2> QED BY <2>1, <2>2, <2>3 DEF Kept
<1>10. Over(e, d) /\ LastOK(j, e, d, last)
  BY <1>1, <1>2, <1>6 DEF Over, LastOK, Done
<1>11. JobFacts(j, e, d, last, now, f)
  BY <1>8, <1>9, <1>10 DEF JobFacts
<1>12. JobFacts(j, e, Effect(d, m), m, now, f)
  <2>1. e.state \in Live
    BY <1>6 DEF Live
  <2>2. Effect(d, m) = JobStart(d, m)
    BY <1>4 DEF Effect
  <2>3. JobFacts(j, e, JobStart(d, m), m, now, f)
    BY <1>1, <1>4, <1>8, <1>9, <2>1, StartKeeps
  <2> QED BY <2>2, <2>3
<1> QED BY <1>2, <1>3, <1>4, <1>11, <1>12, SendStartKeeps

LEMMA RunKeeps ==
  ASSUME JobInv, NEW j \in Jobs, Run(j)
  PROVE  JobInv'
<1> DEFINE c == ctl[j]
           d == db[j]
           f == j \in spoilt
           e == [c EXCEPT !.state = "RUNNING", !.start = now]
<1>1. /\ Shape(c, d, now) /\ c \in Ctl /\ d \in Tables /\ LastOK(j, c, d, last)
      /\ ~f => Kept(c, d, now)
      /\ now \in Nat /\ now # 0 /\ DOMAIN ctl = Jobs /\ f \in BOOLEAN
  BY ShapeOf
<1>2. /\ rejoin = {} /\ c.state = "PENDING"
      /\ ctl' = [ctl EXCEPT ![j].state = "RUNNING", ![j].start = now]
      /\ UNCHANGED <<now, rejoin, spoilt>>
  BY DEF Run
<1>3. PICK i \in Known(j) : SendStart(Call("job_start", j, i, "RUNNING", now, 0, now))
  BY DEF Run
<1> DEFINE m == Call("job_start", j, i, "RUNNING", now, 0, now)
<1>4. Unless(j, ctl', ctl, e)
  BY <1>1, <1>2 DEF Unless
<1>5. i \in BOOLEAN /\ (i => d.row # NoRow)
  BY <1>3, KnownRow
<1>6. m \in Calls /\ m.op = "job_start" /\ m.job = j /\ m.idx = i
  BY <1>1, <1>5, CallFields DEF Ops, Live
<1>7. c.start = 0 /\ c.step = "none"
  BY <1>1, <1>2 DEF Shape
<1>8. /\ e \in Ctl /\ e.state = "RUNNING" /\ e.start = now /\ e.step = c.step
      /\ e.ssus = c.ssus /\ e.off = c.off /\ e.since = c.since
      /\ e.sstart = c.sstart /\ e.send = c.send
  BY <1>1 DEF Ctl, Live
<1> HIDE DEF e
<1>9. Shape(e, d, now)
  BY <1>1, <1>2, <1>8 DEF Shape
<1>10. ASSUME ~f PROVE Kept(e, d, now)
  <2>1. OpenRow(c, d) /\ StepRow(c, d) /\ SuspRows(c, d, now)
    BY <1>1, <1>10 DEF Kept
  <2>2. OpenRow(e, d)
    BY <1>2, <2>1 DEF OpenRow, Live
  <2>3. StepRow(e, d)
    BY <1>7, <1>8, <2>1 DEF StepRow
  <2>4. SuspRows(e, d, now)
    BY <1>2, <1>8, <2>1 DEF SuspRows, OffBefore
  <2> QED BY <2>2, <2>3, <2>4 DEF Kept
<1>11. Over(e, d) /\ LastOK(j, e, d, last)
  BY <1>1, <1>2, <1>7, <1>8 DEF Over, LastOK, Done
<1>12. JobFacts(j, e, d, last, now, f)
  BY <1>9, <1>10, <1>11 DEF JobFacts
<1> HIDE DEF m
<1>13. JobFacts(j, e, Effect(d, m), m, now, f)
  <2>1. e.state \in Live
    BY <1>8 DEF Live
  <2>2. Effect(d, m) = JobStart(d, m)
    BY <1>6 DEF Effect
  <2>3. m.idx => d.row # NoRow
    BY <1>5, <1>6
  <2>4. JobFacts(j, e, JobStart(d, m), m, now, f)
    BY <1>1, <1>6, <1>9, <1>10, <2>1, <2>3, StartKeeps
  <2> QED BY <2>2, <2>4
<1>14. SendStart(m)
  BY <1>3 DEF m
<1> QED BY <1>2, <1>4, <1>6, <1>12, <1>13, <1>14, SendStartKeeps

LEMMA StepBeginKeeps ==
  ASSUME JobInv, NEW j \in Jobs, StepBegin(j)
  PROVE  JobInv'
<1> DEFINE c == ctl[j]
           d == db[j]
           f == j \in spoilt
           e == [c EXCEPT !.step = "RUNNING", !.sstart = now]
<1>1. /\ Shape(c, d, now) /\ c \in Ctl /\ d \in Tables /\ LastOK(j, c, d, last)
      /\ ~f => Kept(c, d, now)
      /\ now \in Nat /\ now # 0 /\ DOMAIN ctl = Jobs /\ f \in BOOLEAN
  BY ShapeOf
<1>2. /\ rejoin = {} /\ c.state = "RUNNING" /\ c.step = "none"
      /\ ctl' = [ctl EXCEPT ![j].step = "RUNNING", ![j].sstart = now]
      /\ UNCHANGED <<now, rejoin, spoilt>>
  BY DEF StepBegin
<1>3. PICK i \in Known(j) : SendStart(Call("step_start", j, i, "PENDING", 0, 0, now))
  BY DEF StepBegin
<1> DEFINE m == Call("step_start", j, i, "PENDING", 0, 0, now)
<1>4. Unless(j, ctl', ctl, e)
  BY <1>1, <1>2 DEF Unless
<1>5. i \in BOOLEAN /\ (i => d.row # NoRow)
  BY <1>3, KnownRow
<1>6. m \in Calls /\ m.op = "step_start" /\ m.job = j /\ m.idx = i /\ m.time = now
  BY <1>1, <1>5, CallFields DEF Ops, Live
<1>7. /\ e \in Ctl /\ e.state = "RUNNING" /\ e.start = c.start /\ e.step = "RUNNING"
      /\ e.ssus = c.ssus /\ e.off = c.off /\ e.since = c.since
      /\ e.sstart = now /\ e.send = c.send
  BY <1>1, <1>2 DEF Ctl
<1> HIDE DEF e
<1>8. Shape(e, d, now)
  BY <1>1, <1>2, <1>7 DEF Shape
<1>9. ASSUME ~f PROVE Kept(e, d, now) /\ e.ssus = 0
  <2>1. OpenRow(c, d) /\ StepRow(c, d) /\ SuspRows(c, d, now)
    BY <1>1, <1>9 DEF Kept
  <2>2. OpenRow(e, d)
    BY <1>2, <1>7, <2>1 DEF OpenRow
  <2>3. StepRow(e, d) /\ e.ssus = 0
    BY <1>2, <1>7, <2>1 DEF StepRow
  <2>4. SuspRows(e, d, now)
    BY <1>2, <1>7, <2>1 DEF SuspRows, OffBefore
  <2> QED BY <2>2, <2>3, <2>4 DEF Kept
<1>10. Over(e, d) /\ LastOK(j, e, d, last)
  BY <1>1, <1>2, <1>7 DEF Over, LastOK, Done
<1>11. JobFacts(j, e, d, last, now, f)
  BY <1>8, <1>9, <1>10 DEF JobFacts
<1> HIDE DEF m
<1>12. JobFacts(j, e, Effect(d, m), m, now, f)
  <2>1. Effect(d, m) = StepStart(d, m)
    BY <1>6 DEF Effect
  <2>2. m.idx => d.row # NoRow
    BY <1>5, <1>6
  <2>3. (~f /\ d.step = NoRow) => m.time = e.sstart /\ e.ssus = 0
    BY <1>6, <1>7, <1>9
  <2>4. JobFacts(j, e, StepStart(d, m), m, now, f)
    BY <1>1, <1>6, <1>7, <1>8, <1>9, <2>2, <2>3, StepStartKeeps
  <2> QED BY <2>1, <2>4
<1>13. SendStart(m)
  BY <1>3 DEF m
<1> QED BY <1>2, <1>4, <1>6, <1>11, <1>12, <1>13, SendStartKeeps

LEMMA CancelKeeps ==
  ASSUME JobInv, NEW j \in Jobs, Cancel(j)
  PROVE  JobInv'
<1> DEFINE c == ctl[j]
           d == db[j]
           f == j \in spoilt
           e == [c EXCEPT !.state = "CANCELLED", !.end = now]
<1>1. /\ Shape(c, d, now) /\ c \in Ctl /\ d \in Tables
      /\ ~f => Kept(c, d, now)
      /\ now \in Nat /\ now # 0 /\ DOMAIN ctl = Jobs /\ f \in BOOLEAN
  BY ShapeOf
<1>2. /\ rejoin = {} /\ c.state = "PENDING"
      /\ ctl' = [ctl EXCEPT ![j].state = "CANCELLED", ![j].end = now]
      /\ UNCHANGED <<now, rejoin, spoilt>>
  BY DEF Cancel
<1>3. PICK i \in Known(j), planned \in {0, now + 1} :
        Deliver(Call("job_complete", j, i, "CANCELLED", planned, now, now))
  BY DEF Cancel
<1> DEFINE m == Call("job_complete", j, i, "CANCELLED", planned, now, now)
<1>4. Unless(j, ctl', ctl, e)
  BY <1>1, <1>2 DEF Unless
<1>5. i \in BOOLEAN /\ (i => d.row # NoRow) /\ planned \in Nat
  BY <1>1, <1>3, KnownRow
<1>6. m \in Calls /\ m.op = "job_complete" /\ m.job = j /\ m.idx = i
      /\ m.state = "CANCELLED" /\ m.start = planned /\ m.end = now
  <2>1. "job_complete" \in Ops \ {"flush"} /\ "step_complete" \in Ops \ {"flush"}
        /\ "CANCELLED" \in Live \cup Done /\ "COMPLETE" \in Live \cup Done
    BY DEF Ops, Done
  <2> QED BY <1>1, <1>5, <2>1, CallFields
<1>7. c.start = 0 /\ c.step = "none"
  BY <1>1, <1>2 DEF Shape
<1>8. /\ e \in Ctl /\ e.state = "CANCELLED" /\ e.end = now /\ e.start = c.start
      /\ e.step = c.step /\ e.ssus = c.ssus /\ e.off = c.off /\ e.since = c.since
      /\ e.sstart = c.sstart /\ e.send = c.send
  BY <1>1 DEF Ctl, Done
<1> HIDE DEF e, m
<1>9. Shape(e, d, now)
  BY <1>1, <1>2, <1>8 DEF Shape
<1>10. ASSUME ~f PROVE StepRow(e, d) /\ SuspRows(e, d, now)
  <2>1. StepRow(c, d) /\ SuspRows(c, d, now)
    BY <1>1, <1>10 DEF Kept
  <2>2. StepRow(e, d)
    BY <1>7, <1>8, <2>1 DEF StepRow
  <2>3. SuspRows(e, d, now)
    BY <1>2, <1>8, <2>1 DEF SuspRows, OffBefore
  <2> QED BY <2>2, <2>3
<1>11. e.state \in Done /\ e.end # 0 /\ m.end = e.end /\ m.state = e.state
  BY <1>1, <1>6, <1>8 DEF Done
<1>12. (IF m.start > m.end THEN 0 ELSE m.start) = e.start
  BY <1>1, <1>3, <1>6, <1>7, <1>8
<1>13. JobFacts(j, e, Effect(d, m), m, now, f)
  <2>1. Effect(d, m) = JobComplete(d, m)
    BY <1>6 DEF Effect
  <2>2. m.idx => d.row # NoRow
    BY <1>5, <1>6
  <2>3. JobFacts(j, e, JobComplete(d, m), m, now, f)
    BY <1>1, <1>6, <1>9, <1>10, <1>11, <1>12, <2>2, CompleteKeeps
  <2> QED BY <2>1, <2>3
<1>14. Deliver(m) /\ rejoin' \subseteq rejoin /\ j \notin rejoin'
  BY <1>2, <1>3 DEF m
<1> QED BY <1>2, <1>4, <1>6, <1>13, <1>14, Delivered

LEMMA FinishKeeps ==
  ASSUME JobInv, NEW j \in Jobs, Finish(j)
  PROVE  JobInv'
<1> DEFINE c == ctl[j]
           d == db[j]
           f == j \in spoilt
           e == [c EXCEPT !.state = "COMPLETE", !.end = now]
<1>1. /\ Shape(c, d, now) /\ c \in Ctl /\ d \in Tables
      /\ ~f => Kept(c, d, now)
      /\ now \in Nat /\ now # 0 /\ DOMAIN ctl = Jobs /\ f \in BOOLEAN
  BY ShapeOf
<1>2. /\ rejoin = {} /\ c.state = "RUNNING" /\ c.step # "RUNNING"
      /\ ctl' = [ctl EXCEPT ![j].state = "COMPLETE", ![j].end = now]
      /\ UNCHANGED <<now, rejoin, spoilt>>
  BY DEF Finish
<1>3. PICK i \in Known(j) : Deliver(Call("job_complete", j, i, "COMPLETE", c.start, now, now))
  BY DEF Finish
<1> DEFINE m == Call("job_complete", j, i, "COMPLETE", c.start, now, now)
<1>4. Unless(j, ctl', ctl, e)
  BY <1>1, <1>2 DEF Unless
<1>5. i \in BOOLEAN /\ (i => d.row # NoRow)
  BY <1>3, KnownRow
<1>6. c.start \in Nat /\ c.start <= now
  BY <1>1 DEF Shape, Ctl
<1>7. m \in Calls /\ m.op = "job_complete" /\ m.job = j /\ m.idx = i
      /\ m.state = "COMPLETE" /\ m.start = c.start /\ m.end = now
  <2>1. "job_complete" \in Ops \ {"flush"} /\ "COMPLETE" \in Live \cup Done
    BY DEF Ops, Done
  <2> QED BY <1>1, <1>5, <1>6, <2>1, CallFields
<1>8. /\ e \in Ctl /\ e.state = "COMPLETE" /\ e.end = now /\ e.start = c.start
      /\ e.step = c.step /\ e.ssus = c.ssus /\ e.off = c.off /\ e.since = c.since
      /\ e.sstart = c.sstart /\ e.send = c.send
  BY <1>1 DEF Ctl, Done
<1> HIDE DEF e, m
<1>9. Shape(e, d, now)
  BY <1>1, <1>2, <1>8 DEF Shape
<1>10. ASSUME ~f PROVE StepRow(e, d) /\ SuspRows(e, d, now)
  <2>1. StepRow(c, d) /\ SuspRows(c, d, now)
    BY <1>1, <1>10 DEF Kept
  <2>2. StepRow(e, d)
    BY <1>2, <1>8, <2>1 DEF StepRow
  <2>3. SuspRows(e, d, now)
    BY <1>2, <1>8, <2>1 DEF SuspRows, OffBefore
  <2> QED BY <2>2, <2>3
<1>11. e.state \in Done /\ e.end # 0 /\ m.end = e.end /\ m.state = e.state
  BY <1>1, <1>7, <1>8 DEF Done
<1>12. (IF m.start > m.end THEN 0 ELSE m.start) = e.start
  BY <1>1, <1>6, <1>7, <1>8
<1>13. JobFacts(j, e, Effect(d, m), m, now, f)
  <2>1. Effect(d, m) = JobComplete(d, m)
    BY <1>7 DEF Effect
  <2>2. m.idx => d.row # NoRow
    BY <1>5, <1>7
  <2>3. JobFacts(j, e, JobComplete(d, m), m, now, f)
    BY <1>1, <1>7, <1>9, <1>10, <1>11, <1>12, <2>2, CompleteKeeps
  <2> QED BY <2>1, <2>3
<1>14. Deliver(m) /\ rejoin' \subseteq rejoin /\ j \notin rejoin'
  BY <1>2, <1>3 DEF m
<1> QED BY <1>2, <1>4, <1>7, <1>13, <1>14, Delivered

LEMMA StepEndKeeps ==
  ASSUME JobInv, NEW j \in Jobs, StepEnd(j)
  PROVE  JobInv'
<1> DEFINE c == ctl[j]
           d == db[j]
           f == j \in spoilt
           e == [c EXCEPT !.step = "COMPLETE", !.send = now]
<1>1. /\ Shape(c, d, now) /\ c \in Ctl /\ d \in Tables
      /\ ~f => Kept(c, d, now)
      /\ now \in Nat /\ now # 0 /\ DOMAIN ctl = Jobs /\ f \in BOOLEAN
  BY ShapeOf
<1>2. /\ rejoin = {} /\ c.state = "RUNNING" /\ c.step = "RUNNING"
      /\ ctl' = [ctl EXCEPT ![j].step = "COMPLETE", ![j].send = now]
      /\ UNCHANGED <<now, rejoin, spoilt>>
  BY DEF StepEnd
<1>3. PICK i \in Known(j) : Deliver(Call("step_complete", j, i, "COMPLETE", 0, 0, now))
  BY DEF StepEnd
<1> DEFINE m == Call("step_complete", j, i, "COMPLETE", 0, 0, now)
<1>4. Unless(j, ctl', ctl, e)
  BY <1>1, <1>2 DEF Unless
<1>5. i \in BOOLEAN /\ (i => d.row # NoRow)
  BY <1>3, KnownRow
<1>6. m \in Calls /\ m.op = "step_complete" /\ m.job = j /\ m.idx = i
      /\ m.state = "COMPLETE" /\ m.time = now
  <2>1. "job_complete" \in Ops \ {"flush"} /\ "step_complete" \in Ops \ {"flush"}
        /\ "CANCELLED" \in Live \cup Done /\ "COMPLETE" \in Live \cup Done
    BY DEF Ops, Done
  <2> QED BY <1>1, <1>5, <2>1, CallFields
<1>7. /\ e \in Ctl /\ e.state = "RUNNING" /\ e.start = c.start /\ e.step = "COMPLETE"
      /\ e.ssus = c.ssus /\ e.off = c.off /\ e.since = c.since
      /\ e.sstart = c.sstart /\ e.send = now
  BY <1>1, <1>2 DEF Ctl
<1> HIDE DEF e, m
<1>8. Shape(e, d, now)
  BY <1>1, <1>2, <1>7 DEF Shape
<1>9. ASSUME ~f PROVE /\ OpenRow(e, d) /\ SuspRows(e, d, now) /\ e.send # 0
                      /\ d.step # NoRow => d.step.start = e.sstart /\ d.step.suspended = e.ssus
  <2>1. OpenRow(c, d) /\ StepRow(c, d) /\ SuspRows(c, d, now)
    BY <1>1, <1>9 DEF Kept
  <2>2. OpenRow(e, d)
    BY <1>2, <1>7, <2>1 DEF OpenRow
  <2>3. d.step # NoRow => d.step.start = e.sstart /\ d.step.suspended = e.ssus
    BY <1>2, <1>7, <2>1 DEF StepRow
  <2>4. SuspRows(e, d, now)
    BY <1>2, <1>7, <2>1 DEF SuspRows, OffBefore
  <2> QED BY <1>1, <1>7, <2>2, <2>3, <2>4
<1>10. JobFacts(j, e, Effect(d, m), m, now, f)
  <2>1. Effect(d, m) = StepComplete(d, m)
    BY <1>6 DEF Effect
  <2>2. (m.idx => d.row # NoRow) /\ e.state \in Live /\ m.time = e.send
    BY <1>5, <1>6, <1>7 DEF Live
  <2>3. JobFacts(j, e, StepComplete(d, m), m, now, f)
    BY <1>1, <1>6, <1>7, <1>8, <1>9, <2>2, StepCompleteKeeps
  <2> QED BY <2>1, <2>3
<1>11. Deliver(m) /\ rejoin' \subseteq rejoin /\ j \notin rejoin'
  BY <1>2, <1>3 DEF m
<1> QED BY <1>2, <1>4, <1>6, <1>10, <1>11, Delivered

LEMMA SuspendJobKeeps ==
  ASSUME JobInv, NEW j \in Jobs, SuspendJob(j)
  PROVE  JobInv'
<1> DEFINE c == ctl[j]
           d == db[j]
           f == j \in spoilt
           e == SuspendedJob(c, now)
<1>1. /\ Shape(c, d, now) /\ (~f => Kept(c, d, now))
      /\ now \in Nat /\ now # 0 /\ DOMAIN ctl = Jobs /\ f \in BOOLEAN /\ c \in Ctl
  BY ShapeOf
<1>2. /\ rejoin = {} /\ c.state = "RUNNING"
      /\ ctl' = [ctl EXCEPT ![j].state = "SUSPENDED", ![j].since = now]
      /\ UNCHANGED <<now, rejoin, spoilt>>
  BY DEF SuspendJob
<1>3. PICK i \in Known(j) : Deliver(Call("suspend", j, i, "SUSPENDED", 0, 0, now))
  BY DEF SuspendJob
<1> DEFINE m == Call("suspend", j, i, "SUSPENDED", 0, 0, now)
<1>4. Unless(j, ctl', ctl, e)
  BY <1>1, <1>2 DEF Unless, SuspendedJob
<1>5. i \in BOOLEAN /\ (i => d.row # NoRow)
  BY <1>3, KnownRow
<1>6. m \in Calls /\ m.op = "suspend" /\ m.job = j /\ m.idx = i
      /\ m.state = "SUSPENDED" /\ m.time = now
  BY <1>1, <1>5, CallFields DEF Ops, Live
<1> HIDE DEF m
<1>8. JobFacts(j, e, Effect(d, m), m, now, f)
  <2>1. Effect(d, m) = Suspend(d, m)
    BY <1>6 DEF Effect
  <2>2. (m.idx => d.row # NoRow) /\ now \in Nat \ {0}
    BY <1>1, <1>5, <1>6
  <2>3. JobFacts(j, e, Suspend(d, m), m, now, f)
    BY <1>1, <1>2, <1>6, <2>2, SuspendKeeps
  <2> QED BY <2>1, <2>3
<1>9. Deliver(m) /\ rejoin' \subseteq rejoin /\ j \notin rejoin'
  BY <1>2, <1>3 DEF m
<1> QED BY <1>2, <1>4, <1>6, <1>8, <1>9, Delivered

LEMMA ResumeJobKeeps ==
  ASSUME JobInv, NEW j \in Jobs, ResumeJob(j)
  PROVE  JobInv'
<1> DEFINE c == ctl[j]
           d == db[j]
           f == j \in spoilt
           e == ResumedJob(c, now)
<1>1. /\ Shape(c, d, now) /\ (~f => Kept(c, d, now))
      /\ now \in Nat /\ now # 0 /\ DOMAIN ctl = Jobs /\ f \in BOOLEAN /\ c \in Ctl
  BY ShapeOf
<1>2. /\ rejoin = {} /\ c.state = "SUSPENDED"
      /\ ctl' = [ctl EXCEPT ![j].state = "RUNNING", ![j].off = @ \cup (c.since .. now - 1),
                            ![j].ssus = IF c.step = "RUNNING" THEN @ + (now - c.since) ELSE @]
      /\ UNCHANGED <<now, rejoin, spoilt>>
  BY DEF ResumeJob
<1>3. PICK i \in Known(j) : Deliver(Call("suspend", j, i, "RUNNING", 0, 0, now))
  BY DEF ResumeJob
<1> DEFINE m == Call("suspend", j, i, "RUNNING", 0, 0, now)
<1>4. Unless(j, ctl', ctl, e)
  BY <1>1, <1>2 DEF Unless, ResumedJob
<1>5. i \in BOOLEAN /\ (i => d.row # NoRow)
  BY <1>3, KnownRow
<1>6. m \in Calls /\ m.op = "suspend" /\ m.job = j /\ m.idx = i
      /\ m.state = "RUNNING" /\ m.time = now
  BY <1>1, <1>5, CallFields DEF Ops, Live
<1> HIDE DEF m
<1>8. JobFacts(j, e, Effect(d, m), m, now, f)
  <2>1. Effect(d, m) = Suspend(d, m)
    BY <1>6 DEF Effect
  <2>2. (m.idx => d.row # NoRow) /\ now \in Nat \ {0}
    BY <1>1, <1>5, <1>6
  <2>3. JobFacts(j, e, Suspend(d, m), m, now, f)
    BY <1>1, <1>2, <1>6, <2>2, ResumeKeeps
  <2> QED BY <2>1, <2>3
<1>9. Deliver(m) /\ rejoin' \subseteq rejoin /\ j \notin rejoin'
  BY <1>2, <1>3 DEF m
<1> QED BY <1>2, <1>4, <1>6, <1>8, <1>9, Delivered

LEMMA RejoinKeeps ==
  ASSUME JobInv, NEW j \in Jobs, Rejoin(j)
  PROVE  JobInv'
<1> DEFINE c == ctl[j]
           d == db[j]
           f == j \in spoilt
<1>1. /\ Shape(c, d, now) /\ (~f => Kept(c, d, now))
      /\ now \in Nat /\ now # 0 /\ DOMAIN ctl = Jobs /\ f \in BOOLEAN /\ c \in Ctl
  BY ShapeOf
<1>2. /\ j \in rejoin /\ rejoin' = rejoin \ {j} /\ UNCHANGED <<now, ctl, spoilt>>
  BY DEF Rejoin
<1>3. PICK i \in Known(j) : Deliver(Call("job_start", j, i, c.state, c.start, 0, now))
  BY DEF Rejoin
<1> DEFINE m == Call("job_start", j, i, c.state, c.start, 0, now)
<1>4. Unless(j, ctl', ctl, c)
  BY <1>1, <1>2 DEF Unless
<1>5. i \in BOOLEAN /\ (i => d.row # NoRow)
  BY <1>3, KnownRow
<1>6. c.state \in Live /\ c.start \in Nat
  BY <1>1, <1>2 DEF JobInv, Ctl
<1>7. m \in Calls /\ m.op = "job_start" /\ m.job = j /\ m.idx = i
  <2>1. "job_start" \in Ops \ {"flush"} /\ c.state \in Live \cup Done
    BY <1>6 DEF Ops
  <2> QED BY <1>1, <1>5, <1>6, <2>1, CallFields
<1> HIDE DEF m
<1>8. JobFacts(j, c, Effect(d, m), m, now, f)
  <2>1. Effect(d, m) = JobStart(d, m)
    BY <1>7 DEF Effect
  <2>2. m.idx => d.row # NoRow
    BY <1>5, <1>7
  <2>3. JobFacts(j, c, JobStart(d, m), m, now, f)
    BY <1>1, <1>6, <1>7, <2>2, StartKeeps
  <2> QED BY <2>1, <2>3
<1>9. Deliver(m) /\ rejoin' \subseteq rejoin
  BY <1>2, <1>3 DEF m
<1> QED BY <1>2, <1>4, <1>6, <1>7, <1>8, <1>9, Delivered

\* Time passes.
LEMMA TickKeeps ==
  ASSUME JobInv, Tick
  PROVE  JobInv'
<1>1. now \in Nat \ {0} /\ now' = now + 1 /\ UNCHANGED <<ctl, db, last, rejoin, spoilt>>
  BY DEF JobInv, Tick
<1>2. ASSUME NEW c, NEW d, Shape(c, d, now) PROVE Shape(c, d, now')
  <2>1. c.start \in Nat /\ c.since \in Nat
    BY <1>2 DEF Shape, Ctl
  <2> QED BY <1>1, <1>2, <2>1 DEF Shape
<1>3. ASSUME NEW c \in Ctl, NEW d, SuspRows(c, d, now) PROVE SuspRows(c, d, now')
  <2>1. c.off \subseteq 1..OffBefore(c, now') - 1
    <3>1. c.off \subseteq 1..OffBefore(c, now) - 1 /\ c.since \in Nat
      BY <1>3 DEF SuspRows, Ctl
    <3> QED BY <1>1, <3>1 DEF OffBefore
  <2> QED BY <1>3, <2>1 DEF SuspRows
<1>4. ASSUME NEW j \in Jobs
      PROVE  JobFacts(j, ctl[j], db[j], last, now', j \in spoilt)
  <2>1. /\ Shape(ctl[j], db[j], now) /\ Over(ctl[j], db[j]) /\ LastOK(j, ctl[j], db[j], last)
        /\ j \notin spoilt => Kept(ctl[j], db[j], now)
        /\ ctl[j] \in Ctl
    BY ShapeOf
  <2>2. Shape(ctl[j], db[j], now')
    BY <1>2, <2>1
  <2>3. ASSUME j \notin spoilt PROVE Kept(ctl[j], db[j], now')
    BY <1>3, <2>1, <2>3 DEF Kept
  <2> QED BY <2>1, <2>2, <2>3 DEF JobFacts
<1>5. now' \in Nat \ {0}
  BY <1>1
<1> QED BY <1>1, <1>4, <1>5 DEF JobInv

\* A restarted controller closes the open rows of the cluster.
LEMMA HotStartKeeps ==
  ASSUME JobInv, HotStart
  PROVE  JobInv'
<1> DEFINE m == [op |-> "flush", time |-> now]
<1>1. /\ Deliver(m) /\ spoilt' = spoilt \cup {j \in Jobs : db[j].row.end = 0}
      /\ rejoin' = {j \in Jobs : ctl[j].state \in Live} /\ UNCHANGED <<now, ctl>>
  BY DEF HotStart
<1>2. now \in Nat \ {0} /\ DOMAIN ctl = Jobs /\ DOMAIN db = Jobs
  BY DEF JobInv
<1>3. IsFlush(m) /\ m.op = "flush" /\ m.time = now
  BY <1>2 DEF IsFlush
<1> HIDE DEF m
<1>4. m \notin Calls
  BY <1>3, CallIsNoFlush
<1>5. last' = m /\ db' = [j \in Jobs |-> Flush(db[j], now)]
  BY <1>1, <1>3 DEF Deliver, Apply
<1>6. ASSUME NEW j \in Jobs
      PROVE  /\ JobFacts(j, ctl[j], db'[j], m, now, j \in spoilt')
             /\ db'[j].row = NoRow \/ db'[j].row.end # 0
  <2> DEFINE c == ctl[j]
             d == db[j]
             k == Flush(d, now)
  <2>1. /\ Shape(c, d, now) /\ Over(c, d) /\ d \in Tables /\ now \in Nat \ {0}
        /\ j \notin spoilt => Kept(c, d, now)
    BY <1>2, ShapeOf
  <2>2. /\ k \in Tables
        /\ d.row = NoRow \/ d.row.end # 0 => k = d
        /\ k.row = NoRow \/ k.row.end # 0
        /\ d.row # NoRow => k.row # NoRow
    BY <2>1, FlushRow
  <2>3. LastOK(j, c, k, m)
    BY <1>4 DEF LastOK
  <2>4. db'[j] = k
    BY <1>5
  <2> HIDE DEF k
  <2>5. CASE d.row = NoRow \/ d.row.end # 0
    <3>1. k = d
      BY <2>2, <2>5
    <3>2. d.row.end # 0
      BY <2>5 DEF NoRow
    <3>3. j \in spoilt' => j \in spoilt
      BY <1>1, <3>2
    <3>4. j \in spoilt => j \in spoilt'
      BY <1>1
    <3>5. JobFacts(j, c, k, m, now, j \in spoilt')
      BY <2>1, <2>3, <3>1, <3>4 DEF JobFacts
    <3> QED BY <2>2, <2>4, <3>5
  <2>6. CASE d.row # NoRow /\ d.row.end = 0
    <3>1. j \in spoilt'
      BY <1>1, <2>6
    <3>2. c.state \notin Done
      BY <2>1, <2>6 DEF Over
    <3>3. c.state # "none"
      BY <2>1, <2>6 DEF Shape, NoRows
    <3>4. Shape(c, k, now)
      BY <2>1, <2>2, <2>6, <3>3, ShapeKept
    <3>5. Over(c, k)
      BY <3>2 DEF Over
    <3>6. JobFacts(j, c, k, m, now, j \in spoilt')
      BY <2>3, <3>1, <3>4, <3>5 DEF JobFacts
    <3> QED BY <2>2, <2>4, <3>6
  <2> QED BY <2>5, <2>6
<1>7. DOMAIN db' = Jobs /\ DOMAIN ctl' = Jobs /\ now' \in Nat \ {0}
  BY <1>1, <1>2, <1>5
<1>8. last' \in Calls \cup {NoCall} \cup [op : {"flush"}, time : Nat]
  BY <1>3, <1>5 DEF IsFlush
<1> QED BY <1>1, <1>5, <1>6, <1>7, <1>8 DEF JobInv

\* The call delivered last is delivered again.
LEMMA ResendKeeps ==
  ASSUME JobInv, Resend
  PROVE  JobInv'
<1>1. /\ last.op \in Ops /\ Deliver(last) /\ UNCHANGED <<now, ctl, rejoin>>
      /\ spoilt' = IF last.op = "suspend" THEN spoilt \cup {last.job} ELSE spoilt
  BY JobAcctAssumption DEF Resend
<1>2. last \in Calls \/ IsFlush(last)
  <2>1. last # NoCall
    BY <1>1, CallIsNoFlush DEF Ops
  <2> QED BY <2>1 DEF JobInv, IsFlush
<1>3. CASE IsFlush(last)
  <2>1. last.op = "flush"
    BY <1>3, CallIsNoFlush
  <2>2. \A j \in Jobs : Flush(db[j], last.time) = db[j]
    BY <2>1 DEF JobInv, Flush
  <2>3. db' = [j \in Jobs |-> Flush(db[j], last.time)] /\ last' = last
    BY <1>1, <2>1 DEF Deliver, Apply
  <2>4. DOMAIN db' = Jobs /\ \A j \in Jobs : db'[j] = db[j]
    BY <2>2, <2>3
  <2>5. spoilt' = spoilt
    BY <1>1, <2>1
  <2> QED BY <1>1, <2>3, <2>4, <2>5 DEF JobInv
<1>4. CASE last \in Calls
  <2> DEFINE m == last
             j == m.job
             c == ctl[j]
             d == db[j]
             f == j \in spoilt
  <2>1. m \in Calls /\ j \in Jobs
        /\ m.op \in {"job_start", "job_complete", "step_start", "step_complete", "suspend"}
    BY <1>1, <1>4 DEF Calls, Ops
  <2>2. /\ Shape(c, d, now) /\ (~f => Kept(c, d, now)) /\ Over(c, d) /\ LastOK(j, c, d, m)
        /\ now \in Nat /\ now # 0 /\ DOMAIN ctl = Jobs /\ f \in BOOLEAN /\ c \in Ctl
        /\ d \in Tables
    BY <2>1, ShapeOf
  <2>3. Deliver(m) /\ Unless(j, ctl', ctl, c) /\ (j \in rejoin' => c.state \in Live)
    BY <1>1, <2>1, <2>2 DEF JobInv, Unless
  <2>4. /\ c.state # "none" /\ d.row # NoRow
        /\ m.op = "job_complete" <=> c.state \in Done
        /\ m.op = "job_complete" =>
             /\ m.end = c.end /\ m.state = c.state
             /\ (IF m.start > m.end THEN 0 ELSE m.start) = c.start
        /\ m.op = "step_start" => c.step = "RUNNING" /\ c.state = "RUNNING" /\ d.step # NoRow
        /\ m.op = "step_complete" =>
             c.step = "COMPLETE" /\ m.time = c.send /\ m.state = "COMPLETE"
    BY <2>1, <2>2 DEF LastOK
  <2>5. c.state \in Live \/ c.state \in Done
    BY <2>2, <2>4 DEF Ctl
  <2>6. (m.idx => d.row # NoRow)
    BY <2>4
  <2>7. m.job = j /\ (m.op = "suspend" => j \in spoilt') /\ spoilt \subseteq spoilt'
        /\ (m.op # "suspend" => spoilt' = spoilt)
    BY <1>1
  <2> HIDE DEF m, j, c, d, f
  <2>8. ASSUME m.op # "suspend" PROVE JobFacts(j, c, Effect(d, m), m, now, f)
    <3>1. CASE m.op = "job_start"
      <4>1. Effect(d, m) = JobStart(d, m) /\ c.state \in Live
        BY <2>4, <2>5, <3>1 DEF Effect
      <4>2. JobFacts(j, c, JobStart(d, m), m, now, f)
        BY <2>1, <2>2, <2>6, <3>1, <4>1, StartKeeps
      <4> QED BY <4>1, <4>2
    <3>2. CASE m.op = "job_complete"
      <4>1. Effect(d, m) = JobComplete(d, m) /\ c.state \in Done
        BY <2>4, <3>2 DEF Effect
      <4>2. c.end # 0
        BY <2>2, <4>1 DEF Over
      <4>3. ~f => StepRow(c, d) /\ SuspRows(c, d, now)
        BY <2>2 DEF Kept
      <4>4. m.end = c.end /\ m.state = c.state
            /\ (IF m.start > m.end THEN 0 ELSE m.start) = c.start
        BY <2>4, <3>2
      <4>5. JobFacts(j, c, JobComplete(d, m), m, now, f)
        BY <2>1, <2>2, <2>6, <3>2, <4>1, <4>2, <4>3, <4>4, CompleteKeeps
      <4> QED BY <4>1, <4>5
    <3>3. CASE m.op = "step_start"
      <4>1. Effect(d, m) = StepStart(d, m)
        BY <3>3 DEF Effect
      <4>2. c.step = "RUNNING" /\ c.state = "RUNNING" /\ d.step # NoRow
        BY <2>4, <3>3
      <4>3. JobFacts(j, c, StepStart(d, m), m, now, f)
        BY <2>1, <2>2, <2>6, <3>3, <4>2, StepStartKeeps
      <4> QED BY <4>1, <4>3
    <3>4. CASE m.op = "step_complete"
      <4>1. Effect(d, m) = StepComplete(d, m) /\ c.state \in Live
        BY <2>4, <2>5, <3>4 DEF Effect
      <4>2. c.step = "COMPLETE" /\ m.time = c.send /\ m.state = "COMPLETE"
        BY <2>4, <3>4
      <4>3. ASSUME ~f
            PROVE  /\ OpenRow(c, d) /\ SuspRows(c, d, now) /\ c.send # 0
                   /\ d.step # NoRow => d.step.start = c.sstart /\ d.step.suspended = c.ssus
        <5>1. OpenRow(c, d) /\ SuspRows(c, d, now) /\ StepRow(c, d)
          BY <2>2, <4>3 DEF Kept
        <5>2. c.send # 0
          BY <4>2, <5>1 DEF StepRow
        <5>3. d.step # NoRow => d.step.start = c.sstart /\ d.step.suspended = c.ssus
          BY <4>2, <5>1 DEF StepRow
        <5> QED BY <5>1, <5>2, <5>3
      <4>4. JobFacts(j, c, StepComplete(d, m), m, now, f)
        BY <2>1, <2>2, <2>6, <3>4, <4>1, <4>2, <4>3, StepCompleteKeeps
      <4> QED BY <4>1, <4>4
    <3> QED BY <2>1, <2>8, <3>1, <3>2, <3>3, <3>4
  <2>9. CASE m.op # "suspend"
    <3>1. JobFacts(j, c, Effect(db[j], m), m, now, j \in spoilt)
      BY <2>8, <2>9 DEF d, f
    <3> QED BY <1>1, <2>1, <2>3, <2>7, <2>9, <3>1, Delivered
  <2>10. CASE m.op = "suspend"
    <3>1. Effect(d, m) = Suspend(d, m) /\ c.state \notin Done
      BY <2>4, <2>10 DEF Effect
    <3>2. JobFacts(j, c, Effect(d, m), m, now, TRUE)
      BY <2>1, <2>2, <2>4, <2>10, <3>1, SuspendAgain
    <3>3. JobFacts(j, c, Effect(db[j], m), m, now, j \in spoilt')
      BY <2>7, <2>10, <3>2 DEF d, JobFacts
    <3> QED BY <1>1, <2>1, <2>3, <2>7, <3>3, DeliveredTo
  <2> QED BY <2>9, <2>10
<1> QED BY <1>2, <1>3, <1>4

-----------------------------------------------------------------------------
(* The theorems.                                                           *)

LEMMA JobInit == Init => JobInv
<1> SUFFICES ASSUME Init PROVE JobInv
  OBVIOUS
<1>1. /\ now = 1 /\ ctl = [j \in Jobs |-> NewJob] /\ db = [j \in Jobs |-> NoRows]
      /\ last = NoCall /\ rejoin = {} /\ spoilt = {}
  BY DEF Init
<1>2. last \notin Calls /\ last.op # "flush"
  BY <1>1, CallIsNoFlush
<1>3. NewJob \in Ctl /\ NewJob.state = "none" /\ NewJob.step = "none" /\ NewJob.off = {}
      /\ NewJob.ssus = 0 /\ NewJob.start = 0 /\ NewJob.since = 0
  BY DEF NewJob, Ctl
<1>4. NoRows \in Tables /\ NoRows.row = NoRow /\ NoRows.step = NoRow /\ NoRows.susp = <<>>
  BY DEF NoRows, Tables
<1>5. Shape(NewJob, NoRows, 1)
  BY <1>3, <1>4 DEF Shape
<1>6. Kept(NewJob, NoRows, 1)
  <2>1. OpenRow(NewJob, NoRows) /\ StepRow(NewJob, NoRows)
    BY <1>3, <1>4 DEF OpenRow, StepRow
  <2>2. SuspRows(NewJob, NoRows, 1)
    BY <1>3, <1>4 DEF SuspRows
  <2> QED BY <2>1, <2>2 DEF Kept
<1>7. Over(NewJob, NoRows)
  BY <1>3 DEF Over, Done
<1>8. ASSUME NEW j \in Jobs PROVE JobFacts(j, ctl[j], db[j], last, now, j \in spoilt)
  <2>1. LastOK(j, NewJob, NoRows, last)
    BY <1>2 DEF LastOK
  <2> QED BY <1>1, <1>5, <1>6, <1>7, <2>1 DEF JobFacts
<1> QED BY <1>1, <1>2, <1>8 DEF JobInv

LEMMA JobInvInductive ==
  ASSUME JobInv, [Next]_vars
  PROVE  JobInv'
<1>1. CASE UNCHANGED vars
  BY <1>1 DEF vars, JobInv
<1>2. CASE Tick
  BY <1>2, TickKeeps
<1>3. CASE Resend
  BY <1>3, ResendKeeps
<1>4. CASE HotStart
  BY <1>4, HotStartKeeps
<1>5. ASSUME NEW j \in Jobs,
             Submit(j) \/ Run(j) \/ Cancel(j) \/ Finish(j) \/ StepBegin(j) \/ StepEnd(j)
             \/ SuspendJob(j) \/ ResumeJob(j) \/ Rejoin(j)
      PROVE  JobInv'
  BY <1>5, SubmitKeeps, RunKeeps, CancelKeeps, FinishKeeps, StepBeginKeeps, StepEndKeeps,
     SuspendJobKeeps, ResumeJobKeeps, RejoinKeeps
<1> QED BY <1>1, <1>2, <1>3, <1>4, <1>5 DEF Next

LEMMA JobInvImplies ==
  ASSUME JobInv
  PROVE  JobRecorded /\ SuspendedTime
<1>1. ASSUME NEW j \in Jobs
      PROVE  /\ Over(ctl[j], db[j])
             /\ j \notin spoilt => StepRow(ctl[j], db[j]) /\ SuspRows(ctl[j], db[j], now)
             /\ db[j] \in Tables
  BY ShapeOf DEF Kept
<1>2. JobRecorded
  BY <1>1 DEF JobRecorded, Over, StepRow
<1>3. SuspendedTime
  <2> SUFFICES ASSUME NEW j \in Jobs \ spoilt,
                      ctl[j].state \in {"RUNNING", "COMPLETE"} /\ db[j].row # NoRow
               PROVE  LET susp == db[j].susp IN
                      /\ db[j].row.suspended = Cardinality(ctl[j].off)
                      /\ \A i \in DOMAIN susp : susp[i].end # 0
                      /\ Total([i \in DOMAIN susp |-> susp[i].end - susp[i].start], Len(susp))
                           = Cardinality(ctl[j].off)
    BY DEF SuspendedTime
  <2>1. SuspRows(ctl[j], db[j], now)
    BY <1>1
  <2>2. /\ db[j].row.suspended = Cardinality(ctl[j].off)
        /\ \A i \in 1..Len(db[j].susp) : db[j].susp[i].end # 0
        /\ SuspTotal(db[j].susp, Len(db[j].susp)) = Cardinality(ctl[j].off)
    BY <2>1 DEF SuspRows
  <2>3. DOMAIN db[j].susp = 1..Len(db[j].susp)
    BY <1>1 DEF Tables
  <2> QED BY <2>2, <2>3 DEF SuspTotal
<1> QED BY <1>2, <1>3

\* While the calls are of another kind, no job is there.
JobsInv == IF scene = "jobs" THEN JobInv ELSE ctl = [j \in Jobs |-> NewJob]

LEMMA JobsInvAlways == TablesSpec => []JobsInv
<1>1. TablesInit => JobsInv
  BY JobInit DEF TablesInit, JobsInv, Init
<1>2. JobsInv /\ [TablesNext]_TablesVars => JobsInv'
  <2> SUFFICES ASSUME JobsInv, [TablesNext]_TablesVars
               PROVE  JobsInv'
    OBVIOUS
  <2>1. scene' = scene
    BY DEF TablesNext, TablesVars
  <2>2. CASE scene = "jobs"
    <3>1. [Next]_vars
      BY <2>2 DEF TablesNext, TablesVars
    <3>2. JobInv
      BY <2>2 DEF JobsInv
    <3>3. JobInv'
      BY <3>1, <3>2, JobInvInductive
    <3> QED BY <2>1, <2>2, <3>3 DEF JobsInv
  <2>3. CASE scene # "jobs"
    <3>1. ctl' = ctl
      BY <2>3 DEF TablesNext, TablesVars, jobVars, vars
    <3> QED BY <2>1, <2>3, <3>1 DEF JobsInv
  <2> QED BY <2>2, <2>3
<1> QED BY <1>1, <1>2, PTL DEF TablesSpec

LEMMA JobsInvImplies ==
  ASSUME JobsInv
  PROVE  JobRecorded /\ SuspendedTime
<1>1. CASE scene = "jobs"
  BY <1>1, JobInvImplies DEF JobsInv
<1>2. CASE scene # "jobs"
  <2>1. \A j \in Jobs : ctl[j].state = "none" /\ ctl[j].step = "none"
    BY <1>2 DEF JobsInv, NewJob
  <2> QED BY <2>1 DEF JobRecorded, SuspendedTime, Done
<1> QED BY <1>1, <1>2

\* What jobacct_storage_p_job_complete and _step_complete leave of a job and a
\* step that are over, for any number of jobs, suspensions, controller restarts,
\* purged starts and repeated calls of any kind.
THEOREM JobRecordedAlways == TablesSpec => []JobRecorded
<1>1. TablesSpec => []JobsInv
  BY JobsInvAlways
<1>2. JobsInv => JobRecorded
  BY JobsInvImplies
<1> QED BY <1>1, <1>2, PTL

\* What jobacct_storage_p_suspend adds up in job_table and suspend_table, over
\* any number of suspensions and whatever else was repeated: a suspend delivered
\* twice spoils its own job, since suspended=time-suspended does not bear it, and
\* no other.
THEOREM SuspendedTimeAlways == TablesSpec => []SuspendedTime
<1>1. TablesSpec => []JobsInv
  BY JobsInvAlways
<1>2. JobsInv => SuspendedTime
  BY JobsInvImplies
<1> QED BY <1>1, <1>2, PTL

-----------------------------------------------------------------------------
(* What sacct shows: suspensions cut to a window, and the seconds of it in *)
(* which the job was suspended.                                            *)

InPeriods(s, n, x) == \E i \in 1..n : s[i].start <= x /\ x < s[i].end
OffWithin(s, n, a, b) == {x \in a..b-1 : InPeriods(s, n, x)}

\* A suspension cut to the seconds from a to before b.
CutTo(p, a, b) ==
  NotBelowZero((IF b < p.end THEN b ELSE p.end) - (IF a > p.start THEN a ELSE p.start))

LEMMA CutCounts ==
  ASSUME NEW p \in Period, NEW a \in Nat, NEW b \in Nat
  PROVE  LET S == {x \in a..b-1 : p.start <= x /\ x < p.end} IN
         IsFiniteSet(S) /\ Cardinality(S) = CutTo(p, a, b)
<1> DEFINE S == {x \in a..b-1 : p.start <= x /\ x < p.end}
           from == IF a > p.start THEN a ELSE p.start
           till == IF b < p.end THEN b ELSE p.end
<1>1. p.start \in Nat /\ p.end \in Nat
  BY DEF Period
<1>2. from \in Nat /\ till \in Nat
  BY <1>1
<1>3. S = from..till-1
  BY <1>1
<1> HIDE DEF from, till, S
<1>4. /\ IsFiniteSet(from..till-1)
      /\ Cardinality(from..till-1) = IF from > till - 1 THEN 0 ELSE (till - 1) - from + 1
  BY <1>2, FS_Interval
<1>5. Cardinality(S) = NotBelowZero(till - from)
  BY <1>2, <1>3, <1>4 DEF NotBelowZero
<1> QED BY <1>3, <1>4, <1>5 DEF CutTo, from, till, S

LEMMA DisjointUnion ==
  ASSUME NEW S, IsFiniteSet(S), NEW P, IsFiniteSet(P), S \cap P = {}
  PROVE  IsFiniteSet(S \cup P) /\ Cardinality(S \cup P) = Cardinality(S) + Cardinality(P)
<1>1. Cardinality(S) \in Nat /\ Cardinality(P) \in Nat
  BY FS_CardinalityType
<1>2. /\ IsFiniteSet(S \cup P)
      /\ Cardinality(S \cup P) = Cardinality(S) + Cardinality(P) - Cardinality(S \cap P)
  BY FS_Union
<1> QED BY <1>1, <1>2, FS_EmptySet

\* Suspensions that follow one another add up to the seconds they cover.
LEMMA CutsAddUp ==
  ASSUME NEW s \in Seq(Period), NEW a \in Nat, NEW b \in Nat, NEW n \in Nat, n <= Len(s),
         \A i, k \in 1..n : i < k => s[i].end <= s[k].start,
         NEW v, \A i \in 1..n : v[i] = CutTo(s[i], a, b)
  PROVE  /\ IsFiniteSet(OffWithin(s, n, a, b))
         /\ Total(v, n) = Cardinality(OffWithin(s, n, a, b))
<1> DEFINE Within(m) == OffWithin(s, m, a, b)
           Sums(m) == IsFiniteSet(Within(m)) /\ Total(v, m) = Cardinality(Within(m))
           T == {m \in Nat : m <= n => Sums(m)}
<1>1. 0 \in T
  <2>1. Within(0) = {}
    BY DEF OffWithin, InPeriods
  <2>2. Sums(0)
    BY <2>1, TotalStep, FS_EmptySet
  <2> QED BY <2>2
<1>2. ASSUME NEW m \in Nat, m \in T PROVE m + 1 \in T
  <2> DEFINE p == s[m + 1]
             P == {x \in a..b-1 : p.start <= x /\ x < p.end}
  <2> SUFFICES ASSUME m + 1 <= n PROVE Sums(m + 1)
    OBVIOUS
  <2>1. Sums(m) /\ m + 1 \in 1..n /\ m + 1 \in 1..Len(s)
    BY <1>2
  <2>2. p \in Period /\ \A i \in 1..m : s[i] \in Period /\ s[i].end <= p.start
    BY <2>1
  <2> HIDE DEF p
  <2>3. IsFiniteSet(P) /\ Cardinality(P) = CutTo(p, a, b)
    BY <2>2, CutCounts
  <2>4. Within(m) \cap P = {}
    <3> SUFFICES ASSUME NEW x \in Within(m), x \in P PROVE FALSE
      OBVIOUS
    <3>1. PICK i \in 1..m : s[i].start <= x /\ x < s[i].end
      BY DEF OffWithin, InPeriods
    <3>2. s[i] \in Period /\ s[i].end <= p.start
      BY <2>2
    <3>3. s[i].end \in Nat /\ p.start \in Nat
      BY <2>2, <3>2 DEF Period
    <3>4. x \in Int /\ p.start <= x
      OBVIOUS
    <3> HIDE DEF P
    <3> QED BY <3>1, <3>2, <3>3, <3>4
  <2>5. Within(m + 1) = Within(m) \cup P
    <3>1. \A i \in 1..m+1 : i \in 1..m \/ i = m + 1
      OBVIOUS
    <3>2. 1..m \subseteq 1..m+1 /\ m + 1 \in 1..m+1
      OBVIOUS
    <3>3. \A x : InPeriods(s, m + 1, x) <=> InPeriods(s, m, x) \/ (p.start <= x /\ x < p.end)
      BY <3>1, <3>2 DEF InPeriods, p
    <3> QED BY <3>3 DEF OffWithin
  <2>6. IsFiniteSet(Within(m)) /\ Total(v, m) = Cardinality(Within(m))
    BY <2>1
  <2>7. /\ IsFiniteSet(Within(m) \cup P)
        /\ Cardinality(Within(m) \cup P) = Cardinality(Within(m)) + Cardinality(P)
    BY <2>3, <2>4, <2>6, DisjointUnion
  <2>8. Total(v, m + 1) = Total(v, m) + CutTo(p, a, b)
    BY <2>1, TotalStep DEF p
  <2> QED BY <2>3, <2>5, <2>6, <2>7, <2>8
<1>3. T \subseteq Nat
  OBVIOUS
<1>4. T = Nat
  <2> HIDE DEF T
  <2> QED BY <1>1, <1>2, <1>3, NatBySets
<1> QED BY <1>4

\* The suspended seconds of a job that sacct cuts to a window.
LEMMA SuspendedCounts ==
  ASSUME NEW s \in Seq(Period), NEW w, w.from \in Nat, w.till \in Nat, NEW a \in Nat, NEW b \in Nat,
         w.from <= a, b <= w.till,
         \A i \in 1..Len(s) : s[i].end # 0,
         \A i, k \in 1..Len(s) : i < k => s[i].end <= s[k].start
  PROVE  /\ IsFiniteSet(OffWithin(s, Len(s), a, b))
         /\ SuspendedBetween(s, w, a, b) = Cardinality(OffWithin(s, Len(s), a, b))
<1> DEFINE Cut(p) ==
             LET from == IF a > p.start THEN a ELSE p.start
                 till == IF b < p.end THEN b ELSE p.end
             IN IF p.start < w.till /\ (p.end >= w.from \/ p.end = 0)
                THEN NotBelowZero(till - from) ELSE 0
           v == [i \in DOMAIN s |-> Cut(s[i])]
<1>1. Len(s) \in Nat /\ DOMAIN s = 1..Len(s) /\ \A i \in 1..Len(s) : s[i] \in Period
  OBVIOUS
<1>2. ASSUME NEW p \in Period, p.end # 0 PROVE Cut(p) = CutTo(p, a, b)
  <2>1. p.start \in Nat /\ p.end \in Nat
    BY DEF Period
  <2>2. CASE p.start < w.till /\ p.end >= w.from
    BY <2>1, <2>2 DEF CutTo
  <2>3. CASE p.start >= w.till
    <3>1. Cut(p) = 0
      BY <2>1, <2>3
    <3>2. CutTo(p, a, b) = 0
      BY <2>1, <2>3 DEF CutTo, NotBelowZero
    <3> QED BY <3>1, <3>2
  <2>4. CASE p.end < w.from
    <3>1. Cut(p) = 0
      BY <1>2, <2>1, <2>4
    <3>2. CutTo(p, a, b) = 0
      BY <2>1, <2>4 DEF CutTo, NotBelowZero
    <3> QED BY <3>1, <3>2
  <2> QED BY <2>1, <2>2, <2>3, <2>4
<1>3. SuspendedBetween(s, w, a, b) = Total(v, Len(s))
  BY DEF SuspendedBetween
<1> HIDE DEF Cut
<1>4. \A i \in 1..Len(s) : v[i] = CutTo(s[i], a, b)
  BY <1>1, <1>2
<1> DEFINE n == Len(s)
<1>5. n \in Nat /\ n <= Len(s) /\ \A i \in 1..n : v[i] = CutTo(s[i], a, b)
  BY <1>1, <1>4
<1>6. \A i, k \in 1..n : i < k => s[i].end <= s[k].start
  OBVIOUS
<1> HIDE DEF v, n
<1>7. /\ IsFiniteSet(OffWithin(s, n, a, b))
      /\ Total(v, n) = Cardinality(OffWithin(s, n, a, b))
  BY <1>5, <1>6, CutsAddUp
<1> QED BY <1>3, <1>7 DEF n

-----------------------------------------------------------------------------
(* What is known besides of a job that runs: its times are in order, its   *)
(* row has its start or none, and its suspensions are the seconds it was   *)
(* suspended.                                                              *)

Begun == {"RUNNING", "SUSPENDED", "COMPLETE"}

RunFacts(c, t) ==
  /\ c.state # "none" => c.submit # 0
  /\ c.state \in Live => c.end = 0
  /\ c.state \in Begun => c.start # 0
  /\ c.state \notin Begun => c.start = 0 /\ c.off = {} /\ c.step = "none"
  /\ c.state \in {"RUNNING", "SUSPENDED"} =>
       c.start <= OffBefore(c, t) /\ c.off \subseteq c.start .. OffBefore(c, t) - 1
  /\ c.state = "COMPLETE" => c.start <= c.end /\ c.end <= t /\ c.off \subseteq c.start .. c.end - 1
  /\ IF c.step = "none" THEN c.ssus = 0 ELSE c.sstart # 0
  /\ c.step = "RUNNING" => c.sstart + c.ssus <= OffBefore(c, t)
  /\ c.step = "COMPLETE" => c.sstart + c.ssus <= c.send

StartFacts(j, c, d, l) ==
  /\ (c.state \in Live /\ d.row # NoRow) => d.row.start \in {0, c.start}
  /\ (l \in Calls /\ l.job = j /\ l.op # "job_complete") => l.start \in {0, c.start}

\* The suspensions that are over.
Ended(c, s) == IF c.state = "SUSPENDED" THEN Len(s) - 1 ELSE Len(s)

PeriodFacts(c, s, t) ==
  /\ \A x \in Nat : x \in c.off <=> InPeriods(s, Ended(c, s), x)
  /\ \A i \in 1..Ended(c, s) : s[i].end <= OffBefore(c, t)
  /\ \A i, k \in 1..Ended(c, s) : i < k => s[i].end <= s[k].start

ShownFacts(j, c, d, l, t, f) ==
  RunFacts(c, t) /\ StartFacts(j, c, d, l) /\ (~f => PeriodFacts(c, d.susp, t))

ShownInv == \A j \in Jobs : ShownFacts(j, ctl[j], db[j], last, now, j \in spoilt)

\* What of that a job has whose rows are shown.
LEMMA ShownOf ==
  ASSUME JobInv, ShownInv, NEW j \in Jobs \ spoilt
  PROVE  /\ ctl[j] \in Ctl /\ db[j] \in Tables /\ now \in Nat
         /\ Over(ctl[j], db[j]) /\ OpenRow(ctl[j], db[j]) /\ StepRow(ctl[j], db[j])
         /\ SuspRows(ctl[j], db[j], now) /\ RunFacts(ctl[j], now)
         /\ StartFacts(j, ctl[j], db[j], last) /\ PeriodFacts(ctl[j], db[j].susp, now)
         /\ db[j].row # NoRow => ctl[j].state # "none"
<1>1. /\ ctl[j] \in Ctl /\ db[j] \in Tables /\ now \in Nat
      /\ Over(ctl[j], db[j]) /\ Kept(ctl[j], db[j], now) /\ Shape(ctl[j], db[j], now)
  BY ShapeOf
<1>2. ShownFacts(j, ctl[j], db[j], last, now, FALSE)
  <2>1. (j \in spoilt) = FALSE
    OBVIOUS
  <2> QED BY <2>1 DEF ShownInv
<1>3. db[j].row # NoRow => ctl[j].state # "none"
  BY <1>1 DEF Shape, NoRows
<1> QED BY <1>1, <1>2, <1>3 DEF Kept, ShownFacts

LEMMA WindowSelectsIt ==
  ASSUME JobInv, ShownInv
  PROVE  WindowSelects
<1> SUFFICES ASSUME NEW j \in Jobs \ spoilt, db[j].row # NoRow,
                    NEW new \in BOOLEAN, NEW from \in 1..now, NEW till \in {0} \cup 2..now
             PROVE  Selects(new, db[j].row, ctl[j].submit,
                            [from |-> from, till |-> till, states |-> {}])
                      <=> /\ till # 0 => ctl[j].submit < till
                          /\ ctl[j].state \in Live \/ ctl[j].end >= from
  BY DEF WindowSelects
<1> DEFINE c == ctl[j]
           d == db[j]
           w == [from |-> from, till |-> till, states |-> {}]
<1>1. /\ c \in Ctl /\ d \in Tables /\ now \in Nat /\ c.state # "none"
      /\ Over(c, d) /\ OpenRow(c, d) /\ RunFacts(c, now)
  BY ShownOf
<1>2. Selects(new, d.row, c.submit, w) <=>
        /\ d.row.end >= from \/ d.row.end = 0
        /\ till # 0 => (new => c.submit # 0) /\ c.submit < till
  <2>1. from # 0 /\ w.from = from /\ w.till = till /\ w.states = {}
    BY <1>1
  <2> QED BY <2>1 DEF Selects, InWindow
<1>3. c.submit # 0
  BY <1>1 DEF RunFacts
<1>4. d.row.end >= from \/ d.row.end = 0 <=> c.state \in Live \/ c.end >= from
  <2>1. c.state \in Live \/ c.state \in Done
    BY <1>1 DEF Ctl
  <2>2. CASE c.state \in Live
    BY <1>1, <2>2 DEF OpenRow
  <2>3. CASE c.state \in Done
    <3>1. d.row.end = c.end /\ c.end # 0 /\ c.state \notin Live
      BY <1>1, <2>3 DEF Over, Live, Done
    <3> QED BY <3>1
  <2> QED BY <2>1, <2>2, <2>3
<1> QED BY <1>2, <1>3, <1>4

\* The rows of a job that runs or has run.
LEMMA StartShown ==
  ASSUME JobInv, ShownInv, NEW j \in Jobs \ spoilt,
         ctl[j].start # 0, ctl[j].state # "SUSPENDED", db[j].row.start > 0
  PROVE  LET c == ctl[j]
             d == db[j]
             stop == IF c.end = 0 THEN now ELSE c.end IN
         /\ d.row.start = c.start /\ d.row.end = c.end /\ d.susp \in Seq(Period)
         /\ d.row.suspended = Cardinality(c.off)
         /\ c.start \in Nat \ {0} /\ c.end \in Nat /\ now \in Nat
         /\ c.start <= stop /\ stop <= now /\ c.off \subseteq c.start..stop-1
         /\ \A x \in Nat : x \in c.off <=> InPeriods(d.susp, Len(d.susp), x)
         /\ \A i \in 1..Len(d.susp) : d.susp[i].end # 0
         /\ \A i, k \in 1..Len(d.susp) : i < k => d.susp[i].end <= d.susp[k].start
<1> DEFINE c == ctl[j]
           d == db[j]
<1>1. /\ c \in Ctl /\ d \in Tables /\ now \in Nat /\ Over(c, d) /\ OpenRow(c, d)
      /\ SuspRows(c, d, now) /\ RunFacts(c, now) /\ StartFacts(j, c, d, last)
      /\ PeriodFacts(c, d.susp, now)
  BY ShownOf
<1>2. c.start \in Nat \ {0} /\ c.end \in Nat /\ d.susp \in Seq(Period)
  BY <1>1 DEF Ctl, Tables
<1>3. c.state \in {"RUNNING", "COMPLETE"}
  BY <1>1 DEF RunFacts, Begun
<1>4. d.row # NoRow
  BY DEF NoRow
<1> HIDE DEF c, d
<1>5. d.row.start = c.start /\ d.row.end = c.end
  <2>1. CASE c.state = "COMPLETE"
    BY <1>1, <2>1 DEF Over, Done
  <2>2. CASE c.state = "RUNNING"
    <3>1. d.row.start \in {0, c.start} /\ d.row.end = 0 /\ c.end = 0
      BY <1>1, <1>4, <2>2 DEF StartFacts, OpenRow, RunFacts, Live
    <3> QED BY <3>1 DEF d
  <2> QED BY <1>3, <2>1, <2>2
<1>6. /\ c.start <= (IF c.end = 0 THEN now ELSE c.end) /\ (IF c.end = 0 THEN now ELSE c.end) <= now
      /\ c.off \subseteq c.start..(IF c.end = 0 THEN now ELSE c.end)-1
  <2>1. CASE c.state = "COMPLETE"
    <3>1. c.end # 0
      BY <1>1, <2>1 DEF Over, Done
    <3> QED BY <1>1, <2>1, <3>1 DEF RunFacts
  <2>2. CASE c.state = "RUNNING"
    <3>1. c.end = 0 /\ OffBefore(c, now) = now
      BY <1>1, <2>2 DEF RunFacts, Live, OffBefore
    <3> QED BY <1>1, <2>2, <3>1 DEF RunFacts
  <2> QED BY <1>3, <2>1, <2>2
<1>7. d.row.suspended = Cardinality(c.off) /\ \A i \in 1..Len(d.susp) : d.susp[i].end # 0
  BY <1>1, <1>3, <1>4 DEF SuspRows
<1>8. Ended(c, d.susp) = Len(d.susp)
  BY <1>3 DEF Ended
<1>9. /\ \A x \in Nat : x \in c.off <=> InPeriods(d.susp, Len(d.susp), x)
      /\ \A i, k \in 1..Len(d.susp) : i < k => d.susp[i].end <= d.susp[k].start
  BY <1>1, <1>8 DEF PeriodFacts
<1> QED BY <1>1, <1>2, <1>5, <1>6, <1>7, <1>9 DEF c, d

\* The seconds from a to before b without those in S.
LEMMA SecondsLeft ==
  ASSUME NEW a \in Nat, NEW b \in Nat, NEW S, S \subseteq a..b-1
  PROVE  /\ IsFiniteSet(S) /\ Cardinality(S) \in Nat
         /\ Cardinality((a..b-1) \ S) = NotBelowZero(b - a - Cardinality(S))
<1>1. IsFiniteSet(a..b-1) /\ Cardinality(a..b-1) = IF a > b - 1 THEN 0 ELSE (b - 1) - a + 1
  BY FS_Interval
<1>2. IsFiniteSet(S) /\ Cardinality(S) \in Nat /\ Cardinality(S) <= Cardinality(a..b-1)
  BY <1>1, FS_Subset, FS_CardinalityType
<1>3. (a..b-1) \cap S = S
  OBVIOUS
<1> DEFINE all == a..b-1
<1>4. Cardinality(all \ S) = Cardinality(all) - Cardinality(S)
  <2>1. IsFiniteSet(all) /\ all \cap S = S
    BY <1>1, <1>3
  <2> HIDE DEF all
  <2>2. Cardinality(all \ S) = Cardinality(all) - Cardinality(all \cap S)
    BY <2>1, FS_Difference
  <2> QED BY <2>1, <2>2
<1> QED BY <1>1, <1>2, <1>4 DEF NotBelowZero

Ran(c, t) == {s \in c.start .. t - 1 : (c.end = 0 \/ s < c.end)} \ c.off

LEMMA WholeElapsed ==
  ASSUME JobInv, ShownInv, NEW j \in Jobs \ spoilt,
         ctl[j].start # 0, ctl[j].state # "SUSPENDED", db[j].row.start > 0
  PROVE  JobRecord(db[j], [from |-> 0, till |-> 0, states |-> {}], FALSE, now).elapsed
           = Cardinality(Ran(ctl[j], now))
<1> DEFINE c == ctl[j]
           d == db[j]
           stop == IF c.end = 0 THEN now ELSE c.end
<1>1. /\ d.row.start = c.start /\ d.row.end = c.end /\ d.row.suspended = Cardinality(c.off)
      /\ c.start \in Nat \ {0} /\ c.end \in Nat /\ now \in Nat
      /\ c.start <= stop /\ stop <= now /\ c.off \subseteq c.start..stop-1
  BY StartShown
<1> HIDE DEF c, d
<1>2. Ran(c, now) = (c.start..stop-1) \ c.off
  BY <1>1 DEF Ran
<1>3. stop \in Nat /\ c.start \in Nat /\ c.off \subseteq c.start..stop-1
  BY <1>1
<1>4. JobRecord(d, [from |-> 0, till |-> 0, states |-> {}], FALSE, now).elapsed
        = NotBelowZero(stop - c.start - Cardinality(c.off))
  <2>1. ShownStart(d.row) = c.start
    BY <1>1 DEF ShownStart
  <2>2. WholeJob(d, now).elapsed = NotBelowZero(stop - c.start - d.row.suspended)
    BY <1>1, <2>1 DEF WholeJob
  <2> QED BY <1>1, <2>2 DEF JobRecord
<1> HIDE DEF stop
<1>5. Cardinality((c.start..stop-1) \ c.off) = NotBelowZero(stop - c.start - Cardinality(c.off))
  BY <1>3, SecondsLeft
<1> QED BY <1>2, <1>4, <1>5 DEF c, d

LEMMA CutElapsed ==
  ASSUME JobInv, ShownInv, NEW j \in Jobs \ spoilt,
         ctl[j].start # 0, ctl[j].state # "SUSPENDED", db[j].row.start > 0,
         NEW from \in 1..now-1, NEW till \in 2..now, from < till,
         Selects(FALSE, db[j].row, ctl[j].submit, [from |-> from, till |-> till, states |-> {}])
  PROVE  JobRecord(db[j], [from |-> from, till |-> till, states |-> {}], TRUE, now).elapsed
           = Cardinality(Ran(ctl[j], now) \cap (from .. till - 1))
<1> DEFINE c == ctl[j]
           d == db[j]
           w == [from |-> from, till |-> till, states |-> {}]
           a == IF c.start < from THEN from ELSE c.start
           b == IF c.end = 0 \/ c.end > till THEN till ELSE c.end
           S == OffWithin(d.susp, Len(d.susp), a, b)
<1>1. /\ d.row.start = c.start /\ d.row.end = c.end /\ d.susp \in Seq(Period)
      /\ c.start \in Nat \ {0} /\ c.end \in Nat /\ now \in Nat
      /\ c.start <= (IF c.end = 0 THEN now ELSE c.end) /\ (IF c.end = 0 THEN now ELSE c.end) <= now
      /\ \A x \in Nat : x \in c.off <=> InPeriods(d.susp, Len(d.susp), x)
      /\ \A i \in 1..Len(d.susp) : d.susp[i].end # 0
      /\ \A i, k \in 1..Len(d.susp) : i < k => d.susp[i].end <= d.susp[k].start
  BY StartShown
<1>2. w.from = from /\ w.till = till /\ from \in Nat \ {0} /\ till \in Nat /\ till <= now
  BY <1>1
<1> HIDE DEF c, d, w
<1>3. a \in Nat \ {0} /\ b \in Nat /\ from <= a /\ b <= till /\ c.start <= a
  BY <1>1, <1>2
<1>4. S = {x \in a..b-1 : x \in c.off}
  <2>1. \A x \in a..b-1 : x \in Nat
    BY <1>3
  <2> HIDE DEF a, b
  <2> QED BY <1>1, <2>1 DEF OffWithin
<1>5. Ran(c, now) \cap (from..till-1) = (a..b-1) \ S
  <2>1. \A x : x \in a..b-1 <=> /\ x \in c.start..now-1 /\ (c.end = 0 \/ x < c.end)
                                /\ x \in from..till-1
    BY <1>1, <1>2
  <2> HIDE DEF a, b, S
  <2> QED BY <1>4, <2>1 DEF Ran
<1>6. JobRecord(d, w, TRUE, now).elapsed = NotBelowZero(b - a - SuspendedBetween(d.susp, w, a, b))
  <2>1. ShownStart(d.row) = c.start
    BY <1>1 DEF ShownStart
  <2>2. /\ (IF ShownStart(d.row) # 0 /\ ShownStart(d.row) < w.from THEN w.from
            ELSE ShownStart(d.row)) = a
        /\ (IF d.row.end = 0 \/ d.row.end > w.till THEN w.till ELSE d.row.end) = b
    BY <1>1, <1>2, <2>1
  <2> HIDE DEF a, b
  <2>3. TruncatedJob(d, w).elapsed = NotBelowZero(b - a - SuspendedBetween(d.susp, w, a, b))
    BY <1>3, <2>2 DEF TruncatedJob
  <2> QED BY <1>2, <2>3 DEF JobRecord
<1> HIDE DEF a, b
<1>7. SuspendedBetween(d.susp, w, a, b) = Cardinality(S)
  <2>1. d.susp \in Seq(Period) /\ a \in Nat /\ b \in Nat /\ w.from \in Nat /\ w.till \in Nat
        /\ w.from <= a /\ b <= w.till
    BY <1>1, <1>2, <1>3
  <2>2. /\ \A i \in 1..Len(d.susp) : d.susp[i].end # 0
        /\ \A i, k \in 1..Len(d.susp) : i < k => d.susp[i].end <= d.susp[k].start
    BY <1>1
  <2> QED BY <2>1, <2>2, SuspendedCounts
<1>8. S \subseteq a..b-1
  BY DEF OffWithin
<1> HIDE DEF S
<1>9. Cardinality((a..b-1) \ S) = NotBelowZero(b - a - Cardinality(S))
  BY <1>3, <1>8, SecondsLeft
<1> QED BY <1>5, <1>6, <1>7, <1>9 DEF c, d, w

LEMMA StepElapsed ==
  ASSUME JobInv, ShownInv, NEW j \in Jobs \ spoilt,
         ctl[j].step = "COMPLETE", db[j].step # NoRow, NEW new \in BOOLEAN
  PROVE  StepRecord(new, db[j], [from |-> 0, till |-> 0, states |-> {}], FALSE, now).elapsed
           = ctl[j].send - ctl[j].sstart - ctl[j].ssus
<1> DEFINE c == ctl[j]
           d == db[j]
           w == [from |-> 0, till |-> 0, states |-> {}]
<1>1. c \in Ctl /\ StepRow(c, d) /\ RunFacts(c, now)
  BY ShownOf
<1>2. c.sstart \in Nat /\ c.send \in Nat /\ c.ssus \in Int
  BY <1>1 DEF Ctl
<1>3. /\ c.send # 0 /\ c.sstart # 0 /\ c.sstart + c.ssus <= c.send
      /\ d.step = [start |-> c.sstart, end |-> c.send, state |-> "COMPLETE", suspended |-> c.ssus]
  BY <1>1 DEF StepRow, RunFacts
<1> HIDE DEF c, d, w
<1>4. d.step.start = c.sstart /\ d.step.end = c.send /\ d.step.suspended = c.ssus
  BY <1>3
<1>5. StepRecord(new, d, w, FALSE, now).elapsed = NotBelowZero(c.send - c.sstart - c.ssus)
  BY <1>2, <1>3, <1>4 DEF StepRecord
<1>6. NotBelowZero(c.send - c.sstart - c.ssus) = c.send - c.sstart - c.ssus
  BY <1>2, <1>3 DEF NotBelowZero
<1> QED BY <1>5, <1>6 DEF c, d, w

LEMMA ShownInvImplies ==
  ASSUME JobInv, ShownInv
  PROVE  WindowShows
<1>1. WindowSelects
  BY WindowSelectsIt
<1>2. ElapsedIsRunTime
  BY WholeElapsed, CutElapsed, StepElapsed DEF ElapsedIsRunTime, Ran
<1> QED BY <1>1, <1>2 DEF WindowShows

-----------------------------------------------------------------------------
(* Every step keeps these facts.                                           *)

LEMMA EffectStart ==
  ASSUME NEW d \in Tables, NEW m \in Calls, m.idx => d.row # NoRow
  PROVE  LET k == Effect(d, m) IN
         /\ m.op # "suspend" => k.susp = d.susp
         /\ m.op # "job_complete" =>
              \/ k.row.start = m.start
              \/ d.row # NoRow /\ k.row.start = d.row.start
<1> DEFINE k == Effect(d, m)
           w == WithRow(d, m)
           Started(r) == r.start = m.start \/ (d.row # NoRow /\ r.start = d.row.start)
<1>1. CallFor(m, d) /\ m.start \in Nat
  BY DEF CallFor, Calls
<1>2. m.op \in {"job_start", "job_complete", "step_start", "step_complete", "suspend"}
  BY DEF Calls, Ops
<1>3. JobStart(d, m).susp = d.susp /\ Started(JobStart(d, m).row)
  <2>1. JobStart(d, m).susp = d.susp
    BY <1>1, JobStartRow
  <2>2. CASE m.idx
    BY <2>2 DEF JobStart, Tables, JobRow, NoRow
  <2>3. CASE ~m.idx /\ d.row = NoRow
    BY <2>3 DEF JobStart, Tables, Row
  <2>4. CASE ~m.idx /\ d.row # NoRow
    BY <2>4 DEF JobStart, Tables, JobRow, NoRow
  <2> QED BY <2>1, <2>2, <2>3, <2>4
<1>4. Started(w.row)
  BY <1>3 DEF WithRow
<1>5. CASE m.op = "job_start"
  BY <1>3, <1>5 DEF Effect
<1>6. CASE m.op = "job_complete"
  <2>1. k = JobComplete(d, m)
    BY <1>6 DEF Effect
  <2>2. JobComplete(d, m).susp = d.susp
    <3>1. CASE m.end = 0
      BY <3>1 DEF JobComplete
    <3>2. CASE m.end # 0
      BY <1>1, <3>2, JobCompleteRow
    <3> QED BY <3>1, <3>2
  <2> QED BY <1>6, <2>1, <2>2
<1>7. CASE m.op = "step_start"
  <2>1. k = StepStart(d, m)
    BY <1>7 DEF Effect
  <2>2. k.row = w.row /\ k.susp = d.susp
    BY <1>1, <2>1, StepStartRow
  <2> QED BY <1>4, <2>2
<1>8. CASE m.op = "step_complete"
  <2>1. k = StepComplete(d, m)
    BY <1>8 DEF Effect
  <2>2. k.row = w.row /\ k.susp = d.susp
    BY <1>1, <2>1, StepCompleteRow
  <2> QED BY <1>4, <2>2
<1>9. CASE m.op = "suspend"
  <2>1. k = Suspend(d, m)
    BY <1>9 DEF Effect
  <2>2. k.row = SuspendedRow(w.row, m.time, m.state)
    BY <1>1, <2>1, SuspendRow
  <2>3. k.row.start = w.row.start
    BY <2>2 DEF SuspendedRow
  <2> QED BY <1>4, <1>9, <2>3
<1> QED BY <1>2, <1>5, <1>6, <1>7, <1>8, <1>9

\* A job that becomes e keeps what its row says of its start, whether the call
\* reaches it or not.
LEMMA StartKept ==
  ASSUME NEW j, NEW c, NEW e, NEW d \in Tables, NEW l, NEW m \in Calls, m.job = j,
         m.idx => d.row # NoRow, StartFacts(j, c, d, l),
         c.start \in {0, e.start}, e.state \in Live => c.state \in Live \/ d.row = NoRow,
         IF m.op = "job_complete" THEN e.state \in Done ELSE m.start \in {0, e.start}
  PROVE  StartFacts(j, e, d, l) /\ StartFacts(j, e, Effect(d, m), m)
<1>1. StartFacts(j, e, d, l)
  BY DEF StartFacts
<1>2. ASSUME e.state \in Live PROVE Effect(d, m).row.start \in {0, e.start}
  <2>1. m.op # "job_complete"
    BY <1>2 DEF Live, Done
  <2>2. m.start \in {0, e.start}
    BY <2>1
  <2>3. d.row # NoRow => d.row.start \in {0, e.start}
    BY <1>1, <1>2 DEF StartFacts
  <2> QED BY <2>1, <2>2, <2>3, EffectStart
<1>3. m.op # "job_complete" => m.start \in {0, e.start}
  OBVIOUS
<1> QED BY <1>1, <1>2, <1>3 DEF StartFacts

LEMMA ShownJob ==
  ASSUME JobInv, ShownInv, NEW j \in Jobs
  PROVE  /\ RunFacts(ctl[j], now) /\ StartFacts(j, ctl[j], db[j], last)
         /\ j \notin spoilt => PeriodFacts(ctl[j], db[j].susp, now)
         /\ ctl[j] \in Ctl /\ db[j] \in Tables /\ now \in Nat \ {0}
         /\ DOMAIN ctl = Jobs /\ DOMAIN db = Jobs
         /\ ctl[j].state = "none" => db[j].row = NoRow /\ ctl[j] = NewJob
<1>1. ShownFacts(j, ctl[j], db[j], last, now, j \in spoilt)
  BY DEF ShownInv
<1>2. /\ Shape(ctl[j], db[j], now) /\ ctl[j] \in Ctl /\ db[j] \in Tables /\ now \in Nat \ {0}
      /\ DOMAIN ctl = Jobs /\ DOMAIN db = Jobs
  BY ShapeOf
<1>3. ctl[j].state = "none" => db[j].row = NoRow /\ ctl[j] = NewJob
  BY <1>2 DEF Shape, NoRows
<1> QED BY <1>1, <1>2, <1>3 DEF ShownFacts

LEMMA ShownDeliveredTo ==
  ASSUME JobInv, ShownInv, NEW j \in Jobs, NEW e, NEW m \in Calls, m.job = j, Deliver(m),
         Unless(j, ctl', ctl, e),
         ShownFacts(j, e, Effect(db[j], m), m, now, j \in spoilt'),
         now' = now, spoilt \subseteq spoilt'
  PROVE  ShownInv'
<1>1. Unless(j, db', db, Effect(db[j], m)) /\ last' = m
  BY DeliverOne DEF JobInv
<1>2. ASSUME NEW i \in Jobs PROVE ShownFacts(i, ctl'[i], db'[i], m, now, i \in spoilt')
  <2>1. CASE i = j
    BY <1>1, <2>1 DEF Unless
  <2>2. CASE i # j
    <3>1. ctl'[i] = ctl[i] /\ db'[i] = db[i]
      BY <1>1, <2>2 DEF Unless
    <3>2. ShownFacts(i, ctl[i], db[i], last, now, i \in spoilt)
      BY DEF ShownInv
    <3>3. StartFacts(i, ctl[i], db[i], m)
      BY <2>2, <3>2 DEF ShownFacts, StartFacts
    <3>4. i \in spoilt => i \in spoilt'
      OBVIOUS
    <3>5. ShownFacts(i, ctl[i], db[i], m, now, i \in spoilt')
      BY <3>2, <3>3, <3>4 DEF ShownFacts
    <3> QED BY <3>1, <3>5
  <2> QED BY <2>1, <2>2
<1> QED BY <1>1, <1>2 DEF ShownInv

LEMMA ShownDelivered ==
  ASSUME JobInv, ShownInv, NEW j \in Jobs, NEW e, NEW m \in Calls, m.job = j, Deliver(m),
         Unless(j, ctl', ctl, e),
         ShownFacts(j, e, Effect(db[j], m), m, now, j \in spoilt),
         now' = now, spoilt' = spoilt
  PROVE  ShownInv'
<1>1. ShownFacts(j, e, Effect(db[j], m), m, now, j \in spoilt') /\ spoilt \subseteq spoilt'
  OBVIOUS
<1> QED BY <1>1, ShownDeliveredTo

LEMMA ShownNotSent ==
  ASSUME JobInv, ShownInv, NEW j \in Jobs, NEW e, Unless(j, ctl', ctl, e),
         ShownFacts(j, e, db[j], last, now, j \in spoilt),
         UNCHANGED <<now, db, last, spoilt>>
  PROVE  ShownInv'
<1>1. ASSUME NEW i \in Jobs PROVE ShownFacts(i, ctl'[i], db[i], last, now, i \in spoilt)
  BY DEF ShownInv, Unless
<1> QED BY <1>1 DEF ShownInv

\* A call other than a suspension: what is off stays off.
LEMMA ShownCall ==
  ASSUME JobInv, ShownInv, NEW j \in Jobs, NEW e, NEW m \in Calls, m.job = j,
         m.op # "suspend", m.idx => db[j].row # NoRow,
         RunFacts(e, now), Unless(j, ctl', ctl, e), now' = now, spoilt' = spoilt,
         e.off = ctl[j].off, e.since = ctl[j].since,
         e.state = "SUSPENDED" <=> ctl[j].state = "SUSPENDED",
         ctl[j].start \in {0, e.start}, e.state \in Live => ctl[j].state \in Live \cup {"none"},
         IF m.op = "job_complete" THEN e.state \in Done ELSE m.start \in {0, e.start},
         Deliver(m) \/ UNCHANGED <<db, last>>
  PROVE  ShownInv'
<1> DEFINE c == ctl[j]
           d == db[j]
           k == Effect(d, m)
           f == j \in spoilt
<1>1. /\ StartFacts(j, c, d, last) /\ (~f => PeriodFacts(c, d.susp, now)) /\ d \in Tables
      /\ c.state = "none" => d.row = NoRow
  BY ShownJob
<1>2. StartFacts(j, e, d, last) /\ StartFacts(j, e, k, m)
  BY <1>1, StartKept
<1>3. k.susp = d.susp
  BY <1>1, EffectStart
<1>4. PeriodFacts(c, d.susp, now) => PeriodFacts(e, d.susp, now)
  BY DEF PeriodFacts, Ended, OffBefore
<1> HIDE DEF c, d, k, f
<1>5. ShownFacts(j, e, d, last, now, f) /\ ShownFacts(j, e, k, m, now, f)
  BY <1>1, <1>2, <1>3, <1>4 DEF ShownFacts
<1>6. CASE Deliver(m)
  BY <1>5, <1>6, ShownDelivered DEF d, k, f
<1>7. CASE UNCHANGED <<db, last>>
  BY <1>5, <1>7, ShownNotSent DEF d, f
<1> QED BY <1>6, <1>7

LEMMA SubmitShown ==
  ASSUME JobInv, ShownInv, NEW j \in Jobs, Submit(j)
  PROVE  ShownInv'
<1> DEFINE c == ctl[j]
           d == db[j]
           e == [c EXCEPT !.state = "PENDING", !.submit = now]
<1>1. /\ c \in Ctl /\ d \in Tables /\ RunFacts(c, now) /\ now \in Nat \ {0} /\ DOMAIN ctl = Jobs
      /\ c.state = "none" => d.row = NoRow /\ c = NewJob
  BY ShownJob
<1>2. /\ c.state = "none"
      /\ ctl' = [ctl EXCEPT ![j].state = "PENDING", ![j].submit = now]
      /\ UNCHANGED <<now, spoilt>>
  BY DEF Submit
<1>3. PICK no \in BOOLEAN : no = FALSE /\ SendStart(Call("job_start", j, no, "PENDING", 0, 0, now))
  BY DEF Submit
<1> DEFINE m == Call("job_start", j, no, "PENDING", 0, 0, now)
<1>4. Unless(j, ctl', ctl, e)
  BY <1>1, <1>2 DEF Unless
<1>5. no \in BOOLEAN /\ ~no
  BY <1>3
<1>6. m \in Calls /\ m.op = "job_start" /\ m.job = j /\ m.idx = no /\ m.start = 0
  <2>1. "job_start" \in Ops \ {"flush"} /\ "PENDING" \in Live \cup Done
    BY DEF Ops, Live, Done
  <2>2. 0 \in Nat /\ now \in Nat
    BY <1>1, <1>5 DEF Ctl
  <2> QED BY <1>5, <2>1, <2>2, CallFields
<1>7. /\ e.state = "PENDING" /\ e.submit = now /\ e.start = c.start /\ e.end = c.end /\ e.since = c.since
      /\ e.off = c.off /\ e.step = c.step /\ e.sstart = c.sstart /\ e.send = c.send /\ e.ssus = c.ssus
  BY <1>1 DEF Ctl
<1>8. /\ c.start \in Nat /\ c.end \in Nat /\ c.since \in Nat /\ c.sstart \in Nat /\ c.send \in Nat
      /\ c.ssus \in Int /\ c.step \in {"none", "RUNNING", "COMPLETE"}
  BY <1>1 DEF Ctl
<1> HIDE DEF c, d, e, m
<1>9. RunFacts(e, now)
  BY <1>1, <1>2, <1>7, <1>8 DEF RunFacts, Begun, Live, OffBefore, NewJob
<1>10. SendStart(m)
  BY <1>3 DEF m
<1>11. /\ m.op # "suspend" /\ (m.idx => d.row # NoRow)
       /\ e.off = c.off /\ e.since = c.since /\ (e.state = "SUSPENDED" <=> c.state = "SUSPENDED")
       /\ c.start \in {0, e.start} /\ (e.state \in Live => c.state \in Live \cup {"none"})
       /\ (IF m.op = "job_complete" THEN e.state \in Done ELSE m.start \in {0, e.start})
  BY <1>1, <1>2, <1>5, <1>6, <1>7 DEF RunFacts, Begun, Live, Done
<1>12. Deliver(m) \/ UNCHANGED <<db, last>>
  BY <1>10 DEF SendStart
<1> QED BY <1>2, <1>4, <1>6, <1>9, <1>11, <1>12, ShownCall DEF c, d

LEMMA RunShown ==
  ASSUME JobInv, ShownInv, NEW j \in Jobs, Run(j)
  PROVE  ShownInv'
<1> DEFINE c == ctl[j]
           d == db[j]
           e == [c EXCEPT !.state = "RUNNING", !.start = now]
<1>1. /\ c \in Ctl /\ d \in Tables /\ RunFacts(c, now) /\ now \in Nat \ {0} /\ DOMAIN ctl = Jobs
      /\ c.state = "none" => d.row = NoRow /\ c = NewJob
  BY ShownJob
<1>2. /\ c.state = "PENDING"
      /\ ctl' = [ctl EXCEPT ![j].state = "RUNNING", ![j].start = now]
      /\ UNCHANGED <<now, spoilt>>
  BY DEF Run
<1>3. PICK i \in Known(j) : SendStart(Call("job_start", j, i, "RUNNING", now, 0, now))
  BY DEF Run
<1> DEFINE m == Call("job_start", j, i, "RUNNING", now, 0, now)
<1>4. Unless(j, ctl', ctl, e)
  BY <1>1, <1>2 DEF Unless
<1>5. i \in BOOLEAN /\ (i => d.row # NoRow)
  BY <1>3, KnownRow
<1>6. m \in Calls /\ m.op = "job_start" /\ m.job = j /\ m.idx = i /\ m.start = now
  <2>1. "job_start" \in Ops \ {"flush"} /\ "RUNNING" \in Live \cup Done
    BY DEF Ops, Live, Done
  <2>2. now \in Nat /\ 0 \in Nat
    BY <1>1, <1>5 DEF Ctl
  <2> QED BY <1>5, <2>1, <2>2, CallFields
<1>7. /\ e.state = "RUNNING" /\ e.submit = c.submit /\ e.start = now /\ e.end = c.end /\ e.since = c.since
      /\ e.off = c.off /\ e.step = c.step /\ e.sstart = c.sstart /\ e.send = c.send /\ e.ssus = c.ssus
  BY <1>1 DEF Ctl
<1>8. /\ c.start \in Nat /\ c.end \in Nat /\ c.since \in Nat /\ c.sstart \in Nat /\ c.send \in Nat
      /\ c.ssus \in Int /\ c.step \in {"none", "RUNNING", "COMPLETE"}
  BY <1>1 DEF Ctl
<1> HIDE DEF c, d, e, m
<1>9. RunFacts(e, now)
  BY <1>1, <1>2, <1>7, <1>8 DEF RunFacts, Begun, Live, OffBefore
<1>10. SendStart(m)
  BY <1>3 DEF m
<1>11. /\ m.op # "suspend" /\ (m.idx => d.row # NoRow)
       /\ e.off = c.off /\ e.since = c.since /\ (e.state = "SUSPENDED" <=> c.state = "SUSPENDED")
       /\ c.start \in {0, e.start} /\ (e.state \in Live => c.state \in Live \cup {"none"})
       /\ (IF m.op = "job_complete" THEN e.state \in Done ELSE m.start \in {0, e.start})
  BY <1>1, <1>2, <1>5, <1>6, <1>7 DEF RunFacts, Begun, Live, Done
<1>12. Deliver(m) \/ UNCHANGED <<db, last>>
  BY <1>10 DEF SendStart
<1> QED BY <1>2, <1>4, <1>6, <1>9, <1>11, <1>12, ShownCall DEF c, d

LEMMA StepBeginShown ==
  ASSUME JobInv, ShownInv, NEW j \in Jobs, StepBegin(j)
  PROVE  ShownInv'
<1> DEFINE c == ctl[j]
           d == db[j]
           e == [c EXCEPT !.step = "RUNNING", !.sstart = now]
<1>1. /\ c \in Ctl /\ d \in Tables /\ RunFacts(c, now) /\ now \in Nat \ {0} /\ DOMAIN ctl = Jobs
      /\ c.state = "none" => d.row = NoRow /\ c = NewJob
  BY ShownJob
<1>2. /\ c.state = "RUNNING" /\ c.step = "none"
      /\ ctl' = [ctl EXCEPT ![j].step = "RUNNING", ![j].sstart = now]
      /\ UNCHANGED <<now, spoilt>>
  BY DEF StepBegin
<1>3. PICK i \in Known(j) : SendStart(Call("step_start", j, i, "PENDING", 0, 0, now))
  BY DEF StepBegin
<1> DEFINE m == Call("step_start", j, i, "PENDING", 0, 0, now)
<1>4. Unless(j, ctl', ctl, e)
  BY <1>1, <1>2 DEF Unless
<1>5. i \in BOOLEAN /\ (i => d.row # NoRow)
  BY <1>3, KnownRow
<1>6. m \in Calls /\ m.op = "step_start" /\ m.job = j /\ m.idx = i /\ m.start = 0
  <2>1. "step_start" \in Ops \ {"flush"} /\ "PENDING" \in Live \cup Done
    BY DEF Ops, Live, Done
  <2>2. 0 \in Nat /\ now \in Nat
    BY <1>1, <1>5 DEF Ctl
  <2> QED BY <1>5, <2>1, <2>2, CallFields
<1>7. /\ e.state = c.state /\ e.submit = c.submit /\ e.start = c.start /\ e.end = c.end /\ e.since = c.since
      /\ e.off = c.off /\ e.step = "RUNNING" /\ e.sstart = now /\ e.send = c.send /\ e.ssus = c.ssus
  BY <1>1 DEF Ctl
<1>8. /\ c.start \in Nat /\ c.end \in Nat /\ c.since \in Nat /\ c.sstart \in Nat /\ c.send \in Nat
      /\ c.ssus \in Int /\ c.step \in {"none", "RUNNING", "COMPLETE"}
  BY <1>1 DEF Ctl
<1> HIDE DEF c, d, e, m
<1>9. RunFacts(e, now)
  BY <1>1, <1>2, <1>7, <1>8 DEF RunFacts, Begun, Live, OffBefore
<1>10. SendStart(m)
  BY <1>3 DEF m
<1>11. /\ m.op # "suspend" /\ (m.idx => d.row # NoRow)
       /\ e.off = c.off /\ e.since = c.since /\ (e.state = "SUSPENDED" <=> c.state = "SUSPENDED")
       /\ c.start \in {0, e.start} /\ (e.state \in Live => c.state \in Live \cup {"none"})
       /\ (IF m.op = "job_complete" THEN e.state \in Done ELSE m.start \in {0, e.start})
  BY <1>1, <1>2, <1>5, <1>6, <1>7 DEF RunFacts, Begun, Live, Done
<1>12. Deliver(m) \/ UNCHANGED <<db, last>>
  BY <1>10 DEF SendStart
<1> QED BY <1>2, <1>4, <1>6, <1>9, <1>11, <1>12, ShownCall DEF c, d

LEMMA CancelShown ==
  ASSUME JobInv, ShownInv, NEW j \in Jobs, Cancel(j)
  PROVE  ShownInv'
<1> DEFINE c == ctl[j]
           d == db[j]
           e == [c EXCEPT !.state = "CANCELLED", !.end = now]
<1>1. /\ c \in Ctl /\ d \in Tables /\ RunFacts(c, now) /\ now \in Nat \ {0} /\ DOMAIN ctl = Jobs
      /\ c.state = "none" => d.row = NoRow /\ c = NewJob
  BY ShownJob
<1>2. /\ c.state = "PENDING"
      /\ ctl' = [ctl EXCEPT ![j].state = "CANCELLED", ![j].end = now]
      /\ UNCHANGED <<now, spoilt>>
  BY DEF Cancel
<1>3. PICK i \in Known(j), planned \in {0, now + 1} :
        Deliver(Call("job_complete", j, i, "CANCELLED", planned, now, now))
  BY DEF Cancel
<1> DEFINE m == Call("job_complete", j, i, "CANCELLED", planned, now, now)
<1>4. Unless(j, ctl', ctl, e)
  BY <1>1, <1>2 DEF Unless
<1>5. i \in BOOLEAN /\ (i => d.row # NoRow) /\ planned \in Nat
  BY <1>1, <1>3, KnownRow
<1>6. m \in Calls /\ m.op = "job_complete" /\ m.job = j /\ m.idx = i /\ m.start = planned
  <2>1. "job_complete" \in Ops \ {"flush"} /\ "CANCELLED" \in Live \cup Done
    BY DEF Ops, Live, Done
  <2>2. planned \in Nat /\ now \in Nat
    BY <1>1, <1>5 DEF Ctl
  <2> QED BY <1>5, <2>1, <2>2, CallFields
<1>7. /\ e.state = "CANCELLED" /\ e.submit = c.submit /\ e.start = c.start /\ e.end = now /\ e.since = c.since
      /\ e.off = c.off /\ e.step = c.step /\ e.sstart = c.sstart /\ e.send = c.send /\ e.ssus = c.ssus
  BY <1>1 DEF Ctl
<1>8. /\ c.start \in Nat /\ c.end \in Nat /\ c.since \in Nat /\ c.sstart \in Nat /\ c.send \in Nat
      /\ c.ssus \in Int /\ c.step \in {"none", "RUNNING", "COMPLETE"}
  BY <1>1 DEF Ctl
<1> HIDE DEF c, d, e, m
<1>9. RunFacts(e, now)
  BY <1>1, <1>2, <1>7, <1>8 DEF RunFacts, Begun, Live, OffBefore
<1>10. Deliver(m)
  BY <1>3 DEF m
<1>11. /\ m.op # "suspend" /\ (m.idx => d.row # NoRow)
       /\ e.off = c.off /\ e.since = c.since /\ (e.state = "SUSPENDED" <=> c.state = "SUSPENDED")
       /\ c.start \in {0, e.start} /\ (e.state \in Live => c.state \in Live \cup {"none"})
       /\ (IF m.op = "job_complete" THEN e.state \in Done ELSE m.start \in {0, e.start})
  BY <1>1, <1>2, <1>5, <1>6, <1>7 DEF RunFacts, Begun, Live, Done
<1>12. Deliver(m) \/ UNCHANGED <<db, last>>
  BY <1>10
<1> QED BY <1>2, <1>4, <1>6, <1>9, <1>11, <1>12, ShownCall DEF c, d

LEMMA FinishShown ==
  ASSUME JobInv, ShownInv, NEW j \in Jobs, Finish(j)
  PROVE  ShownInv'
<1> DEFINE c == ctl[j]
           d == db[j]
           e == [c EXCEPT !.state = "COMPLETE", !.end = now]
<1>1. /\ c \in Ctl /\ d \in Tables /\ RunFacts(c, now) /\ now \in Nat \ {0} /\ DOMAIN ctl = Jobs
      /\ c.state = "none" => d.row = NoRow /\ c = NewJob
  BY ShownJob
<1>2. /\ c.state = "RUNNING" /\ c.step # "RUNNING"
      /\ ctl' = [ctl EXCEPT ![j].state = "COMPLETE", ![j].end = now]
      /\ UNCHANGED <<now, spoilt>>
  BY DEF Finish
<1>3. PICK i \in Known(j) : Deliver(Call("job_complete", j, i, "COMPLETE", c.start, now, now))
  BY DEF Finish
<1> DEFINE m == Call("job_complete", j, i, "COMPLETE", c.start, now, now)
<1>4. Unless(j, ctl', ctl, e)
  BY <1>1, <1>2 DEF Unless
<1>5. i \in BOOLEAN /\ (i => d.row # NoRow)
  BY <1>3, KnownRow
<1>6. m \in Calls /\ m.op = "job_complete" /\ m.job = j /\ m.idx = i /\ m.start = c.start
  <2>1. "job_complete" \in Ops \ {"flush"} /\ "COMPLETE" \in Live \cup Done
    BY DEF Ops, Live, Done
  <2>2. c.start \in Nat /\ now \in Nat
    BY <1>1, <1>5 DEF Ctl
  <2> QED BY <1>5, <2>1, <2>2, CallFields
<1>7. /\ e.state = "COMPLETE" /\ e.submit = c.submit /\ e.start = c.start /\ e.end = now /\ e.since = c.since
      /\ e.off = c.off /\ e.step = c.step /\ e.sstart = c.sstart /\ e.send = c.send /\ e.ssus = c.ssus
  BY <1>1 DEF Ctl
<1>8. /\ c.start \in Nat /\ c.end \in Nat /\ c.since \in Nat /\ c.sstart \in Nat /\ c.send \in Nat
      /\ c.ssus \in Int /\ c.step \in {"none", "RUNNING", "COMPLETE"}
  BY <1>1 DEF Ctl
<1> HIDE DEF c, d, e, m
<1>9. RunFacts(e, now)
  BY <1>1, <1>2, <1>7, <1>8 DEF RunFacts, Begun, Live, OffBefore
<1>10. Deliver(m)
  BY <1>3 DEF m
<1>11. /\ m.op # "suspend" /\ (m.idx => d.row # NoRow)
       /\ e.off = c.off /\ e.since = c.since /\ (e.state = "SUSPENDED" <=> c.state = "SUSPENDED")
       /\ c.start \in {0, e.start} /\ (e.state \in Live => c.state \in Live \cup {"none"})
       /\ (IF m.op = "job_complete" THEN e.state \in Done ELSE m.start \in {0, e.start})
  BY <1>1, <1>2, <1>5, <1>6, <1>7 DEF RunFacts, Begun, Live, Done
<1>12. Deliver(m) \/ UNCHANGED <<db, last>>
  BY <1>10
<1> QED BY <1>2, <1>4, <1>6, <1>9, <1>11, <1>12, ShownCall DEF c, d

LEMMA StepEndShown ==
  ASSUME JobInv, ShownInv, NEW j \in Jobs, StepEnd(j)
  PROVE  ShownInv'
<1> DEFINE c == ctl[j]
           d == db[j]
           e == [c EXCEPT !.step = "COMPLETE", !.send = now]
<1>1. /\ c \in Ctl /\ d \in Tables /\ RunFacts(c, now) /\ now \in Nat \ {0} /\ DOMAIN ctl = Jobs
      /\ c.state = "none" => d.row = NoRow /\ c = NewJob
  BY ShownJob
<1>2. /\ c.state = "RUNNING" /\ c.step = "RUNNING"
      /\ ctl' = [ctl EXCEPT ![j].step = "COMPLETE", ![j].send = now]
      /\ UNCHANGED <<now, spoilt>>
  BY DEF StepEnd
<1>3. PICK i \in Known(j) : Deliver(Call("step_complete", j, i, "COMPLETE", 0, 0, now))
  BY DEF StepEnd
<1> DEFINE m == Call("step_complete", j, i, "COMPLETE", 0, 0, now)
<1>4. Unless(j, ctl', ctl, e)
  BY <1>1, <1>2 DEF Unless
<1>5. i \in BOOLEAN /\ (i => d.row # NoRow)
  BY <1>3, KnownRow
<1>6. m \in Calls /\ m.op = "step_complete" /\ m.job = j /\ m.idx = i /\ m.start = 0
  <2>1. "step_complete" \in Ops \ {"flush"} /\ "COMPLETE" \in Live \cup Done
    BY DEF Ops, Live, Done
  <2>2. 0 \in Nat /\ now \in Nat
    BY <1>1, <1>5 DEF Ctl
  <2> QED BY <1>5, <2>1, <2>2, CallFields
<1>7. /\ e.state = c.state /\ e.submit = c.submit /\ e.start = c.start /\ e.end = c.end /\ e.since = c.since
      /\ e.off = c.off /\ e.step = "COMPLETE" /\ e.sstart = c.sstart /\ e.send = now /\ e.ssus = c.ssus
  BY <1>1 DEF Ctl
<1>8. /\ c.start \in Nat /\ c.end \in Nat /\ c.since \in Nat /\ c.sstart \in Nat /\ c.send \in Nat
      /\ c.ssus \in Int /\ c.step \in {"none", "RUNNING", "COMPLETE"}
  BY <1>1 DEF Ctl
<1> HIDE DEF c, d, e, m
<1>9. RunFacts(e, now)
  BY <1>1, <1>2, <1>7, <1>8 DEF RunFacts, Begun, Live, OffBefore
<1>10. Deliver(m)
  BY <1>3 DEF m
<1>11. /\ m.op # "suspend" /\ (m.idx => d.row # NoRow)
       /\ e.off = c.off /\ e.since = c.since /\ (e.state = "SUSPENDED" <=> c.state = "SUSPENDED")
       /\ c.start \in {0, e.start} /\ (e.state \in Live => c.state \in Live \cup {"none"})
       /\ (IF m.op = "job_complete" THEN e.state \in Done ELSE m.start \in {0, e.start})
  BY <1>1, <1>2, <1>5, <1>6, <1>7 DEF RunFacts, Begun, Live, Done
<1>12. Deliver(m) \/ UNCHANGED <<db, last>>
  BY <1>10
<1> QED BY <1>2, <1>4, <1>6, <1>9, <1>11, <1>12, ShownCall DEF c, d

\* A job is announced once more by a restarted controller.
LEMMA RejoinShown ==
  ASSUME JobInv, ShownInv, NEW j \in Jobs, Rejoin(j)
  PROVE  ShownInv'
<1> DEFINE c == ctl[j]
           d == db[j]
<1>1. /\ c \in Ctl /\ d \in Tables /\ RunFacts(c, now) /\ now \in Nat \ {0} /\ DOMAIN ctl = Jobs
  BY ShownJob
<1>2. /\ j \in rejoin /\ UNCHANGED <<now, ctl, spoilt>>
  BY DEF Rejoin
<1>3. PICK i \in Known(j) : Deliver(Call("job_start", j, i, c.state, c.start, 0, now))
  BY DEF Rejoin
<1> DEFINE m == Call("job_start", j, i, c.state, c.start, 0, now)
<1>4. Unless(j, ctl', ctl, c)
  BY <1>1, <1>2 DEF Unless
<1>5. i \in BOOLEAN /\ (i => d.row # NoRow)
  BY <1>3, KnownRow
<1>6. c.state \in Live
  BY <1>2 DEF JobInv
<1>7. m \in Calls /\ m.op = "job_start" /\ m.job = j /\ m.idx = i /\ m.start = c.start
  <2>1. "job_start" \in Ops \ {"flush"} /\ c.state \in Live \cup Done
    BY <1>6 DEF Ops
  <2>2. c.start \in Nat /\ 0 \in Nat /\ now \in Nat
    BY <1>1 DEF Ctl
  <2> QED BY <1>5, <2>1, <2>2, CallFields
<1> HIDE DEF c, d, m
<1>8. /\ m.op # "suspend" /\ (m.idx => d.row # NoRow) /\ c.start \in {0, c.start}
      /\ (c.state \in Live => c.state \in Live \cup {"none"})
      /\ (IF m.op = "job_complete" THEN c.state \in Done ELSE m.start \in {0, c.start})
  BY <1>5, <1>7
<1>9. Deliver(m)
  BY <1>3 DEF m
<1> QED BY <1>1, <1>2, <1>4, <1>7, <1>8, <1>9, ShownCall DEF c, d

\* A suspension begins: those before it are over.
LEMMA SuspendJobShown ==
  ASSUME JobInv, ShownInv, NEW j \in Jobs, SuspendJob(j)
  PROVE  ShownInv'
<1> DEFINE c == ctl[j]
           d == db[j]
           f == j \in spoilt
           e == SuspendedJob(c, now)
<1>1. /\ c \in Ctl /\ d \in Tables /\ RunFacts(c, now) /\ StartFacts(j, c, d, last)
      /\ (~f => PeriodFacts(c, d.susp, now)) /\ now \in Nat \ {0} /\ DOMAIN ctl = Jobs
  BY ShownJob
<1>2. /\ c.state = "RUNNING"
      /\ ctl' = [ctl EXCEPT ![j].state = "SUSPENDED", ![j].since = now]
      /\ UNCHANGED <<now, spoilt>>
  BY DEF SuspendJob
<1>3. PICK id \in Known(j) : Deliver(Call("suspend", j, id, "SUSPENDED", 0, 0, now))
  BY DEF SuspendJob
<1> DEFINE m == Call("suspend", j, id, "SUSPENDED", 0, 0, now)
           k == Effect(d, m)
<1>4. Unless(j, ctl', ctl, e)
  BY <1>1, <1>2 DEF Unless, SuspendedJob
<1>5. id \in BOOLEAN /\ (id => d.row # NoRow)
  BY <1>3, KnownRow
<1>6. /\ m \in Calls /\ m.op = "suspend" /\ m.job = j /\ m.idx = id
      /\ m.state = "SUSPENDED" /\ m.time = now /\ m.start = 0
  BY <1>1, <1>5, CallFields DEF Ops, Live
<1>7. /\ e.state = "SUSPENDED" /\ e.since = now /\ e.submit = c.submit /\ e.start = c.start
      /\ e.end = c.end /\ e.off = c.off /\ e.step = c.step /\ e.sstart = c.sstart
      /\ e.send = c.send /\ e.ssus = c.ssus
  BY <1>1 DEF Ctl, SuspendedJob
<1> HIDE DEF c, d, e, f, m
<1>8. RunFacts(e, now)
  BY <1>1, <1>2, <1>7 DEF RunFacts, Begun, Live, OffBefore
<1>9. StartFacts(j, e, k, m)
  <2>1. /\ c.start \in {0, e.start} /\ (e.state \in Live => c.state \in Live \/ d.row = NoRow)
        /\ (IF m.op = "job_complete" THEN e.state \in Done ELSE m.start \in {0, e.start})
        /\ (m.idx => d.row # NoRow)
    BY <1>2, <1>5, <1>6, <1>7 DEF Live
  <2> QED BY <1>1, <1>6, <2>1, StartKept
<1>10. ASSUME ~f PROVE PeriodFacts(e, k.susp, now)
  <2> DEFINE s == d.susp
             n == Len(s)
             new == [start |-> now, end |-> 0]
             a == Append(s, new)
  <2>1. k.susp = a
    <3>1. k = Suspend(d, m) /\ CallFor(m, d)
      BY <1>5, <1>6 DEF Effect, CallFor, Calls
    <3> QED BY <1>1, <1>6, <3>1, SuspendRow
  <2>2. s \in Seq(Period) /\ new \in Period /\ PeriodFacts(c, s, now)
    BY <1>1, <1>10 DEF Tables, Period
  <2>3. n \in Nat /\ Len(a) = n + 1 /\ \A i \in 1..n : a[i] = s[i]
    BY <2>2
  <2> HIDE DEF a, s, n, new
  <2>4. Ended(c, s) = n /\ Ended(e, a) = n /\ OffBefore(c, now) = now /\ OffBefore(e, now) = now
    BY <1>2, <1>7, <2>3 DEF Ended, OffBefore, n
  <2>5. \A x : InPeriods(a, n, x) <=> InPeriods(s, n, x)
    BY <2>3 DEF InPeriods
  <2>6. PeriodFacts(e, a, now)
    BY <1>7, <2>2, <2>3, <2>4, <2>5 DEF PeriodFacts
  <2> QED BY <2>1, <2>6
<1>11. ShownFacts(j, e, k, m, now, f)
  BY <1>8, <1>9, <1>10 DEF ShownFacts
<1>12. Deliver(m)
  BY <1>3 DEF m
<1> QED BY <1>2, <1>4, <1>6, <1>11, <1>12, ShownDelivered DEF d, f

\* The last suspension ends, and takes its seconds with it.
LEMMA ResumeJobShown ==
  ASSUME JobInv, ShownInv, NEW j \in Jobs, ResumeJob(j)
  PROVE  ShownInv'
<1> DEFINE c == ctl[j]
           d == db[j]
           f == j \in spoilt
           e == ResumedJob(c, now)
<1>1. /\ c \in Ctl /\ d \in Tables /\ RunFacts(c, now) /\ StartFacts(j, c, d, last)
      /\ (~f => PeriodFacts(c, d.susp, now)) /\ now \in Nat \ {0} /\ DOMAIN ctl = Jobs
  BY ShownJob
<1>2. /\ c.state = "SUSPENDED"
      /\ ctl' = [ctl EXCEPT ![j].state = "RUNNING", ![j].off = @ \cup (c.since .. now - 1),
                            ![j].ssus = IF c.step = "RUNNING" THEN @ + (now - c.since) ELSE @]
      /\ UNCHANGED <<now, spoilt>>
  BY DEF ResumeJob
<1>3. PICK id \in Known(j) : Deliver(Call("suspend", j, id, "RUNNING", 0, 0, now))
  BY DEF ResumeJob
<1> DEFINE m == Call("suspend", j, id, "RUNNING", 0, 0, now)
           k == Effect(d, m)
<1>4. Unless(j, ctl', ctl, e)
  BY <1>1, <1>2 DEF Unless, ResumedJob
<1>5. id \in BOOLEAN /\ (id => d.row # NoRow)
  BY <1>3, KnownRow
<1>6. /\ m \in Calls /\ m.op = "suspend" /\ m.job = j /\ m.idx = id
      /\ m.state = "RUNNING" /\ m.time = now /\ m.start = 0
  BY <1>1, <1>5, CallFields DEF Ops, Live
<1>7. /\ e.state = "RUNNING" /\ e.since = c.since /\ e.submit = c.submit /\ e.start = c.start
      /\ e.end = c.end /\ e.off = c.off \cup (c.since .. now - 1) /\ e.step = c.step
      /\ e.sstart = c.sstart /\ e.send = c.send
      /\ e.ssus = IF c.step = "RUNNING" THEN c.ssus + (now - c.since) ELSE c.ssus
  BY <1>1 DEF Ctl, ResumedJob
<1>8. c.since <= now /\ (~f => SuspRows(c, d, now))
  BY ShapeOf DEF Shape, Kept
<1>9. /\ c.since \in Nat /\ c.start \in Nat /\ c.sstart \in Nat /\ c.send \in Nat /\ c.ssus \in Int
      /\ c.off \subseteq Nat
  BY <1>1 DEF Ctl
<1> HIDE DEF c, d, e, f, m
<1>10. RunFacts(e, now)
  <2>1. /\ c.submit # 0 /\ c.end = 0 /\ c.start # 0 /\ c.start <= c.since
        /\ c.off \subseteq c.start .. c.since - 1
        /\ IF c.step = "none" THEN c.ssus = 0 ELSE c.sstart # 0
        /\ c.step = "RUNNING" => c.sstart + c.ssus <= c.since
        /\ c.step = "COMPLETE" => c.sstart + c.ssus <= c.send
    BY <1>1, <1>2 DEF RunFacts, Begun, Live, OffBefore
  <2>2. e.off \subseteq e.start .. now - 1 /\ e.start <= now
    BY <1>1, <1>7, <1>8, <1>9, <2>1
  <2>3. /\ IF e.step = "none" THEN e.ssus = 0 ELSE e.sstart # 0
        /\ e.step = "RUNNING" => e.sstart + e.ssus <= now
        /\ e.step = "COMPLETE" => e.sstart + e.ssus <= e.send
    BY <1>1, <1>7, <1>9, <2>1
  <2> QED BY <1>7, <2>1, <2>2, <2>3 DEF RunFacts, Begun, Live, OffBefore
<1>11. StartFacts(j, e, k, m)
  <2>1. /\ c.start \in {0, e.start} /\ (e.state \in Live => c.state \in Live \/ d.row = NoRow)
        /\ (IF m.op = "job_complete" THEN e.state \in Done ELSE m.start \in {0, e.start})
        /\ (m.idx => d.row # NoRow)
    BY <1>2, <1>5, <1>6, <1>7 DEF Live
  <2> QED BY <1>1, <1>6, <2>1, StartKept
<1>12. ASSUME ~f PROVE PeriodFacts(e, k.susp, now)
  <2> DEFINE s == d.susp
             n == Len(s) - 1
             a == CloseSuspends(s, now)
  <2>1. k.susp = a
    <3>1. k = Suspend(d, m) /\ CallFor(m, d)
      BY <1>5, <1>6 DEF Effect, CallFor, Calls
    <3> QED BY <1>1, <1>6, <3>1, SuspendRow
  <2>2. s \in Seq(Period) /\ PeriodFacts(c, s, now)
    BY <1>1, <1>12 DEF Tables
  <2>3. /\ s # <<>> /\ s[Len(s)] = [start |-> c.since, end |-> 0]
        /\ \A i \in 1..Len(s) - 1 : s[i].end # 0
    BY <1>2, <1>8, <1>12 DEF SuspRows
  <2>4. /\ a \in Seq(Period) /\ Len(a) = Len(s)
        /\ \A i \in 1..Len(s) :
             IF s[i].end = 0 THEN a[i].start = s[i].start /\ a[i].end = now ELSE a[i] = s[i]
    BY <1>1, <2>2, SuspClosed
  <2>5. n \in Nat /\ Len(s) = n + 1
    BY <2>2, <2>3
  <2> HIDE DEF a, s, n
  <2>6. a[n+1].start = c.since /\ a[n+1].end = now
    BY <2>3, <2>4, <2>5
  <2>7. \A i \in 1..n : a[i] = s[i]
    BY <2>3, <2>4, <2>5
  <2>8. Ended(c, s) = n /\ Ended(e, a) = n + 1 /\ OffBefore(c, now) = c.since /\ OffBefore(e, now) = now
    BY <1>2, <1>7, <2>4, <2>5 DEF Ended, OffBefore
  <2>9. /\ \A x \in Nat : x \in c.off <=> InPeriods(s, n, x)
        /\ \A i \in 1..n : s[i].end <= c.since
        /\ \A i, q \in 1..n : i < q => s[i].end <= s[q].start
    BY <2>2, <2>8 DEF PeriodFacts
  <2>10. \A i \in 1..n+1 : i \in 1..n \/ i = n + 1
    BY <2>5
  <2>11. ASSUME NEW x \in Nat PROVE x \in e.off <=> InPeriods(a, n + 1, x)
    <3>1. InPeriods(a, n + 1, x) <=> InPeriods(s, n, x) \/ (c.since <= x /\ x < now)
      <4>1. 1..n \subseteq 1..n+1 /\ n + 1 \in 1..n+1
        BY <2>5
      <4> QED BY <2>6, <2>7, <2>10, <4>1 DEF InPeriods
    <3>2. x \in c.since..now-1 <=> c.since <= x /\ x < now
      BY <1>1, <1>9
    <3> QED BY <1>7, <2>9, <3>1, <3>2
  <2>12. ASSUME NEW i \in 1..n+1 PROVE a[i].end <= now
    <3>1. CASE i \in 1..n
      <4>1. s[i] \in Period
        BY <2>2, <2>5, <3>1
      <4>2. s[i].end \in Nat /\ s[i].end <= c.since
        BY <2>9, <3>1, <4>1 DEF Period
      <4> QED BY <1>1, <1>8, <1>9, <2>7, <3>1, <4>2
    <3>2. CASE i = n + 1
      BY <1>1, <2>6, <3>2
    <3> QED BY <2>10, <3>1, <3>2
  <2>13. ASSUME NEW i \in 1..n+1, NEW q \in 1..n+1, i < q PROVE a[i].end <= a[q].start
    <3>1. i \in 1..n
      BY <2>5, <2>13
    <3>2. CASE q \in 1..n
      BY <2>7, <2>9, <2>13, <3>1, <3>2
    <3>3. CASE q = n + 1
      BY <2>6, <2>7, <2>9, <3>1, <3>3
    <3> QED BY <2>10, <3>2, <3>3
  <2>14. PeriodFacts(e, a, now)
    BY <2>8, <2>11, <2>12, <2>13 DEF PeriodFacts
  <2> QED BY <2>1, <2>14
<1>13. ShownFacts(j, e, k, m, now, f)
  BY <1>10, <1>11, <1>12 DEF ShownFacts
<1>14. Deliver(m)
  BY <1>3 DEF m
<1> QED BY <1>2, <1>4, <1>6, <1>13, <1>14, ShownDelivered DEF d, f

\* Time passes.
LEMMA TickShown ==
  ASSUME JobInv, ShownInv, Tick
  PROVE  ShownInv'
<1>1. now \in Nat \ {0} /\ now' = now + 1 /\ UNCHANGED <<ctl, db, last, spoilt>>
  BY DEF JobInv, Tick
<1>2. ASSUME NEW c \in Ctl, RunFacts(c, now) PROVE RunFacts(c, now')
  <2>1. /\ c.start \in Nat /\ c.end \in Nat /\ c.since \in Nat /\ c.sstart \in Nat /\ c.ssus \in Int
        /\ c.off \subseteq Nat
    BY DEF Ctl
  <2>2. OffBefore(c, now) \in Nat /\ OffBefore(c, now') \in Nat /\ OffBefore(c, now) <= OffBefore(c, now')
    BY <1>1, <2>1 DEF OffBefore
  <2>3. c.state \in {"RUNNING", "SUSPENDED"} =>
          c.start <= OffBefore(c, now') /\ c.off \subseteq c.start .. OffBefore(c, now') - 1
    BY <1>2, <2>1, <2>2 DEF RunFacts
  <2>4. /\ c.state = "COMPLETE" => c.end <= now'
        /\ c.step = "RUNNING" => c.sstart + c.ssus <= OffBefore(c, now')
    BY <1>1, <1>2, <2>1, <2>2 DEF RunFacts
  <2> QED BY <1>2, <2>3, <2>4 DEF RunFacts
<1>3. ASSUME NEW c \in Ctl, NEW s \in Seq(Period), PeriodFacts(c, s, now)
      PROVE  PeriodFacts(c, s, now')
  <2>1. c.since \in Nat
    BY DEF Ctl
  <2>2. ASSUME NEW i \in 1..Ended(c, s) PROVE s[i].end <= OffBefore(c, now')
    <3>1. s[i] \in Period
      <4>1. i \in 1..Len(s)
        BY DEF Ended
      <4> QED BY <4>1
    <3>2. s[i].end \in Nat /\ s[i].end <= OffBefore(c, now)
      BY <1>3, <3>1 DEF PeriodFacts, Period
    <3> QED BY <1>1, <2>1, <3>2 DEF OffBefore
  <2> QED BY <1>3, <2>2 DEF PeriodFacts
<1>4. ASSUME NEW j \in Jobs
      PROVE  ShownFacts(j, ctl[j], db[j], last, now', j \in spoilt)
  <2>1. /\ RunFacts(ctl[j], now) /\ StartFacts(j, ctl[j], db[j], last)
        /\ j \notin spoilt => PeriodFacts(ctl[j], db[j].susp, now)
        /\ ctl[j] \in Ctl /\ db[j].susp \in Seq(Period)
    BY ShownJob DEF Tables
  <2>2. RunFacts(ctl[j], now')
    BY <1>2, <2>1
  <2>3. j \notin spoilt => PeriodFacts(ctl[j], db[j].susp, now')
    BY <1>3, <2>1
  <2> QED BY <2>1, <2>2, <2>3 DEF ShownFacts
<1> QED BY <1>1, <1>4 DEF ShownInv

\* A flush leaves the start of a row, and jobs whose row is not open.
LEMMA HotStartShown ==
  ASSUME JobInv, ShownInv, HotStart
  PROVE  ShownInv'
<1> DEFINE m == [op |-> "flush", time |-> now]
<1>1. /\ Deliver(m) /\ spoilt' = spoilt \cup {j \in Jobs : db[j].row.end = 0}
      /\ UNCHANGED <<now, ctl>>
  BY DEF HotStart
<1>2. now \in Nat \ {0} /\ DOMAIN ctl = Jobs /\ DOMAIN db = Jobs
  BY DEF JobInv
<1>3. IsFlush(m) /\ m.op = "flush" /\ m.time = now
  BY <1>2 DEF IsFlush
<1> HIDE DEF m
<1>4. m \notin Calls
  BY <1>3, CallIsNoFlush
<1>5. last' = m /\ db' = [j \in Jobs |-> Flush(db[j], now)]
  BY <1>1, <1>3 DEF Deliver, Apply
<1>6. ASSUME NEW j \in Jobs PROVE ShownFacts(j, ctl[j], db'[j], m, now, j \in spoilt')
  <2> DEFINE c == ctl[j]
             d == db[j]
             k == Flush(d, now)
  <2>1. /\ RunFacts(c, now) /\ StartFacts(j, c, d, last) /\ d \in Tables
        /\ j \notin spoilt => PeriodFacts(c, d.susp, now)
    BY ShownJob
  <2>2. db'[j] = k
    BY <1>5
  <2> HIDE DEF c, k
  <2>3. CASE d.row = NoRow \/ d.row.end # 0
    <3>1. k = d
      BY <2>3 DEF Flush, k
    <3>2. StartFacts(j, c, k, m)
      BY <1>4, <2>1, <3>1 DEF StartFacts
    <3>3. j \notin spoilt' => j \notin spoilt
      BY <1>1
    <3> QED BY <2>1, <2>2, <3>1, <3>2, <3>3 DEF ShownFacts, c
  <2>4. CASE d.row # NoRow /\ d.row.end = 0
    <3>1. j \in spoilt'
      BY <1>1, <2>4
    <3>2. k.row.start = d.row.start
      <4>1. d.row \in JobRow
        BY <2>1, <2>4 DEF Tables
      <4>2. CASE d.row.state = "SUSPENDED"
        BY <2>1, <2>4, <4>1, <4>2 DEF Flush, k, Suspended, JobRow
      <4>3. CASE d.row.state # "SUSPENDED"
        BY <2>1, <2>4, <4>1, <4>3 DEF Flush, k, Tables, JobRow
      <4> QED BY <4>2, <4>3
    <3>3. StartFacts(j, c, k, m)
      BY <1>4, <2>1, <2>4, <3>2 DEF StartFacts
    <3> QED BY <2>1, <2>2, <3>1, <3>3 DEF ShownFacts, c
  <2> QED BY <2>3, <2>4
<1> QED BY <1>1, <1>5, <1>6 DEF ShownInv

\* A call is delivered again.
LEMMA ResendShown ==
  ASSUME JobInv, ShownInv, Resend
  PROVE  ShownInv'
<1>1. /\ last.op \in Ops /\ Deliver(last) /\ UNCHANGED <<now, ctl>>
      /\ spoilt' = IF last.op = "suspend" THEN spoilt \cup {last.job} ELSE spoilt
  BY JobAcctAssumption DEF Resend
<1>2. last \in Calls \/ IsFlush(last)
  <2>1. last # NoCall
    BY <1>1, CallIsNoFlush DEF Ops
  <2> QED BY <2>1 DEF JobInv, IsFlush
<1>3. CASE IsFlush(last)
  <2>1. last.op = "flush"
    BY <1>3, CallIsNoFlush
  <2>2. \A j \in Jobs : Flush(db[j], last.time) = db[j]
    BY <2>1 DEF JobInv, Flush
  <2>3. db' = [j \in Jobs |-> Flush(db[j], last.time)] /\ last' = last
    BY <1>1, <2>1 DEF Deliver, Apply
  <2>4. \A j \in Jobs : db'[j] = db[j]
    BY <2>2, <2>3
  <2>5. spoilt' = spoilt
    BY <1>1, <2>1
  <2> QED BY <1>1, <2>3, <2>4, <2>5 DEF ShownInv
<1>4. CASE last \in Calls
  <2> DEFINE m == last
             j == m.job
             c == ctl[j]
             d == db[j]
  <2>1. m \in Calls /\ j \in Jobs /\ Deliver(m)
    BY <1>1, <1>4 DEF Calls
  <2>2. /\ RunFacts(c, now) /\ StartFacts(j, c, d, last) /\ d \in Tables /\ DOMAIN ctl = Jobs
        /\ LastOK(j, c, d, m)
    BY <2>1, ShownJob, ShapeOf
  <2>3. /\ d.row # NoRow /\ (m.op = "job_complete" <=> c.state \in Done)
    BY <2>1, <2>2 DEF LastOK
  <2>4. m.op # "job_complete" => m.start \in {0, c.start}
    BY <2>1, <2>2 DEF StartFacts
  <2>5. Unless(j, ctl', ctl, c)
    BY <1>1, <2>2 DEF Unless
  <2>6. /\ (m.idx => d.row # NoRow) /\ c.start \in {0, c.start}
        /\ (c.state \in Live => c.state \in Live \cup {"none"})
        /\ (IF m.op = "job_complete" THEN c.state \in Done ELSE m.start \in {0, c.start})
    BY <2>3, <2>4
  <2>7. m.job = j /\ (m.op = "suspend" => j \in spoilt') /\ spoilt \subseteq spoilt'
        /\ (m.op # "suspend" => spoilt' = spoilt)
    BY <1>1
  <2> HIDE DEF m, j
  <2>8. CASE m.op # "suspend"
    BY <1>1, <2>1, <2>2, <2>5, <2>6, <2>7, <2>8, ShownCall
  <2>9. CASE m.op = "suspend"
    <3> DEFINE k == Effect(d, m)
    <3>1. k.row.start = m.start \/ (d.row # NoRow /\ k.row.start = d.row.start)
      BY <2>1, <2>2, <2>6, <2>9, EffectStart
    <3> HIDE DEF k
    <3>2. StartFacts(j, c, k, m)
      BY <2>1, <2>2, <2>3, <2>4, <2>9, <3>1 DEF StartFacts
    <3>3. ShownFacts(j, c, k, m, now, j \in spoilt')
      BY <2>2, <2>7, <2>9, <3>2 DEF ShownFacts
    <3> QED BY <1>1, <2>1, <2>5, <2>7, <3>3, ShownDeliveredTo DEF k, d
  <2> QED BY <2>8, <2>9
<1> QED BY <1>2, <1>3, <1>4

LEMMA ShownInit == Init => ShownInv
<1> SUFFICES ASSUME Init, NEW j \in Jobs
             PROVE  ShownFacts(j, ctl[j], db[j], last, now, j \in spoilt)
  BY DEF ShownInv
<1>1. /\ now = 1 /\ ctl[j] = NewJob /\ db[j] = NoRows /\ last = NoCall
  BY DEF Init
<1>2. /\ NewJob.state = "none" /\ NewJob.step = "none" /\ NewJob.off = {} /\ NewJob.ssus = 0
      /\ NewJob.start = 0
  BY DEF NewJob
<1>3. RunFacts(NewJob, 1)
  BY <1>2 DEF RunFacts, Begun, Live
<1>4. StartFacts(j, NewJob, NoRows, NoCall)
  BY <1>2, CallIsNoFlush DEF StartFacts, Live
<1>5. PeriodFacts(NewJob, <<>>, 1)
  <2>1. Ended(NewJob, <<>>) = 0 /\ 1..0 = {}
    BY <1>2 DEF Ended
  <2> QED BY <1>2, <2>1 DEF PeriodFacts, InPeriods
<1>6. NoRows.susp = <<>>
  BY DEF NoRows
<1> QED BY <1>1, <1>3, <1>4, <1>5, <1>6 DEF ShownFacts

LEMMA ShownInvInductive ==
  ASSUME JobInv, ShownInv, [Next]_vars
  PROVE  ShownInv'
<1>1. CASE UNCHANGED vars
  BY <1>1 DEF vars, ShownInv
<1>2. CASE Tick
  BY <1>2, TickShown
<1>3. CASE Resend
  BY <1>3, ResendShown
<1>4. CASE HotStart
  BY <1>4, HotStartShown
<1>5. ASSUME NEW j \in Jobs,
             Submit(j) \/ Run(j) \/ Cancel(j) \/ Finish(j) \/ StepBegin(j) \/ StepEnd(j)
             \/ SuspendJob(j) \/ ResumeJob(j) \/ Rejoin(j)
      PROVE  ShownInv'
  BY <1>5, SubmitShown, RunShown, CancelShown, FinishShown, StepBeginShown, StepEndShown,
     SuspendJobShown, ResumeJobShown, RejoinShown
<1> QED BY <1>1, <1>2, <1>3, <1>4, <1>5 DEF Next

\* While the calls are of another kind, no job has a row.
WindowsInv == IF scene = "jobs" THEN ShownInv ELSE db = [j \in Jobs |-> NoRows]

LEMMA WindowsInvInductive ==
  ASSUME JobsInv, WindowsInv, [TablesNext]_TablesVars
  PROVE  WindowsInv'
<1>1. scene' = scene
  BY DEF TablesNext, TablesVars
<1>2. CASE scene = "jobs"
  <2>1. [Next]_vars
    BY <1>2 DEF TablesNext, TablesVars
  <2>2. JobInv /\ ShownInv
    BY <1>2 DEF JobsInv, WindowsInv
  <2>3. ShownInv'
    BY <2>1, <2>2, ShownInvInductive
  <2> QED BY <1>1, <1>2, <2>3 DEF WindowsInv
<1>3. CASE scene # "jobs"
  <2>1. db' = db
    BY <1>3 DEF TablesNext, TablesVars, jobVars, vars
  <2> QED BY <1>1, <1>3, <2>1 DEF WindowsInv
<1> QED BY <1>2, <1>3

LEMMA WindowsInvImplies ==
  ASSUME JobsInv, WindowsInv
  PROVE  WindowShows
<1>1. CASE scene = "jobs"
  BY <1>1, ShownInvImplies DEF JobsInv, WindowsInv
<1>2. CASE scene # "jobs"
  <2>1. \A j \in Jobs : /\ ctl[j].start = 0 /\ ctl[j].step = "none" /\ db[j].row = NoRow
    BY <1>2 DEF JobsInv, WindowsInv, NewJob, NoRows
  <2>2. WindowSelects
    BY <2>1 DEF WindowSelects
  <2>3. ElapsedIsRunTime
    BY <2>1 DEF ElapsedIsRunTime
  <2> QED BY <2>2, <2>3 DEF WindowShows
<1> QED BY <1>1, <1>2

\* The where clauses of setup_job_cond_limits and the arithmetic of
\* mysql_jobacct_process_get_jobs over the rows that the job calls leave: a window
\* of sacct finds the jobs that were eligible and not over in it, and shows the
\* seconds they ran in it, for any clock, any number of jobs and suspensions, and
\* whatever was purged, flushed or repeated; the jobs that SuspendedTime leaves
\* out are left out here.
THEOREM WindowShowsAlways == TablesSpec => []WindowShows
<1>1. TablesSpec => []JobsInv
  BY JobsInvAlways
<1>2. TablesInit => WindowsInv
  BY ShownInit DEF TablesInit, WindowsInv, Init
<1>3. JobsInv /\ WindowsInv /\ [TablesNext]_TablesVars => WindowsInv'
  BY WindowsInvInductive
<1>4. JobsInv /\ WindowsInv => WindowShows
  BY WindowsInvImplies
<1> QED BY <1>1, <1>2, <1>3, <1>4, PTL DEF TablesSpec
=============================================================================
