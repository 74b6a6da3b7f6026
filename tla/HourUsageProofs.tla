-------------------------- MODULE HourUsageProofs --------------------------
(***************************************************************************)
(* Theorems about HourUsage, for every hour and every set of rows.         *)
(***************************************************************************)
EXTENDS HourUsage, SetInduction, FiniteSetTheorems, TLAPS

-----------------------------------------------------------------------------
(* The suspended seconds of a job are a natural number.                    *)

LEMMA TimeOffNat ==
  ASSUME NEW j, Till(j) \in Int, JobFrom(j) \in Int, NEW s \in Period
  PROVE  TimeOff(j, s) \in Nat
<1>1. s.start \in Int /\ s.end \in Int
  BY DEF Period
<1> QED BY <1>1 DEF TimeOff, Earlier, Later

LEMMA SuspendedInNat ==
  ASSUME NEW j, j.susp \in Seq(Period), Till(j) \in Int, JobFrom(j) \in Int
  PROVE  SuspendedIn(j) \in Nat
<1> DEFINE w == [k \in DOMAIN j.susp |-> TimeOff(j, j.susp[k])]
<1>1. Len(j.susp) \in Nat
  OBVIOUS
<1>2. \A k \in 1..Len(j.susp) : w[k] \in Nat
  BY TimeOffNat
<1> HIDE DEF w
<1>3. Total(w, Len(j.susp)) \in Nat
  BY <1>1, <1>2, TotalNat
<1> QED BY <1>3 DEF SuspendedIn, w

-----------------------------------------------------------------------------
(* Balancing: Clamped and Balanced on any usage.                           *)

\* A natural number fits every column.
LEMMA SetColumn ==
  ASSUME NEW u \in Usage, NEW n \in Nat
  PROVE  /\ [u EXCEPT !.total = n] \in Usage /\ [u EXCEPT !.a = n] \in Usage
         /\ [u EXCEPT !.d = n] \in Usage /\ [u EXCEPT !.pd = n] \in Usage
         /\ [u EXCEPT !.i = n] \in Usage /\ [u EXCEPT !.o = n] \in Usage
         /\ [u EXCEPT !.r = n] \in Usage /\ [u EXCEPT !.start = n] \in Usage
         /\ [u EXCEPT !.end = n] \in Usage
BY DEF Usage

\* After the first two checks no more time is in use than there is.
LEMMA ClampedFits ==
  ASSUME NEW u \in Usage
  PROVE  /\ Clamped(u) \in Usage
         /\ Clamped(u).a + Clamped(u).d + Clamped(u).pd <= Clamped(u).total
         /\ Clamped(u).o = u.o /\ Clamped(u).r = u.r
<1> DEFINE a == Earlier(u.a, u.total)
<1>1. /\ u.total \in Nat /\ u.a \in Nat /\ u.d \in Nat /\ u.pd \in Nat
      /\ u.o \in Nat /\ u.r \in Nat /\ u.i \in Nat
  BY DEF Usage
<1>2. a \in Nat /\ a <= u.total
  BY <1>1 DEF Earlier
<1> HIDE DEF a
<1>3. CASE u.total < a + u.d + u.pd
  <2>1. Clamped(u) = [u EXCEPT !.a = a, !.pd = 0, !.d = u.total - a]
    BY <1>3 DEF Clamped, a
  <2>2. u.total - a \in Nat
    BY <1>1, <1>2
  <2>3. Clamped(u) \in Usage
    <3> DEFINE u1 == [u EXCEPT !.a = a]
               u2 == [u1 EXCEPT !.pd = 0]
               u3 == [u2 EXCEPT !.d = u.total - a]
    <3>1. u1 \in Usage
      BY <1>2, SetColumn
    <3>2. u2 \in Usage
      <4> HIDE DEF u1
      <4> QED BY <3>1, SetColumn
    <3>3. u3 \in Usage
      <4> HIDE DEF u2
      <4> QED BY <3>2, <2>2, SetColumn
    <3>4. Clamped(u) = u3
      BY <2>1
    <3> HIDE DEF u3
    <3> QED BY <3>3, <3>4
  <2>4. /\ Clamped(u).a = a /\ Clamped(u).pd = 0 /\ Clamped(u).d = u.total - a
        /\ Clamped(u).total = u.total /\ Clamped(u).o = u.o /\ Clamped(u).r = u.r
    BY <2>1 DEF Usage
  <2> QED BY <2>3, <2>4, <1>1, <1>2
<1>4. CASE ~(u.total < a + u.d + u.pd)
  <2>1. Clamped(u) = [u EXCEPT !.a = a]
    BY <1>4 DEF Clamped, a
  <2>2. Clamped(u) \in Usage
    BY <2>1, <1>2 DEF Usage
  <2>3. /\ Clamped(u).a = a /\ Clamped(u).pd = u.pd /\ Clamped(u).d = u.d
        /\ Clamped(u).total = u.total /\ Clamped(u).o = u.o /\ Clamped(u).r = u.r
    BY <2>1 DEF Usage
  <2> QED BY <1>4, <2>2, <2>3, <1>1, <1>2
<1> QED BY <1>3, <1>4

\* The rest is idle, or taken from the reserved time: nothing gets negative.
LEMMA BalancedAddsUp ==
  ASSUME NEW u \in Usage, u.a + u.d + u.pd <= u.total, u.o = 0
  PROVE  LET v == Balanced(u)
             free == v.total - (v.a + v.d + v.pd)
         IN  /\ v \in Usage
             /\ v.a + v.d + v.pd + v.i + v.r = v.total
             /\ v.o = Later(0, u.r - free)
             /\ v.o > 0 => v.i = 0
<1> DEFINE i == u.total - (u.a + u.d + u.pd) - u.r
           v == Balanced(u)
<1>1. /\ u.total \in Nat /\ u.a \in Nat /\ u.d \in Nat /\ u.pd \in Nat
      /\ u.o \in Nat /\ u.r \in Nat /\ u.i \in Nat
  BY DEF Usage
<1>2. i \in Int /\ u.r + i >= 0
  BY <1>1
<1>3. i + (u.a + u.d + u.pd) + u.r = u.total
  BY <1>1
<1> HIDE DEF i
<1>4. CASE i < 0
  <2>1. v = [u EXCEPT !.r = Later(0, u.r + i), !.o = u.o - i, !.i = 0]
    BY <1>4 DEF Balanced, i
  <2>2. Later(0, u.r + i) = u.r + i /\ u.r + i \in Nat /\ u.o - i \in Nat
    BY <1>1, <1>2, <1>4 DEF Later
  <2>3. v \in Usage
    BY <2>1, <2>2 DEF Usage
  <2>4. /\ v.total = u.total /\ v.a = u.a /\ v.d = u.d /\ v.pd = u.pd
        /\ v.i = 0 /\ v.r = u.r + i /\ v.o = 0 - i
    BY <2>1, <2>2 DEF Usage
  <2>5. v.a + v.d + v.pd + v.i + v.r = v.total
    BY <2>4, <1>1, <1>2, <1>3
  <2>6. v.o = Later(0, u.r - (v.total - (v.a + v.d + v.pd)))
    BY <2>4, <1>1, <1>2, <1>3, <1>4 DEF Later
  <2> HIDE DEF v
  <2> QED BY <2>3, <2>4, <2>5, <2>6 DEF v
<1>5. CASE i >= 0
  <2>1. v = [u EXCEPT !.i = i]
    BY <1>2, <1>5 DEF Balanced, i
  <2>2. v \in Usage
    BY <2>1, <1>2, <1>5 DEF Usage
  <2>3. /\ v.total = u.total /\ v.a = u.a /\ v.d = u.d /\ v.pd = u.pd
        /\ v.i = i /\ v.r = u.r /\ v.o = 0
    BY <2>1 DEF Usage
  <2>4. v.a + v.d + v.pd + v.i + v.r = v.total
    BY <2>3, <1>1, <1>2, <1>3
  <2>5. v.o = Later(0, u.r - (v.total - (v.a + v.d + v.pd)))
    BY <2>3, <1>1, <1>2, <1>3, <1>5 DEF Later
  <2> HIDE DEF v
  <2> QED BY <2>2, <2>3, <2>4, <2>5 DEF v
<1> QED BY <1>2, <1>4, <1>5

-----------------------------------------------------------------------------
(* The unsigned columns, and that nothing is over-committed before the     *)
(* balance.                                                                *)

HourInv ==
  /\ TypeOK
  /\ phase # "done" => c.o = 0
  /\ SumsUp
  /\ OverIsExcess

LEMMA NatProduct ==
  \A x, y \in Nat : x * y \in Nat
OBVIOUS

\* What the rows of the hour are cut to.
LEMMA CutToHour ==
  ASSUME NEW e, e.start \in Nat, e.end \in Nat
  PROVE  From(e) \in Nat /\ Till(e) \in Nat
BY HourAssumption DEF From, Till, Later

LEMMA JobTimes ==
  ASSUME NEW j \in JobRows
  PROVE  /\ Till(j) \in Nat /\ JobFrom(j) \in Nat
         /\ JobSeconds(j) \in Int
         /\ ~Starts(j) => JobSeconds(j) = 0
<1>1. j.start \in Nat /\ j.end \in Nat /\ j.susp \in Seq(Period)
  BY HourAssumption
<1>2. Till(j) \in Nat /\ JobFrom(j) \in Nat
  BY <1>1, HourAssumption DEF Till, JobFrom, Later
<1>3. SuspendedIn(j) \in Nat
  BY <1>1, <1>2, SuspendedInNat
<1> QED BY <1>2, <1>3 DEF JobSeconds

LEMMA ReservedNat ==
  ASSUME NEW j \in JobRows, c \in Usage
  PROVE  ReservedTime(j) \in Nat
<1>1. JobFrom(j) \in Nat /\ j.eligible \in Nat /\ j.rcpu \in Nat
  BY JobTimes, HourAssumption
<1>2. c.start \in Nat /\ c.end \in Nat
  BY DEF Usage
<1> DEFINE secs == Later(0, Earlier(JobFrom(j), c.end) - Later(j.eligible, c.start))
<1>3. secs \in Nat
  BY <1>1, <1>2 DEF Later, Earlier
<1> HIDE DEF secs
<1>4. secs * j.rcpu \in Nat
  BY <1>1, <1>3, NatProduct
<1> QED BY <1>4 DEF ReservedTime, secs

\* The additions to the cluster's usage keep its columns.
LEMMA UsageAdd ==
  ASSUME c \in Usage, NEW n \in Nat, NEW k \in Nat, NEW x \in Nat, NEW y \in Nat
  PROVE  /\ [c EXCEPT !.total = @ + n, !.start = x, !.end = y] \in Usage
         /\ [c EXCEPT !.d = @ + n] \in Usage
         /\ [c EXCEPT !.pd = @ + n] \in Usage
         /\ [c EXCEPT !.a = @ + n] \in Usage
         /\ [c EXCEPT !.a = @ + n, !.r = @ + k] \in Usage
<1>1. /\ c.total + n \in Nat /\ c.d + n \in Nat /\ c.pd + n \in Nat
      /\ c.a + n \in Nat /\ c.r + k \in Nat
  BY DEF Usage
<1> DEFINE c1 == [c EXCEPT !.total = c.total + n]
           c2 == [c1 EXCEPT !.start = x]
           c3 == [c2 EXCEPT !.end = y]
           b1 == [c EXCEPT !.a = c.a + n]
           b2 == [b1 EXCEPT !.r = c.r + k]
<1>2. c1 \in Usage /\ b1 \in Usage
  BY <1>1, SetColumn
<1>3. c2 \in Usage /\ b2 \in Usage
  <2> HIDE DEF c1, b1
  <2> QED BY <1>1, <1>2, SetColumn
<1>4. c3 \in Usage
  <2> HIDE DEF c2
  <2> QED BY <1>3, SetColumn
<1>5. [c EXCEPT !.total = @ + n, !.start = x, !.end = y] = c3
  BY DEF Usage
<1>6. [c EXCEPT !.a = @ + n, !.r = @ + k] = b2
  BY DEF Usage
<1>7. /\ [c EXCEPT !.d = @ + n] \in Usage /\ [c EXCEPT !.pd = @ + n] \in Usage
      /\ [c EXCEPT !.a = @ + n] \in Usage
  BY <1>1, SetColumn
<1> HIDE DEF c3, b2
<1> QED BY <1>3, <1>4, <1>5, <1>6, <1>7

LEMMA AddKeepsOver ==
  ASSUME c \in Usage, NEW n, NEW k, NEW x, NEW y
  PROVE  /\ [c EXCEPT !.total = @ + n, !.start = x, !.end = y].o = c.o
         /\ [c EXCEPT !.d = @ + n].o = c.o
         /\ [c EXCEPT !.pd = @ + n].o = c.o
         /\ [c EXCEPT !.a = @ + n].o = c.o
         /\ [c EXCEPT !.a = @ + n, !.r = @ + k].o = c.o
BY DEF Usage

\* A row changes the cluster's usage only within its columns, and books
\* nothing as over-committed.
LEMMA RowStep ==
  ASSUME TypeOK, RegEvent \/ DownEvent \/ ResvRow \/ JobRow
  PROVE  c' \in Usage /\ c'.o = c.o /\ (c' = c \/ registered')
<1>0. c \in Usage /\ registered \in BOOLEAN
  BY DEF TypeOK
<1>1. CASE RegEvent
  <2>1. PICK e \in Regs :
          /\ Till(e) - From(e) >= 1
          /\ c' = [c EXCEPT !.total = @ + (Till(e) - From(e)) * e.cpu,
                            !.start = IF registered THEN @ ELSE From(e),
                            !.end = Till(e)]
    BY <1>1 DEF RegEvent
  <2>2. e.start \in Nat /\ e.end \in Nat /\ e.cpu \in Nat
    BY HourAssumption
  <2>3. From(e) \in Nat /\ Till(e) \in Nat
    BY <2>2, CutToHour
  <2>4. Till(e) - From(e) \in Nat
    BY <2>1, <2>3
  <2>5. (Till(e) - From(e)) * e.cpu \in Nat
    BY <2>2, <2>4, NatProduct
  <2>6. (IF registered THEN c.start ELSE From(e)) \in Nat
    BY <1>0, <2>3 DEF Usage
  <2>7. c' = [c EXCEPT !.total = @ + (Till(e) - From(e)) * e.cpu,
                       !.start = (IF registered THEN c.start ELSE From(e)),
                       !.end = Till(e)]
    BY <2>1
  <2>8. registered'
    BY <1>1 DEF RegEvent
  <2> DEFINE n == (Till(e) - From(e)) * e.cpu
             x == IF registered THEN c.start ELSE From(e)
             y == Till(e)
  <2>9. n \in Nat /\ x \in Nat /\ y \in Nat
    BY <2>3, <2>5, <2>6
  <2>10. c' = [c EXCEPT !.total = @ + n, !.start = x, !.end = y]
    BY <2>7
  <2> HIDE DEF n, x, y
  <2>11. c' \in Usage
    BY <1>0, <2>9, <2>10, UsageAdd
  <2>12. c'.o = c.o
    BY <1>0, <2>10, AddKeepsOver
  <2> QED BY <2>8, <2>11, <2>12
<1>2. CASE DownEvent
  <2>1. PICK e \in Downs :
          LET secs == Earlier(Till(e), c.end) - Later(From(e), c.start) IN
          secs > 0 /\ c' = [c EXCEPT !.d = @ + secs * e.cpu]
    BY <1>2 DEF DownEvent
  <2> DEFINE secs == Earlier(Till(e), c.end) - Later(From(e), c.start)
  <2>2. e.start \in Nat /\ e.end \in Nat /\ e.cpu \in Nat
    BY HourAssumption
  <2>3. From(e) \in Nat /\ Till(e) \in Nat
    BY <2>2, CutToHour
  <2>4. c.start \in Nat /\ c.end \in Nat
    BY <1>0 DEF Usage
  <2>5. secs \in Nat
    BY <2>1, <2>3, <2>4 DEF Earlier, Later
  <2>6. c' = [c EXCEPT !.d = @ + secs * e.cpu]
    BY <2>1
  <2>7. registered'
    BY <1>2 DEF DownEvent
  <2> HIDE DEF secs
  <2>8. secs * e.cpu \in Nat
    BY <2>2, <2>5, NatProduct
  <2> QED BY <1>0, <2>6, <2>7, <2>8, UsageAdd, AddKeepsOver
<1>3. CASE ResvRow
  <2>1. PICK v \in Resvs :
          LET time == (Till(v) - From(v)) * v.cpu IN
          /\ Till(v) - From(v) >= 1
          /\ c' = IF v.maint THEN [c EXCEPT !.pd = @ + time] ELSE [c EXCEPT !.a = @ + time]
    BY <1>3 DEF ResvRow
  <2> DEFINE time == (Till(v) - From(v)) * v.cpu
  <2>2. v.start \in Nat /\ v.end \in Nat /\ v.cpu \in Nat
    BY HourAssumption
  <2>3. From(v) \in Nat /\ Till(v) \in Nat
    BY <2>2, CutToHour
  <2>4. Till(v) - From(v) \in Nat
    BY <2>1, <2>3
  <2>5. time \in Nat
    BY <2>2, <2>4, NatProduct
  <2>6. c' = [c EXCEPT !.pd = @ + time] \/ c' = [c EXCEPT !.a = @ + time]
    BY <2>1
  <2>7. registered'
    BY <1>3 DEF ResvRow
  <2> HIDE DEF time
  <2> QED BY <1>0, <2>5, <2>6, <2>7, UsageAdd, AddKeepsOver
<1>4. CASE JobRow
  <2>1. PICK j \in JobRows :
          \/ UNCHANGED c
          \/ /\ ~(Starts(j) /\ JobSeconds(j) < 1) /\ registered
             /\ c' = [c EXCEPT !.a = @ + JobSeconds(j) * j.acpu, !.r = @ + ReservedTime(j)]
    BY <1>4 DEF JobRow
  <2>2. CASE UNCHANGED c
    BY <1>0, <2>2
  <2>3. CASE /\ ~(Starts(j) /\ JobSeconds(j) < 1) /\ registered
             /\ c' = [c EXCEPT !.a = @ + JobSeconds(j) * j.acpu, !.r = @ + ReservedTime(j)]
    <3>1. JobSeconds(j) \in Nat
      BY <2>3, JobTimes
    <3>2. j.acpu \in Nat
      BY HourAssumption
    <3>3. JobSeconds(j) * j.acpu \in Nat
      BY <3>1, <3>2, NatProduct
    <3>4. ReservedTime(j) \in Nat
      BY <1>0, ReservedNat
    <3>5. registered'
      BY <1>4, <2>3 DEF JobRow
    <3> QED BY <1>0, <2>3, <3>3, <3>4, <3>5, UsageAdd, AddKeepsOver
  <2> QED BY <2>1, <2>2, <2>3
<1> QED BY <1>1, <1>2, <1>3, <1>4

-----------------------------------------------------------------------------
(* HourInv is inductive.                                                   *)

\* The balance of the hour: a cluster without a registration has no usage.
LEMMA SettleStep ==
  ASSUME HourInv, Settle
  PROVE  HourInv'
<1>0. /\ c \in Usage /\ registered \in BOOLEAN /\ c.o = 0
      /\ registered \/ c = ZeroUsage
  BY DEF HourInv, TypeOK, Settle, NextPhase
<1>1. /\ phase' = "done" /\ rows' = 0 /\ before' = c /\ registered' = registered
      /\ c' = IF registered THEN Balanced(Clamped(c)) ELSE c
  BY DEF Settle, NextPhase
<1>2. CASE registered
  <2> DEFINE u == Clamped(c)
  <2>1. u \in Usage /\ u.a + u.d + u.pd <= u.total /\ u.o = 0 /\ u.r = c.r
    BY <1>0, ClampedFits
  <2>2. c' = Balanced(u)
    BY <1>1, <1>2
  <2> HIDE DEF u
  <2>3. /\ c' \in Usage
        /\ c'.a + c'.d + c'.pd + c'.i + c'.r = c'.total
        /\ c'.o = Later(0, c.r - (c'.total - (c'.a + c'.d + c'.pd)))
        /\ c'.o > 0 => c'.i = 0
    BY <2>1, <2>2, BalancedAddsUp
  <2>4. TypeOK'
    <3>1. before' \in Usage
      BY <1>0, <1>1
    <3>2. registered' \in BOOLEAN /\ registered'
      BY <1>0, <1>1, <1>2, Zenon
    <3>3. rows' \in Nat /\ phase' \in Phases
      BY <1>1 DEF Phases
    <3> QED BY <2>3, <3>1, <3>2, <3>3 DEF TypeOK
  <2>5. SumsUp'
    BY <2>3 DEF SumsUp
  <2>6. OverIsExcess'
    BY <1>1, <2>3 DEF OverIsExcess, Later
  <2> QED BY <1>1, <2>4, <2>5, <2>6 DEF HourInv
<1>3. CASE ~registered
  <2>1. c' = ZeroUsage /\ before' = ZeroUsage
    BY <1>0, <1>1, <1>3
  <2>2. ZeroUsage \in Usage
    BY DEF ZeroUsage, Usage
  <2>3. TypeOK'
    <3>1. registered' \in BOOLEAN
      BY <1>0, <1>1, Zenon
    <3>2. rows' \in Nat /\ phase' \in Phases
      BY <1>1 DEF Phases
    <3> QED BY <2>1, <2>2, <3>1, <3>2 DEF TypeOK
  <2>4. SumsUp'
    BY <2>1 DEF SumsUp, ZeroUsage
  <2>5. OverIsExcess'
    BY <2>1 DEF OverIsExcess, ZeroUsage, Later
  <2> QED BY <1>1, <2>3, <2>4, <2>5 DEF HourInv
<1> QED BY <1>2, <1>3

\* Any other step leaves the hour unfinished.
LEMMA OpenStep ==
  ASSUME /\ HourInv
         /\ \/ RegEvent \/ DownEvent \/ ResvRow \/ JobRow \/ Divide
            \/ EndRegs \/ EndNodes \/ EndResvs \/ EndJobs
  PROVE  HourInv'
<1>0. TypeOK /\ rows \in Nat /\ c \in Usage /\ before \in Usage /\ registered \in BOOLEAN
  BY DEF HourInv, TypeOK
<1>1. /\ phase # "done" /\ phase' \in Phases \ {"done"} /\ before' = before
  BY DEF RegEvent, DownEvent, ResvRow, JobRow, Divide, EndRegs, EndNodes, EndResvs,
         EndJobs, NextPhase, Phases
<1>2. rows' \in Nat
  <2>1. TakeRow \/ rows' = rows \/ rows' = 0
    BY Zenon DEF RegEvent, DownEvent, ResvRow, JobRow, Divide, EndRegs, EndNodes, EndResvs,
                 EndJobs, NextPhase
  <2> QED BY <1>0, <2>1 DEF TakeRow
<1>3. registered' \in BOOLEAN
  <2>1. CASE RegEvent
    BY <2>1, Zenon DEF RegEvent
  <2>2. CASE ~RegEvent
    <3>1. registered' = registered
      BY <2>2 DEF DownEvent, ResvRow, JobRow, Divide, EndRegs, EndNodes, EndResvs, EndJobs
    <3> QED BY <1>0, <3>1, Zenon
  <2> QED BY <2>1, <2>2
<1>4. c' \in Usage /\ c'.o = c.o /\ (registered' \/ c' = ZeroUsage)
  <2>1. registered => registered'
    BY DEF RegEvent, DownEvent, ResvRow, JobRow, Divide, EndRegs, EndNodes, EndResvs, EndJobs
  <2>2. registered \/ c = ZeroUsage
    BY <1>0 DEF TypeOK
  <2>3. CASE RegEvent \/ DownEvent \/ ResvRow \/ JobRow
    BY <1>0, <2>1, <2>2, <2>3, RowStep
  <2>4. CASE Divide \/ EndRegs \/ EndNodes \/ EndResvs \/ EndJobs
    <3>1. c' = c
      BY <2>4 DEF Divide, EndRegs, EndNodes, EndResvs, EndJobs
    <3> QED BY <1>0, <2>1, <2>2, <3>1
  <2> QED BY <2>3, <2>4
<1>5. TypeOK'
  BY <1>0, <1>1, <1>2, <1>3, <1>4 DEF TypeOK
<1>6. c.o = 0
  BY <1>1 DEF HourInv
<1> QED BY <1>1, <1>4, <1>5, <1>6 DEF HourInv, SumsUp, OverIsExcess

LEMMA HourInvInductive ==
  HourInv /\ [Next]_vars => HourInv'
<1> SUFFICES ASSUME HourInv, [Next]_vars PROVE HourInv'
  OBVIOUS
<1>1. CASE Settle
  BY <1>1, SettleStep
<1>2. CASE RegEvent \/ DownEvent \/ ResvRow \/ JobRow \/ Divide
           \/ EndRegs \/ EndNodes \/ EndResvs \/ EndJobs
  BY <1>2, OpenStep
<1>3. CASE UNCHANGED vars
  BY <1>3 DEF vars, HourInv, TypeOK, SumsUp, OverIsExcess
<1> QED BY <1>1, <1>2, <1>3 DEF Next

LEMMA HourInvInit ==
  Init => HourInv
<1> SUFFICES ASSUME Init PROVE HourInv
  OBVIOUS
<1>1. ZeroUsage \in Usage /\ ZeroUsage.o = 0
  BY DEF ZeroUsage, Usage
<1>2. registered \in BOOLEAN
  BY Zenon DEF Init
<1>3. TypeOK
  BY <1>1, <1>2 DEF Init, TypeOK, Phases
<1> QED BY <1>1, <1>3 DEF Init, HourInv, SumsUp, OverIsExcess

LEMMA HourInvAlways ==
  Spec => []HourInv
BY HourInvInit, HourInvInductive, PTL DEF Spec

\* mysql_hourly_rollup never wraps an unsigned usage column, whatever rows the
\* tables hold for the hour and in whatever number.
THEOREM UsageTypeCorrect ==
  Spec => []TypeOK
<1>1. HourInv => TypeOK
  BY DEF HourInv
<1> QED BY <1>1, HourInvAlways, PTL

\* The row written for a cluster's hour adds up to the time it was registered,
\* whatever the jobs, reservations and down nodes of the hour overlap, and books as
\* over-committed exactly the reserved time that did not fit.
THEOREM HourBalancesAlways ==
  Spec => []HourBalances
<1>1. HourInv => HourBalances
  BY DEF HourInv, HourBalances
<1> QED BY <1>1, HourInvAlways, PTL

-----------------------------------------------------------------------------
(* What an association is charged is what its jobs ran.                    *)

\* Suspensions as suspend_table holds them once the job was resumed: closed, and
\* one after the other.
Resumed ==
  \A j \in JobRows :
    /\ \A i \in DOMAIN j.susp : j.susp[i].start # 0 /\ j.susp[i].start <= j.susp[i].end
    /\ \A i, k \in DOMAIN j.susp : i < k => j.susp[i].end <= j.susp[k].start

\* The seconds of a set of whole seconds, one interval taken out of it.
LEMMA TakeOut ==
  ASSUME NEW S, IsFiniteSet(S), NEW a \in Int, NEW b \in Int, a..b \subseteq S
  PROVE  /\ IsFiniteSet(S \ (a..b))
         /\ Cardinality(S \ (a..b)) = Cardinality(S) - (IF a > b THEN 0 ELSE b - a + 1)
<1>1. S \cap (a..b) = a..b
  OBVIOUS
<1>2. IsFiniteSet(S \ (a..b)) /\ Cardinality(S \ (a..b)) = Cardinality(S) - Cardinality(a..b)
  BY <1>1, FS_Difference
<1> QED BY <1>2, FS_Interval

\* What mysql_hourly_rollup takes of a job row is the number of seconds of the
\* hour in which the job ran.
LEMMA SecondsRan ==
  ASSUME Resumed, NEW j \in JobRows
  PROVE  JobSeconds(j) = Cardinality(RanSeconds(j)) /\ JobSeconds(j) \in Nat
<1>0. /\ CurrStart \in Nat \ {0} /\ CurrEnd \in Nat /\ CurrStart < CurrEnd
      /\ j.start \in Nat /\ j.end \in Nat /\ j.susp \in Seq(Period)
  BY HourAssumption
<1> DEFINE n == Len(j.susp)
           from == JobFrom(j)
           till == Till(j)
           s(k) == j.susp[k]
<1>1. /\ n \in Nat /\ from \in Nat /\ till \in Nat /\ DOMAIN j.susp = 1..n
      /\ \A k \in 1..n : s(k) \in Period
  BY <1>0, JobTimes
<1>2. \A k \in 1..n : s(k).start \in Nat \ {0} /\ s(k).end \in Nat /\ s(k).start <= s(k).end
  BY <1>1 DEF Period, Resumed
<1>3. \A i, k \in 1..n : i < k => s(i).end <= s(k).start
  BY <1>1 DEF Resumed
<1>4. CASE ~Starts(j)
  <2>1. JobSeconds(j) = 0
    BY <1>4 DEF JobSeconds
  <2>2. \A t \in CurrStart..CurrEnd - 1 :
          ~(j.start # 0 /\ j.start <= t /\ (j.end = 0 \/ t < j.end))
    BY <1>0, <1>4 DEF Starts, JobFrom, Till, Later
  <2>3. RanSeconds(j) = {}
    BY <2>2 DEF RanSeconds
  <2> QED BY <2>1, <2>3, FS_EmptySet
<1>5. CASE Starts(j)
  <2>1. from # 0 /\ till - from >= 1 /\ JobSeconds(j) = till - from - SuspendedIn(j)
    BY <1>5 DEF Starts, JobSeconds
  <2>2. j.start # 0
    BY <1>0, <1>5 DEF Starts, JobFrom, Till
  <2>3. /\ CurrStart <= from /\ till <= CurrEnd
        /\ \A t \in Int : t \in from..till - 1 <=>
             t \in CurrStart..CurrEnd - 1 /\ j.start <= t /\ (j.end = 0 \/ t < j.end)
    BY <1>0, <2>2 DEF JobFrom, Till, Later
  <2>a. from \in Nat /\ till \in Nat
    BY <1>1
  <2> HIDE DEF from, till
  <2> DEFINE R(k) == {t \in from..till - 1 :
                        \A i \in 1..n : i <= k => ~(s(i).start <= t /\ t < s(i).end)}
             w == [k \in DOMAIN j.susp |-> TimeOff(j, j.susp[k])]
  <2>4. RanSeconds(j) = R(n)
    <3>1. \A t \in CurrStart..CurrEnd - 1 :
            (\A k \in DOMAIN j.susp : ~(j.susp[k].start <= t /\ t < j.susp[k].end))
              <=> (\A i \in 1..n : i <= n => ~(s(i).start <= t /\ t < s(i).end))
      BY <1>1
    <3>2. \A t : t \in CurrStart..CurrEnd - 1 => t \in Int
      BY <1>0
    <3>3. \A t : t \in from..till - 1 => t \in Int
      BY <1>1
    <3> HIDE DEF n, s
    <3> QED BY <2>2, <2>3, <3>1, <3>2, <3>3 DEF RanSeconds
  <2>5. SuspendedIn(j) = Total(w, n)
    BY DEF SuspendedIn
  <2>7. \A k \in 1..n : w[k] = TimeOff(j, s(k))
    BY <1>1
  <2> HIDE DEF w, n, s
  <2> DEFINE T == {k \in Nat : k <= n => /\ IsFiniteSet(R(k))
                                         /\ Total(w, k) \in Int
                                         /\ Cardinality(R(k)) = till - from - Total(w, k)}
  <2>8. 0 \in T
    <3>1. R(0) = from..till - 1
      BY <1>1
    <3>2. IsFiniteSet(from..till - 1) /\ Cardinality(from..till - 1) = till - from
      <4>1. till - 1 \in Int /\ ~(from > till - 1) /\ (till - 1) - from + 1 = till - from
        BY <2>1, <2>a
      <4> QED BY <2>a, <4>1, FS_Interval
    <3> HIDE DEF R
    <3> QED BY TotalStep, <2>a, <3>1, <3>2
  <2>9. ASSUME NEW k \in Nat, k \in T PROVE k + 1 \in T
    <3> SUFFICES ASSUME k + 1 <= n
                 PROVE  /\ IsFiniteSet(R(k + 1)) /\ Total(w, k + 1) \in Int
                        /\ Cardinality(R(k + 1)) = till - from - Total(w, k + 1)
      OBVIOUS
    <3>1. k + 1 \in 1..n /\ from \in Nat /\ till \in Nat
      BY <1>1 DEF from, till
    <3> DEFINE u  == s(k + 1)
               a  == Later(from, u.start)
               b  == Earlier(till, u.end)
    <3>2. u.start \in Nat /\ u.start # 0 /\ u.end \in Nat /\ u.start <= u.end
      BY <1>2, <3>1
    <3>3. IsFiniteSet(R(k)) /\ Total(w, k) \in Int /\ Cardinality(R(k)) = till - from - Total(w, k)
      BY <1>1, <2>9
    <3>4. \A i \in 1..n : i <= k => s(i).end <= u.start /\ s(i).end \in Nat
      BY <1>1, <1>2, <1>3, <3>1
    <3>5. a \in Int /\ b \in Int
      BY <3>1, <3>2 DEF Later, Earlier
    <3>6. \A t \in Int : t \in a..b - 1 <=> t \in from..till - 1 /\ u.start <= t /\ t < u.end
      BY <3>1, <3>2 DEF Later, Earlier
    <3>7. a..b - 1 \subseteq R(k)
      <4>1. ASSUME NEW t \in a..b - 1 PROVE t \in R(k)
        <5>1. t \in Int /\ t \in from..till - 1 /\ u.start <= t
          BY <3>5, <3>6
        <5>2. \A i \in 1..n : i <= k => ~(t < s(i).end)
          BY <3>2, <3>4, <5>1
        <5> QED BY <5>1, <5>2
      <4> QED BY <4>1
    <3>8. R(k + 1) = R(k) \ (a..b - 1)
      <4>1. \A i \in 1..n : i <= k + 1 <=> (i <= k \/ i = k + 1)
        BY <1>1
      <4>2. \A t \in from..till - 1 : t \in Int
        BY <3>1
      <4> HIDE DEF a, b
      <4>3. \A t \in from..till - 1 :
              (\A i \in 1..n : i <= k + 1 => ~(s(i).start <= t /\ t < s(i).end))
                <=> /\ \A i \in 1..n : i <= k => ~(s(i).start <= t /\ t < s(i).end)
                    /\ ~(u.start <= t /\ t < u.end)
        BY <3>1, <4>1
      <4> QED BY <3>6, <4>2, <4>3
    <3>9. TimeOff(j, u) = IF a > b - 1 THEN 0 ELSE (b - 1) - a + 1
      <4>1. TimeOff(j, u) = IF u.start = 0 \/ ~InHour(u) \/ b - a < 1 THEN 0 ELSE b - a
        BY DEF TimeOff, from, till
      <4>2. ~InHour(u) => b - a < 1
        BY <1>0, <2>3, <3>1, <3>2 DEF InHour, Later, Earlier
      <4> HIDE DEF a, b, u
      <4> QED BY <3>2, <3>5, <4>1, <4>2
    <3>10. Total(w, k + 1) = Total(w, k) + TimeOff(j, u)
      BY <2>7, <3>1, TotalStep
    <3> HIDE DEF R, a, b, u
    <3>11. /\ IsFiniteSet(R(k + 1))
           /\ Cardinality(R(k + 1)) = Cardinality(R(k)) - (IF a > b - 1 THEN 0 ELSE (b - 1) - a + 1)
      <4>1. b - 1 \in Int
        BY <3>5
      <4> DEFINE e == b - 1
      <4> HIDE DEF e
      <4>2. /\ IsFiniteSet(R(k) \ (a..e))
            /\ Cardinality(R(k) \ (a..e)) = Cardinality(R(k)) - (IF a > e THEN 0 ELSE e - a + 1)
        BY <3>3, <3>5, <3>7, <4>1, TakeOut DEF e
      <4> QED BY <3>8, <4>2 DEF e
    <3> QED BY <3>1, <3>3, <3>5, <3>9, <3>10, <3>11
  <2>10. T \subseteq Nat
    OBVIOUS
  <2> HIDE DEF T
  <2>11. n \in T
    BY <1>1, <2>8, <2>9, <2>10, NatBySets
  <2> HIDE DEF R
  <2>12. IsFiniteSet(R(n)) /\ Cardinality(R(n)) = till - from - Total(w, n)
    BY <1>1, <2>11 DEF T
  <2> QED BY <2>1, <2>4, <2>5, <2>12, FS_CardinalityType
<1> QED BY <1>4, <1>5

Entry == [id : Nat, cpu : Nat]

\* While the job rows are read, in the order of their associations, the entries
\* are in that order too and the last one is the one at hand.
ChargeInv ==
  /\ phase \in {"regs", "nodes", "resvs"} => assocs = <<>> /\ ran = <<>> /\ last_id = -1
  /\ phase = "jobs" =>
       /\ ran \in Seq(JobRows) /\ assocs \in Seq(Entry)
       /\ \A i, k \in 1..Len(assocs) : i < k => assocs[i].id < assocs[k].id
       /\ assocs = <<>> => last_id = -1
       /\ assocs # <<>> => /\ a_usage = Len(assocs) /\ last_id = assocs[Len(assocs)].id
                           /\ ran # <<>> /\ last_id <= ran[Len(ran)].assoc
       /\ \A id \in AssocIds : Charged(id) = Ran(id)

\* What is charged and what was run grow by the same.
LEMMA RanGrows ==
  ASSUME NEW j \in JobRows, ran \in Seq(JobRows), ran' = Append(ran, j), NEW id
  PROVE  Ran(id)' = Ran(id)
           + (IF j.assoc = id THEN Cardinality(RanSeconds(j)) * j.acpu ELSE 0)
<1> DEFINE n == Len(ran)
           v == [k \in DOMAIN ran |->
                   IF ran[k].assoc = id THEN Cardinality(RanSeconds(ran[k])) * ran[k].acpu ELSE 0]
           w == [k \in DOMAIN ran' |->
                   IF ran'[k].assoc = id THEN Cardinality(RanSeconds(ran'[k])) * ran'[k].acpu ELSE 0]
<1>1. /\ n \in Nat /\ DOMAIN ran = 1..n /\ DOMAIN ran' = 1..n + 1 /\ Len(ran') = n + 1
      /\ \A k \in 1..n : ran'[k] = ran[k]
      /\ ran'[n + 1] = j /\ n + 1 \in 1..n + 1
  OBVIOUS
<1>2. \A k \in 1..n : v[k] = w[k]
  BY <1>1
<1>3. w[n + 1] = IF j.assoc = id THEN Cardinality(RanSeconds(j)) * j.acpu ELSE 0
  BY <1>1
<1>4. Ran(id) = Total(v, n) /\ Ran(id)' = Total(w, n + 1)
  BY <1>1 DEF Ran, RanSeconds
<1>5. n \in Nat
  BY <1>1
<1> HIDE DEF v, w, n
<1>6. Total(w, n + 1) = Total(v, n) + w[n + 1]
  BY <1>2, <1>5, TotalLast
<1> QED BY <1>3, <1>4, <1>6

LEMMA NewEntry ==
  ASSUME assocs \in Seq(Entry), NEW e \in Entry, assocs' = Append(assocs, e), NEW id
  PROVE  Charged(id)' = Charged(id) + (IF e.id = id THEN e.cpu ELSE 0)
<1> DEFINE n == Len(assocs)
           v == [k \in DOMAIN assocs |-> IF assocs[k].id = id THEN assocs[k].cpu ELSE 0]
           w == [k \in DOMAIN assocs' |-> IF assocs'[k].id = id THEN assocs'[k].cpu ELSE 0]
<1>1. /\ n \in Nat /\ DOMAIN assocs = 1..n /\ DOMAIN assocs' = 1..n + 1 /\ Len(assocs') = n + 1
      /\ \A k \in 1..n : assocs'[k] = assocs[k]
      /\ assocs'[n + 1] = e /\ n + 1 \in 1..n + 1
  OBVIOUS
<1>2. \A k \in 1..n : v[k] = w[k]
  BY <1>1
<1>3. w[n + 1] = IF e.id = id THEN e.cpu ELSE 0
  BY <1>1
<1>4. Charged(id) = Total(v, n) /\ Charged(id)' = Total(w, n + 1)
  BY <1>1 DEF Charged
<1>5. n \in Nat
  BY <1>1
<1> HIDE DEF v, w, n
<1>6. Total(w, n + 1) = Total(v, n) + w[n + 1]
  BY <1>2, <1>5, TotalLast
<1> QED BY <1>3, <1>4, <1>6

LEMMA LastEntry ==
  ASSUME assocs \in Seq(Entry), assocs # <<>>, NEW x \in Nat,
         assocs' = [assocs EXCEPT ![Len(assocs)].cpu = @ + x], NEW id
  PROVE  Charged(id)' = Charged(id) + (IF assocs[Len(assocs)].id = id THEN x ELSE 0)
<1> DEFINE n == Len(assocs) - 1
           v == [k \in DOMAIN assocs |-> IF assocs[k].id = id THEN assocs[k].cpu ELSE 0]
           w == [k \in DOMAIN assocs' |-> IF assocs'[k].id = id THEN assocs'[k].cpu ELSE 0]
           e == assocs[Len(assocs)]
<1>1. /\ n \in Nat /\ Len(assocs) = n + 1 /\ DOMAIN assocs = 1..n + 1
      /\ \A k \in 1..n : k \in 1..n + 1 /\ k # n + 1
      /\ n + 1 \in 1..n + 1 /\ \A k \in 1..n + 1 : assocs[k] \in Entry
  OBVIOUS
<1>a. assocs' = [assocs EXCEPT ![n + 1] = [e EXCEPT !.cpu = @ + x]]
  BY <1>1
<1>b. e \in Entry
  BY <1>1
<1>2. /\ DOMAIN assocs' = 1..n + 1 /\ Len(assocs') = n + 1
      /\ \A k \in 1..n : assocs'[k] = assocs[k]
      /\ assocs'[n + 1].id = e.id /\ assocs'[n + 1].cpu = e.cpu + x
  BY <1>1, <1>a, <1>b DEF Entry
<1>3. \A k \in 1..n : v[k] = w[k]
  BY <1>1, <1>2
<1>4. /\ v[n + 1] = IF e.id = id THEN e.cpu ELSE 0
      /\ w[n + 1] = IF e.id = id THEN e.cpu + x ELSE 0
  BY <1>1, <1>2
<1>5. Charged(id) = Total(v, n + 1) /\ Charged(id)' = Total(w, n + 1)
  BY <1>1, <1>2 DEF Charged
<1>6. e.cpu \in Nat
  BY <1>b DEF Entry
<1>c. \A k \in 1..n : v[k] \in Nat
  BY <1>1 DEF Entry
<1> HIDE DEF v, w, n, e
<1>7. /\ Total(v, n + 1) = Total(v, n) + v[n + 1]
      /\ Total(w, n + 1) = Total(v, n) + w[n + 1]
      /\ Total(v, n) \in Nat
  BY <1>1, <1>3, <1>c, TotalStep, TotalLast, TotalNat
<1> QED BY <1>4, <1>5, <1>6, <1>7 DEF e

\* A job row: its association is the one at hand or comes after all the others.
LEMMA JobRowCharge ==
  ASSUME Resumed, ChargeInv, JobRow
  PROVE  ChargeInv'
<1> DEFINE n == Len(assocs)
<1>1. /\ phase = "jobs" /\ phase' = "jobs"
      /\ ran \in Seq(JobRows) /\ assocs \in Seq(Entry) /\ n \in Nat
      /\ \A i, k \in 1..n : i < k => assocs[i].id < assocs[k].id
      /\ \A k \in 1..n : assocs[k] \in Entry
  BY DEF JobRow, ChargeInv
<1>2. PICK j \in JobRows :
        /\ ran # <<>> => LET p == ran[Len(ran)] IN
             p.assoc < j.assoc \/ (p.assoc = j.assoc /\ p.eligible <= j.eligible)
        /\ ran' = Append(ran, j)
        /\ IF JobSeconds(j) >= 1 THEN ChargeAssoc(j.assoc, JobSeconds(j) * j.acpu)
                                 ELSE UNCHANGED <<assocs, a_usage, last_id>>
  BY DEF JobRow
<1> DEFINE secs == JobSeconds(j)
           x == secs * j.acpu
<1>3. secs \in Nat /\ secs = Cardinality(RanSeconds(j))
  BY SecondsRan
<1>4. j.assoc \in Nat /\ j.acpu \in Nat
  BY HourAssumption
<1>5. x \in Nat
  BY <1>3, <1>4, NatProduct
<1>6. /\ ran' \in Seq(JobRows) /\ ran' # <<>> /\ ran'[Len(ran')] = j
  BY <1>1, <1>2
<1>7. \A id : Ran(id)' = Ran(id) + (IF j.assoc = id THEN x ELSE 0)
  <2> TAKE id
  <2>1. Ran(id)' = Ran(id) + (IF j.assoc = id THEN Cardinality(RanSeconds(j)) * j.acpu ELSE 0)
    BY <1>1, <1>2, RanGrows
  <2> QED BY <1>3, <2>1
<1>8. /\ assocs = <<>> => last_id = -1
      /\ assocs # <<>> => /\ a_usage = n /\ last_id = assocs[n].id
                          /\ ran # <<>> /\ last_id <= ran[Len(ran)].assoc
      /\ \A id \in AssocIds : Charged(id) = Ran(id)
  BY <1>1 DEF ChargeInv
<1>9. assocs # <<>> => n \in 1..n /\ last_id \in Nat /\ last_id <= j.assoc
  <2> SUFFICES ASSUME assocs # <<>> PROVE n \in 1..n /\ last_id \in Nat /\ last_id <= j.assoc
    OBVIOUS
  <2>1. n \in 1..n
    BY <1>1
  <2>2. last_id \in Nat
    BY <1>1, <1>8, <2>1 DEF Entry
  <2>3. ran[Len(ran)] \in JobRows
    BY <1>1, <1>8
  <2>4. ran[Len(ran)].assoc \in Nat
    BY <2>3, HourAssumption
  <2> QED BY <1>2, <1>4, <1>8, <2>1, <2>2, <2>4
<1> SUFFICES /\ assocs' \in Seq(Entry)
             /\ assocs' # <<>> \/ (assocs' = assocs /\ last_id' = last_id)
             /\ \A i, k \in 1..Len(assocs') : i < k => assocs'[i].id < assocs'[k].id
             /\ assocs' # <<>> => /\ a_usage' = Len(assocs') /\ last_id' = assocs'[Len(assocs')].id
                                  /\ last_id' <= j.assoc
             /\ \A id : Charged(id)' = Charged(id) + (IF j.assoc = id THEN x ELSE 0)
  <2>1. ran'[Len(ran')].assoc = j.assoc
    BY <1>6
  <2>2. assocs' \in Seq(Entry)
    BY <1>1
  <2> HIDE DEF x, secs, n
  <2>3. \A id \in AssocIds : Charged(id)' = Ran(id)'
    BY <1>7, <1>8
  <2>4. AssocIds' = AssocIds
    BY DEF AssocIds
  <2> QED BY <1>1, <1>6, <1>8, <2>1, <2>2, <2>3, <2>4 DEF ChargeInv
<1> HIDE DEF secs, x
<1>10. CASE secs < 1
  <2>1. UNCHANGED <<assocs, a_usage, last_id>>
    BY <1>2, <1>3, <1>10 DEF secs
  <2>2. x = 0
    <3>1. secs = 0
      BY <1>3, <1>10
    <3> QED BY <1>4, <3>1 DEF x
  <2>3. \A id : Charged(id)' = Charged(id)
    BY <2>1 DEF Charged
  <2>4. \A id : Charged(id) \in Nat
    <3> TAKE id
    <3> DEFINE w == [k \in DOMAIN assocs |-> IF assocs[k].id = id THEN assocs[k].cpu ELSE 0]
    <3>1. \A k \in 1..n : w[k] \in Nat
      BY <1>1 DEF Entry
    <3> HIDE DEF w
    <3>2. Total(w, n) \in Nat
      BY <1>1, <3>1, TotalNat
    <3> QED BY <3>2 DEF Charged, w
  <2>5. \A id : Charged(id)' = Charged(id) + (IF j.assoc = id THEN x ELSE 0)
    BY <2>2, <2>3, <2>4
  <2> QED BY <1>1, <1>8, <1>9, <2>1, <2>5
<1>11. CASE secs >= 1 /\ last_id # j.assoc
  <2> DEFINE e == [id |-> j.assoc, cpu |-> x]
  <2>1. /\ assocs' = Append(assocs, e) /\ a_usage' = n + 1 /\ last_id' = j.assoc
    BY <1>2, <1>11 DEF ChargeAssoc, secs, x
  <2>2. e \in Entry /\ e.id = j.assoc /\ e.cpu = x
    BY <1>4, <1>5 DEF Entry
  <2> HIDE DEF e
  <2>3. /\ assocs' \in Seq(Entry) /\ assocs' # <<>> /\ Len(assocs') = n + 1
        /\ \A k \in 1..n : assocs'[k] = assocs[k]
        /\ assocs'[n + 1] = e
    BY <1>1, <2>1, <2>2
  <2>4. \A i \in 1..n : assocs[i].id < j.assoc
    <3> TAKE i \in 1..n
    <3>1. /\ assocs # <<>> /\ assocs[n] \in Entry /\ assocs[i] \in Entry
          /\ i = n \/ assocs[i].id < assocs[n].id
      BY <1>1
    <3>2. assocs[n].id < j.assoc /\ assocs[n].id \in Nat /\ assocs[i].id \in Nat
      BY <1>4, <1>8, <1>9, <1>11, <3>1 DEF Entry
    <3> QED BY <1>4, <3>1, <3>2
  <2>5. \A i, k \in 1..n + 1 : i < k => assocs'[i].id < assocs'[k].id
    <3> TAKE i, k \in 1..n + 1
    <3> SUFFICES ASSUME i < k PROVE assocs'[i].id < assocs'[k].id
      OBVIOUS
    <3>1. i \in 1..n /\ (k \in 1..n \/ k = n + 1)
      BY <1>1
    <3> QED BY <1>1, <2>2, <2>3, <2>4, <3>1
  <2>6. \A id : Charged(id)' = Charged(id) + (IF j.assoc = id THEN x ELSE 0)
    BY <1>1, <2>1, <2>2, NewEntry
  <2> QED BY <1>4, <2>1, <2>2, <2>3, <2>5, <2>6
<1>12. CASE secs >= 1 /\ last_id = j.assoc
  <2>1. assocs # <<>>
    BY <1>4, <1>8, <1>12
  <2>2. /\ assocs' = [assocs EXCEPT ![n].cpu = @ + x] /\ UNCHANGED <<a_usage, last_id>>
        /\ assocs[n].id = j.assoc
    BY <1>2, <1>8, <1>12, <2>1 DEF ChargeAssoc, secs, x
  <2>a. \A k \in 1..n : assocs[k].cpu \in Nat /\ assocs[k].id \in Nat
    BY <1>1 DEF Entry
  <2> DEFINE e == [assocs[n] EXCEPT !.cpu = @ + x]
  <2>3. e \in Entry /\ e.id = assocs[n].id
    <3>1. assocs[n] \in Entry
      BY <1>1, <1>9, <2>1
    <3>2. assocs[n].cpu + x \in Nat
      BY <1>5, <3>1 DEF Entry
    <3> QED BY <3>1, <3>2 DEF Entry
  <2>4. assocs' = [assocs EXCEPT ![n] = e]
    BY <2>2
  <2> HIDE DEF e
  <2>5. assocs' \in Seq(Entry) /\ assocs' # <<>> /\ Len(assocs') = n
    BY <1>1, <2>1, <2>3, <2>4
  <2>6. \A k \in 1..n : assocs'[k].id = assocs[k].id
    BY <1>1, <2>3, <2>4
  <2>7. \A id : Charged(id)' = Charged(id) + (IF j.assoc = id THEN x ELSE 0)
    BY <1>1, <1>5, <2>1, <2>2, LastEntry
  <2> QED BY <1>1, <1>8, <1>9, <2>1, <2>2, <2>5, <2>6, <2>7
<1> QED BY <1>3, <1>10, <1>11, <1>12

LEMMA ChargeInvInductive ==
  ASSUME Resumed
  PROVE  ChargeInv /\ [Next]_vars => ChargeInv'
<1> SUFFICES ASSUME ChargeInv, [Next]_vars PROVE ChargeInv'
  OBVIOUS
<1>1. CASE JobRow
  BY <1>1, JobRowCharge
<1>2. CASE UNCHANGED <<phase, assocs, ran, a_usage, last_id>>
  <2>1. \A id \in AssocIds : Charged(id)' = Charged(id) /\ Ran(id)' = Ran(id)
    BY <1>2 DEF Charged, Ran, RanSeconds
  <2> QED BY <1>2, <2>1 DEF ChargeInv, AssocIds
<1>3. CASE RegEvent \/ DownEvent \/ ResvRow \/ UNCHANGED vars
  BY <1>2, <1>3 DEF RegEvent, DownEvent, ResvRow, vars
<1>4. CASE EndRegs \/ EndNodes
  BY <1>4 DEF EndRegs, EndNodes, NextPhase, ChargeInv
<1>5. CASE EndResvs
  <2>1. /\ phase' = "jobs" /\ assocs' = <<>> /\ ran' = <<>> /\ last_id' = -1
    BY <1>5 DEF EndResvs, NextPhase, ChargeInv
  <2>2. \A id : Charged(id)' = 0 /\ Ran(id)' = 0
    <3>1. \A w : Total(w, 0) = 0
      BY TotalStep
    <3>2. Len(assocs') = 0 /\ Len(ran') = 0
      BY <2>1
    <3> QED BY <3>1, <3>2 DEF Charged, Ran
  <2>3. <<>> \in Seq(JobRows) /\ <<>> \in Seq(Entry) /\ Len(<<>>) = 0
    OBVIOUS
  <2>4. \A id \in AssocIds : Charged(id)' = Ran(id)'
    BY <2>2
  <2> QED BY <2>1, <2>3, <2>4 DEF ChargeInv, AssocIds
<1>6. CASE EndJobs \/ Settle
  BY <1>6 DEF EndJobs, Settle, NextPhase, ChargeInv
<1>7. CASE Divide
  BY <1>7 DEF Divide, ChargeInv
<1> QED BY <1>1, <1>3, <1>4, <1>5, <1>6, <1>7 DEF Next

\* Every association is charged, in one entry, the seconds of the hour in which
\* its jobs ran: the cuts to the hour, the seconds taken off for suspensions and
\* the search for the entry (mysql_hourly_rollup) are right for any job rows
\* whose suspensions are over.
THEOREM JobsChargedAlways ==
  ASSUME Resumed
  PROVE  Spec => []JobsCharged
<1>1. Init => ChargeInv
  BY DEF Init, ChargeInv
<1>2. ChargeInv /\ [Next]_vars => ChargeInv'
  BY ChargeInvInductive
<1>3. ChargeInv => JobsCharged
  <2> SUFFICES ASSUME ChargeInv, phase = "jobs", NEW id \in AssocIds
               PROVE  /\ Charged(id) = Ran(id)
                      /\ Cardinality({k \in DOMAIN assocs : assocs[k].id = id}) <= 1
    BY DEF JobsCharged
  <2>1. /\ Charged(id) = Ran(id) /\ assocs \in Seq(Entry)
        /\ \A i, k \in 1..Len(assocs) : i < k => assocs[i].id < assocs[k].id
    BY DEF ChargeInv
  <2> DEFINE S == {k \in DOMAIN assocs : assocs[k].id = id}
  <2>2. \A i, k \in S : i = k
    <3> SUFFICES ASSUME NEW i \in S, NEW k \in S, i < k PROVE FALSE
      BY <2>1
    <3>1. /\ i \in 1..Len(assocs) /\ k \in 1..Len(assocs)
          /\ assocs[i].id = id /\ assocs[k].id = id
      BY <2>1
    <3>2. assocs[i].id \in Nat
      <4>1. assocs[i] \in Entry
        BY <2>1, <3>1
      <4> QED BY <4>1 DEF Entry
    <3> QED BY <2>1, <3>1, <3>2
  <2>3. S = {} \/ \E i : S = {i}
    <3> HIDE DEF S
    <3> QED BY <2>2
  <2> HIDE DEF S
  <2>4. Cardinality(S) <= 1
    <3>1. CASE S = {}
      BY <3>1, FS_EmptySet
    <3>2. CASE \E i : S = {i}
      BY <3>2, FS_Singleton
    <3> QED BY <2>3, <3>1, <3>2
  <2> QED BY <2>1, <2>4 DEF S
<1> QED BY <1>1, <1>2, <1>3, PTL DEF Spec
=============================================================================
