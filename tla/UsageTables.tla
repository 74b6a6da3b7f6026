----------------------------- MODULE UsageTables -----------------------------
(***************************************************************************)
(* The three levels of the usage tables and what a report reads of them:   *)
(* acct_storage_p_roll_usage rolls hours from the job rows, days from the  *)
(* hours and months from the days, and acct_storage_p_get_usage picks the  *)
(* table by the window asked for.  Time is counted in hours.  What happens *)
(* within an hour, and when calls and rolls overlap, is in Rollup; here    *)
(* they take turns.  The wckey and cluster tables are rolled and read by   *)
(* the same statements.  A value of 0 is a table without a row.            *)
(***************************************************************************)
EXTENDS Integers, SeqOps

CONSTANTS
  Account,     \* an account's association
  Users,       \* the associations of its users, which have the jobs
  Amounts,     \* seconds of an hour that an association may have used
  DayHours,    \* 24
  MonthDays,   \* days of a month
  Months,      \* the clock stops after so many months
  MaxRecords,  \* changes of the job rows
  MaxRolls,    \* calls of acct_storage_p_roll_usage
  RollTimes,   \* times that a roll may be given
  Trouble      \* "manual": a roll of given times; "restart" of SlurmDBD; "fail": of a query

VARIABLES
  now,
  used,       \* what the job rows say of each association and hour
  hours, days, months,  \* alloc_cpu_secs of assoc_hour_table, assoc_day_table, assoc_month_table
  marks,      \* last_ran_table: hourly_rollup, daily_rollup, monthly_rollup
  global_last_rollup,
  roll,       \* the roll: its level, the periods it has left, the times it began with
  records, rolls,
  failed,     \* history: a roll has failed and none has been completed since
  mishaps     \* history: "manual", "restart", "fail" when a record was late after a failure

vars == <<now, used, hours, days, months, marks, global_last_rollup, roll, records, rolls,
          failed, mishaps>>

Assocs == Users \cup {Account}

\* The associations whose lft is within an association's lft and rgt.
Below(a) == IF a = Account THEN Assocs ELSE {a}

DayCount  == Months * MonthDays
HourCount == DayCount * DayHours

\* tm_hour = 0, and tm_mday = 1 besides.
Midnight(t) == (t \div DayHours) * DayHours
FirstOf(t)  == (t \div (DayHours * MonthDays)) * (DayHours * MonthDays)

tm_hour(t) == t % DayHours
tm_mday(t) == ((t \div DayHours) % MonthDays) + 1

NotGiven == -1
Idle == [level |-> "idle", at |-> 0, till |-> 0, last |-> [hour |-> 0, day |-> 0, month |-> 0],
         my_time |-> 0, sent |-> FALSE]

Init ==
  /\ now = 0
  /\ used = [a \in Assocs |-> [h \in 0..HourCount-1 |-> 0]]
  /\ hours = used
  /\ days = [a \in Assocs |-> [d \in 0..DayCount-1 |-> 0]]
  /\ months = [a \in Assocs |-> [m \in 0..Months-1 |-> 0]]
  /\ marks = [hour |-> 0, day |-> 0, month |-> 0] /\ global_last_rollup = 0
  /\ roll = Idle /\ records = 0 /\ rolls = 0 /\ failed = FALSE /\ mishaps = {}

Mishap(e) == e \in Trouble /\ mishaps' = mishaps \cup {e}

-----------------------------------------------------------------------------
\* select SUM(...) where period_start < till and period_start >= from, over a
\* table with n periods of len hours.
SumIn(row, n, len, from, till) ==
  Total([k \in 1..n |-> IF from <= (k-1) * len /\ (k-1) * len < till THEN row[k-1] ELSE 0], n)

Tick ==
  /\ now < HourCount - 1 /\ now' = now + 1
  /\ UNCHANGED <<used, hours, days, months, marks, global_last_rollup, roll, records, rolls, failed,
                 mishaps>>

\* Mutant: the roll-up of the days is not reset.
ResetMarks_HourOnly(t) == [marks EXCEPT !.hour = t]

\* A job call about an hour: update last_ran_table set hourly_rollup=...,
\* daily_rollup=..., monthly_rollup=...
ResetMarks(t) == [hour |-> t, day |-> t, month |-> t]

\* A job call that changes what an association used in the hour h, of which
\* SlurmDBD may only now be told.
JobCall(a, h, amount) ==
  /\ roll = Idle /\ records < MaxRecords /\ h <= now /\ used[a][h] # amount
  /\ records' = records + 1
  /\ used' = [used EXCEPT ![a][h] = amount]
  /\ IF h < global_last_rollup
       THEN global_last_rollup' = h /\ marks' = ResetMarks(h)
       ELSE UNCHANGED <<global_last_rollup, marks>>
  /\ mishaps' = mishaps \cup (IF failed /\ h < global_last_rollup THEN {"fail"} ELSE {})
  /\ UNCHANGED <<now, hours, days, months, roll, rolls, failed>>

-----------------------------------------------------------------------------
(* acct_storage_p_roll_usage(sent_start, sent_end).                        *)

RollBegin(sent_start, sent_end) ==
  /\ roll = Idle /\ rolls < MaxRolls
  /\ rolls' = rolls + 1
  /\ LET last == IF sent_start = NotGiven THEN marks ELSE ResetMarks(sent_start)
         my_time == IF sent_end = NotGiven THEN now ELSE sent_end
     IN  /\ global_last_rollup' = my_time
         /\ roll' = [level |-> "hour", at |-> last.hour, till |-> my_time, last |-> last,
                     my_time |-> my_time, sent |-> sent_end # NotGiven]
  /\ UNCHANGED <<now, used, hours, days, months, marks, records, failed>>

RollUsage == RollBegin(NotGiven, NotGiven) /\ UNCHANGED mishaps

RollManually ==
  /\ Mishap("manual")
  /\ \E s, e \in {NotGiven} \cup (RollTimes \cap 0..now) : (s # NotGiven \/ e # NotGiven) /\ RollBegin(s, e)

Working(level) == roll.level = level /\ roll.at < roll.till

RolledHour(row, amount, h) == IF amount = 0 THEN row ELSE [row EXCEPT ![h] = amount]

\* One turn of mysql_hourly_rollup: an upsert for the associations with time in it.
RollHour ==
  /\ Working("hour")
  /\ hours' = [a \in Assocs |-> RolledHour(hours[a], used[a][roll.at], roll.at)]
  /\ roll' = [roll EXCEPT !.at = @ + 1]
  /\ UNCHANGED <<now, used, days, months, marks, global_last_rollup, records, rolls, failed, mishaps>>

\* One turn of mysql_daily_rollup.
RollDay ==
  /\ Working("day")
  /\ days' = [a \in Assocs |-> [days[a] EXCEPT ![roll.at \div DayHours] =
                SumIn(hours[a], HourCount, 1, roll.at, roll.at + DayHours)]]
  /\ roll' = [roll EXCEPT !.at = @ + DayHours]
  /\ UNCHANGED <<now, used, hours, months, marks, global_last_rollup, records, rolls, failed, mishaps>>

\* One turn of mysql_monthly_rollup.
RollMonth ==
  /\ Working("month")
  /\ LET len == DayHours * MonthDays IN
     /\ months' = [a \in Assocs |-> [months[a] EXCEPT ![roll.at \div len] =
                     SumIn(days[a], DayCount, DayHours, roll.at, roll.at + len)]]
     /\ roll' = [roll EXCEPT !.at = @ + len]
  /\ UNCHANGED <<now, used, hours, days, marks, global_last_rollup, records, rolls, failed, mishaps>>

\* Mutant: the days begin with the one after the last roll.
NextLevel_DayNotAgain ==
  /\ roll.level \in {"hour", "day"} /\ roll.at >= roll.till
  /\ roll' = IF roll.level = "hour"
             THEN [roll EXCEPT !.level = "day", !.at = Midnight(roll.last.day + DayHours - 1),
                               !.till = Midnight(roll.my_time)]
             ELSE [roll EXCEPT !.level = "month", !.at = FirstOf(roll.last.month),
                               !.till = FirstOf(roll.my_time)]
  /\ UNCHANGED <<now, used, hours, days, months, marks, global_last_rollup, records, rolls, failed,
                 mishaps>>

\* From the hours to the days, and from the days to the months.
NextLevel ==
  /\ roll.level \in {"hour", "day"} /\ roll.at >= roll.till
  /\ roll' = IF roll.level = "hour"
             THEN [roll EXCEPT !.level = "day", !.at = Midnight(roll.last.day),
                               !.till = Midnight(roll.my_time)]
             ELSE [roll EXCEPT !.level = "month", !.at = FirstOf(roll.last.month),
                               !.till = FirstOf(roll.my_time)]
  /\ UNCHANGED <<now, used, hours, days, months, marks, global_last_rollup, records, rolls, failed,
                 mishaps>>

\* update last_ran_table: the marks of the levels that had something to roll,
\* and none when the end was given.
RollDone ==
  /\ roll.level = "month" /\ roll.at >= roll.till
  /\ LET t == roll.my_time
         hour == IF t > roll.last.hour THEN t ELSE marks.hour
         day == IF Midnight(t) > Midnight(roll.last.day) THEN Midnight(t) ELSE marks.day
         month == IF FirstOf(t) > FirstOf(roll.last.month) THEN FirstOf(t) ELSE marks.month
     IN  marks' = IF roll.sent THEN marks ELSE [hour |-> hour, day |-> day, month |-> month]
  /\ roll' = Idle /\ failed' = FALSE
  /\ UNCHANGED <<now, used, hours, days, months, global_last_rollup, records, rolls, mishaps>>

\* A query fails: return before last_ran_table is updated.
RollFail ==
  /\ "fail" \in Trouble /\ \E l \in {"hour", "day", "month"} : Working(l)
  /\ roll' = Idle /\ failed' = TRUE
  /\ UNCHANGED <<now, used, hours, days, months, marks, global_last_rollup, records, rolls, mishaps>>

Restart ==
  /\ Mishap("restart") /\ roll = Idle /\ global_last_rollup # 0
  /\ global_last_rollup' = 0
  /\ UNCHANGED <<now, used, hours, days, months, marks, roll, records, rolls, failed>>

Next ==
  \/ Tick \/ (\E a \in Users, h \in 0..now, s \in Amounts : JobCall(a, h, s))
  \/ RollUsage \/ RollManually \/ RollHour \/ RollDay \/ RollMonth \/ NextLevel \/ RollDone \/ RollFail
  \/ Restart

Spec == Init /\ [][Next]_vars

-----------------------------------------------------------------------------
(* Reports.                                                                *)

\* _set_usage_information: by default yesterday, an hour at least.
Start(start) == IF start = NotGiven THEN Midnight(now) - DayHours ELSE start
End(start, end) ==
  LET e == IF end = NotGiven THEN Midnight(now) ELSE end
  IN  IF e - Start(start) < 1 THEN Start(start) + 1 ELSE e

\* Mutant: the end is not looked at.
UsageTable_AnyEnd(s, e) ==
  IF tm_hour(s) # 0 \/ e - s < DayHours \/ e > now THEN "hour"
  ELSE IF tm_mday(s) = 0 /\ tm_mday(e) = 0 /\ e - s > DayHours THEN "month" ELSE "day"

UsageTable(s, e) ==
  IF tm_hour(s) # 0 \/ tm_hour(e) # 0 \/ e - s < DayHours \/ e > now THEN "hour"
  ELSE IF tm_mday(s) = 0 /\ tm_mday(e) = 0 /\ e - s > DayHours THEN "month" ELSE "day"

Read(table, a, s, e) ==
  CASE table = "hour"  -> SumIn(hours[a], HourCount, 1, s, e)
    [] table = "day"   -> SumIn(days[a], DayCount, DayHours, s, e)
    [] table = "month" -> SumIn(months[a], Months, DayHours * MonthDays, s, e)

\* acct_storage_p_get_usage: what is reported under an association, by the
\* associations below it.
GetUsage(a, start, end) ==
  LET s == Start(start)
      e == End(start, end)
  IN  [b \in Below(a) |-> Read(UsageTable(s, e), b, s, e)]

\* The roll-up has come to the end of the window.
Reached(table, e) ==
  CASE table = "hour"  -> e <= marks.hour
    [] table = "day"   -> e <= Midnight(marks.day)
    [] table = "month" -> e <= FirstOf(marks.month)

-----------------------------------------------------------------------------
(* Properties.                                                             *)

\* An hour that is rolled has what the job rows say of it; one that says nothing
\* any more keeps its row.
HoursRolled ==
  \A a \in Assocs : \A h \in 0..HourCount-1 :
    h < marks.hour => used[a][h] \in {0, hours[a][h]}

\* A month has what its days have, once it is rolled.
MonthsRolled ==
  \A a \in Assocs : \A m \in 0..Months-1 :
    LET from == m * DayHours * MonthDays
        till == from + DayHours * MonthDays
    IN  till <= FirstOf(marks.month) => months[a][m] = SumIn(hours[a], HourCount, 1, from, till)

\* A report of any window that the roll-up has reached, read from whichever
\* table, adds up to the hours of the window.
WindowsReported ==
  \A a \in Assocs : \A s, e \in {NotGiven} \cup 0..HourCount :
    LET from == Start(s)
        till == End(s, e)
    IN  Reached(UsageTable(from, till), till) =>
          \A b \in Below(a) : GetUsage(a, s, e)[b] = SumIn(hours[b], HourCount, 1, from, till)

\* What a report says an association used is what its job rows say, whatever
\* window is asked for, however late the job calls came, and whichever roll
\* failed in between: the hours, days and months agree wherever the marks of the
\* roll-up say that they are rolled.
ReportsAddUp == roll = Idle /\ mishaps = {} => HoursRolled /\ MonthsRolled /\ WindowsReported
=============================================================================
