----------------------------- MODULE MCHourUsage -----------------------------
(* Instances of HourUsage for TLC: the hour from 2 to 4, with rows that     *)
(* start and end before, at, in and after it.                              *)
EXTENDS HourUsage

MCRegs  == {[start |-> 1, end |-> 0, cpu |-> 2], [start |-> 1, end |-> 3, cpu |-> 1],
            [start |-> 3, end |-> 5, cpu |-> 2]}
MCDowns == {[start |-> 2, end |-> 3, cpu |-> 1], [start |-> 3, end |-> 0, cpu |-> 2]}
MCResvs == {[id |-> 1, start |-> 1, end |-> 4, cpu |-> 2, maint |-> FALSE, assocs |-> <<1, 2>>],
            [id |-> 1, start |-> 3, end |-> 5, cpu |-> 1, maint |-> TRUE, assocs |-> <<1>>]}

Job(a, elig, start, end, resv, susp) ==
  [assoc |-> a, eligible |-> elig, start |-> start, end |-> end, acpu |-> 2, rcpu |-> 1,
   resv |-> resv, susp |-> susp]

MCJobs ==
  {Job(1, 1, 1, 0, 0, <<>>),                               \* before, still running
   Job(1, 2, 3, 5, 1, <<>>),                               \* in a reservation
   Job(1, 1, 0, 0, 0, <<>>),                               \* pending
   Job(2, 1, 1, 4, 0, <<[start |-> 1, end |-> 3]>>),       \* resumed in the hour
   Job(2, 2, 2, 5, 1, <<[start |-> 3, end |-> 5]>>),       \* resumed after the hour
   Job(2, 1, 1, 5, 0, <<[start |-> 2, end |-> 4]>>),       \* suspended all the hour
   Job(2, 3, 0, 3, 0, <<>>),                               \* cancelled while pending
   Job(2, 2, 5, 0, 0, <<>>)}                               \* starts after the hour
=============================================================================
