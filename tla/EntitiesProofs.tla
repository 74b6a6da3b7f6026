--------------------------- MODULE EntitiesProofs ---------------------------
(***************************************************************************)
(* Theorems about Entities: what a controller saved can be read again,     *)
(* while no more than two disturbances of its saves count.                 *)
(***************************************************************************)
EXTENDS Entities, TLAPS

-----------------------------------------------------------------------------
(* One of the two saved files and the two beside it.                       *)

Sound(c) == c = <<>> \/ c[1].is # "cut"

\* What of a file that was saved once is there after n interruptions when the
\* last save has taken p steps.
Holds(x, p, n) ==
  \/ n = 0 /\ p # 4 /\ Readable(x.reg)
  \/ n = 0 /\ p = 4 /\ Readable(x.old)
  \/ n = 1 /\ p \in {0, 1, 5} /\ (Readable(x.reg) \/ Readable(x.old))
  \/ n = 1 /\ p \in {2, 3, 4} /\ Readable(x.new)
  \/ n = 2 /\ p = 0 /\ (Readable(x.reg) \/ Readable(x.old) \/ Readable(x.new))
  \/ n = 2 /\ p \in {1, 2} /\ (Readable(x.reg) \/ Readable(x.new))
  \/ n = 2 /\ p \in {3, 4} /\ (Readable(x.old) \/ Readable(x.new))
  \/ n = 2 /\ p = 5 /\ (Readable(x.reg) \/ Readable(x.old))

\* Only the last disturbance there is room for may be one that goes unnoticed, so
\* until then what a save wrote is whole and its links did not fail.
FileOK(x, p, n, saved) ==
  /\ x = [reg |-> x.reg, old |-> x.old, new |-> x.new]
  /\ Sound(x.reg) /\ Sound(x.old)
  /\ p \in 1..5 => Sound(x.new)
  /\ p = 2 => x.old = <<>>
  /\ p = 4 => x.reg = <<>>
  /\ n \in 0..1 /\ p \in 1..5 => Readable(x.new)
  /\ n \in 0..1 /\ p = 3 => x.old = x.reg
  /\ saved => Holds(x, p, n)

StatePhase == IF dump.step <= 5 THEN dump.step ELSE 0
UsagePhase == IF dump.step >= 6 THEN dump.step - 6 ELSE 0

\* A write of assoc_mgr_state that failed is counted before assoc_usage is left.
UsageCrashes == IF dump.ok THEN dump.crashes ELSE dump.crashes - 1

DumpType == [step : 0..11, ok : BOOLEAN, saved : BOOLEAN, crashes : 0..MaxCrashes]

SaveInv ==
  /\ dump \in DumpType
  /\ ~dump.ok => dump.step = 6 /\ dump.crashes > 0
  /\ DOMAIN disk = {"state", "usage"}
  /\ FileOK(disk["state"], StatePhase, dump.crashes, dump.saved)
  /\ FileOK(disk["usage"], UsagePhase, UsageCrashes, dump.saved)

-----------------------------------------------------------------------------
(* What a step does to a file.                                             *)

\* How the m-th step of a save goes when n were disturbed before it: undisturbed,
\* or with a signal or a failing link that counts w, twice.
Goes(m, n, c, linked, w) ==
  \/ w = 0 /\ linked /\ Readable(c) /\ Sound(c)
  \/ w = 2 /\ n = 0 /\ m = 1 /\ linked /\ Sound(c)
  \/ w = 2 /\ n = 0 /\ m \in {3, 5} /\ ~linked

LEMMA WholeIs == /\ Sound(<<>>) /\ ~Readable(<<>>)
                 /\ \A d : Readable(Whole(d)) /\ Sound(Whole(d))
BY DEF Readable, Sound, Whole

LEMMA MangledIs == ASSUME NEW f, NEW d, NEW c \in Mangled(f, d) PROVE Sound(c)
<1>1. PICK e : c = <<[is |-> "mangled", data |-> e]>>
  BY Zenon DEF Mangled
<1> QED BY <1>1 DEF Sound

\* A step of a save that is not stopped, p the steps before it.
LEMMA ShuffleOK ==
  ASSUME NEW x, NEW p \in 0..5, NEW n \in 0..2, NEW saved, FileOK(x, p, n, saved),
         NEW c, NEW linked \in BOOLEAN, NEW w \in {0, 2}, Goes(p + 1, n, c, linked, w),
         NEW y, y = Shuffle(x, p + 1, c, linked)
  PROVE  /\ FileOK(y, IF p = 5 THEN 0 ELSE p + 1, n + w, saved)
         /\ n + w \in 0..2
<1>1. n + w \in 0..2 /\ (n + w \in 0..1 => w = 0 /\ n + w = n)
  BY DEF Goes
<1>2. PICK k \in 0..2 : k = n + w
  BY <1>1
<1>3. x = [reg |-> x.reg, old |-> x.old, new |-> x.new]
  BY DEF FileOK
<1>4. k = n \/ (k = 2 /\ n = 0)
  BY <1>2 DEF Goes
<1>5. CASE p = 0
  <2>1. y = [reg |-> x.reg, old |-> x.old, new |-> c]
    BY <1>3, <1>5 DEF Shuffle
  <2>2. Sound(c) /\ (k \in 0..1 => Readable(c)) /\ (k = n => Readable(c) \/ n = 0)
    BY <1>2, <1>5 DEF Goes
  <2>3. k = n /\ n = 2 => Readable(c)
    BY <2>2
  <2>4. saved => Holds(y, 1, k)
    BY <1>4, <1>5, <2>1, <2>2, <2>3 DEF FileOK, Holds
  <2>5. FileOK(y, 1, k, saved)
    BY <1>5, <2>1, <2>2, <2>4 DEF FileOK
  <2> QED BY <1>1, <1>2, <1>5, <2>5
<1>6. CASE p = 1
  <2>1. y = [reg |-> x.reg, old |-> <<>>, new |-> x.new]
    BY <1>3, <1>6 DEF Shuffle
  <2>2. k = n
    BY <1>2, <1>6 DEF Goes
  <2>3. FileOK(y, 2, k, saved)
    BY <1>6, <2>1, <2>2, WholeIs DEF FileOK, Holds
  <2> QED BY <1>1, <1>2, <1>6, <2>3
<1>7. CASE p = 2
  <2>1. y = [reg |-> x.reg, old |-> IF linked THEN x.reg ELSE <<>>, new |-> x.new]
    BY <1>3, <1>7 DEF Shuffle, FileOK
  <2>2. k \in 0..1 => linked /\ k = n
    BY <1>2, <1>7 DEF Goes
  <2>3. k = 2 => (n = 2 /\ linked) \/ n = 0
    BY <1>2, <1>7 DEF Goes
  <2>4. saved => Holds(y, 3, k)
    BY <1>4, <1>7, <2>1, <2>2, <2>3 DEF FileOK, Holds
  <2>5. FileOK(y, 3, k, saved)
    BY <1>7, <2>1, <2>2, <2>4, WholeIs DEF FileOK
  <2> QED BY <1>1, <1>2, <1>7, <2>5
<1>8. CASE p = 3
  <2>1. y = [reg |-> <<>>, old |-> x.old, new |-> x.new]
    BY <1>3, <1>8 DEF Shuffle
  <2>2. k = n
    BY <1>2, <1>8 DEF Goes
  <2>3. FileOK(y, 4, k, saved)
    BY <1>8, <2>1, <2>2, WholeIs DEF FileOK, Holds
  <2> QED BY <1>1, <1>2, <1>8, <2>3
<1>9. CASE p = 4
  <2>1. y = [reg |-> IF linked THEN x.new ELSE <<>>, old |-> x.old, new |-> x.new]
    BY <1>3, <1>9 DEF Shuffle, FileOK
  <2>2. k \in 0..1 => linked /\ k = n
    BY <1>2, <1>9 DEF Goes
  <2>3. k = 2 => (n = 2 /\ linked) \/ n = 0
    BY <1>2, <1>9 DEF Goes
  <2>4. saved => Holds(y, 5, k)
    BY <1>4, <1>9, <2>1, <2>2, <2>3 DEF FileOK, Holds
  <2>5. FileOK(y, 5, k, saved)
    BY <1>9, <2>1, <2>2, <2>4, WholeIs DEF FileOK
  <2> QED BY <1>1, <1>2, <1>9, <2>5
<1>10. CASE p = 5
  <2>1. y = [reg |-> x.reg, old |-> x.old, new |-> <<>>]
    BY <1>3, <1>10 DEF Shuffle
  <2>2. k = n
    BY <1>2, <1>10 DEF Goes
  <2>3. FileOK(y, 0, k, saved)
    BY <1>10, <2>1, <2>2 DEF FileOK, Holds
  <2> QED BY <1>1, <1>2, <1>10, <2>3
<1> QED BY <1>5, <1>6, <1>7, <1>8, <1>9, <1>10

\* The file that is not being saved, when a step of the other goes that way.
LEMMA OtherOK ==
  ASSUME NEW x, NEW n \in 0..2, NEW saved, FileOK(x, 0, n, saved),
         NEW w \in {0, 2}, w = 2 => n = 0
  PROVE  FileOK(x, 0, n + w, saved)
<1>1. CASE w = 0
  BY <1>1
<1>2. CASE w = 2
  <2>1. n = 0 /\ n + w = 2
    BY <1>2
  <2>2. FileOK(x, 0, 2, saved)
    BY <2>1 DEF FileOK, Holds
  <2> QED BY <2>1, <2>2
<1> QED BY <1>1, <1>2

\* A save stops, perhaps with what was being written cut or gone.
LEMMA StopOK ==
  ASSUME NEW x, NEW p \in 0..5, NEW n \in 0..1, NEW saved, FileOK(x, p, n, saved)
  PROVE  FileOK(x, 0, n + 1, saved)
BY WholeIs DEF FileOK, Holds

\* A save that leaves the file whole counts whatever was interrupted before.
LEMMA DoneOK ==
  ASSUME NEW x, NEW n \in 0..2, NEW saved, FileOK(x, 0, n, saved),
         NEW done, done => saved \/ Readable(x.reg)
  PROVE  FileOK(x, 0, n, done)
<1>1. Readable(x.reg) => Holds(x, 0, n)
  BY DEF Holds
<1>2. done => Holds(x, 0, n)
  BY <1>1, Zenon DEF FileOK
<1> QED BY <1>2, Zenon DEF FileOK

LEMMA LostOK ==
  ASSUME NEW x, NEW n \in 0..1, NEW saved, FileOK(x, 0, n, saved), NEW c,
         NEW y, y = [x EXCEPT !.new = c]
  PROVE  FileOK(y, 0, n + 1, saved)
<1>1. y = [reg |-> x.reg, old |-> x.old, new |-> c]
  BY DEF FileOK
<1> QED BY <1>1 DEF FileOK, Holds

-----------------------------------------------------------------------------
(* A save *)

\* What SaveInv says of the values dump and disk have.
LEMMA SaveTypes ==
  ASSUME SaveInv, MaxCrashes \in 0..2
  PROVE  /\ dump = [step |-> dump.step, ok |-> dump.ok, saved |-> dump.saved,
                    crashes |-> dump.crashes]
         /\ dump.step \in 0..11 /\ dump.ok \in BOOLEAN /\ dump.saved \in BOOLEAN
         /\ dump.crashes \in 0..MaxCrashes /\ dump.crashes \in 0..2
         /\ ~dump.ok => dump.step = 6 /\ dump.crashes > 0
         /\ DOMAIN disk = {"state", "usage"}
  BY DEF SaveInv, DumpType

\* A step that was written, with what SaveStep makes of dump.
Written(n, f, m, c, linked, w) ==
  /\ disk' = [disk EXCEPT ![f] = Shuffle(disk[f], m, c, linked)]
  /\ dump' = [dump EXCEPT !.step = IF n = 12 THEN 0 ELSE n, !.crashes = dump.crashes + w,
                !.saved = dump.saved \/ (n = 12 /\ \A g \in {"state", "usage"} :
                                                      Readable(disk'[g].reg))]

\* One that was not, or that unlinks the second file after the first was not.
NotWritten(n, f, e) ==
  /\ disk' = [disk EXCEPT ![f] = [disk[f] EXCEPT !.new = <<>>]]
  /\ dump' = [dump EXCEPT !.step = IF n = 1 THEN 6 ELSE 0, !.ok = n # 1,
                          !.crashes = dump.crashes + e]

\* The things SaveStep may do.
LEMMA SaveStepIs ==
  ASSUME SaveInv, MaxCrashes \in 0..2, SaveStep,
         NEW n, n = dump.step + 1,
         NEW f, f = IF n <= 6 THEN "state" ELSE "usage",
         NEW m, m = IF n <= 6 THEN n ELSE n - 6
  PROVE  \/ /\ dump.ok
            /\ \E c, linked, w :
                 /\ linked \in BOOLEAN /\ w \in {0, 2} /\ dump.crashes + w <= MaxCrashes
                 /\ Goes(m, dump.crashes, c, linked, w) /\ Written(n, f, m, c, linked, w)
         \/ \E e \in 0..1 : /\ dump.crashes + e <= MaxCrashes
                            /\ n \in {1, 7} /\ (e = 0 => ~dump.ok) /\ NotWritten(n, f, e)
<1>1. PICK data : data = IF f = "state" THEN Packed(mgr.k) ELSE PackedUsage(mgr.k)
  OBVIOUS
<1>2. PICK how \in Outcomes(m) :
        /\ dump.crashes + Weight(how) <= MaxCrashes
        /\ IF dump.ok /\ how # "failed"
           THEN /\ \E c \in IF how = "mangled" THEN Mangled(f, data) ELSE {Whole(data)} :
                     disk' = [disk EXCEPT ![f] = Shuffle(disk[f], m, c, how # "unlinked")]
                /\ dump' = [dump EXCEPT !.step = IF n = 12 THEN 0 ELSE n,
                              !.crashes = dump.crashes + Weight(how),
                              !.saved = dump.saved \/ (n = 12 /\ \A g \in {"state", "usage"} :
                                                                    Readable(disk'[g].reg))]
           ELSE NotWritten(n, f, Weight(how))
  BY <1>1, Zenon DEF SaveStep, NotWritten
<1>3. PICK w : w = Weight(how)
  OBVIOUS
<1>4. /\ how \in {"done", "failed", "mangled", "unlinked"}
      /\ how \in {"failed", "mangled"} => m = 1
      /\ how = "unlinked" => m \in {3, 5}
  BY DEF Outcomes
<1>5. /\ how = "done" => w = 0
      /\ how = "failed" => w = 1
      /\ how \in {"mangled", "unlinked"} => w = 2
  BY <1>3 DEF Weight
<1>6. /\ dump.crashes \in 0..2 /\ dump.crashes \in 0..MaxCrashes /\ dump.crashes + w <= MaxCrashes
      /\ n \in 1..12 /\ dump.ok \in BOOLEAN /\ (~dump.ok => n = 7 /\ dump.crashes > 0)
  BY <1>2, <1>3, SaveTypes
<1>7. CASE dump.ok /\ how # "failed"
  <2>1. PICK linked \in BOOLEAN : linked = (how # "unlinked")
    OBVIOUS
  <2>2. PICK c \in IF how = "mangled" THEN Mangled(f, data) ELSE {Whole(data)} :
           disk' = [disk EXCEPT ![f] = Shuffle(disk[f], m, c, linked)]
    BY <1>2, <1>7, <2>1, Zenon
  <2>3. Written(n, f, m, c, linked, w)
    BY <1>2, <1>3, <1>7, <2>2, Zenon DEF Written
  <2>4. Sound(c) /\ (how # "mangled" => Readable(c))
    BY <2>2, WholeIs, MangledIs, Zenon
  <2>5. w \in {0, 2} /\ (w = 2 => dump.crashes = 0)
    BY <1>4, <1>5, <1>6, <1>7
  <2>6. Goes(m, dump.crashes, c, linked, w)
    <3>1. CASE how = "done"
      BY <1>5, <2>1, <2>4, <3>1 DEF Goes
    <3>2. CASE how = "mangled"
      BY <1>4, <1>5, <2>1, <2>4, <2>5, <3>2 DEF Goes
    <3>3. CASE how = "unlinked"
      BY <1>4, <1>5, <2>1, <2>5, <3>3 DEF Goes
    <3> QED BY <1>4, <1>7, <3>1, <3>2, <3>3
  <2> QED BY <1>6, <1>7, <2>3, <2>5, <2>6, Zenon
<1>8. CASE ~(dump.ok /\ how # "failed")
  <2>1. NotWritten(n, f, w)
    BY <1>2, <1>3, <1>8, Zenon
  <2>2. CASE how = "failed"
    <3>1. w = 1 /\ n \in {1, 7}
      BY <1>4, <1>5, <1>6, <2>2
    <3> QED BY <1>6, <2>1, <3>1
  <2>3. CASE how # "failed"
    <3>1. ~dump.ok /\ n = 7 /\ m = 1 /\ w # 2
      BY <1>6, <1>8, <2>3
    <3>2. w = 0
      BY <1>4, <1>5, <2>3, <3>1
    <3> QED BY <1>6, <2>1, <3>1, <3>2
  <2> QED BY <2>2, <2>3
<1> QED BY <1>7, <1>8

\* What SaveInv says of the two files.
LEMMA SaveFiles ==
  ASSUME SaveInv
  PROVE  /\ FileOK(disk["state"], StatePhase, dump.crashes, dump.saved)
         /\ FileOK(disk["usage"], UsagePhase, UsageCrashes, dump.saved)
  BY DEF SaveInv

\* SaveInv of the next state, from what is known of its parts.
LEMMA SaveInvFrom ==
  ASSUME dump' \in DumpType,
         ~dump'.ok => dump'.step = 6 /\ dump'.crashes > 0,
         DOMAIN disk' = {"state", "usage"},
         NEW sp, sp = (IF dump'.step <= 5 THEN dump'.step ELSE 0),
         FileOK(disk'["state"], sp, dump'.crashes, dump'.saved),
         NEW up, up = (IF dump'.step >= 6 THEN dump'.step - 6 ELSE 0),
         NEW uc, uc = (IF dump'.ok THEN dump'.crashes ELSE dump'.crashes - 1),
         FileOK(disk'["usage"], up, uc, dump'.saved)
  PROVE  SaveInv'
<1>1. StatePhase' = sp /\ UsagePhase' = up /\ UsageCrashes' = uc
  BY DEF StatePhase, UsagePhase, UsageCrashes
<1>2. FileOK(disk'["state"], StatePhase', dump'.crashes, dump'.saved)
  BY <1>1
<1>3. FileOK(disk'["usage"], UsagePhase', UsageCrashes', dump'.saved)
  BY <1>1
<1> QED BY <1>2, <1>3, Zenon DEF SaveInv

\* A step that was written: the file it is about goes from one phase to the next.
LEMMA WrittenKeeps ==
  ASSUME SaveInv, MaxCrashes \in 0..2, dump.ok,
         NEW n, n = dump.step + 1,
         NEW f, f = IF n <= 6 THEN "state" ELSE "usage",
         NEW m, m = IF n <= 6 THEN n ELSE n - 6,
         NEW c, NEW linked \in BOOLEAN, NEW w \in {0, 2}, dump.crashes + w <= MaxCrashes,
         Goes(m, dump.crashes, c, linked, w), Written(n, f, m, c, linked, w)
  PROVE  SaveInv'
<1>1. /\ n \in 1..12 /\ dump.saved \in BOOLEAN /\ dump.crashes \in 0..MaxCrashes
      /\ dump.crashes \in 0..2 /\ DOMAIN disk = {"state", "usage"}
      /\ w = 2 => dump.crashes = 0
  BY SaveTypes DEF Goes
<1>2. PICK both \in BOOLEAN : both = \A g \in {"state", "usage"} : Readable(disk'[g].reg)
  OBVIOUS
<1>3. PICK k : k = dump.crashes + w
  OBVIOUS
<1>4. k \in 0..MaxCrashes /\ k \in 0..2
  BY <1>1, <1>3
<1>5. /\ dump'.step = (IF n = 12 THEN 0 ELSE n) /\ dump'.ok
      /\ dump'.saved = (dump.saved \/ (n = 12 /\ both))
      /\ dump'.crashes = k
      /\ dump' \in DumpType
  <2>1. dump \in DumpType
    BY DEF SaveInv
  <2>2. (dump.saved \/ (n = 12 /\ both)) \in BOOLEAN /\ (IF n = 12 THEN 0 ELSE n) \in 0..11
    BY <1>1
  <2>3. dump' = [dump EXCEPT !.step = IF n = 12 THEN 0 ELSE n, !.crashes = k,
                             !.saved = dump.saved \/ (n = 12 /\ both)]
    BY <1>2, <1>3, Zenon DEF Written
  <2> QED BY <1>4, <2>1, <2>2, <2>3, Zenon DEF DumpType
<1>6. dump'.crashes = (IF dump'.ok THEN dump'.crashes ELSE dump'.crashes - 1)
  BY <1>5
<1>7. CASE n <= 6
  <2>1. /\ DOMAIN disk' = {"state", "usage"} /\ disk'["usage"] = disk["usage"]
        /\ disk'["state"] = Shuffle(disk["state"], n, c, linked)
    BY <1>1, <1>7 DEF Written
  <2>2. PICK p \in 0..5 : p = n - 1
    BY <1>1, <1>7
  <2>3. dump.step = p /\ n = p + 1 /\ m = p + 1
    BY <1>1, <1>7, <2>2, SaveTypes
  <2>4. StatePhase = p /\ UsagePhase = 0 /\ UsageCrashes = dump.crashes
    BY <2>3 DEF StatePhase, UsagePhase, UsageCrashes
  <2>5. /\ FileOK(disk["state"], p, dump.crashes, dump.saved)
        /\ FileOK(disk["usage"], 0, dump.crashes, dump.saved)
    BY SaveFiles, <2>4
  <2>6. PICK q : q = IF p = 5 THEN 0 ELSE p + 1
    OBVIOUS
  <2>7. FileOK(disk'["state"], q, k, dump.saved)
    <3>1. /\ Goes(p + 1, dump.crashes, c, linked, w)
          /\ disk'["state"] = Shuffle(disk["state"], p + 1, c, linked)
      BY <2>1, <2>3
    <3>2. FileOK(disk'["state"], IF p = 5 THEN 0 ELSE p + 1, dump.crashes + w, dump.saved)
      <4>1. PICK x : x = disk["state"]
        OBVIOUS
      <4>2. PICK y : y = disk'["state"]
        OBVIOUS
      <4>3. PICK o \in 0..2 : o = dump.crashes
        BY <1>1
      <4>4. FileOK(x, p, o, dump.saved) /\ Goes(p + 1, o, c, linked, w) /\ y = Shuffle(x, p + 1, c, linked)
        BY <2>5, <3>1, <4>1, <4>2, <4>3
      <4>5. FileOK(y, IF p = 5 THEN 0 ELSE p + 1, o + w, dump.saved)
        BY ONLY <4>4, ShuffleOK, Zenon
      <4> QED BY <4>2, <4>3, <4>5
    <3> QED BY <1>3, <2>6, <3>2, Zenon
  <2>8. FileOK(disk'["usage"], 0, k, dump.saved)
    BY <1>1, <1>3, <2>1, <2>5, OtherOK
  <2>9. /\ q = (IF dump'.step <= 5 THEN dump'.step ELSE 0)
        /\ 0 = (IF dump'.step >= 6 THEN dump'.step - 6 ELSE 0)
        /\ dump'.saved = dump.saved
    BY <1>1, <1>5, <2>3, <2>6
  <2>10. /\ FileOK(disk'["state"], q, dump'.crashes, dump'.saved)
         /\ FileOK(disk'["usage"], 0, dump'.crashes, dump'.saved)
    BY <1>5, <2>7, <2>8, <2>9
  <2> QED BY <1>5, <1>6, <2>1, <2>9, <2>10, SaveInvFrom
<1>8. CASE n > 6
  <2>1. /\ DOMAIN disk' = {"state", "usage"} /\ disk'["state"] = disk["state"]
        /\ disk'["usage"] = Shuffle(disk["usage"], n - 6, c, linked)
    BY <1>1, <1>8 DEF Written
  <2>2. PICK p \in 0..5 : p = n - 7
    BY <1>1, <1>8
  <2>3. dump.step = p + 6 /\ n = p + 7 /\ n - 6 = p + 1 /\ m = p + 1
    BY <1>1, <1>8, <2>2, SaveTypes
  <2>4. StatePhase = 0 /\ UsagePhase = p /\ UsageCrashes = dump.crashes
    BY <2>3 DEF StatePhase, UsagePhase, UsageCrashes
  <2>5. /\ FileOK(disk["state"], 0, dump.crashes, dump.saved)
        /\ FileOK(disk["usage"], p, dump.crashes, dump.saved)
    BY SaveFiles, <2>4
  <2>6. PICK q : q = IF p = 5 THEN 0 ELSE p + 1
    OBVIOUS
  <2>7. FileOK(disk'["usage"], q, k, dump.saved)
    <3>1. /\ Goes(p + 1, dump.crashes, c, linked, w)
          /\ disk'["usage"] = Shuffle(disk["usage"], p + 1, c, linked)
      BY <2>1, <2>3
    <3>2. FileOK(disk'["usage"], IF p = 5 THEN 0 ELSE p + 1, dump.crashes + w, dump.saved)
      <4>1. PICK x : x = disk["usage"]
        OBVIOUS
      <4>2. PICK y : y = disk'["usage"]
        OBVIOUS
      <4>3. PICK o \in 0..2 : o = dump.crashes
        BY <1>1
      <4>4. FileOK(x, p, o, dump.saved) /\ Goes(p + 1, o, c, linked, w) /\ y = Shuffle(x, p + 1, c, linked)
        BY <2>5, <3>1, <4>1, <4>2, <4>3
      <4>5. FileOK(y, IF p = 5 THEN 0 ELSE p + 1, o + w, dump.saved)
        BY ONLY <4>4, ShuffleOK, Zenon
      <4> QED BY <4>2, <4>3, <4>5
    <3> QED BY <1>3, <2>6, <3>2, Zenon
  <2>8. FileOK(disk'["state"], 0, k, dump.saved)
    BY <1>1, <1>3, <2>1, <2>5, OtherOK
  <2>9. /\ 0 = (IF dump'.step <= 5 THEN dump'.step ELSE 0)
        /\ q = (IF dump'.step >= 6 THEN dump'.step - 6 ELSE 0)
        /\ dump'.crashes \in 0..2
    BY <1>4, <1>5, <2>3, <2>6
  <2>10. /\ FileOK(disk'["state"], 0, dump'.crashes, dump.saved)
         /\ FileOK(disk'["usage"], q, dump'.crashes, dump.saved)
    BY <1>5, <2>7, <2>8
  <2>11. CASE n # 12
    <3>1. dump'.saved = dump.saved
      BY <1>1, <1>5, <2>11
    <3> QED BY <1>5, <1>6, <2>1, <2>9, <2>10, <3>1, SaveInvFrom
  <2>12. CASE n = 12
    <3>1. q = 0
      BY <2>3, <2>6, <2>12
    <3>2. dump'.saved => dump.saved \/ (Readable(disk'["state"].reg) /\ Readable(disk'["usage"].reg))
      BY <1>2, <1>5, Zenon
    <3>3. FileOK(disk'["state"], 0, dump'.crashes, dump'.saved)
      BY <2>9, <2>10, <3>2, DoneOK
    <3>4. FileOK(disk'["usage"], q, dump'.crashes, dump'.saved)
      BY <2>9, <2>10, <3>1, <3>2, DoneOK
    <3> QED BY <1>5, <1>6, <2>1, <2>9, <3>3, <3>4, SaveInvFrom
  <2> QED BY <2>11, <2>12
<1> QED BY <1>1, <1>7, <1>8

\* A step that was not written, or the second file when the first was not: what
\* was beside the file is gone.
LEMMA FailedKeeps ==
  ASSUME SaveInv, MaxCrashes \in 0..2,
         NEW n, n = dump.step + 1,
         NEW e \in 0..1, dump.crashes + e <= MaxCrashes, n \in {1, 7}, e = 0 => ~dump.ok,
         NEW f, f = IF n <= 6 THEN "state" ELSE "usage", NotWritten(n, f, e)
  PROVE  SaveInv'
<1>1. /\ n \in 1..12 /\ dump.crashes \in 0..MaxCrashes
      /\ dump.crashes \in 0..2 /\ DOMAIN disk = {"state", "usage"}
      /\ ~dump.ok => n = 7 /\ dump.crashes > 0
      /\ n \in {1, 7}
  BY SaveTypes
<1>2. /\ dump'.step = (IF n = 1 THEN 6 ELSE 0) /\ (n # 1 => dump'.ok) /\ (n = 1 => ~dump'.ok)
      /\ dump'.saved = dump.saved
      /\ dump'.crashes = dump.crashes + e
      /\ dump' \in DumpType
  <2>1. dump \in DumpType
    BY DEF SaveInv
  <2>2. /\ (n # 1) \in BOOLEAN /\ (IF n = 1 THEN 6 ELSE 0) \in 0..11
        /\ dump.crashes + e \in 0..MaxCrashes
    BY <1>1
  <2>3. dump' = [dump EXCEPT !.step = IF n = 1 THEN 6 ELSE 0, !.ok = n # 1,
                             !.crashes = dump.crashes + e]
    BY Zenon DEF NotWritten
  <2> QED BY <1>1, <2>1, <2>2, <2>3, Zenon DEF DumpType
<1>3. CASE n = 1
  <2>1. /\ dump.step = 0 /\ dump.ok /\ e = 1 /\ dump.crashes \in 0..1
    BY <1>1, <1>3, SaveTypes
  <2>2. /\ DOMAIN disk' = {"state", "usage"} /\ disk'["usage"] = disk["usage"]
        /\ disk'["state"] = [disk["state"] EXCEPT !.new = <<>>]
    BY <1>1, <1>3 DEF NotWritten
  <2>3. StatePhase = 0 /\ UsagePhase = 0 /\ UsageCrashes = dump.crashes
    BY <2>1 DEF StatePhase, UsagePhase, UsageCrashes
  <2>4. /\ FileOK(disk["state"], 0, dump.crashes, dump.saved)
        /\ FileOK(disk["usage"], 0, dump.crashes, dump.saved)
    BY SaveFiles, <2>3
  <2>5. dump'.step = 6 /\ ~dump'.ok /\ dump'.crashes = dump.crashes + 1 /\ dump'.saved = dump.saved
    BY <1>2, <1>3, <2>1
  <2>6. FileOK(disk'["state"], 0, dump.crashes + 1, dump.saved)
    BY <2>1, <2>2, <2>4, LostOK
  <2>7. /\ 0 = (IF dump'.step <= 5 THEN dump'.step ELSE 0)
        /\ 0 = (IF dump'.step >= 6 THEN dump'.step - 6 ELSE 0)
        /\ dump.crashes = (IF dump'.ok THEN dump'.crashes ELSE dump'.crashes - 1)
        /\ dump'.crashes > 0
    BY <2>1, <2>5
  <2> QED BY <1>2, <2>2, <2>4, <2>5, <2>6, <2>7, SaveInvFrom
<1>4. CASE n = 7
  <2>1. /\ DOMAIN disk' = {"state", "usage"} /\ disk'["state"] = disk["state"]
        /\ disk'["usage"] = [disk["usage"] EXCEPT !.new = <<>>]
    BY <1>1, <1>4 DEF NotWritten
  <2>2. dump'.step = 0 /\ dump'.ok /\ dump'.saved = dump.saved
    BY <1>2, <1>4
  <2>3. StatePhase = 0 /\ UsagePhase = 0
    BY <1>1, <1>4, SaveTypes DEF StatePhase, UsagePhase
  <2>4. /\ FileOK(disk["state"], 0, dump.crashes, dump.saved)
        /\ FileOK(disk["usage"], 0, UsageCrashes, dump.saved)
    BY SaveFiles, <2>3
  <2>5. dump'.crashes = dump.crashes + e
    BY <1>2
  <2>6. FileOK(disk'["state"], 0, dump'.crashes, dump.saved)
    <3>1. CASE e = 0
      BY <2>1, <2>4, <2>5, <3>1, <1>1
    <3>2. CASE e = 1
      <4>1. dump.crashes \in 0..1 /\ dump'.crashes = dump.crashes + 1 /\ 0 \in 0..5
        BY <1>1, <2>5, <3>2
      <4>2. FileOK(disk["state"], 0, dump.crashes + 1, dump.saved)
        BY <2>4, <4>1, StopOK
      <4> QED BY <2>1, <4>1, <4>2
    <3> QED BY <3>1, <3>2
  <2>7. FileOK(disk'["usage"], 0, dump'.crashes, dump.saved)
    <3>1. UsageCrashes \in 0..1
      BY <1>1 DEF UsageCrashes
    <3>2. FileOK(disk'["usage"], 0, UsageCrashes + 1, dump.saved)
      <4>1. PICK c : c = UsageCrashes
        OBVIOUS
      <4>2. c \in 0..1 /\ FileOK(disk["usage"], 0, c, dump.saved)
        BY <2>4, <3>1, <4>1
      <4>3. FileOK(disk'["usage"], 0, c + 1, dump.saved)
        BY ONLY <2>1, <4>2, LostOK, Zenon
      <4> QED BY <4>1, <4>3
    <3>3. CASE dump'.crashes = UsageCrashes + 1
      BY <3>2, <3>3
    <3>4. CASE dump'.crashes # UsageCrashes + 1
      <4>1. UsageCrashes + 1 \in 0..1 /\ dump'.crashes = (UsageCrashes + 1) + 1 /\ 0 \in 0..5
        <5>1. ~dump.ok => UsageCrashes = dump.crashes - 1
          BY DEF UsageCrashes
        <5>2. dump.ok => UsageCrashes = dump.crashes
          BY DEF UsageCrashes
        <5>3. ~dump.ok
          <6>1. SUFFICES ASSUME dump.ok PROVE FALSE
            OBVIOUS
          <6> QED BY <1>1, <2>5, <3>4, <5>2, <6>1
        <5>4. e = 1
          <6>1. SUFFICES ASSUME e = 0 PROVE FALSE
            OBVIOUS
          <6> QED BY <1>1, <2>5, <3>4, <5>1, <5>3, <6>1
        <5>5. dump.crashes < MaxCrashes
          BY <1>1, <5>4, SaveTypes
        <5>6. dump.crashes = 1
          BY <1>1, <5>3, <5>5
        <5>7. dump'.crashes = 2
          BY <2>5, <5>4, <5>6
        <5>8. UsageCrashes = 0
          BY <5>1, <5>3, <5>6
        <5> QED BY <5>7, <5>8
      <4>2. FileOK(disk'["usage"], 0, (UsageCrashes + 1) + 1, dump.saved)
        BY <3>2, <4>1, StopOK
      <4> QED BY <4>1, <4>2
    <3> QED BY <3>3, <3>4
  <2>8. /\ 0 = (IF dump'.step <= 5 THEN dump'.step ELSE 0)
        /\ 0 = (IF dump'.step >= 6 THEN dump'.step - 6 ELSE 0)
        /\ dump'.crashes = (IF dump'.ok THEN dump'.crashes ELSE dump'.crashes - 1)
        /\ ~(dump'.step >= 6)
    BY <2>2
  <2> QED BY <1>2, <2>1, <2>2, <2>6, <2>7, <2>8, SaveInvFrom
<1> QED BY <1>1, <1>3, <1>4

LEMMA SaveStepKeeps == ASSUME SaveInv, MaxCrashes \in 0..2, SaveStep PROVE SaveInv'
<1>1. PICK n : n = dump.step + 1
  OBVIOUS
<1>2. PICK f : f = IF n <= 6 THEN "state" ELSE "usage"
  OBVIOUS
<1>3. PICK m : m = IF n <= 6 THEN n ELSE n - 6
  OBVIOUS
<1>4. CASE dump.ok /\ \E c, linked, w :
             /\ linked \in BOOLEAN /\ w \in {0, 2} /\ dump.crashes + w <= MaxCrashes
             /\ Goes(m, dump.crashes, c, linked, w) /\ Written(n, f, m, c, linked, w)
  BY <1>1, <1>2, <1>3, <1>4, WrittenKeeps
<1>5. CASE \E e \in 0..1 : /\ dump.crashes + e <= MaxCrashes
                          /\ n \in {1, 7} /\ (e = 0 => ~dump.ok) /\ NotWritten(n, f, e)
  BY <1>1, <1>2, <1>5, FailedKeeps
<1> QED BY <1>1, <1>2, <1>3, <1>4, <1>5, SaveStepIs

-----------------------------------------------------------------------------
(* A stop, and the steps that leave the files alone *)

\* A stop in a save, or one that leaves a file cut, is counted.
LEMMA StopKeeps ==
  ASSUME SaveInv, MaxCrashes \in 0..2, dump.crashes < MaxCrashes,
         DOMAIN disk' = {"state", "usage"},
         dump' = [dump EXCEPT !.step = 0, !.ok = TRUE, !.crashes = dump.crashes + 1],
         FileOK(disk'["state"], 0, dump.crashes + 1, dump.saved),
         FileOK(disk'["usage"], 0, dump.crashes + 1, dump.saved)
  PROVE  SaveInv'
<1>1. dump.crashes + 1 \in 0..MaxCrashes
  BY SaveTypes
<1>2. /\ dump'.step = 0 /\ dump'.ok /\ dump'.saved = dump.saved /\ dump'.crashes = dump.crashes + 1
      /\ dump' \in DumpType
  <2>1. dump \in DumpType
    BY DEF SaveInv
  <2>2. 0 \in 0..11 /\ TRUE \in BOOLEAN
    OBVIOUS
  <2> QED BY <1>1, <2>1, <2>2, Zenon DEF DumpType
<1>3. /\ 0 = (IF dump'.step <= 5 THEN dump'.step ELSE 0)
      /\ 0 = (IF dump'.step >= 6 THEN dump'.step - 6 ELSE 0)
      /\ dump'.crashes = (IF dump'.ok THEN dump'.crashes ELSE dump'.crashes - 1)
  BY <1>2
<1>4. FileOK(disk'["state"], 0, dump'.crashes, dump'.saved)
  BY <1>2, Zenon
<1>5. FileOK(disk'["usage"], 0, dump'.crashes, dump'.saved)
  BY <1>2, Zenon
<1> QED BY <1>2, <1>3, <1>4, <1>5, SaveInvFrom

LEMMA CrashKeeps == ASSUME SaveInv, MaxCrashes \in 0..2, Crash PROVE SaveInv'
<1>1. PICK cut \in BOOLEAN :
        /\ cut => dump.step = 0 \/ (dump.step = 6 /\ dump.ok)
        /\ disk' = IF cut
                   THEN [disk EXCEPT ![IF dump.step = 0 THEN "state" ELSE "usage"] =
                           [disk[IF dump.step = 0 THEN "state" ELSE "usage"] EXCEPT !.new = Cut]]
                   ELSE disk
        /\ cut \/ dump.step # 0 => dump.crashes < MaxCrashes
        /\ dump' = [dump EXCEPT !.step = 0, !.ok = TRUE,
                       !.crashes = dump.crashes + (IF cut \/ dump.step # 0 THEN 1 ELSE 0)]
  BY Zenon DEF Crash
<1>2. /\ dump.step \in 0..11 /\ dump.crashes \in 0..2 /\ DOMAIN disk = {"state", "usage"}
      /\ ~dump.ok => dump.step = 6 /\ dump.crashes > 0
  BY SaveTypes
<1>3. CASE ~cut /\ dump.step = 0
  <2>1. disk' = disk
    BY <1>1, <1>3
  <2>2. dump.ok /\ dump.ok \in BOOLEAN
    BY <1>2, <1>3, SaveTypes
  <2>3. dump' = [dump EXCEPT !.step = 0, !.ok = TRUE, !.crashes = dump.crashes + 0]
    BY <1>1, <1>3, Zenon
  <2>4. dump.crashes + 0 = dump.crashes
    BY <1>2
  <2>5. /\ dump'.step = 0 /\ dump'.ok /\ dump'.saved = dump.saved /\ dump'.crashes = dump.crashes
        /\ dump' \in DumpType
    <3>1. dump \in DumpType
      BY DEF SaveInv
    <3>2. 0 \in 0..11 /\ TRUE \in BOOLEAN
      OBVIOUS
    <3> QED BY <2>3, <2>4, <3>1, <3>2, Zenon DEF DumpType
  <2>6. StatePhase = 0 /\ UsagePhase = 0 /\ UsageCrashes = dump.crashes
    BY <1>3, <2>2 DEF StatePhase, UsagePhase, UsageCrashes
  <2>7. /\ FileOK(disk'["state"], 0, dump'.crashes, dump'.saved)
        /\ FileOK(disk'["usage"], 0, dump.crashes, dump'.saved)
    BY SaveFiles, <2>1, <2>5, <2>6
  <2>8. /\ 0 = (IF dump'.step <= 5 THEN dump'.step ELSE 0)
        /\ 0 = (IF dump'.step >= 6 THEN dump'.step - 6 ELSE 0)
        /\ dump.crashes = (IF dump'.ok THEN dump'.crashes ELSE dump'.crashes - 1)
      BY <2>5
  <2> QED BY <1>2, <2>1, <2>5, <2>7, <2>8, SaveInvFrom
<1>4. CASE cut \/ dump.step # 0
  <2>0. dump' = [dump EXCEPT !.step = 0, !.ok = TRUE, !.crashes = dump.crashes + 1]
    BY <1>1, <1>4, Zenon
  <2>1. /\ dump.crashes < MaxCrashes /\ dump.crashes \in 0..1
        /\ dump' = [dump EXCEPT !.step = 0, !.ok = TRUE, !.crashes = dump.crashes + 1]
    BY <1>1, <1>2, <1>4, <2>0
  <2>2. StatePhase \in 0..5 /\ UsagePhase \in 0..5 /\ UsageCrashes \in 0..1
    BY <1>2, <2>1 DEF StatePhase, UsagePhase, UsageCrashes
  <2>3. FileOK(disk["state"], 0, dump.crashes + 1, dump.saved)
    BY SaveFiles, <2>1, <2>2, StopOK
  <2>4. FileOK(disk["usage"], 0, dump.crashes + 1, dump.saved)
    <3>1. FileOK(disk["usage"], 0, UsageCrashes + 1, dump.saved)
      BY SaveFiles, <2>2, StopOK
    <3>2. CASE dump.ok
      BY <3>1, <3>2 DEF UsageCrashes
    <3>3. CASE ~dump.ok
      <4>1. UsageCrashes + 1 \in 0..1 /\ (UsageCrashes + 1) + 1 = dump.crashes + 1 /\ 0 \in 0..5
        BY <1>2, <2>1, <3>3 DEF UsageCrashes
      <4> QED BY <3>1, <4>1, StopOK
    <3> QED BY <3>2, <3>3
  <2>5. CASE ~cut
    <3>1. disk' = disk
      BY <1>1, <2>5
    <3> QED BY <1>2, <2>1, <2>3, <2>4, <3>1, StopKeeps
  <2>6. CASE cut /\ dump.step = 0
    <3>1. /\ DOMAIN disk' = {"state", "usage"} /\ disk'["usage"] = disk["usage"]
          /\ disk'["state"] = [disk["state"] EXCEPT !.new = Cut]
      BY <1>1, <1>2, <2>6
    <3>2. StatePhase = 0
      BY <2>6 DEF StatePhase
    <3>3. FileOK(disk["state"], 0, dump.crashes, dump.saved)
      BY SaveFiles, <3>2
    <3>4. FileOK(disk'["state"], 0, dump.crashes + 1, dump.saved)
      BY <2>1, <3>1, <3>3, LostOK
    <3> QED BY <2>1, <2>4, <3>1, <3>4, StopKeeps
  <2>7. CASE cut /\ dump.step # 0
    <3>1. /\ DOMAIN disk' = {"state", "usage"} /\ disk'["state"] = disk["state"]
          /\ disk'["usage"] = [disk["usage"] EXCEPT !.new = Cut]
      BY <1>1, <1>2, <2>7
    <3>2. UsagePhase = 0 /\ UsageCrashes = dump.crashes
      BY <1>1, <2>7 DEF UsagePhase, UsageCrashes
    <3>3. FileOK(disk["usage"], 0, dump.crashes, dump.saved)
      BY SaveFiles, <3>2
    <3>4. FileOK(disk'["usage"], 0, dump.crashes + 1, dump.saved)
      BY <2>1, <3>1, <3>3, LostOK
    <3> QED BY <2>1, <2>3, <3>1, <3>4, StopKeeps
  <2> QED BY <1>4, <2>5, <2>6, <2>7
<1> QED BY <1>3, <1>4

\* The files and the save are left as they are.
FilesKept == UNCHANGED <<disk, dump>>

LEMMA CallKeepsFiles == ASSUME NEW kind, NEW s, Call(kind, s) PROVE FilesKept
BY Zenon DEF Call, FilesKept

LEMMA CallsKeepFiles == ASSUME Calls PROVE FilesKept
<1>1. CASE DoAddUsers
  BY <1>1, CallKeepsFiles, ZenonT(60) DEF DoAddUsers
<1>2. CASE DoModifyUsers
  BY <1>2, CallKeepsFiles, Zenon DEF DoModifyUsers
<1>3. CASE DoRemoveUsers
  BY <1>3, CallKeepsFiles, Zenon DEF DoRemoveUsers
<1>4. CASE DoAddAccts
  BY <1>4, CallKeepsFiles, Zenon DEF DoAddAccts
<1>5. CASE DoModifyAccts
  BY <1>5, CallKeepsFiles, Zenon DEF DoModifyAccts
<1>6. CASE DoRemoveAccts
  BY <1>6, CallKeepsFiles, Zenon DEF DoRemoveAccts
<1>7. CASE DoAddCoord
  BY <1>7, CallKeepsFiles, Zenon DEF DoAddCoord
<1>8. CASE DoRemoveCoord
  BY <1>8, CallKeepsFiles, Zenon DEF DoRemoveCoord
<1>9. CASE DoAddWckeys
  BY <1>9, CallKeepsFiles, Zenon DEF DoAddWckeys
<1>10. CASE DoRemoveWckeys
  BY <1>10, CallKeepsFiles, Zenon DEF DoRemoveWckeys
<1>11. CASE DoAddQos
  BY <1>11, CallKeepsFiles, Zenon DEF DoAddQos
<1>12. CASE DoModifyQos
  BY <1>12, CallKeepsFiles, Zenon DEF DoModifyQos
<1>13. CASE DoRemoveQos
  BY <1>13, CallKeepsFiles, Zenon DEF DoRemoveQos
<1>14. CASE DoAddClusters
  BY <1>14, CallKeepsFiles, Zenon DEF DoAddClusters
<1>15. CASE DoModifyClusters
  BY <1>15, CallKeepsFiles, Zenon DEF DoModifyClusters
<1>16. CASE DoRemoveClusters
  BY <1>16, CallKeepsFiles, Zenon DEF DoRemoveClusters
<1>17. CASE DoModifyShares
  BY <1>17, CallKeepsFiles, Zenon DEF DoModifyShares
<1> QED BY <1>1, <1>2, <1>3, <1>4, <1>5, <1>6, <1>7, <1>8, <1>9, <1>10, <1>11, <1>12, <1>13, <1>14, <1>15, <1>16, <1>17, Zenon DEF Calls

LEMMA FilesKeptKeeps == ASSUME SaveInv, FilesKept PROVE SaveInv'
BY Zenon DEF FilesKept, SaveInv, StatePhase, UsagePhase, UsageCrashes

LEMMA SaveInit == ASSUME Init, MaxCrashes \in 0..2 PROVE SaveInv
<1>1. /\ disk = [f \in {"state", "usage"} |-> [reg |-> <<>>, old |-> <<>>, new |-> <<>>]]
      /\ dump = [step |-> 0, ok |-> TRUE, saved |-> FALSE, crashes |-> 0]
  BY Zenon DEF Init
<1>2. /\ dump.step = 0 /\ dump.ok /\ dump.crashes = 0 /\ ~dump.saved
      /\ dump \in DumpType
  BY <1>1 DEF DumpType
<1>3. StatePhase = 0 /\ UsagePhase = 0 /\ UsageCrashes = 0
  BY <1>2 DEF StatePhase, UsagePhase, UsageCrashes
<1>4. /\ DOMAIN disk = {"state", "usage"}
      /\ disk["state"] = [reg |-> <<>>, old |-> <<>>, new |-> <<>>]
      /\ disk["usage"] = [reg |-> <<>>, old |-> <<>>, new |-> <<>>]
  BY <1>1
<1>5. FileOK(disk["state"], 0, 0, dump.saved) /\ FileOK(disk["usage"], 0, 0, dump.saved)
  BY <1>2, <1>4, WholeIs DEF FileOK
<1> QED BY <1>2, <1>3, <1>4, <1>5 DEF SaveInv

LEMMA SaveNext == ASSUME SaveInv, MaxCrashes \in 0..2, [Next]_vars PROVE SaveInv'
<1>1. CASE Calls
  BY <1>1, CallsKeepFiles, FilesKeptKeeps
<1>2. CASE Commit
  <2>1. FilesKept
    BY <1>2, Zenon DEF Commit, FilesKept, Same
  <2> QED BY <2>1, FilesKeptKeeps
<1>3. CASE Rollback
  <2>1. FilesKept
    BY <1>3, Zenon DEF Rollback, FilesKept, Same
  <2> QED BY <2>1, FilesKeptKeeps
<1>4. CASE Day
  <2>1. FilesKept
    BY <1>4, Zenon DEF Day, FilesKept, Same
  <2> QED BY <2>1, FilesKeptKeeps
<1>5. CASE JobRuns
  <2>1. FilesKept
    BY <1>5, Zenon DEF JobRuns, FilesKept, Same
  <2> QED BY <2>1, FilesKeptKeeps
<1>6. CASE Reconfigure
  <2>1. FilesKept
    BY <1>6, Zenon DEF Reconfigure, FilesKept, Same
  <2> QED BY <2>1, FilesKeptKeeps
<1>7. CASE Boot
  <2>1. FilesKept
    BY <1>7, Zenon DEF Boot, FilesKept, Same
  <2> QED BY <2>1, FilesKeptKeeps
<1>8. CASE Refresh
  <2>1. FilesKept
    BY <1>8, Zenon DEF Refresh, FilesKept, Same
  <2> QED BY <2>1, FilesKeptKeeps
<1>9. CASE Ask
  <2>1. FilesKept
    BY <1>9, Zenon DEF Ask, FilesKept, Same
  <2> QED BY <2>1, FilesKeptKeeps
<1>10. CASE SaveStep
  BY <1>10, SaveStepKeeps
<1>11. CASE Crash
  BY <1>11, CrashKeeps
<1>12. CASE UNCHANGED vars
  <2>1. FilesKept
    BY <1>12, Zenon DEF vars, FilesKept
  <2> QED BY <2>1, FilesKeptKeeps
<1> QED BY <1>1, <1>2, <1>3, <1>4, <1>5, <1>6, <1>7, <1>8, <1>9, <1>10, <1>11, <1>12, Zenon DEF Next

LEMMA SaveInvIsEnough == ASSUME SaveInv, MaxCrashes \in 0..2 PROVE StateKept
<1> SUFFICES ASSUME NEW f \in {"state", "usage"}
             PROVE  /\ Sound(disk[f].reg) /\ Sound(disk[f].old)
                    /\ dump.saved => \/ Readable(disk[f].reg) \/ Readable(disk[f].old)
                                     \/ Readable(disk[f].new)
  BY Zenon DEF StateKept, Sound
<1>1. CASE f = "state"
  BY <1>1, SaveFiles DEF FileOK, Holds
<1>2. CASE f = "usage"
  BY <1>2, SaveFiles DEF FileOK, Holds
<1> QED BY <1>1, <1>2

-----------------------------------------------------------------------------
\* What the controller once saved it can read again: assoc_mgr_state and
\* assoc_usage are never cut, nor are the .old files beside them, and one of the
\* three of each is whole, whatever commits, jobs, restarts and refreshes happen,
\* when dump_assoc_mgr_state stops or a write of it fails twice, at any step, or
\* when once a link fails or a write is interrupted by a signal.
\* One more can undo it: a stop after reg is unlinked leaves .old and .new, one in
\* the next save after .old is unlinked leaves .new, and a third cuts .new; a link
\* to .old that fails and a stop after reg is unlinked leave .new alone, and so do
\* a link to reg that fails and the next save up to its second step.
THEOREM StateKeptAlways == ASSUME MaxCrashes \in 0..2 PROVE Spec => []StateKept
<1>1. Init => SaveInv
  BY SaveInit
<1>2. SaveInv /\ [Next]_vars => SaveInv'
  BY SaveNext
<1>3. SaveInv => StateKept
  BY SaveInvIsEnough
<1> QED BY <1>1, <1>2, <1>3, PTL DEF Spec

=============================================================================
