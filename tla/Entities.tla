------------------------------ MODULE Entities ------------------------------
(***************************************************************************)
(* Users, accounts, coordinators, clusters, QOS and wckeys of              *)
(* accounting_storage_mysql.c, what they do to the association table       *)
(* (AssocTable), and the managers that answer from memory (AssocMgr): the  *)
(* one of slurmdbd and the one of the controller of cluster k, which saves *)
(* its state to files and starts again from the database or from them.     *)
(*                                                                         *)
(* A handler is one step inside the transaction of the only connection.    *)
(* Rows have deleted (0 or 1) and old (added more than a day ago).         *)
(* Statements that fail are Rollback; failures inside a nested call that   *)
(* the caller ignores are left out.                                        *)
(***************************************************************************)
EXTENDS AssocTable, AssocMgr

CONSTANTS
  Names,       \* users, "root" apart
  Accts,       \* accounts, "root" apart
  Clusters,    \* clusters; k is the one whose controller is modelled
  Keys,        \* names of wckeys
  QosNames,    \* names of QOS
  Levels,      \* levels of administrators
  Tables,      \* the tables and next ids a behaviour starts with
  Scenarios,   \* the kinds of steps a behaviour has, see Kind
  MaxCalls,    \* calls
  MaxOps,      \* calls in a transaction
  MaxUse,      \* jobs the controller charges
  MaxCrashes   \* saves that are interrupted or fail; a failure that goes unnoticed counts twice

Kind == {"users", "accts", "coords", "wckeys", "qos", "clusters", "shares",
         "jobs", "save", "boot", "day", "batch", "move"}

ASSUME EntitiesAssumption ==
  /\ "k" \in Clusters /\ Names \subseteq DOMAIN Uid /\ "root" \notin Names \cup Accts
  /\ Scenarios \subseteq SUBSET Kind
  /\ NOTSET \notin Levels

VARIABLES
  t, db,        \* the tables as the transaction sees them, and as committed
  next,         \* auto_increment of assoc_table, wckey_table and qos_table
  update_list,
  ops, calls,   \* calls of the transaction, and in all
  jobs,         \* the associations that occur in job_table
  mgr,          \* the managers: "k" and "dbd"
  fresh,        \* the lists <<manager, kind>> that got every update since loaded; "prio":
                \* the QOS when none was changed since
  uses,         \* jobs charged
  disk,         \* the files assoc_mgr_state and assoc_usage with .old and .new
  dump,         \* the save under way: step (0: none), ok, and how many were interrupted;
                \* saved: once both files were whole after one
  on            \* the kinds of steps of this behaviour

vars == <<t, db, next, update_list, ops, calls, jobs, mgr, fresh, uses, disk, dump, on>>

Managers == {"k", "dbd"}

\* What of fresh a load of lists brings.
Parts(kinds) == kinds \cup (IF "qos" \in kinds THEN {"prio"} ELSE {})

Present(tab) == {i \in DOMAIN tab : tab[i].deleted = 0}

\* insert ... on duplicate key update deleted=0, ...
Upsert(tab, key, row) ==
  IF key \in DOMAIN tab THEN [tab EXCEPT ![key] = [row EXCEPT !.old = tab[key].old]]
  ELSE tab @@ (key :> row)

\* _modify_common: "where deleted=0 && ..."
ModifyCommon(tab, S, f(_)) ==
  [i \in DOMAIN tab |-> IF i \in S /\ tab[i].deleted = 0 THEN f(tab[i]) ELSE tab[i]]

\* _remove_common on the table itself: the young rows of S go for good unless
\* jobs ran, the others are marked.
RemoveRows(tab, S, has_jobs) ==
  [i \in {j \in DOMAIN tab : j \in S => has_jobs \/ tab[j].old} |->
     IF i \in S THEN [tab[i] EXCEPT !.deleted = 1] ELSE tab[i]]

-----------------------------------------------------------------------------
(* A handler maps s = [t, next, upd, ok] to what it leaves. *)

State == [t |-> t, next |-> next, upd |-> update_list, ok |-> TRUE]

Failed(s) == [s EXCEPT !.t = db, !.upd = <<>>, !.ok = FALSE]

Tells(s, type, objects) == [s EXCEPT !.upd = AddAllTo(@, type, objects)]

\* The share and the QOS list of an association that was added or revived are
\* those of the request: 1 and none.
Associate(s, list) ==
  LET r   == AddAssociations(s.t.assocs, s.next.assoc, s.upd, list)
      New(i) == i \notin DOMAIN s.t.assocs \/ (s.t.assocs[i].deleted # 0 /\ r.t[i].deleted = 0)
  IN IF ~r.ok THEN Failed(s)
     ELSE [s EXCEPT !.t.assocs = r.t, !.next.assoc = r.id, !.upd = r.upd,
                    !.t.raw = [i \in DOMAIN r.t |-> IF New(i) THEN 1 ELSE s.t.raw[i]],
                    !.t.aqos = [i \in DOMAIN r.t |-> IF New(i) THEN {} ELSE s.t.aqos[i]]]

\* _check_jobs_before_remove
HadJobs(T, S) == \E i \in S : SubTree(T, i) \cap jobs # {}

\* _remove_common on the associations that belong to the rows S, live or not;
\* their shares become 1, their QOS lists stay.
Dissociate(s, S) ==
  LET T   == s.t.assocs
      loc == UNION {SubTree(T, i) \cap Live(T) : i \in S \cap Live(T)}
      r   == RemoveCommon(T, s.upd, loc, HadJobs(T, S))
  IN [s EXCEPT !.t.assocs = r.t, !.upd = r.upd,
               !.t.raw  = [i \in DOMAIN r.t |-> IF i \in loc THEN 1 ELSE s.t.raw[i]],
               !.t.aqos = [i \in DOMAIN r.t |-> s.t.aqos[i]]]

-----------------------------------------------------------------------------
(* Coordinators *)

\* _get_user_coords: the accounts named, and those below them in any cluster.
\* "t1.deleted=0" holds for the accounts below the first one named only.
UserCoords(T, u, first) ==
  LET D == {p[1] : p \in {q \in Present(T.coords) : q[2] = u}}
      A == T.assocs
      Below(a) == {A[i].acct : i \in {j \in DOMAIN A :
                     /\ A[j].user = "" /\ A[j].acct # a
                     /\ a = first => A[j].deleted = 0
                     /\ \E p \in DOMAIN A : A[p].acct = a /\ j \in SubTree(A, p)}}
  IN {[name |-> a, direct |-> a \in D] : a \in D \cup UNION {Below(a) : a \in D}}

\* The account the database returns first.
FirstOf(T, u) == CHOOSE a \in Accts \cup {"root"} :
                   \/ <<a, u>> \in Present(T.coords)
                   \/ \A b \in Accts \cup {"root"} : <<b, u>> \notin Present(T.coords)

CoordsOf(T, u) == UserCoords(T, u, FirstOf(T, u))

\* _get_account_coords: those named, and those of the accounts above.
AccountCoords(T, a) ==
  LET A == T.assocs
      Above == {A[i].acct : i \in {p \in DOMAIN A : /\ A[p].user = "" /\ A[p].acct # a
                  /\ \E j \in DOMAIN A : A[j].acct = a /\ A[p].lft < A[j].lft /\ A[p].rgt > A[j].lft}}
  IN {p[2] : p \in {q \in Present(T.coords) : q[1] \in Above \cup {a}}}

TellCoords(s, type, U) ==
  Tells(s, type, [n \in 1..Cardinality(U) |->
    [name |-> SetToSeq(U)[n], coords |-> CoordsOf(s.t, SetToSeq(U)[n])]])

AddCoord(s, A, U) ==
  TellCoords([s EXCEPT !.t.coords =
                [p \in DOMAIN @ \cup (A \X U) |->
                   IF p \in DOMAIN s.t.coords
                   THEN [s.t.coords[p] EXCEPT !.deleted = IF p \in A \X U THEN 0 ELSE @]
                   ELSE [deleted |-> 0, old |-> FALSE]]],
             "add_coord", U)

\* The users who lose an account are not told.
RemoveCoord_Quiet(s, A, U) ==
  LET P == {p \in DOMAIN s.t.coords : (A # {} => p[1] \in A) /\ (U # {} => p[2] \in U)}
  IN [s EXCEPT !.t.coords = RemoveRows(@, P, FALSE)]

\* acct_storage_p_remove_coord by accounts, users or both ({}: any).
RemoveCoord(s, A, U) ==
  LET P == {p \in DOMAIN s.t.coords : (A # {} => p[1] \in A) /\ (U # {} => p[2] \in U)}
  IN TellCoords([s EXCEPT !.t.coords = RemoveRows(@, P, FALSE)],
                "remove_coord", {p[2] : p \in P \cap Present(s.t.coords)})

-----------------------------------------------------------------------------
(* wckeys and QOS *)

KeyIds(T, o) == {i \in DOMAIN T.wckeys : /\ T.wckeys[i].name = o.name
                                         /\ T.wckeys[i].cluster = o.cluster
                                         /\ T.wckeys[i].user = o.user}

AddWckey(s, o) ==
  LET F   == KeyIds(s.t, o)
      id  == IF F = {} THEN s.next.wckey ELSE The(F)
      row == [name |-> o.name, cluster |-> o.cluster, user |-> o.user,
              deleted |-> 0, old |-> FALSE]
  IN Tells([s EXCEPT !.t.wckeys = Upsert(@, id, row),
                     !.next.wckey = IF F = {} THEN @ + 1 ELSE @],
           "add_wckey", <<[id |-> id] @@ o>>)

\* Nothing changed when all of them are there since this very second (`same`):
\* then everything is undone, and the call is a success.
AddWckeys(s, list, same) ==
  IF same /\ \A n \in DOMAIN list : KeyIds(s.t, list[n]) \cap Present(s.t.wckeys) # {}
  THEN [Failed(s) EXCEPT !.ok = TRUE]
  ELSE FoldLeft(AddWckey, s, list)

\* acct_storage_p_remove_wckeys of the live rows S (_setup_wckey_cond_limits).
RemoveWckeys(s, S) ==
  Tells([s EXCEPT !.t.wckeys = RemoveRows(@, S, FALSE)],
        "remove_wckey", [n \in 1..Cardinality(S) |-> [id |-> SetToSeq(S)[n]]])

SelectWckeys(T, names, clusters, users) ==
  {i \in Present(T.wckeys) : /\ names # {} => T.wckeys[i].name \in names
                             /\ clusters # {} => T.wckeys[i].cluster \in clusters
                             /\ users # {} => T.wckeys[i].user \in users}

AddQos(s, name, same) ==
  LET F  == {i \in DOMAIN s.t.qos : s.t.qos[i].name = name}
      id == IF F = {} THEN s.next.qos ELSE The(F)
  IN IF same /\ F \cap Present(s.t.qos) # {} THEN [Failed(s) EXCEPT !.ok = TRUE]
     ELSE Tells([s EXCEPT !.t.qos = Upsert(@, id, [name |-> name, prio |-> 0,
                                                   deleted |-> 0, old |-> FALSE]),
                          !.next.qos = IF F = {} THEN @ + 1 ELSE @],
                "add_qos", <<[id |-> id, name |-> name, prio |-> 0]>>)

\* acct_storage_p_modify_qos: the priority stands for the limits.
ModifyQos(s, S, prio) ==
  Tells([s EXCEPT !.t.qos = ModifyCommon(@, S, LAMBDA r : [r EXCEPT !.prio = prio])],
        "modify_qos", [n \in 1..Cardinality(S) |-> [id |-> SetToSeq(S)[n]]])

\* The QOS leaves the lists of the live associations too.
RemoveQos(s, S) ==
  LET out == S \cap Present(s.t.qos)
  IN Tells([s EXCEPT !.t.qos = RemoveRows(@, out, FALSE),
                     !.t.aqos = [i \in DOMAIN @ |->
                                   IF s.t.assocs[i].deleted = 0 THEN @[i] \ out ELSE @[i]]],
           "remove_qos", [n \in 1..Cardinality(out) |-> [id |-> SetToSeq(out)[n]]])

-----------------------------------------------------------------------------
(* Users, accounts and clusters *)

\* acct_storage_p_add_users for one user.  What is not given keeps its value of
\* a user that was removed before.
AddUser(s, o) ==
  LET had == o.name \in DOMAIN s.t.users
      Kept(new, none, f, default) ==
        IF new # none THEN new ELSE IF had THEN s.t.users[o.name][f] ELSE default
      row == [admin  |-> Kept(o.admin, NOTSET, "admin", 1),
              acct   |-> o.default_acct,
              wckey  |-> Kept(o.default_wckey, "", "wckey", ""),
              deleted |-> 0, old |-> FALSE]
  IN Tells([s EXCEPT !.t.users = Upsert(@, o.name, row)], "add_user", <<o>>)

\* The associations of the users are added, then their wckeys.
AddUsers(s, o, assocs, keys) ==
  LET a == Associate(AddUser(s, o), assocs)
  IN IF a.ok /\ keys # <<>> THEN AddWckeys(a, keys, FALSE) ELSE a

\* The live users a condition selects; {} and NOTSET select all.
SelectUsers(T, c) ==
  {n \in Present(T.users) : /\ c.names # {} => n \in c.names
                            /\ c.accts # {} => T.users[n].acct \in c.accts
                            /\ c.wckeys # {} => T.users[n].wckey \in c.wckeys
                            /\ c.admin # NOTSET => T.users[n].admin = c.admin}

\* acct_storage_p_modify_users: v has "" or NOTSET for what is not changed.
ModifyUsers(s, U, v) ==
  Tells([s EXCEPT !.t.users = ModifyCommon(@, U, LAMBDA r :
           [r EXCEPT !.acct  = IF v.default_acct = "" THEN @ ELSE v.default_acct,
                     !.wckey = IF v.default_wckey = "" THEN @ ELSE v.default_wckey,
                     !.admin = IF v.admin = NOTSET THEN @ ELSE v.admin])],
        "modify_user", [n \in 1..Cardinality(U) |-> [v EXCEPT !.name = SetToSeq(U)[n]]])

AssocsOfUsers(T, U) == {i \in DOMAIN T.assocs : T.assocs[i].user \in U}
AssocsOfAccts(T, A) == {i \in DOMAIN T.assocs : T.assocs[i].acct \in A}

\* The wckeys of the users are forgotten.
RemoveUsers_KeepWckeys(s, U) ==
  LET told == Tells(s, "remove_user", [n \in 1..Cardinality(U) |-> [name |-> SetToSeq(U)[n]]])
      S    == AssocsOfUsers(s.t, U)
      gone == Dissociate(RemoveCoord(told, {}, U), S)
  IN [gone EXCEPT !.t.users = RemoveRows(@, U, HadJobs(s.t.assocs, S))]

\* acct_storage_p_remove_users: coordinators and wckeys first, then the users
\* and their associations; last, what is left in acct_coord_table is marked.
RemoveUsers(s, U) ==
  LET told == Tells(s, "remove_user", [n \in 1..Cardinality(U) |-> [name |-> SetToSeq(U)[n]]])
      S    == AssocsOfUsers(s.t, U)
      keys == RemoveWckeys(RemoveCoord(told, {}, U), SelectWckeys(s.t, {}, {}, U))
      gone == Dissociate(keys, S)
  IN [gone EXCEPT !.t.users = RemoveRows(@, U, HadJobs(s.t.assocs, S)),
                  !.t.coords = [p \in DOMAIN @ |->
                                  IF p[2] \in U THEN [@[p] EXCEPT !.deleted = 1] ELSE @[p]]]

\* acct_storage_p_add_accts: no controller hears of an account itself.
AddAccts(s, name, assocs) ==
  Associate([s EXCEPT !.t.accts = Upsert(@, name, [desc |-> "", deleted |-> 0, old |-> FALSE])],
            assocs)

ModifyAccts(s, A, desc) ==
  [s EXCEPT !.t.accts = ModifyCommon(@, A, LAMBDA r : [r EXCEPT !.desc = desc])]

\* acct_storage_p_remove_accts: the coordinators lose the accounts while the
\* associations still say what lies below them.
RemoveAccts(s, A) ==
  LET S    == AssocsOfAccts(s.t, A)
      gone == Dissociate(RemoveCoord(s, A, {}), S)
  IN [gone EXCEPT !.t.accts = RemoveRows(@, A, HadJobs(s.t.assocs, S))]

\* acct_storage_p_add_clusters: the root account is inserted behind everything
\* else or revived where it was, and not announced; user root is.
AddClusters(s, c) ==
  LET A    == s.t.assocs
      R    == IdsOf(A, c, "root", "")
      back == [A EXCEPT ![The(R)].deleted = 0]
      max  == Max({0} \cup {A[i].rgt : i \in DOMAIN A})
      root == [cluster |-> c, acct |-> "root", user |-> "", parent |-> "", lft |-> max + 1,
               rgt |-> max + 2, deleted |-> 0, old |-> FALSE, mj |-> Infinite]
      With_root == IF R # {} THEN [s EXCEPT !.t.assocs = back]
                   ELSE [s EXCEPT !.t.assocs = @ @@ (s.next.assoc :> root),
                                  !.t.raw = @ @@ (s.next.assoc :> 1),
                                  !.t.aqos = @ @@ (s.next.assoc :> {}),
                                  !.next.assoc = @ + 1]
  IN Associate([With_root EXCEPT !.t.clusters =
                  Upsert(@, c, [port |-> 0, deleted |-> 0, old |-> FALSE])],
               <<[cluster |-> c, acct |-> "root", user |-> "root", parent |-> "", mj |-> NoVal]>>)

\* acct_storage_p_modify_clusters: a controller registers where it listens.
ModifyClusters(s, C, port) ==
  [s EXCEPT !.t.clusters = ModifyCommon(@, C, LAMBDA r : [r EXCEPT !.port = port])]

\* acct_storage_p_remove_clusters; its events and usage are in ClusterEvents and
\* Rollup.
RemoveClusters(s, C) ==
  LET S    == {i \in AssocsOfAccts(s.t, {"root"}) : s.t.assocs[i].cluster \in C}
      gone == Dissociate(RemoveWckeys(s, SelectWckeys(s.t, {}, C, {})), S)
  IN [gone EXCEPT !.t.clusters = RemoveRows(@, C, HadJobs(s.t.assocs, S))]

\* acct_storage_p_modify_associations of the share; for the rest see AssocStore.
ModifyShares(s, S, raw) ==
  Tells([s EXCEPT !.t.raw = [i \in DOMAIN @ |-> IF i \in S THEN raw ELSE @[i]]],
        "modify", [n \in 1..Cardinality(S) |->
                     [id |-> InOrder(s.t.assocs, S)[n], parent_id |-> 0, raw |-> raw, mj |-> NoVal]])

-----------------------------------------------------------------------------
(* What a manager loads: acct_storage_p_get_associations, _users with their  *)
(* coordinators, _qos and _wckeys.                                           *)

GetUsers(T) ==
  [n \in Present(T.users) |->
     [name |-> n, uid |-> 0, admin |-> T.users[n].admin, coords |-> CoordsOf(T, n),
      default_acct |-> T.users[n].acct, default_wckey |-> T.users[n].wckey]]

GetQos(T) == [i \in Present(T.qos) |->
                [id |-> i, name |-> T.qos[i].name, prio |-> T.qos[i].prio]]

GetWckeys(T, cluster) ==
  [i \in {j \in Present(T.wckeys) : cluster \in {"", T.wckeys[j].cluster}} |->
     [id |-> i, cluster |-> T.wckeys[i].cluster, name |-> T.wckeys[i].name,
      user |-> T.wckeys[i].user, uid |-> 0]]

GetAssocs(T, cluster) ==
  LET G == GetAssociations(T.assocs)
  IN [i \in {j \in DOMAIN G : cluster \in {"", G[j].cluster}} |->
        NewAssoc(G[i] @@ [raw |-> T.raw[i], qos |-> T.aqos[i]])]

\* acct_storage_p_get_accounts with the coordinators of each, and
\* acct_storage_p_get_clusters with the root association of each.
GetAccts(T) == [a \in Present(T.accts) |-> AccountCoords(T, a)]
GetClusters(T) ==
  [c \in Present(T.clusters) |-> IdsOf(T.assocs, c, "root", "") \cap Live(T.assocs)]

Got(T, cluster) == [assocs |-> {GetAssocs(T, cluster)}, users |-> {GetUsers(T)},
                    qos |-> {GetQos(T)}, wckeys |-> {GetWckeys(T, cluster)}]
GotNone == [kind \in Kinds |-> {}]

-----------------------------------------------------------------------------
Init ==
  \E start \in Tables, kinds \in Scenarios, childern \in BOOLEAN :
    /\ t = start.t /\ db = start.t /\ next = start.next
    /\ update_list = <<>> /\ ops = 0 /\ calls = 0 /\ jobs = {} /\ uses = 0 /\ on = kinds
    /\ mgr = [k   |-> GetLists(NewManager("k", childern), Got(start.t, "k"), TRUE),
              dbd |-> GetLists(NewManager("", FALSE), Got(start.t, ""), TRUE)]
    /\ fresh = Managers \X Parts(Kinds)
    /\ disk = [f \in {"state", "usage"} |-> [reg |-> <<>>, old |-> <<>>, new |-> <<>>]]
    /\ dump = [step |-> 0, ok |-> TRUE, saved |-> FALSE, crashes |-> 0]

\* A transaction names no object twice for the same kind of change: the latest
\* would be applied first.
Distinct(upd) ==
  LET Name(o) == IF "id" \in DOMAIN o THEN <<o.id, "">> ELSE <<0, o.name>>
  IN \A g \in DOMAIN upd : \A i, j \in DOMAIN upd[g].objects :
       i # j => Name(upd[g].objects[i]) # Name(upd[g].objects[j])

Call(kind, s) ==
  /\ kind \in on /\ ops < MaxOps /\ calls < MaxCalls
  /\ Distinct(s.upd)
  /\ t' = s.t /\ next' = s.next /\ update_list' = s.upd
  /\ ops' = ops + 1 /\ calls' = calls + 1
  /\ UNCHANGED <<db, jobs, mgr, fresh, uses, disk, dump, on>>

AcctLive(a) == \E i \in IdsOf(t.assocs, "k", a, "") : t.assocs[i].deleted = 0
Assoc(c, a, u, p) == [cluster |-> c, acct |-> a, user |-> u, parent |-> p, mj |-> NoVal]

\* A user who is not there is added with an association and perhaps a wckey; in a
\* "batch" under another account too.
DoAddUsers ==
  \E n \in Names \ Present(t.users), a \in Accts, admin \in {NOTSET} \cup Levels,
     key \in {""} \cup Keys :
    /\ AcctLive(a)
    /\ \E more \in {<<>>} \cup {<<Assoc("k", b, n, "")>> :
                     b \in {b \in Accts \ {a} : AcctLive(b)}} :
         Call(IF more = <<>> THEN "users" ELSE "batch",
              AddUsers(State, [name |-> n, default_acct |-> a, default_wckey |-> key,
                               admin |-> admin, coords |-> {}],
                       <<Assoc("k", a, n, "")>> \o more,
                       IF key = "" THEN <<>>
                       ELSE <<[name |-> key, cluster |-> "k", user |-> n]>>))

\* The conditions: by name, by default account, by default wckey or by level.
UserConds ==
  LET any == [names |-> {}, accts |-> {}, wckeys |-> {}, admin |-> NOTSET]
  IN {[any EXCEPT !.names = {n}] : n \in Names} \cup {[any EXCEPT !.accts = {a}] : a \in Accts}
       \cup {[any EXCEPT !.wckeys = {w}] : w \in Keys}
       \cup {[any EXCEPT !.admin = l] : l \in Levels}

DoModifyUsers ==
  \E c \in UserConds, acct \in {""} \cup Accts, admin \in {NOTSET} \cup Levels :
    LET U == SelectUsers(t, c)
    IN /\ U # {} /\ (acct = "") # (admin = NOTSET)
       /\ Call("users", ModifyUsers(State, U, [name |-> "", default_acct |-> acct,
                                               default_wckey |-> "", admin |-> admin]))

DoRemoveUsers ==
  \E c \in UserConds : /\ SelectUsers(t, c) # {}
                       /\ Call("users", RemoveUsers(State, SelectUsers(t, c)))

\* Unless "move" is in the scenario an account comes back under the parent it had:
\* under another one it is announced without a parent, and the controllers take it
\* for the root (see README).
DoAddAccts ==
  \E a \in Accts \ Present(t.accts), p \in (Accts \cup {"root"}) :
    /\ p # a /\ AcctLive(p)
    /\ "move" \in on \/ \A i \in IdsOf(t.assocs, "k", a, "") : t.assocs[i].parent = p
    /\ Call("accts", AddAccts(State, a, <<Assoc("k", a, "", p)>>))

DoModifyAccts ==
  \E a \in Present(t.accts) : Call("accts", ModifyAccts(State, {a}, "new"))

DoRemoveAccts ==
  \E a \in Present(t.accts) \cap Accts : Call("accts", RemoveAccts(State, {a}))

DoAddCoord ==
  \E A \in SUBSET (Present(t.accts) \cap Accts), n \in Present(t.users) \cap Names :
    A # {} /\ Call("coords", AddCoord(State, A, {n}))

DoRemoveCoord ==
  \E A \in {{}} \cup {{a} : a \in Accts}, U \in {{}} \cup {{n} : n \in Names} :
    /\ \E p \in Present(t.coords) : (A # {} => p[1] \in A) /\ (U # {} => p[2] \in U)
    /\ A \cup U # {}
    /\ Call("coords", RemoveCoord(State, A, U))

DoAddWckeys ==
  \E key \in Keys, n \in Present(t.users) \cap Names, c \in Present(t.clusters), same \in BOOLEAN :
    Call("wckeys", AddWckeys(State, <<[name |-> key, cluster |-> c, user |-> n]>>, same))

DoRemoveWckeys ==
  \E names \in {{}} \cup {{w} : w \in Keys}, users \in {{}} \cup {{n} : n \in Names} :
    LET S == SelectWckeys(t, names, {}, users)
    IN S # {} /\ Call("wckeys", RemoveWckeys(State, S))

DoAddQos    == \E q \in QosNames, same \in BOOLEAN : Call("qos", AddQos(State, q, same))
DoModifyQos == \E i \in Present(t.qos) : Call("qos", ModifyQos(State, {i}, 1))
DoRemoveQos == \E i \in Present(t.qos) : Call("qos", RemoveQos(State, {i}))

DoAddClusters ==
  \E c \in Clusters \ Present(t.clusters) : Call("clusters", AddClusters(State, c))
DoModifyClusters ==
  \E c \in Present(t.clusters) : Call("clusters", ModifyClusters(State, {c}, 1))
DoRemoveClusters ==
  \E c \in Present(t.clusters) : Call("clusters", RemoveClusters(State, {c}))

DoModifyShares ==
  \E i \in Live(t.assocs) :
    t.assocs[i].acct \in Accts /\ Call("shares", ModifyShares(State, {i}, 3))

Calls == \/ DoAddUsers \/ DoModifyUsers \/ DoRemoveUsers
         \/ DoAddAccts \/ DoModifyAccts \/ DoRemoveAccts
         \/ DoAddCoord \/ DoRemoveCoord \/ DoAddWckeys \/ DoRemoveWckeys
         \/ DoAddQos \/ DoModifyQos \/ DoRemoveQos
         \/ DoAddClusters \/ DoModifyClusters \/ DoRemoveClusters \/ DoModifyShares

-----------------------------------------------------------------------------
(* The end of a transaction *)

\* What an association object carries beside what AssocTable says.
Full(g) ==
  LET more == IF g.type = "add" THEN [raw |-> 1, qos |-> {}] ELSE [raw |-> NO_VAL]
  IN IF g.type \notin {"add", "modify"} THEN g
     ELSE [g EXCEPT !.objects = [n \in DOMAIN @ |-> @[n] @@ more]]

Sent == [g \in DOMAIN update_list |-> Full(update_list[g])]

\* An update that names a QOS the managers have: assoc_mgr_update_qos drops it,
\* unless it removes the QOS ("FIX ME: fill in the update of the qos").
Unheard(g) == \/ g.type = "modify_qos"
              \/ g.type = "add_qos" /\ \E n \in DOMAIN g.objects : g.objects[n].id \in Present(db.qos)

\* slurmdbd applies the updates itself; they are sent once to each cluster that
\* is registered, reached or not.
Commit ==
  /\ ops > 0
  /\ db' = t /\ update_list' = <<>> /\ ops' = 0
  /\ \E reached \in BOOLEAN :
       LET told == /\ "k" \in Present(t.clusters) /\ t.clusters["k"].port # 0 /\ reached
       IN IF update_list = <<>> THEN reached /\ UNCHANGED <<mgr, fresh>>
          ELSE /\ mgr' = [k   |-> IF told THEN UpdateManager(mgr.k, Sent) ELSE mgr.k,
                          dbd |-> UpdateManager(mgr.dbd, Sent)]
               /\ fresh' = (IF told THEN fresh ELSE fresh \ ({"k"} \X Parts(Kinds)))
                             \ (IF \E n \in DOMAIN update_list : Unheard(update_list[n])
                                THEN Managers \X {"prio"} ELSE {})
  /\ UNCHANGED <<t, next, calls, jobs, uses, disk, dump, on>>

\* acct_storage_p_commit with commit = 0, and every statement that fails.
Rollback ==
  /\ ops > 0
  /\ t' = db /\ update_list' = <<>> /\ ops' = 0
  /\ UNCHANGED <<db, next, calls, jobs, mgr, fresh, uses, disk, dump, on>>

Aged(tab) == [i \in DOMAIN tab |-> [tab[i] EXCEPT !.old = TRUE]]

\* A day later no row is less than a day old.
Day ==
  /\ "day" \in on /\ ops = 0
  /\ t' = [t EXCEPT !.users = Aged(@), !.accts = Aged(@), !.coords = Aged(@), !.wckeys = Aged(@),
                    !.qos = Aged(@), !.clusters = Aged(@), !.assocs = Aged(@)]
  /\ db' = t'
  /\ UNCHANGED <<next, update_list, ops, calls, jobs, mgr, fresh, uses, disk, dump, on>>

-----------------------------------------------------------------------------
(* The controller of k *)

Only(m) == mgr' = [mgr EXCEPT !.k = m]
Same == UNCHANGED <<t, db, next, update_list, ops, calls, on>>

\* A job of a user is charged to its association and those above (external).
JobRuns ==
  /\ "jobs" \in on /\ uses < MaxUse
  /\ \E i \in DOMAIN mgr.k.assocs :
       /\ mgr.k.assocs[i].user # ""
       /\ Only([mgr.k EXCEPT !.assocs = [j \in DOMAIN @ |->
             IF j \in Path(mgr.k.assocs, i)
             THEN [@[j] EXCEPT !.used = @ + 1, !.usage = @ + 1] ELSE @[j]]])
       /\ jobs' = jobs \cup {i}
  /\ uses' = uses + 1 /\ Same /\ UNCHANGED <<fresh, disk, dump>>

Reconfigure ==
  /\ "jobs" \in on /\ Only(ClearUsedInfo(mgr.k))
  /\ Same /\ UNCHANGED <<jobs, fresh, uses, disk, dump>>

Whole(data) == <<[is |-> "whole", data |-> data]>>
Cut         == <<[is |-> "cut", data |-> <<>>]>>
Readable(c) == c # <<>> /\ c[1].is = "whole"

\* A write that a signal interrupts goes back by the -1 it returned: a byte is in
\* the file twice.  What is before it is loaded; there the load ends.
Mangled(f, data) ==
  {<<[is |-> "mangled", data |-> d]>> : d \in
     IF f = "usage" THEN {[i \in S |-> data[i]] : S \in SUBSET DOMAIN data}
     ELSE {[data EXCEPT !.have = @ \cap S] :
             S \in {{}, {"assocs"}, {"assocs", "users"}, {"assocs", "users", "qos"}}}}

\* How a step of a save goes: a write that fails is noticed, a signal or a link
\* that fails is not, and counts twice.
Outcomes(m) ==
  {"done"} \cup (IF m = 1 THEN {"failed", "mangled"} ELSE IF m \in {3, 5} THEN {"unlinked"} ELSE {})
Weight(how) == CASE how = "done" -> 0 [] how = "failed" -> 1 [] OTHER -> 2

\* One step of dump_assoc_mgr_state: 1 to 6 for assoc_mgr_state, then the same for
\* assoc_usage.  A file that cannot be written is unlinked, and so is the second
\* one when the first failed.
SaveStep ==
  LET n     == dump.step + 1
      f     == IF n <= 6 THEN "state" ELSE "usage"
      m     == IF n <= 6 THEN n ELSE n - 6
      data  == IF f = "state" THEN Packed(mgr.k) ELSE PackedUsage(mgr.k)
      after == IF n = 12 THEN 0 ELSE n
  IN /\ "save" \in on /\ mgr.k.have # {}
     /\ \E how \in Outcomes(m) :
          LET count == dump.crashes + Weight(how)
          IN /\ count <= MaxCrashes
             /\ IF dump.ok /\ how # "failed"
                THEN /\ \E new \in IF how = "mangled" THEN Mangled(f, data) ELSE {Whole(data)} :
                          disk' = [disk EXCEPT ![f] = Shuffle(@, m, new, how # "unlinked")]
                     /\ dump' = [dump EXCEPT !.step = after, !.crashes = count,
                                   !.saved = @ \/ (n = 12 /\ \A g \in {"state", "usage"} :
                                                               Readable(disk'[g].reg))]
                ELSE /\ disk' = [disk EXCEPT ![f] = [@ EXCEPT !.new = <<>>]]
                     /\ dump' = [dump EXCEPT !.step = IF n = 1 THEN 6 ELSE 0, !.ok = n # 1,
                                             !.crashes = count]
     /\ Same /\ UNCHANGED <<jobs, mgr, fresh, uses>>

\* The controller stops, perhaps while a file is being written.
Crash ==
  /\ on \cap {"save", "boot"} # {} /\ mgr.k.have # {}
  /\ \E cut \in BOOLEAN :
       LET f == IF dump.step = 0 THEN "state" ELSE "usage"
       IN /\ cut => "save" \in on /\ (dump.step = 0 \/ (dump.step = 6 /\ dump.ok))
          /\ disk' = IF cut THEN [disk EXCEPT ![f] = [@ EXCEPT !.new = Cut]] ELSE disk
          /\ cut \/ dump.step # 0 => dump.crashes < MaxCrashes
          /\ dump' = [dump EXCEPT !.step = 0, !.ok = TRUE,
                                  !.crashes = @ + (IF cut \/ dump.step # 0 THEN 1 ELSE 0)]
  /\ Only(NewManager("k", mgr.k.childern))
  /\ fresh' = fresh \ ({"k"} \X Parts(Kinds))
  /\ Same /\ UNCHANGED <<jobs, uses>>

Recovered(m) ==
  IF disk["usage"].reg = <<>> \/ "assocs" \notin m.have THEN m
  ELSE LoadUsage(m, disk["usage"].reg[1].data)

\* slurmctld starts (external): from the database; from assoc_mgr_state when the
\* database does not answer; or with neither, when nothing is enforced.
Boot ==
  LET m == NewManager("k", mgr.k.childern)
  IN /\ mgr.k.have = {} /\ on \cap {"save", "boot"} # {}
     /\ \/ /\ Only(Recovered(GetLists(m, Got(db, "k"), TRUE)))
           /\ fresh' = fresh \cup ({"k"} \X Parts(Kinds))
        \/ /\ disk["state"].reg # <<>>
           /\ Only(Recovered([LoadState(m, disk["state"].reg[1].data)
                               EXCEPT !.cached = Readable(disk["state"].reg)]))
           /\ UNCHANGED fresh
        \/ /\ "boot" \in on
           /\ Only(Recovered(GetLists(m, GotNone, FALSE)))
           /\ UNCHANGED fresh
     /\ Same /\ UNCHANGED <<jobs, uses, disk, dump>>

\* The database answers again; it may fail after the first n lists.
Refresh ==
  /\ mgr.k.cached
  /\ \E n \in 0..4 :
       LET There == {ListOrder[i] : i \in 1..n}
           got   == [kind \in Kinds |-> IF kind \in There THEN Got(db, "k")[kind] ELSE {}]
       IN /\ Only(RefreshLists(mgr.k, got))
          /\ fresh' = fresh \cup ({"k"} \X Parts(There))
  /\ Same /\ UNCHANGED <<jobs, uses, disk, dump>>

\* A lookup gets the list it needs.
Ask ==
  /\ mgr.k.have # {} /\ ~mgr.k.cached
  /\ \E kind \in Kinds \ mgr.k.have :
       /\ Only(GetList(mgr.k, kind, Got(db, "k")[kind]))
       /\ fresh' = fresh \cup ({"k"} \X Parts({kind}))
  /\ Same /\ UNCHANGED <<jobs, uses, disk, dump>>

Next == \/ Calls \/ Commit \/ Rollback \/ Day \/ JobRuns \/ Reconfigure
        \/ SaveStep \/ Crash \/ Boot \/ Refresh \/ Ask

Spec == Init /\ [][Next]_vars

-----------------------------------------------------------------------------
\* What the tables say: the live associations, wckeys and coordinated accounts of
\* a user.  Root accounts apart: slurmdbd is not told of that of a new cluster.
AssocsOf(n, acct, cluster) ==
  {i \in Live(db.assocs) : /\ db.assocs[i].user = n /\ db.assocs[i].acct = acct
                           /\ db.assocs[i].cluster = cluster}
KeysOf(n, name, cluster) ==
  {i \in Present(db.wckeys) : /\ db.wckeys[i].user = n /\ db.wckeys[i].name = name
                              /\ db.wckeys[i].cluster = cluster}
Coordinated(n) == {p[1] : p \in {q \in Present(db.coords) : q[2] = n}}

Fresh(w, kinds) == {w} \X kinds \subseteq fresh /\ kinds \subseteq mgr[w].have

\* The users of a manager.  A level or a default wckey that was not given when the
\* user was added is not known to the managers.
UsersAgree(m) ==
  \A n \in Names : \A here \in {n \in Present(db.users)} :
    LET M == {[acct |-> m.users[x].default_acct, wckey |-> m.users[x].default_wckey] :
                x \in FillInUser(m, Uid[n])}
        direct == {a \in Accts : \E x \in FillInUser(m, Uid[n]) :
                                   [name |-> a, direct |-> TRUE] \in m.users[x].coords}
    IN /\ GetAdminLevel(m, Uid[n]) \in {NOTSET} \cup {db.users[x].admin : x \in {n} \cap Present(db.users)}
       /\ M # {} <=> here
       /\ \A r \in M : r.acct = db.users[n].acct /\ r.wckey \in {"", db.users[n].wckey}
       /\ here => direct = Coordinated(n)
       /\ \A a \in direct : IsUserAcctCoord(m, Uid[n], a)

\* The associations: what a job of a user is charged to, by account and by the
\* default account, the QOS it may ask for, and the shares a user may look at.
AssocsAgree(m, c) ==
  /\ \A n \in Names, a \in Accts : FillInAssoc(m, Uid[n], a, c) = AssocsOf(n, a, c)
  /\ \A n \in Present(db.users) \cap Names :
       FillInAssoc(m, Uid[n], "", c) = AssocsOf(n, db.users[n].acct, c)
  /\ \A i \in DOMAIN m.assocs :
       /\ i \in Live(db.assocs) /\ m.assocs[i].raw = db.raw[i]
       /\ m.assocs[i].qos = db.aqos[i]
       /\ m.assocs[i].parent_id = ParentId(db.assocs, i)
  /\ \A i \in Live(db.assocs) :
       db.assocs[i].acct # "root" /\ db.assocs[i].cluster = c => ValidateAssocId(m, i)
  /\ \A n \in Present(db.users) \cap Names :
       LET own == {i \in DOMAIN m.assocs : db.assocs[i].user = n}
       IN /\ GetUserAssocs(m, Uid[n]) = own
          /\ own \cup {i \in DOMAIN m.assocs : db.assocs[i].acct \in Coordinated(n)}
               \subseteq DOMAIN GetShares(m, {}, {}, {n})

WckeysAgree(m, c) ==
  \A n \in Names, w \in Keys :
    LET found == FillInWckey(m, Uid[n], w, c)
    IN /\ found \subseteq KeysOf(n, w, c)
       /\ \A i \in KeysOf(n, w, c) : i \in DOMAIN m.wckeys /\ (m.wckeys[i].uid # 0 => i \in found)

\* A manager that got every update since it loaded its lists answers what the
\* committed tables say, whatever was added, modified, removed and revived in the
\* transactions, and in whatever order the groups of the update list were applied.
\* Of a QOS that is the name; its priority, which stands for its limits, only until
\* a QOS is changed: the managers drop that update and keep the old values.
AnswersAgree ==
  \A w \in Managers, c \in Clusters :
    LET m == mgr[w]
    IN /\ Fresh(w, {"users"}) => UsersAgree(m)
       /\ Fresh(w, {"users", "assocs", "qos"}) /\ m.cluster \in {"", c} => AssocsAgree(m, c)
       /\ Fresh(w, {"wckeys"}) /\ m.cluster \in {"", c} => WckeysAgree(m, c)
       /\ Fresh(w, {"qos"}) =>
            /\ \A q \in QosNames : FillInQos(m, q) = {i \in Present(db.qos) : db.qos[i].name = q}
            /\ <<w, "prio">> \in fresh =>
                 \A i \in DOMAIN m.qos : m.qos[i].prio = db.qos[i].prio

\* A removal takes along all that names what was removed: no coordinator, wckey or
\* association is left of a user, an account or a cluster that is gone, and each
\* account's coordinators are the users that coordinate it.
NoOrphans ==
  /\ \A p \in Present(t.coords) : p[1] \in Present(t.accts) /\ p[2] \in Present(t.users)
  /\ \A i \in Present(t.wckeys) : /\ t.wckeys[i].user \in Present(t.users)
                                  /\ t.wckeys[i].cluster \in Present(t.clusters)
  /\ \A i \in Live(t.assocs) :
       LET r == t.assocs[i]
       IN /\ r.acct = "root" \/ r.acct \in Present(t.accts)
          /\ r.user \in {"", "root"} \/ r.user \in Present(t.users)
          /\ r.cluster \in Present(t.clusters)
          /\ ParentName(r) = "" \/ ParentId(t.assocs, i) \in Live(t.assocs)
  /\ \A q \in DOMAIN t.qos : t.qos[q].deleted = 1 => \A i \in Live(t.assocs) : q \notin t.aqos[i]
  /\ \A c \in DOMAIN GetClusters(t) : Cardinality(GetClusters(t)[c]) = 1
  /\ \A a \in DOMAIN GetAccts(t), n \in Present(t.users) :
       [name |-> a, direct |-> <<a, n>> \in Present(t.coords)] \in CoordsOf(t, n)
         => n \in GetAccts(t)[a]

UsersBelow(l, p) == {u \in DOMAIN l : l[u].user # "" /\ p \in Path(l, u)}

\* After any sequence of updates, refreshes, restarts and jobs an account has the
\* sum of what the users below it used; without the shares of its childern it may
\* keep what removed users used.  When no update was missed the pointers lead
\* to the parents; the shares of an association are those of its level.
\* The root account is the exception: it is not set to zero before all users are
\* added to it again, whenever the tree is built anew, and a load of assoc_usage
\* stops below it.  So its jobs may only be too many, and its usage either.
UsageRollsUp ==
  LET m == mgr.k
      l == m.assocs
  IN \A i \in DOMAIN l :
       /\ Fresh("k", {"assocs"}) => l[i].parent = l[i].parent_id /\ l[i].parent \in DOMAIN l \cup {0}
       /\ LET used  == Total(UsersBelow(l, i), LAMBDA u : l[u].used)
              usage == Total(UsersBelow(l, i), LAMBDA u : l[u].usage)
          IN /\ l[i].used >= used
             /\ i # m.root => /\ l[i].usage >= usage
                              /\ m.childern => l[i].used = used /\ l[i].usage = usage
       /\ m.childern /\ l[i].parent \in DOMAIN l =>
            l[i].level = Total(Childern(l, l[i].parent), LAMBDA j : l[j].raw)

\* What was once saved can be read again: the file slurmctld loads and the one it
\* keeps beside it are never cut, and one of the three holds a whole state while at
\* most MaxCrashes saves are interrupted or fail.  With MaxCrashes = 2 that is two
\* such saves, or one link that fails or one signal, which dump_assoc_mgr_state does
\* not notice; a second one may leave no whole state.
StateKept ==
  \A f \in {"state", "usage"} :
    /\ \A name \in {"reg", "old"} : \A c \in {disk[f][name]} : c # <<>> => c[1].is # "cut"
    /\ dump.saved => \E name \in {"reg", "old", "new"} : Readable(disk[f][name])
=============================================================================
