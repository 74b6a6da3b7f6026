----------------------------- MODULE AssocStore -----------------------------
(***************************************************************************)
(* The associations of accounting_storage_mysql.c and what the controllers *)
(* know of them.  One connection works on the association table in         *)
(* transactions; acct_storage_p_commit ends a transaction and sends the    *)
(* update list to the controllers, which keep a list of their own          *)
(* (src/src/common/assoc_mgr.c).  Jobs start meanwhile.                    *)
(*                                                                         *)
(* A handler is one step: it runs inside the transaction, and a statement  *)
(* that fails rolls the transaction back (Rollback).  A client whose call  *)
(* failed rolls back before it goes on (external).                         *)
(***************************************************************************)
EXTENDS AssocTable

CONSTANTS
  Clusters,   \* sequence of the clusters
  Accts,      \* names of accounts, "root" included
  Users,      \* names of users, "root" apart
  Limits,     \* values of the limit
  Start,      \* the associations a behaviour starts with, in the order added
  MaxIds,     \* ids handed out
  MaxCalls,   \* calls that are not undone
  MaxOps,     \* calls in a transaction
  MaxBatch,   \* associations in one call
  Env         \* requests beyond the plain ones, see EnvKinds

(***************************************************************************)
(* "batch"    : a call adds new associations and revives one elsewhere     *)
(* "noparent" : an account is revived without naming its parent            *)
(* "orphan"   : the parent named is deleted                                *)
(* "multi"    : several accounts are moved in one call                     *)
(* "moveroot" : the root account is moved                                  *)
(* "clear"    : a limit is set to INFINITE                                 *)
(* "again"    : a transaction goes on after a call that modified           *)
(* "nocommit" : the commit fails in the database                           *)
(* "goon"     : a transaction goes on after a call that changed nothing    *)
(***************************************************************************)
EnvKinds == {"batch", "noparent", "orphan", "multi", "moveroot", "clear",
             "again", "nocommit", "goon"}

ASSUME StoreAssumption ==
  /\ "root" \in Accts /\ "" \notin Accts \cup Users /\ "root" \notin Users
  /\ Limits \subseteq Nat
  /\ MaxIds \in Nat /\ MaxCalls \in Nat /\ MaxOps \in Nat /\ MaxBatch \in Nat
  /\ Env \subseteq EnvKinds

VARIABLES
  t,            \* assoc_table as the transaction sees it
  db,           \* assoc_table as committed
  next_id,      \* auto_increment: never set back
  update_list,
  ops, calls,   \* calls of the transaction, and in all apart from those undone
  jobs,         \* the associations that occur in job_table
  cache,        \* assoc_mgr_association_list of each cluster's controller
  fresh         \* the controllers that got every update since they loaded;
                \* the list of another is not followed

vars == <<t, db, next_id, update_list, ops, calls, jobs, cache, fresh>>

CL == {Clusters[n] : n \in DOMAIN Clusters}

\* _get_assoc_mgr_association_list: what a controller loads.
Load(T, c) ==
  LET G == GetAssociations(T)
  IN [i \in {j \in DOMAIN G : T[j].cluster = c} |->
        [user |-> G[i].user, parent_id |-> G[i].parent_id, mj |-> G[i].mj]]

\* assoc_mgr_update_assocs for one object.
UpdateAssoc(list, c, type, o) ==
  CASE type = "add" /\ o.cluster = c /\ o.id \notin DOMAIN list ->
         list @@ (o.id :> [user |-> o.user, parent_id |-> o.parent_id, mj |-> o.mj])
    [] type = "modify" /\ o.id \in DOMAIN list ->
         [list EXCEPT ![o.id].mj = SetLimit(@, o.mj),
                      ![o.id].parent_id = IF o.parent_id = 0 THEN @ ELSE o.parent_id]
    [] type = "remove" -> [i \in DOMAIN list \ {o.id} |-> list[i]]
    [] OTHER -> list

Update(list, c, upd) ==
  FoldLeft(LAMBDA l, g :
             FoldLeft(LAMBDA m, o : UpdateAssoc(m, c, g.type, o), l, g.objects),
           list, upd)

-----------------------------------------------------------------------------
\* The clusters and the associations of Start have been added.
InitWith(s) ==
  /\ t = s.t /\ db = t /\ next_id = s.id
  /\ update_list = <<>> /\ ops = 0 /\ calls = 0 /\ jobs = {}
  /\ cache = [c \in CL |-> Load(db, c)] /\ fresh = CL

Init ==
  LET AddStart(s) == AddAssociations(s.t, s.id, <<>>, Start)
  IN InitWith(AddStart(FoldLeft(LAMBDA x, c : AddCluster(x.t, x.id, <<>>, c),
                                AddLoop(<<>>, 1, <<>>), Clusters)))

-----------------------------------------------------------------------------
(* Calls of the transaction *)

Call ==
  /\ ops < MaxOps /\ calls < MaxCalls
  /\ "again" \in Env \/ \A g \in DOMAIN update_list : update_list[g].type # "modify"
  /\ ops' = ops + 1 /\ calls' = calls + 1

Result(s) == t' = s.t /\ update_list' = s.upd
Failed    == t' = db /\ update_list' = <<>>

Objects == [cluster : CL, acct : Accts \ {"root"}, user : {""} \cup Users,
            parent : {""} \cup Accts, mj : {NoVal} \cup Limits]

LiveAcct(c, a) == IdsOf(t, c, a, "") \cap Live(t) # {}

\* What a request for one association looks like, and the plain ones.
Request(o) ==
  LET F == IdsOf(t, o.cluster, o.acct, o.user)
      P == GivenParent(o)
  IN /\ IF o.user # "" THEN o.parent = "" ELSE P # o.acct
     /\ o.user = "" => o.parent # "" \/ (F # {} /\ "noparent" \in Env)
     /\ \/ LiveAcct(o.cluster, P)
        \/ F = {} /\ IdsOf(t, o.cluster, P, "") = {}
        \/ "orphan" \in Env

Key(o)   == <<o.cluster, o.acct, o.user>>
New(o)   == IdsOf(t, o.cluster, o.acct, o.user) = {}
Plain(o) == o.mj = NoVal /\ Request(o)

\* One association, or several new ones in one call.
Lists ==
  {<<o>> : o \in {p \in Objects : Request(p)}} \cup
  UNION {{l \in [1..n -> {o \in Objects : Plain(o)}] :
            /\ "batch" \in Env \/ \A m \in 1..n : New(l[m])
            /\ \A m, k \in 1..n : m # k => Key(l[m]) # Key(l[k])} : n \in 2..MaxBatch}

Add ==
  /\ Call
  /\ \E list \in Lists : \E s \in {AddAssociations(t, next_id, update_list, list)} :
       /\ s.id <= MaxIds + 1 /\ next_id' = s.id
       /\ IF s.ok THEN Result(s) ELSE Failed
  /\ UNCHANGED <<db, jobs, cache, fresh>>

\* _setup_association_cond_limits: live rows by cluster, accounts and user.
Select(T, c, A, user) ==
  {i \in Live(T) : T[i].cluster = c /\ T[i].acct \in A /\ T[i].user = user}

Modify ==
  /\ Call
  /\ \E c \in CL, A \in SUBSET Accts, user \in {""} \cup Users,
        parent \in {""} \cup Accts, mj \in {NoVal, Infinite} \cup Limits :
       /\ (parent # "") # (mj # NoVal)   \* one thing at a time
       /\ user # "" => parent = ""
       /\ Cardinality(A) = 1 \/ (Cardinality(A) = 2 /\ parent # "" /\ "multi" \in Env)
       /\ parent # "" => "root" \notin A \/ "moveroot" \in Env
       /\ \/ parent = "" \/ LiveAcct(c, parent)
          \/ IdsOf(t, c, parent, "") = {} \/ "orphan" \in Env
       /\ mj = Infinite => "clear" \in Env
       /\ \E s \in {ModifyAssociations(t, update_list, Select(t, c, A, user), parent, mj)} :
            IF s.ids # {} THEN Result(s)
            ELSE /\ t' = db               \* rolled back, the update list is kept
                 /\ update_list = <<>> \/ "goon" \in Env
                 /\ UNCHANGED update_list
  /\ UNCHANGED <<db, next_id, jobs, cache, fresh>>

\* Only the rows themselves are looked at.
HasJobs_Flat(T, S) == S \cap jobs # {}

\* _check_jobs_before_remove and _check_jobs_before_remove_assoc: a job ran
\* under one of the rows or below it.
HasJobs(T, S) == \E i \in S : SubTree(T, i) \cap jobs # {}

RemoveRows(loc, has_jobs) ==
  /\ Call /\ Result(RemoveCommon(t, update_list, loc, has_jobs))
  /\ UNCHANGED <<db, next_id, jobs, cache, fresh>>

\* acct_storage_p_remove_associations: what is below goes too, deleted or not.
RemoveAssociations ==
  \E c \in CL, a \in Accts \ {"root"} :
    \E S \in {Select(t, c, {a}, u) : u \in Users}
               \cup {UNION {Select(t, c, {a}, u) : u \in Users \cup {""}}} :
      S # {} /\ RemoveRows(UNION {SubTree(t, i) : i \in S}, HasJobs(t, S))

\* acct_storage_p_remove_users and _accts: S are the rows of the name.
RemoveNamed(S) ==
  /\ S # {}
  /\ RemoveRows(UNION {SubTree(t, i) \cap Live(t) : i \in S \cap Live(t)}, HasJobs(t, S))

RemoveUsers == \E u \in Users : RemoveNamed({i \in DOMAIN t : t[i].user = u})
RemoveAccts == \E a \in Accts \ {"root"} : RemoveNamed({i \in DOMAIN t : t[i].acct = a})

-----------------------------------------------------------------------------
(* acct_storage_p_commit, controllers and jobs *)

\* Each controller is sent the list once; one that cannot be reached misses it.
Commit ==
  /\ ops > 0
  /\ \E reached \in SUBSET CL, ok \in {TRUE} \cup {"nocommit" \notin Env} :
       /\ db' = IF ok THEN t ELSE db
       /\ t' = db'
       /\ IF update_list = <<>> THEN reached = CL /\ UNCHANGED <<cache, fresh>>
          ELSE /\ fresh' = fresh \cap reached
               /\ cache' = [c \in CL |-> IF c \in fresh' THEN Update(cache[c], c, update_list)
                                         ELSE <<>>]
  /\ update_list' = <<>> /\ ops' = 0
  /\ UNCHANGED <<next_id, calls, jobs>>

\* acct_storage_p_commit with commit = 0, and every failed statement of a call.
Rollback ==
  /\ ops > 0
  /\ t' = db /\ update_list' = <<>> /\ ops' = 0 /\ calls' = calls - ops
  /\ UNCHANGED <<db, next_id, jobs, cache, fresh>>

\* _refresh_assoc_mgr_association_list
Refresh ==
  \E c \in CL \ fresh :
    /\ cache' = [cache EXCEPT ![c] = Load(db, c)]
    /\ fresh' = fresh \cup {c}
    /\ UNCHANGED <<t, db, next_id, update_list, ops, calls, jobs>>

\* A job starts under an association its controller knows, perhaps one that is
\* deleted by now.  One such job is enough.
JobStart ==
  \E i \in DOMAIN db :
    /\ db[i].user # "" /\ jobs = {}
    /\ jobs' = {i}
    /\ UNCHANGED <<t, db, next_id, update_list, ops, calls, cache, fresh>>

\* A day later no association is less than a day old.
Day ==
  /\ ops = 0
  /\ t' = [i \in DOMAIN t |-> [t[i] EXCEPT !.old = TRUE]] /\ db' = t'
  /\ UNCHANGED <<next_id, update_list, ops, calls, jobs, cache, fresh>>

Next == \/ Add \/ Modify \/ RemoveAssociations \/ RemoveUsers \/ RemoveAccts
        \/ Commit \/ Rollback \/ Refresh \/ JobStart \/ Day

Spec == Init /\ [][Next]_vars

-----------------------------------------------------------------------------
Encloses(T, i, j) == T[i].lft < T[j].lft /\ T[j].rgt < T[i].rgt
Apart(T, i, j)    == T[i].rgt < T[j].lft \/ T[j].rgt < T[i].lft

\* Whatever was added, revived, moved and removed, lft and rgt number the tree
\* that parent_acct and acct describe: rows are nested or apart, and a row lies
\* directly in the row of its parent, which exists.  Every query on a subtree
\* rests on it, and get_parent_limits loops for ever where a parent is missing.
TreeOK ==
  \A i \in DOMAIN t :
    /\ t[i].lft < t[i].rgt /\ t[i].deleted \in {0, 1}
    /\ \A j \in DOMAIN t \ {i} : Encloses(t, i, j) \/ Encloses(t, j, i) \/ Apart(t, i, j)
    /\ ParentName(t[i]) # "" =>
         \E p \in IdsOf(t, t[i].cluster, ParentName(t[i]), "") :
           /\ Encloses(t, p, i)
           /\ \A j \in DOMAIN t \ {p} : Encloses(t, j, i) => Encloses(t, j, p)

\* A controller that got every update knows the live associations of its cluster
\* and no others, each under its parent.
CacheTree ==
  \A c \in fresh :
    LET L == {i \in Live(db) : db[i].cluster = c}
    IN /\ DOMAIN cache[c] = L
       /\ \A i \in L : cache[c][i].parent_id = ParentId(db, i)

\* A limit it has for a user is the one the user inherits in the database; a
\* user it was told of without a limit has NO_VAL until then.
LimitsAgree ==
  \A c \in fresh : \A i \in DOMAIN cache[c] :
    cache[c][i].user # "" /\ i \in DOMAIN db =>
      cache[c][i].mj \in {NoVal, EffectiveLimit(db, i)}

\* No call deletes an association that a job ran under, however deep below the
\* removed one it lies and however it got there.
JobsKeepAssoc == [][jobs \cap DOMAIN t \subseteq DOMAIN t']_vars

\* A controller that got every update has the associations of its cluster, their
\* parents and their limits as the database has them.
CacheAgrees == CacheTree /\ LimitsAgree
=============================================================================
