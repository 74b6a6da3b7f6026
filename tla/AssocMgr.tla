------------------------------ MODULE AssocMgr ------------------------------
(***************************************************************************)
(* src/src/common/assoc_mgr.c: the lists of associations, users, QOS and   *)
(* wckeys that a slurmctld keeps of its cluster and slurmdbd of all, as    *)
(* operators on one manager m.  A call holds the lock of the list it works *)
(* on, so that a call is one step.                                         *)
(*                                                                         *)
(* A manager has                                                           *)
(*   cluster   assoc_mgr_cluster_name, "" in slurmdbd                      *)
(*   childern  setup_childern: the priority plugin is multifactor          *)
(*   have      the lists that exist (the others are NULL)                  *)
(*   assocs, wckeys, qos (by id), users (by name)   the lists              *)
(*   root      the id of assoc_mgr_root_assoc, 0 for NULL                  *)
(*   cached    running_cache: the lists come from the state file           *)
(*                                                                         *)
(* Ids and names are unique, so that the order of a list does not show.    *)
(* Of an association's counters used stands for those _clear_used_info     *)
(* resets and usage for usage_raw and grp_used_wall; its limits are in     *)
(* AssocStore.  parent is the id parent_assoc_ptr points to, 0 for NULL; a *)
(* pair stands for the quotient shares_norm.  Objects of an update have    *)
(* an id.  Partitions are left out.                                        *)
(***************************************************************************)
EXTENDS Integers, SequencesExt

CONSTANTS Uid   \* the uids of the names that have one (uid_from_string)

NO_VAL == -2
NOTSET == 0     \* ACCT_ADMIN_NOTSET
Kinds  == {"assocs", "users", "qos", "wckeys"}

UidOf(name) == IF name \in DOMAIN Uid THEN Uid[name] ELSE NO_VAL

NewManager(cluster, childern) ==
  [cluster |-> cluster, childern |-> childern, have |-> {}, assocs |-> <<>>,
   users |-> <<>>, qos |-> <<>>, wckeys |-> <<>>, root |-> 0, cached |-> FALSE]

Total(S, f(_)) == FoldSet(LAMBDA i, n : f(i) + n, 0, S)
Product(S, f(_)) == FoldSet(LAMBDA i, n : f(i) * n, 1, S)

-----------------------------------------------------------------------------
(* The tree of the associations *)

\* An association and those its parent pointers lead to.
Path(l, i) ==
  LET Up[n \in 0..Cardinality(DOMAIN l)] ==
        IF n = 0 THEN {i}
        ELSE LET Longer(S) == S \cup ({l[j].parent : j \in S} \cap DOMAIN l)
             IN Longer(Up[n - 1])
  IN Up[Cardinality(DOMAIN l)]

Childern(l, p) == {i \in DOMAIN l : l[i].parent = p}

\* _set_assoc_parent_and_user: a pointer whose parent is not in the list is
\* left as it was.
SetParent(l, i) ==
  [l[i] EXCEPT !.uid = UidOf(l[i].user),
               !.parent = CASE l[i].parent_id = 0 -> @
                            [] l[i].parent_id = i -> 0
                            [] l[i].parent_id \in DOMAIN l -> l[i].parent_id
                            [] OTHER -> @]

SetLevels(l) ==
  [i \in DOMAIN l |->
     IF l[i].parent \notin DOMAIN l THEN l[i]
     ELSE [l[i] EXCEPT !.level = Total(Childern(l, l[i].parent), LAMBDA j : l[j].raw)]]

\* _normalize_assoc_shares
Normalized(l, i) ==
  LET S == {j \in Path(l, i) : l[j].parent # 0}
  IN [l[i] EXCEPT !.norm = <<Product(S, LAMBDA j : l[j].raw), Product(S, LAMBDA j : l[j].level)>>]

Normalize(l) == [i \in DOMAIN l |-> Normalized(l, i)]

Shares(l, childern) == IF childern THEN Normalize(SetLevels(l)) ELSE l

\* The association without a parent; slurmdbd keeps the last of several.
RootOf(l, old) ==
  LET R == {i \in DOMAIN l : l[i].parent_id = 0}
  IN IF R = {} THEN old ELSE CHOOSE i \in R : \A j \in R : j <= i

\* _addto_used_info of the users' associations of `from` that are in l, to
\* themselves or not, and to all above them.
AddUsed(l, from, self) ==
  LET Below(p) == {u \in DOMAIN from \cap DOMAIN l :
                     /\ from[u].user # "" /\ p \in Path(l, u) /\ (self \/ p # u)}
  IN [p \in DOMAIN l |->
        [l[p] EXCEPT !.used  = @ + Total(Below(p), LAMBDA u : from[u].used),
                     !.usage = @ + Total(Below(p), LAMBDA u : from[u].usage)]]

ClearUsed(a) == [a EXCEPT !.used = 0]

-----------------------------------------------------------------------------
(* Loading: got is {} when the database gave no list, {list} otherwise *)

\* _post_association_list
PostAssocs(m, l) ==
  [m EXCEPT !.assocs = Shares([i \in DOMAIN l |-> SetParent(l, i)], m.childern),
            !.root = RootOf(l, @)]

PostUids(l) == [k \in DOMAIN l |-> [l[k] EXCEPT !.uid = UidOf(l[k].name)]]
PostWckeys(l) == [k \in DOMAIN l |-> [l[k] EXCEPT !.uid = UidOf(l[k].user)]]

With(m, kind, l) ==
  [(CASE kind = "assocs" -> PostAssocs(m, l)
      [] kind = "users"  -> [m EXCEPT !.users = PostUids(l)]
      [] kind = "qos"    -> [m EXCEPT !.qos = l]
      [] kind = "wckeys" -> [m EXCEPT !.wckeys = PostWckeys(l)])
   EXCEPT !.have = @ \cup {kind}]

\* _get_assoc_mgr_association_list and _get_local_wckey_list make an empty list
\* "so we don't keep calling this if there isn't anything there"; the other two
\* leave NULL.
GetList(m, kind, got) ==
  CASE got # {} -> With(m, kind, CHOOSE l \in got : TRUE)
    [] got = {} /\ kind \in {"assocs", "wckeys"} -> With(m, kind, <<>>)
    [] OTHER -> m

ListOrder == <<"assocs", "qos", "users", "wckeys">>

\* assoc_mgr_init when the state file is not used: the lists that are missing,
\* in this order, up to the first that is enforced and cannot be had.
GetLists(m, got, enforce) ==
  FoldLeft(LAMBDA s, kind :
             IF ~s.ok \/ kind \in s.m.have THEN s
             ELSE [m |-> GetList(s.m, kind, got[kind]), ok |-> got[kind] # {} \/ ~enforce],
           [m |-> m, ok |-> TRUE], ListOrder).m

\* _refresh_assoc_mgr_association_list: "we only look for the user associations
\* to do the parents since a parent may have moved".
RefreshAssocs(m, new) ==
  [new EXCEPT !.assocs = AddUsed(@, m.assocs, TRUE)]

\* The wckeys are given to _post_user_list, which takes their user for the name
\* of a user but writes the uid behind the record: their uid stays what it was.
RefreshList(m, kind, l) ==
  CASE kind = "assocs" -> RefreshAssocs(m, With(m, kind, l))
    [] kind = "wckeys" -> [m EXCEPT !.wckeys = l, !.have = @ \cup {kind}]
    [] OTHER           -> With(m, kind, l)

\* assoc_mgr_refresh_lists: nothing unless the lists come from the state file; a
\* list that cannot be had is kept and ends the refresh.
RefreshLists(m, got) ==
  LET r == FoldLeft(LAMBDA s, kind :
                      IF ~s.ok \/ got[kind] = {} THEN [s EXCEPT !.ok = FALSE]
                      ELSE [m |-> RefreshList(s.m, kind, CHOOSE l \in got[kind] : TRUE),
                            ok |-> TRUE],
                    [m |-> m, ok |-> TRUE], ListOrder)
  IN IF ~m.cached THEN m ELSE [r.m EXCEPT !.cached = ~r.ok]

-----------------------------------------------------------------------------
(* Updates.  A manager without the list ignores them: the list it gets later *)
(* has them.  Objects are taken from the front.                              *)

\* "only update the local clusters assocs"
Elsewhere(m, o) ==
  /\ "cluster" \in DOMAIN o
  /\ m.cluster # "" /\ o.cluster # m.cluster

Without(f, k) == [i \in DOMAIN f \ {k} |-> f[i]]

NewAssoc(o) ==
  [cluster |-> o.cluster, acct |-> o.acct, user |-> o.user, uid |-> NO_VAL,
   parent_id |-> o.parent_id, parent |-> 0, raw |-> o.raw, level |-> 0, norm |-> <<1, 1>>,
   qos |-> o.qos, used |-> 0, usage |-> 0]

\* s.l is the list and s.changed parents_changed.
UpdateAssoc(s, m, type, o) ==
  CASE Elsewhere(m, o) -> s
    [] type = "modify" /\ o.id \in DOMAIN s.l ->
         [l |-> [s.l EXCEPT ![o.id].raw = IF o.raw = NO_VAL THEN @ ELSE o.raw,
                            ![o.id].parent_id = IF o.parent_id = 0 THEN @ ELSE o.parent_id],
          changed |-> s.changed \/ (m.childern /\ o.raw # NO_VAL) \/ o.parent_id # 0]
    [] type = "add" /\ o.id \notin DOMAIN s.l ->
         [l |-> s.l @@ (o.id :> NewAssoc(o)), changed |-> TRUE]
    [] type = "remove" /\ o.id \in DOMAIN s.l ->
         [l |-> Without(s.l, o.id), changed |-> s.changed \/ m.childern]
    [] OTHER -> s

\* The used information of the accounts is not reset before it is added up.
Rebuild_NoReset(m, l) ==
  [m EXCEPT !.assocs = Shares(AddUsed([i \in DOMAIN l |-> SetParent(l, i)], l, FALSE), m.childern)]

\* "we have to do this after the entire list is processed since we may have
\* added the parent which wasn't in the list before".  The root "never changes".
Rebuild(m, l) ==
  LET Reset(i) == IF i = m.root THEN l[i]
                  ELSE IF l[i].user # "" THEN SetParent(l, i)
                  ELSE [ClearUsed(SetParent(l, i)) EXCEPT !.usage = 0]
  IN [m EXCEPT !.assocs = Shares(AddUsed([i \in DOMAIN l |-> Reset(i)], l, FALSE), m.childern),
               !.root = RootOf(l, @)]

UpdateAssocs(m, type, objects) ==
  LET s == FoldLeft(LAMBDA x, o : UpdateAssoc(x, m, type, o),
                    [l |-> m.assocs, changed |-> FALSE], objects)
  IN IF "assocs" \notin m.have THEN m
     ELSE IF s.changed THEN Rebuild(m, s.l) ELSE [m EXCEPT !.assocs = s.l]

UpdateWckey(m, type, o) ==
  CASE Elsewhere(m, o) -> m
    [] type = "add_wckey" /\ o.id \notin DOMAIN m.wckeys ->
         [m EXCEPT !.wckeys = @ @@ (o.id :> [id |-> o.id, cluster |-> o.cluster, name |-> o.name,
                                             user |-> o.user, uid |-> UidOf(o.user)])]
    [] type = "remove_wckey" -> [m EXCEPT !.wckeys = Without(@, o.id)]
    [] OTHER -> m

\* A field of a user that is "" (NULL) or NOTSET is not changed; the coordinator
\* list is complete ("we always get a complete list here").
UpdateUser(m, type, o) ==
  LET Given(new, old, none) == IF new = none THEN old ELSE new
  IN CASE type = "modify_user" /\ o.name \in DOMAIN m.users ->
            [m EXCEPT !.users[o.name] =
               [@ EXCEPT !.default_acct = Given(o.default_acct, @, ""),
                         !.default_wckey = Given(o.default_wckey, @, ""),
                         !.admin = Given(o.admin, @, NOTSET)]]
       [] type = "add_user" /\ o.name \notin DOMAIN m.users ->
            [m EXCEPT !.users = @ @@ (o.name :>
               [name |-> o.name, uid |-> UidOf(o.name), admin |-> o.admin, coords |-> {},
                default_acct |-> o.default_acct, default_wckey |-> o.default_wckey])]
       [] type = "remove_user" -> [m EXCEPT !.users = Without(@, o.name)]
       [] type \in {"add_coord", "remove_coord"} /\ o.name \in DOMAIN m.users ->
            [m EXCEPT !.users[o.name].coords = o.coords]
       [] OTHER -> m

\* ACCT_MODIFY_QOS is not done yet ("FIX ME").  A removed QOS leaves the
\* associations too.
UpdateQos(m, type, o) ==
  CASE type = "add_qos" /\ o.id \notin DOMAIN m.qos -> [m EXCEPT !.qos = @ @@ (o.id :> o)]
    [] type = "remove_qos" ->
         [m EXCEPT !.qos = Without(@, o.id),
                   !.assocs = [i \in DOMAIN @ |-> [@[i] EXCEPT !.qos = @ \ {o.id}]]]
    [] OTHER -> m

All(m, kind, f(_, _), objects) ==
  IF kind \in m.have THEN FoldLeft(f, m, objects) ELSE m

\* The switch of acct_storage_p_commit, which slurmctld has too.
UpdateGroup(m, g) ==
  CASE g.type \in {"add", "modify", "remove"} -> UpdateAssocs(m, g.type, g.objects)
    [] g.type \in {"add_user", "modify_user", "remove_user", "add_coord", "remove_coord"} ->
         All(m, "users", LAMBDA x, o : UpdateUser(x, g.type, o), g.objects)
    [] g.type \in {"add_qos", "modify_qos", "remove_qos"} ->
         All(m, "qos", LAMBDA x, o : UpdateQos(x, g.type, o), g.objects)
    [] g.type \in {"add_wckey", "remove_wckey"} ->
         All(m, "wckeys", LAMBDA x, o : UpdateWckey(x, g.type, o), g.objects)

UpdateManager(m, update_list) == FoldLeft(UpdateGroup, m, update_list)

\* assoc_mgr_clear_used_info
ClearUsedInfo(m) == [m EXCEPT !.assocs = [i \in DOMAIN @ |-> ClearUsed(@[i])]]

-----------------------------------------------------------------------------
(* Lookups: the records that a list in any order may give *)

\* assoc_mgr_fill_in_user by uid; found without one by name.
FillInUser(m, uid) == {n \in DOMAIN m.users : m.users[n].uid = uid}

\* assoc_mgr_fill_in_assoc without an id; acct "" is the user's default account.
FillInAssoc(m, uid, acct, cluster) ==
  LET A == IF acct # "" THEN {acct}
           ELSE {m.users[n].default_acct : n \in FillInUser(m, uid)}
  IN {i \in DOMAIN m.assocs :
        /\ m.assocs[i].uid = uid
        /\ m.assocs[i].acct \in A
        /\ m.cluster = "" => m.assocs[i].cluster = cluster}

\* assoc_mgr_fill_in_wckey without an id; name "" is the user's default wckey.
FillInWckey(m, uid, name, cluster) ==
  LET N == IF name # "" THEN {name}
           ELSE {m.users[n].default_wckey : n \in FillInUser(m, uid)}
  IN {i \in DOMAIN m.wckeys :
        /\ m.wckeys[i].uid = uid
        /\ m.wckeys[i].name \in N
        /\ m.cluster = "" => m.wckeys[i].cluster = cluster}

\* assoc_mgr_fill_in_qos by name, and assoc_mgr_get_user_assocs.
FillInQos(m, name)       == {i \in DOMAIN m.qos : m.qos[i].name = name}
GetUserAssocs(m, uid)    == {i \in DOMAIN m.assocs : m.assocs[i].uid = uid}

\* assoc_mgr_get_admin_level
GetAdminLevel(m, uid) ==
  LET U == FillInUser(m, uid)
  IN IF U = {} THEN NOTSET ELSE m.users[CHOOSE n \in U : TRUE].admin

\* assoc_mgr_is_user_acct_coord
IsUserAcctCoord(m, uid, acct) ==
  \E n \in FillInUser(m, uid) : \E c \in m.users[n].coords : c.name = acct

\* assoc_mgr_validate_assoc_id with associations enforced
ValidateAssocId(m, id) == id \in DOMAIN m.assocs

\* assoc_mgr_get_shares of the accounts and users given, {} for all; seer is {}
\* or the user who may only see what is his own or what he coordinates.
GetShares(m, accts, users, seer) ==
  LET Sees(i) == \A n \in seer :
                   \/ m.assocs[i].user = n
                   \/ \E c \in m.users[n].coords : c.name = m.assocs[i].acct
      S == {i \in DOMAIN m.assocs :
              /\ users # {} /\ m.assocs[i].user # "" => m.assocs[i].user \in users
              /\ accts # {} => m.assocs[i].acct \in accts
              /\ Sees(i)}
  IN [i \in S |-> [raw   |-> IF i = m.root THEN NO_VAL ELSE m.assocs[i].raw,
                   norm  |-> m.assocs[i].norm,
                   usage |-> m.assocs[i].usage]]

-----------------------------------------------------------------------------
(* The state files *)

\* What dump_assoc_mgr_state packs: no used information, no pointers.
Packed(m) ==
  [have   |-> m.have,
   assocs |-> [i \in DOMAIN m.assocs |->
                 [m.assocs[i] EXCEPT !.parent = 0, !.level = 0, !.norm = <<1, 1>>,
                                     !.used = 0, !.usage = 0]],
   users  |-> m.users, qos |-> m.qos, wckeys |-> m.wckeys]

PackedUsage(m) ==
  [i \in {j \in DOMAIN m.assocs : m.assocs[j].user # ""} |-> m.assocs[i].usage]

\* load_assoc_mgr_state: each list that was packed replaces the one there is.
LoadState(m, f) ==
  LET Take(x, kind) == IF kind \notin f.have THEN x
                       ELSE IF kind = "wckeys"
                       THEN [x EXCEPT !.wckeys = f.wckeys, !.have = @ \cup {kind}]
                       ELSE With(x, kind, f[kind])
  IN [FoldLeft(Take, m, <<"assocs", "users", "qos", "wckeys">>) EXCEPT !.cached = TRUE]

\* load_assoc_usage: to the association and those above it, except the root.
LoadUsage(m, f) ==
  LET Below(p) == {u \in DOMAIN f \cap DOMAIN m.assocs :
                     p \in Path(m.assocs, u) /\ (p = m.root => p = u)}
  IN [m EXCEPT !.assocs = [p \in DOMAIN @ |->
        [@[p] EXCEPT !.usage = @ + Total(Below(p), LAMBDA u : f[u])]]]

\* Mutant: the regular file is unlinked though nothing was linked to the old one.
Shuffle_NoOld(files, step, content, linked) ==
  CASE step = 1 -> [files EXCEPT !.new = content]
    [] step = 2 -> [files EXCEPT !.old = <<>>]
    [] step = 3 -> files
    [] step = 4 -> [files EXCEPT !.reg = <<>>]
    [] step = 5 -> [files EXCEPT !.reg = IF @ = <<>> /\ linked THEN files.new ELSE @]
    [] step = 6 -> [files EXCEPT !.new = <<>>]

\* The steps of a save: write new, unlink old, link reg to old, unlink reg, link
\* new to reg, unlink new.  <<>> is no file; link fails when the name is taken, or
\* for any reason (~linked), and the save goes on.
Shuffle(files, step, content, linked) ==
  CASE step = 1 -> [files EXCEPT !.new = content]
    [] step = 2 -> [files EXCEPT !.old = <<>>]
    [] step = 3 -> [files EXCEPT !.old = IF @ = <<>> /\ linked THEN files.reg ELSE @]
    [] step = 4 -> [files EXCEPT !.reg = <<>>]
    [] step = 5 -> [files EXCEPT !.reg = IF @ = <<>> /\ linked THEN files.new ELSE @]
    [] step = 6 -> [files EXCEPT !.new = <<>>]
=============================================================================
