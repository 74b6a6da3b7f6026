----------------------------- MODULE AssocTable -----------------------------
(***************************************************************************)
(* The statements accounting_storage_mysql.c makes on assoc_table, as      *)
(* functions on the table.  Associations form a tree per cluster: an       *)
(* account lies under parent_acct, a user under its account, and the       *)
(* columns lft and rgt number the tree so that a row's subtree is the rows *)
(* whose lft is between its own lft and rgt.  All clusters share one line  *)
(* of numbers.  deleted is 0 or 1, plus 2 while a row is being added (2)   *)
(* or moved (2, 3).                                                        *)
(*                                                                         *)
(* mj stands for the limits that users inherit (max_jobs and its like).    *)
(***************************************************************************)
EXTENDS Integers, SequencesExt

NoVal    == -2   \* NO_VAL: leave the limit as it is
Infinite == -1   \* INFINITE in a request, NULL in the table: no limit

IdsOf(T, cluster, acct, user) ==
  {i \in DOMAIN T : /\ T[i].cluster = cluster
                    /\ T[i].acct = acct
                    /\ T[i].user = user}
Live(T)          == {i \in DOMAIN T : T[i].deleted = 0}
Within(T, l, r)  == {i \in DOMAIN T : T[i].lft \in l..r}
SubTree(T, i)    == Within(T, T[i].lft, T[i].rgt)
InOrder(T, S)    ==   \* order by lft
  LET Before(j, i) == T[j].lft < T[i].lft \/ (T[j].lft = T[i].lft /\ j < i)
  IN [n \in 1..Cardinality(S) |->
        CHOOSE i \in S : Cardinality({j \in S : Before(j, i)}) = n - 1]
The(S)           == CHOOSE i \in S : TRUE

\* The account a row lies under, "" for the root of a cluster.
ParentName(r) == IF r.user = "" THEN r.parent ELSE r.acct

-----------------------------------------------------------------------------
(* _move_account and _move_parent *)

\* The room is made without "deleted < 2": in the moved rows too.
MoveRow_All(r, lft, rgt, par_left) ==
  LET width == rgt - lft + 1
      diff  == par_left + 1 - lft
      Place(x) == LET gone == IF r.lft \in lft..rgt THEN x + diff ELSE x
                      made == IF gone > par_left THEN gone + width ELSE gone
                  IN IF made > (IF diff < 0 THEN rgt ELSE lft) THEN made - width ELSE made
  IN [r EXCEPT !.lft = Place(@), !.rgt = Place(@)]

\* What the first six statements of _move_account make of a row, when the rows
\* from lft to rgt go directly behind par_left.
MoveRow(r, lft, rgt, par_left) ==
  LET width == rgt - lft + 1
      diff  == par_left + 1 - lft
      moves == r.lft \in lft..rgt
      mark  == IF moves THEN r.deleted + 2 ELSE r.deleted
      Place(x) ==
        LET gone == IF moves THEN x + diff ELSE x
            made == IF mark < 2 /\ gone > par_left THEN gone + width ELSE gone
        IN IF \/ diff < 0 /\ made > rgt /\ mark < 2
              \/ diff > 0 /\ made > lft
           THEN made - width ELSE made
  IN [r EXCEPT !.lft = Place(@), !.rgt = Place(@),
               !.deleted = IF mark > 1 THEN mark - 2 ELSE mark]

MoveAccount(T, i, lft, rgt, cluster, parent) ==
  LET P == IdsOf(T, cluster, parent, "")
      par_left == T[The(P)].lft
  IN IF P = {} THEN T
     ELSE IF par_left + 1 = lft THEN T
     ELSE [[j \in DOMAIN T |-> MoveRow(T[j], lft, rgt, par_left)]
             EXCEPT ![i].parent = parent]

\* lft, rgt and old_parent are what the caller selected, maybe some moves ago.
MoveParent(T, i, lft, rgt, old_parent, new_parent) ==
  LET Child == {j \in Within(T, lft, rgt) : T[j].acct = new_parent /\ T[j].user = ""}
      Move(S, j, parent) == MoveAccount(S, j, S[j].lft, S[j].rgt, T[i].cluster, parent)
  IN Move(IF Child = {} THEN T ELSE Move(T, Head(InOrder(T, Child)), old_parent),
          i, new_parent)

-----------------------------------------------------------------------------
(* The limits: _setup_association_limits, get_parent_limits, get_associations *)

SetLimit(old, mj) == IF mj = NoVal THEN old ELSE mj

\* What get_parent_limits finds from an account upwards: the first limit that
\* is set.  It asks for rows that are deleted too.
ParentLimit(T, cluster, acct) ==
  LET N == Cardinality(DOMAIN T)
      Up[n \in 0..N, a \in {T[i].acct : i \in DOMAIN T}] ==
        LET r == T[The(IdsOf(T, cluster, a, ""))]
        IN IF r.mj # Infinite \/ r.parent = "" \/ n = 0 THEN r.mj
           ELSE Up[n - 1, r.parent]
  IN Up[N, acct]

EffectiveLimit(T, i) ==
  IF T[i].mj # Infinite \/ ParentName(T[i]) = "" THEN T[i].mj
  ELSE ParentLimit(T, T[i].cluster, ParentName(T[i]))

ParentId(T, i) ==
  IF ParentName(T[i]) = "" THEN 0
  ELSE The(IdsOf(T, T[i].cluster, ParentName(T[i]), ""))

\* The live associations, as acct_storage_p_get_associations returns them.
GetAssociations(T) ==
  [i \in Live(T) |->
    [id |-> i, cluster |-> T[i].cluster, acct |-> T[i].acct, user |-> T[i].user,
     parent_id |-> ParentId(T, i), mj |-> EffectiveLimit(T, i)]]

-----------------------------------------------------------------------------
(* _addto_update_list: what the controllers will be told.  Objects of a type *)
(* are kept together, the latest first.                                      *)

AddTo(upd, type, object) ==
  IF \E g \in DOMAIN upd : upd[g].type = type
  THEN [g \in DOMAIN upd |->
          IF upd[g].type = type
          THEN [upd[g] EXCEPT !.objects = <<object>> \o @] ELSE upd[g]]
  ELSE Append(upd, [type |-> type, objects |-> <<object>>])

AddAllTo(upd, type, objects) ==
  FoldLeft(LAMBDA u, o : AddTo(u, type, o), upd, objects)

\* The new parents are not sent.
SendTree_Nothing(T, upd) == upd

\* "send the whole tree because we could have some limits that were affected"
SendTree(T, upd) ==
  LET G == GetAssociations(T)
      s == InOrder(T, DOMAIN G)
  IN AddAllTo(upd, "modify", [n \in DOMAIN s |-> G[s[n]]])

-----------------------------------------------------------------------------
(* acct_storage_p_add_associations and acct_storage_p_add_clusters *)

\* The rows of a group were inserted one behind the other at left with
\* deleted = 2: now the rows behind left make room for them.
Flush(T, incr, left) ==
  LET Place(x) == IF x > left THEN x + incr ELSE x
  IN IF incr = 0 THEN T
     ELSE [i \in DOMAIN T |->
             IF T[i].deleted < 2
             THEN [T[i] EXCEPT !.lft = Place(@), !.rgt = Place(@)]
             ELSE [T[i] EXCEPT !.deleted = IF @ = 2 THEN 0 ELSE @]]

GivenParent(o) == IF o.parent # "" THEN o.parent
                  ELSE IF o.user # "" THEN o.acct ELSE "root"

\* The loop's variables: t the table, id the next id, incr and left the group
\* being added (grp = <<parent, cluster>>), last and par the parent looked up
\* last, upd the update list, moved = moved_parent, ok = (rc = SLURM_SUCCESS).
AddLoop(T, id, upd) ==
  [t |-> T, id |-> id, incr |-> 0, left |-> 0, grp |-> <<>>, last |-> <<>>,
   par |-> 0, upd |-> upd, moved |-> FALSE, ok |-> TRUE]

\* The end of a turn: parent_id of the object, and the object for controllers.
Announce(s, o, i) ==
  LET grp == <<GivenParent(o), o.cluster>>
      P   == IdsOf(s.t, o.cluster, GivenParent(o), "") \cap Live(s.t)
      new == ~s.moved /\ s.last # grp /\ P # {}
      par == IF new THEN The(P) ELSE s.par
  IN [s EXCEPT !.par  = par,
               !.last = IF new THEN grp ELSE @,
               !.upd  = AddTo(@, "add", [id |-> i, cluster |-> o.cluster, acct |-> o.acct,
                                         user |-> o.user, parent_id |-> par, mj |-> o.mj])]

Insert(s, o) ==
  LET grp  == <<GivenParent(o), o.cluster>>
      new  == s.grp # grp
      T    == IF new THEN Flush(s.t, s.incr, s.left) ELSE s.t
      P    == IdsOf(T, o.cluster, GivenParent(o), "")
      left == IF new THEN T[The(P)].lft ELSE s.left
      incr == (IF new THEN 0 ELSE s.incr) + 2
      row  == [cluster |-> o.cluster, acct |-> o.acct, user |-> o.user,
               parent |-> IF o.user = "" THEN GivenParent(o) ELSE "",
               lft |-> left + incr - 1, rgt |-> left + incr, deleted |-> 2,
               old |-> FALSE, mj |-> SetLimit(Infinite, o.mj)]
  IN IF new /\ P = {} THEN [s EXCEPT !.ok = FALSE]
     ELSE Announce([s EXCEPT !.t = T @@ (s.id :> row), !.id = @ + 1, !.grp = grp,
                             !.left = left, !.incr = incr], o, s.id)

\* The association was deleted: "we have kept the lft and rgt's constant".
Revive(s, o, i) ==
  LET r     == s.t[i]
      moves == o.parent \notin {"", r.parent}
      T     == IF moves THEN MoveParent(s.t, i, r.lft, r.rgt, r.parent, o.parent)
               ELSE s.t
  IN Announce([s EXCEPT !.moved = @ \/ moves,
                 !.t = [T EXCEPT ![i].deleted = 0,
                                 ![i].parent = IF o.user = "" THEN GivenParent(o) ELSE @,
                                 ![i].mj = SetLimit(@, o.mj)]], o, i)

AddOne(s, o) ==
  LET F == IdsOf(s.t, o.cluster, o.acct, o.user)
  IN IF ~s.ok THEN s
     ELSE IF F = {} THEN Insert(s, o)
     ELSE IF s.t[The(F)].deleted = 0 THEN s
     ELSE Revive(s, o, The(F))

\* The end of a call that leaves the table T: the controllers hear of moves.
Tell(s, T) == [s EXCEPT !.t = T, !.upd = IF s.moved THEN SendTree(T, @) ELSE @]

LastGroup(s) == Tell(s, Flush(s.t, s.incr, s.left))

AddAssociations(T, id, upd, list) ==
  LastGroup(FoldLeft(AddOne, AddLoop(T, id, upd), list))

\* A cluster gets its root account behind everything else, and user root in it.
AddCluster(T, id, upd, cluster) ==
  LET max  == Max({0} \cup {T[i].rgt : i \in DOMAIN T})
      root == [cluster |-> cluster, acct |-> "root", user |-> "", parent |-> "",
               lft |-> max + 1, rgt |-> max + 2, deleted |-> 0, old |-> FALSE,
               mj |-> Infinite]
  IN AddAssociations(T @@ (id :> root), id + 1, upd,
       <<[cluster |-> cluster, acct |-> "root", user |-> "root", parent |-> "",
          mj |-> NoVal]>>)

-----------------------------------------------------------------------------
(* acct_storage_p_modify_associations *)

\* Limits that the users or accounts below have themselves are not looked at.
UnsetUsers_All(T, acct, lft, rgt) ==
  {i \in Within(T, lft, rgt) \cap Live(T) : T[i].user # ""}

\* The users _modify_unset_users reaches from an account: those that inherit
\* its limit over accounts that have none of their own.
UnsetUsers(T, acct, lft, rgt) ==
  LET C == {i \in Within(T, lft, rgt) \cap Live(T) : T[i].mj = Infinite}
      A[n \in 0..Cardinality(C)] ==
        IF n = 0 THEN {acct}
        ELSE A[n - 1] \cup {T[i].acct : i \in {j \in C : /\ T[j].user = ""
                                                       /\ T[j].parent \in A[n - 1]}}
  IN {i \in C : T[i].user # "" /\ T[i].acct \in A[Cardinality(C)]}

Modified(i, mj) == [id |-> i, parent_id |-> 0, mj |-> mj]

\* One row of the selection S; sel is the table when it was selected.
ModifyOne(s, i, sel, parent, mj) ==
  LET r     == sel[i]
      moves == r.user = "" /\ parent # ""
      T     == IF moves THEN MoveParent(s.t, i, r.lft, r.rgt, r.parent, parent) ELSE s.t
      moved == s.moved \/ moves
      kids  == IF r.user = "" /\ mj # NoVal /\ ~moved
               THEN InOrder(T, UnsetUsers(T, r.acct, r.lft, r.rgt)) ELSE <<>>
  IN IF moves /\ r.acct = parent THEN s    \* "You can't make an account be a child of it's self"
     ELSE [t |-> T, moved |-> moved, ids |-> s.ids \cup {i},
           upd |-> AddAllTo(AddTo(s.upd, "modify", Modified(i, mj)),
                            "modify", [n \in DOMAIN kids |-> Modified(kids[n], mj)])]

\* One update sets the limits of all the rows modified.
SetLimits(s, mj) ==
  Tell(s, [i \in DOMAIN s.t |-> IF i \in s.ids /\ s.t[i].deleted = 0
                                THEN [s.t[i] EXCEPT !.mj = SetLimit(@, mj)] ELSE s.t[i]])

ModifyAssociations(T, upd, S, parent, mj) ==
  SetLimits(FoldLeft(LAMBDA x, i : ModifyOne(x, i, T, parent, mj),
                     [t |-> T, moved |-> FALSE, ids |-> {}, upd |-> upd], InOrder(T, S)), mj)

-----------------------------------------------------------------------------
(* _remove_common *)

\* A row and all below it are deleted and the gap is closed.
DeleteRow(T, i) ==
  LET l == T[i].lft
      r == T[i].rgt
      Place(x) == IF x > r THEN x - (r - l + 1) ELSE x
  IN IF i \notin DOMAIN T THEN T
     ELSE [j \in DOMAIN T \ SubTree(T, i) |->
             [T[j] EXCEPT !.lft = Place(@), !.rgt = Place(@)]]

Removed(T, loc) ==
  [i \in DOMAIN T |->
     IF i \in loc THEN [T[i] EXCEPT !.deleted = 1, !.mj = Infinite] ELSE T[i]]

\* loc are the rows to remove; without jobs the young ones go for good.
RemoveCommon(T, upd, loc, has_jobs) ==
  LET ids   == InOrder(T, {i \in loc : ~T[i].old})
      kept  == IF has_jobs THEN T ELSE FoldLeft(DeleteRow, T, ids)
  IN [t   |-> Removed(kept, loc),
      upd |-> AddAllTo(upd, "remove",
                [n \in 1..Cardinality(loc) |-> [id |-> InOrder(T, loc)[n]]])]
=============================================================================
