----------------------------- MODULE MCEntities -----------------------------
(***************************************************************************)
(* A small instance of Entities: clusters k, which is registered, and l;   *)
(* account a with account b below it; user u in b, who coordinates a, has a *)
(* wckey and may use QOS 1.                                                *)
(***************************************************************************)
EXTENDS Entities

MCUid == [root |-> 0, u |-> 1, v |-> 2]

Young == [deleted |-> 0, old |-> FALSE]

StartAssocs ==
  AddAssociations(AddCluster(<<>>, 1, <<>>, "k").t, 3, <<>>,
    <<Assoc("k", "a", "", "root"), Assoc("k", "b", "", "a"), Assoc("k", "b", "u", "")>>)

StartTables ==
  [users    |-> [root |-> [admin |-> 3, acct |-> "root", wckey |-> ""] @@ Young,
                 u    |-> [admin |-> 1, acct |-> "b", wckey |-> "w"] @@ Young],
   accts    |-> [root |-> [desc |-> ""] @@ Young, a |-> [desc |-> ""] @@ Young,
                 b |-> [desc |-> ""] @@ Young],
   coords   |-> <<"a", "u">> :> Young,
   wckeys   |-> 1 :> ([name |-> "w", cluster |-> "k", user |-> "u"] @@ Young),
   qos      |-> 1 :> ([name |-> "q", prio |-> 0] @@ Young),
   clusters |-> [k |-> [port |-> 1] @@ Young],
   assocs   |-> StartAssocs.t,
   raw      |-> [i \in DOMAIN StartAssocs.t |-> 1],
   aqos     |-> [i \in DOMAIN StartAssocs.t |-> IF i = 5 THEN {1} ELSE {}]]

MCTables == {[t |-> StartTables, next |-> [assoc |-> StartAssocs.id, wckey |-> 2, qos |-> 2]]}

MCScenarios ==
  {{"users"}, {"batch", "accts"}, {"coords", "accts", "day"}, {"wckeys", "boot"}, {"qos", "boot"},
   {"clusters"}, {"shares", "jobs"}, {"save"}}
=============================================================================
