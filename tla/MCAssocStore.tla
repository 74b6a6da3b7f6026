---------------------------- MODULE MCAssocStore ----------------------------
EXTENDS AssocStore

MC_Clusters == <<"k">>

Assoc(acct, user, parent, mj) ==
  [cluster |-> "k", acct |-> acct, user |-> user, parent |-> parent, mj |-> mj]

\* Account b under account a, user u in b.
MC_Start == <<Assoc("a", "", "root", 1), Assoc("b", "", "a", NoVal), Assoc("b", "u", "", NoVal)>>
=============================================================================
