-------------------------------- MODULE Lists --------------------------------
(***************************************************************************)
(* A list with iterators (common/list.c).  Every call takes the mutex of    *)
(* the list, so that calls of several threads are single steps in any       *)
(* order; what a thread keeps between its calls is an iterator.             *)
(*                                                                         *)
(* The nodes are linked as in the code: next maps the place of a pointer    *)
(* (&l->head, or a node for &node->next) to the node it points at.  An      *)
(* iterator has pos, the node it will return next, and prev, the place      *)
(* before the node it returned last.                                        *)
(***************************************************************************)
EXTENDS Integers, FiniteSets, SeqOps

CONSTANTS
    Nodes,      \* memory for list nodes; a freed node is used again
    Key,        \* what list_sort and the find functions go by
    Iterators

Head0 == "head"         \* &l->head
Nil   == "NULL"

ASSUME ListsAssumption ==
    /\ Key \in [Nodes -> Nat] /\ IsFiniteSet(Nodes)
    /\ Head0 \notin Nodes /\ Nil \notin Nodes

VARIABLES
    next, tail, count,
    iter,       \* the iterators that exist: pos and prev
    due, got    \* of each: the nodes that it has still to return of those that
                \* were there when its pass began, and those it returned in it
lvars == <<next, tail, count, iter, due, got>>

Live == DOMAIN iter

\* The nodes from a place on, in order.
From[p \in {Head0, Nil} \cup Nodes] ==
    IF p = Nil \/ next[p] = Nil THEN <<>> ELSE <<next[p]>> \o From[next[p]]
InList == Elems(From[Head0])

\* A node is in the list or free.
Free == Nodes \ InList

list_create ==
    /\ next = [p \in {Head0} \cup Nodes |-> Nil] /\ tail = Head0 /\ count = 0
    /\ iter = <<>> /\ due = <<>> /\ got = <<>>

-----------------------------------------------------------------------------
\* list_node_create: p goes where pp points.  An iterator that stands there
\* stays behind the new node, one that is to return what follows it returns it
\* first.
list_node_create(pp, p) ==
    LET old == next[pp]
    IN  /\ next' = [q \in DOMAIN next |-> IF q = pp THEN p ELSE IF q = p THEN old ELSE next[q]]
        /\ tail' = IF old = Nil THEN p ELSE tail
        /\ count' = count + 1
        /\ iter' = [i \in Live |->
                      IF iter[i].prev = pp THEN [iter[i] EXCEPT !.prev = p]
                      ELSE IF iter[i].pos = old THEN [iter[i] EXCEPT !.pos = p]
                      ELSE iter[i]]
        /\ UNCHANGED <<due, got>>

\* Mutant: an iterator that returned p last keeps the place in it.
Unlinked_KeepPrev(nx, it, pp, p) == IF it.pos = p THEN [pos |-> nx[p], prev |-> pp] ELSE it

\* What list_node_destroy does to an iterator when it takes p from pp.
Unlinked(nx, it, pp, p) ==
    IF it.pos = p THEN [pos |-> nx[p], prev |-> pp]
    ELSE [pos |-> it.pos, prev |-> IF it.prev = p THEN pp ELSE it.prev]

List == [next |-> next, tail |-> tail, count |-> count, iter |-> iter, due |-> due, got |-> got]
Become(l) ==
    /\ next' = l.next /\ tail' = l.tail /\ count' = l.count
    /\ iter' = l.iter /\ due' = l.due /\ got' = l.got

\* list_node_destroy, with the list l.
Destroyed(l, pp) ==
    LET p == l.next[pp]
    IN  [next  |-> [q \in DOMAIN l.next |->
                      IF q = p THEN Nil ELSE IF q = pp THEN l.next[p] ELSE l.next[q]],
         tail  |-> IF l.next[p] = Nil THEN pp ELSE l.tail,
         count |-> l.count - 1,
         iter  |-> [i \in DOMAIN l.iter |-> Unlinked(l.next, l.iter[i], pp, p)],
         due   |-> [i \in DOMAIN l.iter |-> l.due[i] \ {p}],
         got   |-> [i \in DOMAIN l.iter |-> l.got[i] \ {p}]]
list_node_destroy(pp) == next[pp] # Nil /\ Become(Destroyed(List, pp))

\* list_append, list_enqueue.
list_append(p) == p \in Free /\ list_node_create(tail, p)

\* list_prepend, list_push.
list_prepend(p) == p \in Free /\ list_node_create(Head0, p)

\* list_pop, list_dequeue.
list_pop == list_node_destroy(Head0)

\* list_flush: list_pop until the list is empty, with the mutex held.
list_flush ==
    /\ count > 0
    /\ next' = [p \in {Head0} \cup Nodes |-> Nil] /\ tail' = Head0 /\ count' = 0
    /\ iter' = [i \in Live |-> [pos |-> Nil, prev |-> Head0]]
    /\ due' = [i \in Live |-> {}] /\ got' = [i \in Live |-> {}]

\* list_destroy frees nodes and iterators; the next list_create uses them again.
list_destroy ==
    /\ next' = [p \in {Head0} \cup Nodes |-> Nil] /\ tail' = Head0 /\ count' = 0
    /\ iter' = <<>> /\ due' = <<>> /\ got' = <<>>

\* list_delete_all: a turn of the loop for each node, at the place pp.
list_delete_all(k) ==
    LET s == From[Head0]
        turn[n \in 0..Len(s)] ==
            IF n = 0 THEN [l |-> List, pp |-> Head0]
            ELSE IF Key[s[n]] = k
                 THEN [l |-> Destroyed(turn[n-1].l, turn[n-1].pp), pp |-> turn[n-1].pp]
                 ELSE [l |-> turn[n-1].l, pp |-> s[n]]
    IN  (\E p \in InList : Key[p] = k) /\ Become(turn[Len(s)].l)

\* list_sort: by insertion behind the nodes that are not greater, so that equal
\* ones stay in order; and every iterator starts over.
list_sort ==
    LET s == From[Head0]
        Pos(p) == CHOOSE n \in DOMAIN s : s[n] = p
    IN  /\ count > 1
        /\ \E t \in [DOMAIN s -> InList] :
             /\ \A m, n \in DOMAIN t : m < n =>
                  \/ Key[t[m]] < Key[t[n]]
                  \/ Key[t[m]] = Key[t[n]] /\ Pos(t[m]) < Pos(t[n])
             /\ next' = [p \in {Head0} \cup Nodes |->
                           IF p = Head0 THEN t[1]
                           ELSE IF \E n \in 1..Len(s) - 1 : t[n] = p
                                THEN t[1 + CHOOSE n \in DOMAIN t : t[n] = p] ELSE Nil]
             /\ tail' = t[Len(s)]
             /\ iter' = [i \in Live |-> [pos |-> t[1], prev |-> Head0]]
             /\ due' = [i \in Live |-> Elems(t)]
             /\ got' = [i \in Live |-> {}]
        /\ UNCHANGED count

-----------------------------------------------------------------------------
(* Iterators.                                                               *)

\* list_iterator_create and list_iterator_reset.
list_iterator_create(i) ==
    /\ iter' = [j \in Live \cup {i} |-> IF j = i THEN [pos |-> next[Head0], prev |-> Head0] ELSE iter[j]]
    /\ due' = [j \in Live \cup {i} |-> IF j = i THEN InList ELSE due[j]]
    /\ got' = [j \in Live \cup {i} |-> IF j = i THEN {} ELSE got[j]]
    /\ UNCHANGED <<next, tail, count>>

list_iterator_destroy(i) ==
    /\ iter' = [j \in Live \ {i} |-> iter[j]]
    /\ due' = [j \in Live \ {i} |-> due[j]]
    /\ got' = [j \in Live \ {i} |-> got[j]]
    /\ UNCHANGED <<next, tail, count>>

\* list_next (list_find repeats it and gives the mutex up in between).
list_next(i) ==
    LET it == iter[i]
        p  == it.pos
    IN  /\ iter' = [iter EXCEPT ![i] =
                      [pos  |-> IF p = Nil THEN Nil ELSE next[p],
                       prev |-> IF next[it.prev] # p THEN next[it.prev] ELSE it.prev]]
        /\ due' = [due EXCEPT ![i] = @ \ {p}]
        /\ got' = [got EXCEPT ![i] = IF p = Nil THEN @ ELSE @ \cup {p}]
        /\ UNCHANGED <<next, tail, count>>

\* list_insert: before the node that was returned last.
list_insert(i, p) == p \in Free /\ list_node_create(iter[i].prev, p)

\* list_remove, list_delete_item: the node that was returned last.
list_remove(i) ==
    /\ next[iter[i].prev] # iter[i].pos
    /\ list_node_destroy(iter[i].prev)

ListStep ==
    \/ \E p \in Nodes : list_append(p)
    \/ \E p \in Nodes : list_prepend(p)
    \/ list_pop
    \/ list_flush
    \/ list_destroy
    \/ \E p \in Nodes : list_delete_all(Key[p])
    \/ list_sort
    \/ \E i \in Iterators : list_iterator_create(i)
    \/ \E i \in Live : list_iterator_destroy(i)
    \/ \E i \in Live : list_next(i)
    \/ \E i \in Live, p \in Nodes : list_insert(i, p)
    \/ \E i \in Live : list_remove(i)

ListSpec == list_create /\ [][ListStep]_lvars

-----------------------------------------------------------------------------
\* While other threads insert, remove and sort, a pass of an iterator returns
\* every node that stays in the list once and in order, and none that was
\* removed: what it has still to return lies ahead of it and what it returned
\* behind it, its two pointers are next to each other, and the list is one
\* chain that ends at tail and has count nodes.
EachOnce ==
    LET s == From[Head0]
    IN  /\ count = Len(s) /\ tail = (IF s = <<>> THEN Head0 ELSE s[Len(s)])
        /\ \A i \in Live :
             LET it    == iter[i]
                 ahead == IF it.pos = Nil THEN {} ELSE {it.pos} \cup Elems(From[it.pos])
             IN  /\ it.pos \in InList \cup {Nil} /\ it.prev \in InList \cup {Head0}
                 /\ it.pos = next[it.prev] \/ (next[it.prev] # Nil /\ it.pos = next[next[it.prev]])
                 /\ due[i] \subseteq ahead /\ got[i] \subseteq InList \ ahead
==============================================================================
