------------------------------ MODULE Hostlist ------------------------------
(***************************************************************************)
(* Lists of host names kept as ranges (common/hostlist.c): n[8-10,12],login *)
(* is three ranges.  Every call locks the list, so that a call is a step.   *)
(*                                                                         *)
(* A name is a prefix, a number and the zeros before it.  What a caller     *)
(* passes is the parsed form of a host expression, a sequence of brackets   *)
(* with a prefix and ranges (_next_tok and strtoul do the parsing).  A      *)
(* width is the number of digits a number is padded to; making two widths   *)
(* equal (_width_equiv) changes no name and is left out.                    *)
(***************************************************************************)
EXTENDS Integers, SequencesExt

CONSTANTS
    Inputs,         \* host expressions
    MAX_RANGE,      \* the most hosts of one range
    HostIterators,
    MaxHosts        \* bound: the hosts of a list that is added to

ASSUME HostlistAssumption == MAX_RANGE \in Nat /\ MaxHosts \in Nat

VARIABLES
    hl,     \* the list: hr the ranges, nhosts, it the iterators (idx and depth)
    set,    \* it is a hostset, made by hostset_create
    torn    \* entries of hr are left that hold no range: the next call that
            \* meets one follows a freed or NULL pointer
hvars == <<hl, set, torn>>

-----------------------------------------------------------------------------
(* Ranges.                                                                  *)

\* The numbers of the model are below 100.
Digits(n) == IF n < 10 THEN 1 ELSE 2
_zero_padded(n, width) == IF width > Digits(n) THEN width - Digits(n) ELSE 0

\* _width_equiv, hostrange_width_combine: one width does for both numbers.
_width_equiv(n, wn, m, wm) ==
    \/ _zero_padded(n, wn) = _zero_padded(n, wm)
    \/ _zero_padded(m, wm) = _zero_padded(m, wn)
hostrange_width_combine(h0, h1) == _width_equiv(h0.lo, h0.width, h1.lo, h1.width)

hostrange_create_single(prefix) == [prefix |-> prefix, lo |-> 0, hi |-> 0, width |-> 0, single |-> TRUE]
hostrange_create(prefix, r) ==
    [prefix |-> prefix, lo |-> r.lo, hi |-> r.hi, width |-> r.width, single |-> FALSE]

hostrange_count(r) == IF r.single THEN 1 ELSE r.hi - r.lo + 1

\* The order of the prefixes; of two equal ones the single host comes last.
Bit(b) == IF b THEN 1 ELSE 0
hostrange_prefix_cmp(h1, h2) ==
    IF h1.prefix # h2.prefix THEN h1.prefix - h2.prefix ELSE Bit(h2.single) - Bit(h1.single)

hostrange_cmp(h1, h2) ==
    IF hostrange_prefix_cmp(h1, h2) # 0 THEN hostrange_prefix_cmp(h1, h2)
    ELSE IF hostrange_width_combine(h1, h2) THEN h1.lo - h2.lo
    ELSE h1.width - h2.width

\* They may stand in the same brackets.
hostrange_within_range(h1, h2) ==
    hostrange_prefix_cmp(h1, h2) = 0 /\ ~h1.single /\ ~h2.single

\* The name of the host at a depth of a range (_hostrange_string).
Name(prefix, n, pad) == [prefix |-> prefix, num |-> n, zeros |-> pad]
_hostrange_string(r, depth) ==
    IF r.single THEN Name(r.prefix, -1, 0)
    ELSE Name(r.prefix, r.lo + depth, _zero_padded(r.lo + depth, r.width))
RangeNames(r) == [d \in 1 .. hostrange_count(r) |-> _hostrange_string(r, d - 1)]

\* hostrange_hn_within; the width of a name is its zeros and its digits.
hostrange_hn_within(r, h) ==
    IF r.single THEN h = Name(r.prefix, -1, 0)
    ELSE /\ h.num # -1 /\ h.prefix = r.prefix
         /\ h.num \in r.lo .. r.hi
         /\ _width_equiv(r.lo, r.width, h.num, Digits(h.num) + h.zeros)

\* hostrange_join: the hosts that both had, or -1 when they do not meet; what
\* h1 becomes.
hostrange_join(h1, h2) ==
    IF hostrange_prefix_cmp(h1, h2) # 0 \/ ~hostrange_width_combine(h1, h2) THEN [dup |-> -1, hr |-> h1]
    ELSE IF h1.single THEN [dup |-> 1, hr |-> h1]
    ELSE IF h1.hi = h2.lo - 1 THEN [dup |-> 0, hr |-> [h1 EXCEPT !.hi = h2.hi]]
    ELSE IF h1.hi < h2.lo THEN [dup |-> -1, hr |-> h1]
    ELSE IF h1.hi < h2.hi THEN [dup |-> h1.hi - h2.lo + 1, hr |-> [h1 EXCEPT !.hi = h2.hi]]
    ELSE [dup |-> hostrange_count(h2), hr |-> h1]

\* hostrange_intersect: two ranges that share only their ends do not count.
Intersects(h1, h2) ==
    /\ ~h1.single /\ ~h2.single
    /\ hostrange_prefix_cmp(h1, h2) = 0 /\ h1.hi > h2.lo /\ hostrange_width_combine(h1, h2)

\* hostrange_delete_host: the ranges that are left of r without its number n.
hostrange_delete_host(r, n) ==
    CASE r.lo = r.hi               -> <<>>
      [] r.lo # r.hi /\ n = r.lo   -> <<[r EXCEPT !.lo = @ + 1]>>
      [] r.lo # r.hi /\ n = r.hi   -> <<[r EXCEPT !.hi = @ - 1]>>
      [] n # r.lo /\ n # r.hi      -> <<[r EXCEPT !.hi = n - 1], [r EXCEPT !.lo = n + 1]>>

-----------------------------------------------------------------------------
(* The array of ranges and the iterators that stand in it; its indices       *)
(* begin at 0 in the code, at 1 here.                                        *)

Reset == [idx |-> 1, depth |-> -1]
hostlist_new == [hr |-> <<>>, nhosts |-> 0, it |-> <<>>]

WithIt(l, F(_)) == [l EXCEPT !.it = [i \in DOMAIN l.it |-> F(l.it[i])]]

\* hostlist_insert_range.
hostlist_insert_range(l, r, n) ==
    WithIt([l EXCEPT !.hr = InsertAt(@, n, r)],
           LAMBDA i : IF i.idx >= n THEN [i EXCEPT !.idx = @ + 1] ELSE i)

\* hostlist_shift_iterators.
ShiftedIn(i, idx, depth) ==
    IF i.idx = idx /\ i.depth >= depth THEN [i EXCEPT !.depth = IF @ > -1 THEN @ - 1 ELSE -1] ELSE i
ShiftedBy(i, idx, n) ==
    IF i.idx < idx THEN i ELSE IF i.idx - n >= 1 THEN [i EXCEPT !.idx = @ - n] ELSE Reset

\* hostlist_delete_range.
hostlist_delete_range(l, n) ==
    WithIt([l EXCEPT !.hr = RemoveAt(@, n)], LAMBDA i : ShiftedBy(i, n, 1))

\* Mutant: ranges of different widths are joined.
hostlist_push_range_AnyWidth(l, r) ==
    LET n == Len(l.hr)
    IN  IF n > 0 /\ hostrange_prefix_cmp(l.hr[n], r) = 0 /\ l.hr[n].hi = r.lo - 1
        THEN [l EXCEPT !.hr = ReplaceAt(@, n, [l.hr[n] EXCEPT !.hi = r.hi]), !.nhosts = @ + hostrange_count(r)]
        ELSE [l EXCEPT !.hr = Append(@, r), !.nhosts = @ + hostrange_count(r)]

\* hostlist_push_range: joined to the last range when it continues it.
hostlist_push_range(l, r) ==
    LET n    == Len(l.hr)
        tail == l.hr[n]
    IN  IF /\ n > 0
           /\ hostrange_prefix_cmp(tail, r) = 0 /\ tail.hi = r.lo - 1
           /\ hostrange_width_combine(tail, r)
        THEN [l EXCEPT !.hr = ReplaceAt(@, n, [tail EXCEPT !.hi = r.hi]), !.nhosts = @ + hostrange_count(r)]
        ELSE [l EXCEPT !.hr = Append(@, r), !.nhosts = @ + hostrange_count(r)]

\* hostlist_push_list.
hostlist_push_list(l, rs) == FoldLeft(hostlist_push_range, l, rs)

\* The ranges a bracket stands for: the prefix has a bracket of its own at most,
\* which gives a prefix for each of its numbers (_push_range_list).
_push_range_list(l, b) ==
    FoldLeft(LAMBDA a, p : FoldLeft(LAMBDA c, r : hostlist_push_range(c, hostrange_create(p, r)), a, b.ranges),
             l, b.prefixes)

\* _parse_single_range.
_parse_single_range(r) == r.lo <= r.hi /\ r.hi - r.lo + 1 <= MAX_RANGE

\* _hostlist_create_bracketed: a bad range makes the whole expression fail.
Valid(e) == \A k \in DOMAIN e : e[k].host \/ \A j \in DOMAIN e[k].ranges : _parse_single_range(e[k].ranges[j])
_hostlist_create_bracketed(e) ==
    FoldLeft(LAMBDA l, b : IF b.host THEN hostlist_push_range(l, hostrange_create_single(b.prefixes[1]))
                           ELSE _push_range_list(l, b),
             hostlist_new, e)

\* hostlist_find: the place of the first host of that name, or -1.
CountTo(rs, n) == FoldLeft(LAMBDA a, r : a + hostrange_count(r), 0, SubSeq(rs, 1, n))
hostlist_find(l, h) ==
    LET within == {k \in DOMAIN l.hr : hostrange_hn_within(l.hr[k], h)}
        k      == Min(within)
    IN  IF within = {} THEN -1
        ELSE CountTo(l.hr, k - 1) + (IF h.num # -1 THEN h.num - l.hr[k].lo ELSE 0)

\* The range that holds the n-th host.
RangeOf(l, n) == Min({k \in DOMAIN l.hr : n < CountTo(l.hr, k)})
hostlist_nth(l, n) == _hostrange_string(l.hr[RangeOf(l, n)], n - CountTo(l.hr, RangeOf(l, n) - 1))

\* hostlist_delete_nth.
hostlist_delete_nth(l, n) ==
    LET k    == RangeOf(l, n)
        r    == l.hr[k]
        left == IF r.single THEN <<>> ELSE hostrange_delete_host(r, r.lo + n - CountTo(l.hr, k - 1))
        less == [l EXCEPT !.nhosts = @ - 1]
    IN  CASE Len(left) = 0 -> hostlist_delete_range(less, k)
          [] Len(left) = 1 -> [less EXCEPT !.hr = ReplaceAt(@, k, left[1])]
          [] Len(left) = 2 -> hostlist_insert_range([less EXCEPT !.hr = ReplaceAt(@, k, left[1])], left[2], k + 1)

\* hostlist_delete_host.
hostlist_delete_host(l, h) == IF hostlist_find(l, h) >= 0 THEN hostlist_delete_nth(l, hostlist_find(l, h)) ELSE l

\* qsort with hostrange_cmp, which leaves equal ranges in their order.
Sorted(rs) ==
    LET put(s, r) == InsertAt(s, Min({k \in DOMAIN s : hostrange_cmp(r, s[k]) < 0} \cup {Len(s) + 1}), r)
    IN  FoldLeft(put, <<>>, rs)

\* hostlist_collapse, from the last pair to the first.
hostlist_collapse(l) ==
    LET step(a, k) ==
          LET p == a.hr[k - 1]
              q == a.hr[k]
          IN  IF hostrange_prefix_cmp(p, q) = 0 /\ p.hi = q.lo - 1 /\ hostrange_width_combine(p, q)
              THEN hostlist_delete_range([a EXCEPT !.hr[k - 1].hi = q.hi], k) ELSE a
        n == Len(l.hr)
    IN  FoldLeft(step, l, [k \in 1 .. n - 1 |-> n + 1 - k])

\* One turn of hostlist_coalesce at a pair that intersects in lo .. hi: the
\* hosts that both have become ranges of one host between them.
Split(l, k) ==
    LET p   == l.hr[k - 1]
        q   == l.hr[k]
        hi  == Min({p.hi, q.hi})
        p2  == [p EXCEPT !.hi = q.lo]
        q2  == [q EXCEPT !.hi = IF hi < p.hi THEN p.hi ELSE @, !.lo = hi]
        one(n) == [p EXCEPT !.lo = n, !.hi = n]
        mid == FoldLeft(LAMBDA s, n : s \o (IF n > p2.hi THEN <<one(n)>> ELSE <<>>)
                                        \o (IF n < q2.lo THEN <<one(n)>> ELSE <<>>),
                        <<>>, [j \in 1 .. hi - q.lo + 1 |-> q.lo + j - 1])
        put(a, j) == hostlist_insert_range(a, mid[j], k + j - 1)
    IN  FoldLeft(put, [l EXCEPT !.hr[k - 1] = p2, !.hr[k] = q2], [j \in DOMAIN mid |-> j])

\* hostlist_coalesce, from the last pair to the first and again from the last
\* one after a split.
RECURSIVE Coalesced(_)
Coalesced(l) ==
    LET K == {k \in 2 .. Len(l.hr) : Intersects(l.hr[k - 1], l.hr[k])}
    IN  IF K = {} THEN l ELSE Coalesced(Split(l, Max(K)))
hostlist_coalesce(l) == hostlist_collapse(Coalesced(l))

\* _attempt_range_join.
_attempt_range_join(l, k) ==
    LET j == hostrange_join(l.hr[k - 1], l.hr[k])
    IN  [dup |-> j.dup,
         l   |-> IF j.dup < 0 THEN l
                 ELSE hostlist_delete_range([l EXCEPT !.hr[k - 1] = j.hr, !.nhosts = @ - j.dup], k)]

\* The loop of hostlist_uniq.
RECURSIVE Joined(_, _)
Joined(l, k) ==
    IF k > Len(l.hr) THEN l
    ELSE LET a == _attempt_range_join(l, k) IN IF a.dup < 0 THEN Joined(l, k + 1) ELSE Joined(a.l, k)
hostlist_uniq(l) ==
    IF Len(l.hr) <= 1 THEN l
    ELSE WithIt(Joined([l EXCEPT !.hr = Sorted(@)], 2), LAMBDA i : Reset)

\* hostset_insert_range: before the first range that is not smaller, which it
\* may join, as it may the one before.
hostset_insert_range(l, r) ==
    LET K == {k \in DOMAIN l.hr : hostrange_cmp(r, l.hr[k]) <= 0}
        k == Min(K)
        j == hostrange_join(r, l.hr[k])
        d == IF j.dup > 0 THEN j.dup ELSE 0
        put == hostlist_insert_range(IF j.dup >= 0 THEN hostlist_delete_range(l, k) ELSE l, j.hr, k)
        a == _attempt_range_join(put, k)
        m == IF k > 1 /\ a.dup > 0 THEN a.dup ELSE 0
        end == [l EXCEPT !.hr = Append(@, r), !.nhosts = @ + hostrange_count(r)]
    IN  IF K = {} THEN (IF Len(end.hr) > 1 THEN _attempt_range_join(end, Len(end.hr)).l ELSE end)
        ELSE [(IF k > 1 THEN a.l ELSE put) EXCEPT !.nhosts = @ + hostrange_count(r) - d - m]

-----------------------------------------------------------------------------
(* Strings.                                                                 *)

\* _get_bracketed_list: how many ranges from k on stand in one bracket.
BracketEnd(rs, k) ==
    Max({j \in k .. Len(rs) : \A i \in k + 1 .. j : hostrange_within_range(rs[i], rs[i - 1])})
_get_bracketed_list(rs, k) ==
    LET last == BracketEnd(rs, k)
    IN  [host |-> rs[k].single, prefixes |-> <<rs[k].prefix>>,
         ranges |-> IF rs[k].single THEN <<>>
                    ELSE [j \in 1 .. last + 1 - k |->
                            [lo |-> rs[k + j - 1].lo, hi |-> rs[k + j - 1].hi, width |-> rs[k + j - 1].width]]]

\* hostlist_ranged_string, as the expression it can be parsed to.
RECURSIVE Brackets(_, _)
Brackets(rs, k) == IF k > Len(rs) THEN <<>> ELSE <<_get_bracketed_list(rs, k)>> \o Brackets(rs, BracketEnd(rs, k) + 1)
hostlist_ranged_string(l) == Brackets(l.hr, 1)

\* hostlist_deranged_string: all the names.
hostlist_deranged_string(l) == FlattenSeq([k \in DOMAIN l.hr |-> RangeNames(l.hr[k])])

-----------------------------------------------------------------------------
(* The calls.                                                               *)

Update(l) == hl' = l /\ UNCHANGED <<set, torn>>

\* hostlist_create or hostset_create; a bad expression makes no list.
hostlist_create(e) == Valid(e) /\ hl = _hostlist_create_bracketed(e) /\ set = FALSE /\ torn = FALSE
hostset_create(e)  == Valid(e) /\ hl = hostlist_uniq(_hostlist_create_bracketed(e)) /\ set = TRUE /\ torn = FALSE
HostlistInit == \E e \in Inputs : hostlist_create(e) \/ hostset_create(e)

\* hostlist_push, hostlist_push_host.
hostlist_push(l, e) == hostlist_push_list(l, _hostlist_create_bracketed(e).hr)
hostset_insert(l, e) == FoldLeft(hostset_insert_range, l, hostlist_uniq(_hostlist_create_bracketed(e)).hr)
Push(e) ==
    /\ Valid(e)
    /\ hl.nhosts \in 0 .. MaxHosts - _hostlist_create_bracketed(e).nhosts
    /\ \/ ~set /\ Update(hostlist_push(hl, e))
       \/ set /\ Update(hostset_insert(hl, e))

\* hostlist_pop: the iterators are not told.
hostlist_pop(l) ==
    LET n == Len(l.hr)
        r == l.hr[n]
    IN  [l EXCEPT !.nhosts = @ - 1,
                  !.hr = IF hostrange_count(r) = 1 THEN Front(@) ELSE ReplaceAt(@, n, [r EXCEPT !.hi = @ - 1])]
Pop == hl.nhosts > 0 /\ Update(hostlist_pop(hl))

hostlist_shift(l) ==
    LET r    == l.hr[1]
        less == [l EXCEPT !.nhosts = @ - 1]
    IN  IF hostrange_count(r) = 1 THEN hostlist_delete_range(less, 1)
        ELSE WithIt([less EXCEPT !.hr = ReplaceAt(@, 1, [r EXCEPT !.lo = @ + 1])], LAMBDA i : ShiftedIn(i, 1, 0))
Shift == hl.nhosts > 0 /\ Update(hostlist_shift(hl))

\* hostlist_delete: the hosts of the expression from the last to the first.
hostlist_delete(l, e) ==
    FoldRight(LAMBDA h, a : hostlist_delete_host(a, h),
              hostlist_deranged_string(_hostlist_create_bracketed(e)), l)
Delete(e) == Valid(e) /\ Update(hostlist_delete(hl, e))

\* The ranges s are taken out at one end.  They are collected in a new list,
\* which may join some of them, and the array is cut by as many as it has.
Taken(s) == hostlist_push_list(hostlist_new, s)

PopRange ==
    LET n == Len(hl.hr)
        K == {k \in 1 .. n : \A i \in k .. n - 1 : hostrange_within_range(hl.hr[n], hl.hr[i])}
        t == Taken(SubSeq(hl.hr, Min(K), n))
    IN  /\ n > 0
        /\ torn' = (Len(t.hr) # n + 1 - Min(K))
        /\ hl' = [hl EXCEPT !.hr = SubSeq(@, 1, Min(K) - 1), !.nhosts = @ - t.nhosts]
        /\ UNCHANGED set

ShiftRange ==
    LET n == Len(hl.hr)
        m == Max({k \in 1 .. n : \A i \in 2 .. k : hostrange_within_range(hl.hr[1], hl.hr[i])})
        t == Taken(SubSeq(hl.hr, 1, m))
        d == Len(t.hr)
    IN  /\ n > 0
        /\ torn' = (d # m)
        /\ hl' = WithIt([hl EXCEPT !.hr = SubSeq(@, m + 1, n), !.nhosts = @ - t.nhosts],
                        LAMBDA i : ShiftedBy(i, m + 1, d))
        /\ UNCHANGED set

\* hostlist_sort: with coalesce and collapse.
hostlist_sort(l) == hostlist_coalesce(WithIt([l EXCEPT !.hr = Sorted(@)], LAMBDA i : Reset))
SortHosts == Len(hl.hr) > 1 /\ Update(hostlist_sort(hl))

UniqHosts == Len(hl.hr) > 1 /\ Update(hostlist_uniq(hl))

hostlist_iterator_create(i) ==
    i \notin DOMAIN hl.it /\ Update([hl EXCEPT !.it = [j \in DOMAIN @ \cup {i} |-> IF j = i THEN Reset ELSE @[j]]])
hostlist_iterator_reset(i) == Update([hl EXCEPT !.it[i] = Reset])
hostlist_iterator_destroy(i) == Update([hl EXCEPT !.it = [j \in DOMAIN @ \ {i} |-> @[j]]])

\* _iterator_advance.
_iterator_advance(l, i) ==
    IF i.idx > Len(l.hr) THEN i
    ELSE IF i.depth + 1 > l.hr[i.idx].hi - l.hr[i.idx].lo THEN [idx |-> i.idx + 1, depth |-> 0]
    ELSE [i EXCEPT !.depth = @ + 1]

\* _iterator_advance_range.
_iterator_advance_range(l, i) ==
    IF i.idx > Len(l.hr) \/ i.depth + 1 <= 0 THEN [i EXCEPT !.depth = @ + 1]
    ELSE [idx |-> 1 + Max({j \in i.idx .. Len(l.hr) :
                             \A k \in i.idx + 1 .. j : hostrange_within_range(l.hr[i.idx], l.hr[k])}),
          depth |-> 0]

hostlist_next(i) == Update([hl EXCEPT !.it[i] = _iterator_advance(hl, @)])
hostlist_next_range(i) ==
    /\ hl.it[i].idx <= Len(hl.hr)
    /\ Update([hl EXCEPT !.it[i] = _iterator_advance_range(hl, @)])

\* hostlist_remove: the host that the iterator returned last, which a caller has
\* just seen.
hostlist_remove(l, i) ==
    LET it   == l.it[i]
        r    == l.hr[it.idx]
        left == hostrange_delete_host(r, r.lo + it.depth)
        less == [l EXCEPT !.nhosts = @ - 1]
    IN  CASE Len(left) = 0 -> hostlist_delete_range(less, it.idx)
          [] Len(left) = 1 -> [less EXCEPT !.hr = ReplaceAt(@, it.idx, left[1]), !.it[i].depth = @ - 1]
          [] Len(left) = 2 ->
               [hostlist_insert_range([less EXCEPT !.hr = ReplaceAt(@, it.idx, left[1])], left[2], it.idx + 1)
                  EXCEPT !.it[i] = [idx |-> it.idx + 1, depth |-> -1]]
Returned(i) == hl.it[i].idx <= Len(hl.hr) /\ hl.it[i].depth \in 0 .. hostrange_count(hl.hr[hl.it[i].idx]) - 1
RemoveHost(i) == Returned(i) /\ Update(hostlist_remove(hl, i))

\* Bound: a pop does not tell the iterators, and one that is left behind is not
\* followed further than this.
IteratorsNear == \A i \in DOMAIN hl.it : hl.it[i].idx <= MaxHosts + 1

HostlistStep ==
    /\ ~torn /\ IteratorsNear
    /\ \/ \E e \in Inputs : Push(e)
       \/ Pop
       \/ Shift
       \/ \E e \in Inputs : Delete(e)
       \/ PopRange
       \/ ShiftRange
       \/ SortHosts
       \/ UniqHosts
       \/ \E i \in HostIterators : hostlist_iterator_create(i)
       \/ \E i \in DOMAIN hl.it : hostlist_iterator_reset(i)
       \/ \E i \in DOMAIN hl.it : hostlist_iterator_destroy(i)
       \/ \E i \in DOMAIN hl.it : hostlist_next(i)
       \/ \E i \in DOMAIN hl.it : hostlist_next_range(i)
       \/ \E i \in DOMAIN hl.it : RemoveHost(i)

-----------------------------------------------------------------------------
Names(l) == hostlist_deranged_string(l)
Expand(e) == Names(_hostlist_create_bracketed(e))
Times(h, s) == Cardinality({k \in DOMAIN s : s[k] = h})
SameBag(s, t) == \A h \in Range(s) \cup Range(t) : Times(h, s) = Times(h, t)

\* The text form is read back to the same hosts, nth and find are inverse to
\* each other, and nhosts, which pop and shift go by, is the number of hosts
\* of a list.
NamesAgree ==
    ~torn =>
      LET hosts == Names(hl)
      IN  /\ Names(_hostlist_create_bracketed(hostlist_ranged_string(hl))) = hosts
          /\ \A n \in DOMAIN hosts :
               /\ hostlist_nth(hl, n - 1) = hosts[n]
               /\ hostlist_find(hl, hosts[n]) = Min({k \in DOMAIN hosts : hosts[k] = hosts[n]}) - 1
          /\ ~set => hl.nhosts = Len(hosts)

\* However the ranges of a list were joined, split, sorted and cut before, a call
\* has its effect on the hosts the list names: a push adds its hosts at the end,
\* a pop or a shift takes the one from an end, a delete takes out each of its
\* hosts once and a remove the one the iterator returned, sort loses and invents
\* none, uniq and hostset_insert keep the set of hosts; and NamesAgree.
HostsKept ==
    ~torn =>
      LET hosts == Names(hl)
      IN  /\ NamesAgree
          /\ \A e \in {x \in Inputs : Valid(x)} :
               /\ ~set => Names(hostlist_push(hl, e)) = hosts \o Expand(e)
               /\ set => Range(Names(hostset_insert(hl, e))) = Range(hosts) \cup Range(Expand(e))
               /\ LET left == Names(hostlist_delete(hl, e))
                  IN  \A h \in Range(hosts) \cup Range(left) :
                        Times(h, left) = Max({0, Times(h, hosts) - Times(h, Expand(e))})
          /\ hosts # <<>> => /\ Names(hostlist_pop(hl)) = Front(hosts)
                             /\ Names(hostlist_shift(hl)) = Tail(hosts)
          /\ SameBag(Names(hostlist_sort(hl)), hosts)
          /\ Range(Names(hostlist_uniq(hl))) = Range(hosts)
          /\ \A i \in DOMAIN hl.it :
               Returned(i) => Names(hostlist_remove(hl, i))
                                = RemoveAt(hosts, CountTo(hl.hr, hl.it[i].idx - 1) + hl.it[i].depth + 1)
=============================================================================
