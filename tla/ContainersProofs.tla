-------------------------- MODULE ContainersProofs --------------------------
(***************************************************************************)
(* The containers of common/.  What threads may rely on that walk a list   *)
(* while others change it, for any number of nodes, keys and iterators; and *)
(* that a circular buffer is the stream of Stream, for buffers of any size. *)
(***************************************************************************)
EXTENDS Lists, Cbuf, SetInduction, SequenceTheorems


-----------------------------------------------------------------------------
(* The list as a sequence.                                                 *)

\* The place of the k-th node, that before the first and that behind the last.
At(s, k) == IF k = 0 THEN Head0 ELSE IF k \in 1..Len(s) THEN s[k] ELSE Nil

\* The links nx are those of the nodes s, and no node is there twice.
Chain(nx, s) ==
  /\ s \in Seq(Nodes) /\ \A j, k \in 1..Len(s) : s[j] = s[k] => j = k
  /\ DOMAIN nx = {Head0} \cup Nodes
  /\ \A k \in 0..Len(s) : nx[At(s, k)] = At(s, k + 1)
  /\ \A p \in Nodes : (\A k \in 1..Len(s) : s[k] # p) => nx[p] = Nil

\* An iterator that returns the a-th node next and keeps the place of the b-th;
\* D are nodes it has still to return, G nodes it returned.
IterOK(it, s, D, G) ==
  \E a \in 1..Len(s) + 1, b \in 0..Len(s) :
    /\ it = [pos |-> At(s, a), prev |-> At(s, b)] /\ a \in {b + 1, b + 2}
    /\ D \subseteq {s[k] : k \in a..Len(s)} /\ G \subseteq {s[k] : k \in 1..a - 1}

ListOK(l, s) ==
  /\ Chain(l.next, s) /\ l.count = Len(s) /\ l.tail = At(s, Len(s))
  /\ DOMAIN l.due = DOMAIN l.iter /\ DOMAIN l.got = DOMAIN l.iter
  /\ \A i \in DOMAIN l.iter : IterOK(l.iter[i], s, l.due[i], l.got[i])

ListInv == \E s : ListOK(List, s)

LEMMA AtIs ==
  ASSUME NEW s \in Seq(Nodes)
  PROVE  /\ At(s, 0) = Head0 /\ At(s, Len(s) + 1) = Nil
         /\ \A k \in 1..Len(s) : At(s, k) = s[k] /\ At(s, k) \in Nodes
         /\ Head0 # Nil /\ Head0 \notin Nodes /\ Nil \notin Nodes
         /\ Len(s) \in Nat
BY ListsAssumption DEF At, Head0, Nil

LEMMA AtOnce ==
  ASSUME NEW nx, NEW s, Chain(nx, s)
  PROVE  \A j, k \in 0..Len(s) + 1 : At(s, j) = At(s, k) => j = k
<1> SUFFICES ASSUME NEW j \in 0..Len(s) + 1, NEW k \in 0..Len(s) + 1, At(s, j) = At(s, k)
             PROVE  j = k
  OBVIOUS
<1>1. s \in Seq(Nodes) /\ Len(s) \in Nat /\ \A m, n \in 1..Len(s) : s[m] = s[n] => m = n
  BY DEF Chain
<1>2. CASE j \in 1..Len(s) /\ k \in 1..Len(s)
  BY <1>1, <1>2, AtIs
<1>3. CASE j \notin 1..Len(s)
  <2>1. j = 0 \/ j = Len(s) + 1
    BY <1>1, <1>3
  <2> QED BY <1>1, <2>1, AtIs
<1>4. CASE k \notin 1..Len(s)
  <2>1. k = 0 \/ k = Len(s) + 1
    BY <1>1, <1>4
  <2> QED BY <1>1, <2>1, AtIs
<1> QED BY <1>2, <1>3, <1>4

-----------------------------------------------------------------------------
(* A node is taken out.                                                    *)

Del(s, m) == [j \in 1..Len(s) - 1 |-> IF j < m THEN s[j] ELSE s[j + 1]]

LEMMA DelIs ==
  ASSUME NEW s \in Seq(Nodes), NEW m \in 1..Len(s)
  PROVE  /\ Del(s, m) \in Seq(Nodes) /\ Len(Del(s, m)) = Len(s) - 1
         /\ \A j \in 1..Len(s) - 1 : Del(s, m)[j] = IF j < m THEN s[j] ELSE s[j + 1]
<1>1. Len(s) \in Nat /\ Len(s) - 1 \in Nat /\ \A j \in 1..Len(s) : s[j] \in Nodes
  OBVIOUS
<1>2. Del(s, m) \in [1..Len(s) - 1 -> Nodes]
  BY <1>1 DEF Del
<1>3. Del(s, m) \in Seq(Nodes)
  BY <1>1, <1>2
<1>4. Len(Del(s, m)) = Len(s) - 1
  BY <1>1, <1>2
<1> QED BY <1>3, <1>4 DEF Del

LEMMA AtDel ==
  ASSUME NEW s \in Seq(Nodes), NEW m \in 1..Len(s), NEW r \in 0..Len(s)
  PROVE  At(Del(s, m), r) = IF r < m THEN At(s, r) ELSE At(s, r + 1)
<1>1. Len(s) \in Nat /\ Len(Del(s, m)) = Len(s) - 1
  BY DelIs
<1>2. CASE r = 0
  BY <1>2 DEF At
<1>3. CASE r \in 1..Len(s) - 1
  <2>1. PICK d : d = Del(s, m)
    OBVIOUS
  <2>2. r \in 1..Len(d) /\ r \in 1..Len(s) /\ r + 1 \in 1..Len(s) /\ r # 0 /\ r + 1 # 0
    BY <1>1, <1>3, <2>1
  <2>3. At(d, r) = d[r] /\ At(s, r) = s[r] /\ At(s, r + 1) = s[r + 1]
    BY <2>2 DEF At
  <2>4. d[r] = IF r < m THEN s[r] ELSE s[r + 1]
    BY <1>1, <2>1, <2>2, DelIs
  <2> QED BY <2>1, <2>3, <2>4
<1>4. CASE r = Len(s)
  BY <1>1, <1>4 DEF At
<1> QED BY <1>1, <1>2, <1>3, <1>4

LEMMA ChainDel ==
  ASSUME NEW nx, NEW s, Chain(nx, s), NEW k \in 0..Len(s) - 1, NEW nx2,
         nx2 = [q \in DOMAIN nx |-> IF q = At(s, k + 1) THEN Nil
                                    ELSE IF q = At(s, k) THEN nx[At(s, k + 1)] ELSE nx[q]]
  PROVE  Chain(nx2, Del(s, k + 1))
<1> DEFINE d == Del(s, k + 1)
<1>1. s \in Seq(Nodes) /\ Len(s) \in Nat /\ k + 1 \in 1..Len(s)
  BY DEF Chain
<1>2. d \in Seq(Nodes) /\ Len(d) = Len(s) - 1
      /\ \A j \in 1..Len(d) : d[j] = IF j < k + 1 THEN s[j] ELSE s[j + 1]
  BY <1>1, DelIs
<1>3. \A r \in 0..Len(s) : At(d, r) = IF r < k + 1 THEN At(s, r) ELSE At(s, r + 1)
  BY <1>1, AtDel
<1> HIDE DEF d
<1>4. \A i, j \in 1..Len(d) : d[i] = d[j] => i = j
  <2> SUFFICES ASSUME NEW i \in 1..Len(d), NEW j \in 1..Len(d), d[i] = d[j] PROVE i = j
    OBVIOUS
  <2> DEFINE Old(x) == IF x < k + 1 THEN x ELSE x + 1
  <2>1. \A x \in 1..Len(d) : Old(x) \in 1..Len(s) /\ d[x] = s[Old(x)]
    BY <1>1, <1>2
  <2>2. \A m, n \in 1..Len(s) : s[m] = s[n] => m = n
    BY DEF Chain
  <2>3. Old(i) = Old(j)
    BY <2>1, <2>2
  <2> QED BY <1>1, <1>2, <2>3
<1>5. \A j \in 0..Len(s) : nx[At(s, j)] = At(s, j + 1) /\ At(s, j) \in DOMAIN nx
  BY <1>1, AtIs DEF Chain
<1>6. \A i, j \in 0..Len(s) + 1 : At(s, i) = At(s, j) => i = j
  BY AtOnce
<1>7. ASSUME NEW r \in 0..Len(d) PROVE nx2[At(d, r)] = At(d, r + 1)
  <2>1. CASE r < k
    <3>1. At(d, r) = At(s, r) /\ At(d, r + 1) = At(s, r + 1)
      BY <1>1, <1>2, <1>3, <2>1
    <3>2. At(s, r) # At(s, k + 1) /\ At(s, r) # At(s, k)
      BY <1>1, <1>2, <1>6, <2>1
    <3>3. At(s, r) \in DOMAIN nx /\ nx[At(s, r)] = At(s, r + 1)
      BY <1>1, <1>2, <1>5
    <3> QED BY <3>1, <3>2, <3>3
  <2>2. CASE r = k
    <3>1. At(d, r) = At(s, k) /\ At(d, r + 1) = At(s, k + 2)
      BY <1>1, <1>2, <1>3, <2>2
    <3>2. At(s, k) # At(s, k + 1)
      BY <1>1, <1>6
    <3>3. At(s, k) \in DOMAIN nx /\ nx[At(s, k + 1)] = At(s, k + 2)
      BY <1>1, <1>5
    <3> QED BY <3>1, <3>2, <3>3
  <2>3. CASE r > k
    <3>1. At(d, r) = At(s, r + 1) /\ At(d, r + 1) = At(s, r + 2)
      BY <1>1, <1>2, <1>3, <2>3
    <3>2. At(s, r + 1) # At(s, k + 1) /\ At(s, r + 1) # At(s, k)
      BY <1>1, <1>2, <1>6, <2>3
    <3>3. At(s, r + 1) \in DOMAIN nx /\ nx[At(s, r + 1)] = At(s, r + 2)
      BY <1>1, <1>2, <1>5
    <3> QED BY <3>1, <3>2, <3>3
  <2> QED BY <1>1, <1>2, <2>1, <2>2, <2>3
<1>8. ASSUME NEW p \in Nodes, \A j \in 1..Len(d) : d[j] # p PROVE nx2[p] = Nil
  <2>1. p \in DOMAIN nx /\ At(s, k + 1) = s[k + 1]
    BY <1>1, AtIs DEF Chain
  <2>2. CASE p = s[k + 1]
    BY <2>1, <2>2
  <2>3. CASE p # s[k + 1]
    <3>1. ASSUME NEW j \in 1..Len(s) PROVE s[j] # p
      <4>1. CASE j < k + 1
        BY <1>1, <1>2, <1>8, <4>1
      <4>2. CASE j = k + 1
        BY <2>3, <4>2
      <4>3. CASE j > k + 1
        <5>1. j - 1 \in 1..Len(d) /\ d[j - 1] = s[j]
          BY <1>1, <1>2, <4>3
        <5> QED BY <1>8, <5>1
      <4> QED BY <1>1, <4>1, <4>2, <4>3
    <3>2. nx[p] = Nil
      BY <3>1 DEF Chain
    <3>3. p # At(s, k)
      BY <1>1, <3>1, AtIs
    <3> QED BY <2>1, <2>3, <3>2, <3>3
  <2> QED BY <2>2, <2>3
<1>9. DOMAIN nx2 = {Head0} \cup Nodes
  BY DEF Chain
<1>10. Chain(nx2, d)
  BY <1>2, <1>4, <1>7, <1>8, <1>9 DEF Chain
<1> QED BY <1>10 DEF d

\* No iterator is left at the node, or loses its place.
LEMMA IterDel ==
  ASSUME NEW nx, NEW s, Chain(nx, s), NEW k \in 0..Len(s) - 1, NEW it, NEW D, NEW G, IterOK(it, s, D, G),
         NEW p, p = At(s, k + 1)
  PROVE  IterOK(Unlinked(nx, it, At(s, k), p), Del(s, k + 1), D \ {p}, G \ {p})
<1> DEFINE d == Del(s, k + 1)
           u == Unlinked(nx, it, At(s, k), p)
<1>1. s \in Seq(Nodes) /\ Len(s) \in Nat /\ k + 1 \in 1..Len(s)
  BY DEF Chain
<1>2. d \in Seq(Nodes) /\ Len(d) = Len(s) - 1
      /\ \A j \in 1..Len(d) : d[j] = IF j < k + 1 THEN s[j] ELSE s[j + 1]
  BY <1>1, DelIs
<1>3. \A r \in 0..Len(s) : At(d, r) = IF r < k + 1 THEN At(s, r) ELSE At(s, r + 1)
  BY <1>1, AtDel
<1>4. PICK a \in 1..Len(s) + 1, b \in 0..Len(s) :
        /\ it = [pos |-> At(s, a), prev |-> At(s, b)] /\ a \in {b + 1, b + 2}
        /\ D \subseteq {s[j] : j \in a..Len(s)} /\ G \subseteq {s[j] : j \in 1..a - 1}
  BY DEF IterOK
<1>5. \A i, j \in 0..Len(s) + 1 : At(s, i) = At(s, j) => i = j
  BY AtOnce
<1>6. nx[p] = At(s, k + 2)
  BY <1>1 DEF Chain
<1>7. p = s[k + 1]
  BY <1>1, AtIs
<1>8. u = [pos  |-> IF a = k + 1 THEN At(s, k + 2) ELSE At(s, a),
           prev |-> IF a = k + 1 \/ b = k + 1 THEN At(s, k) ELSE At(s, b)]
  <2>1. (it.pos = p <=> a = k + 1) /\ (it.prev = p <=> b = k + 1)
    BY <1>1, <1>4, <1>5
  <2>2. it.pos = At(s, a) /\ it.prev = At(s, b)
    BY <1>4
  <2> QED BY <1>6, <2>1, <2>2 DEF Unlinked
<1> HIDE DEF d, u
<1> DEFINE a2 == IF a > k + 1 THEN a - 1 ELSE a
           b2 == IF a = k + 1 THEN k ELSE IF b > k THEN b - 1 ELSE b
<1>9. a2 \in 1..Len(d) + 1 /\ b2 \in 0..Len(d) /\ a2 \in {b2 + 1, b2 + 2}
  BY <1>1, <1>2, <1>4
<1>10. u = [pos |-> At(d, a2), prev |-> At(d, b2)]
  <2>1. CASE a = k + 1
    <3>1. At(d, k + 1) = At(s, k + 2) /\ At(d, k) = At(s, k)
      BY <1>1, <1>3
    <3> QED BY <1>1, <1>8, <2>1, <3>1
  <2>2. CASE a < k + 1
    <3>1. b < k /\ a2 = a /\ b2 = b
      BY <1>1, <1>4, <2>2
    <3>2. At(d, a) = At(s, a) /\ At(d, b) = At(s, b)
      BY <1>1, <1>3, <2>2, <3>1
    <3> QED BY <1>1, <1>8, <2>2, <3>1, <3>2
  <2>3. CASE a > k + 1
    <3>1. At(d, a - 1) = At(s, a) /\ a2 = a - 1
      BY <1>1, <1>3, <1>4, <2>3
    <3>2. b >= k
      BY <1>1, <1>4, <2>3
    <3>3. CASE b = k
      <4>1. At(d, k) = At(s, k) /\ b2 = k
        BY <1>1, <1>3, <2>3, <3>3
      <4> QED BY <1>1, <1>8, <2>3, <3>1, <3>3, <4>1
    <3>4. CASE b = k + 1
      <4>1. At(d, k) = At(s, k) /\ b2 = k
        BY <1>1, <1>3, <2>3, <3>4
      <4> QED BY <1>1, <1>8, <2>3, <3>1, <3>4, <4>1
    <3>5. CASE b > k + 1
      <4>1. At(d, b - 1) = At(s, b) /\ b2 = b - 1
        BY <1>1, <1>3, <2>3, <3>5
      <4> QED BY <1>1, <1>8, <2>3, <3>1, <3>5, <4>1
    <3> QED BY <1>1, <3>2, <3>3, <3>4, <3>5
  <2> QED BY <1>1, <2>1, <2>2, <2>3
<1>11. D \ {p} \subseteq {d[j] : j \in a2..Len(d)}
  <2> SUFFICES ASSUME NEW j \in a..Len(s), s[j] # p
               PROVE  \E i \in a2..Len(d) : d[i] = s[j]
    <3>1. D \subseteq {s[x] : x \in a..Len(s)}
      BY <1>4
    <3> QED BY <3>1
  <2>1. j # k + 1
    BY <1>7
  <2>2. CASE j < k + 1
    BY <1>1, <1>2, <2>2
  <2>3. CASE j > k + 1
    <3>1. j - 1 \in a2..Len(d) /\ d[j - 1] = s[j]
      BY <1>1, <1>2, <2>3
    <3> QED BY <3>1
  <2> QED BY <1>1, <2>1, <2>2, <2>3
<1>12. G \ {p} \subseteq {d[j] : j \in 1..a2 - 1}
  <2> SUFFICES ASSUME NEW j \in 1..a - 1, s[j] # p
               PROVE  \E i \in 1..a2 - 1 : d[i] = s[j]
    BY <1>4
  <2>1. j # k + 1 /\ j \in 1..Len(s)
    BY <1>1, <1>7
  <2>2. CASE j < k + 1
    BY <1>1, <1>2, <2>1, <2>2
  <2>3. CASE j > k + 1
    <3>1. j - 1 \in 1..a2 - 1 /\ d[j - 1] = s[j]
      BY <1>1, <1>2, <2>1, <2>3
    <3> QED BY <3>1
  <2> QED BY <1>1, <2>1, <2>2, <2>3
<1> HIDE DEF a2, b2
<1>13. IterOK(u, d, D \ {p}, G \ {p})
  BY <1>9, <1>10, <1>11, <1>12 DEF IterOK
<1> QED BY <1>13 DEF d, u

\* list_node_destroy
LEMMA DestroyedOK ==
  ASSUME NEW l, NEW s, ListOK(l, s), NEW k \in 0..Len(s) - 1
  PROVE  ListOK(Destroyed(l, At(s, k)), Del(s, k + 1))
<1> DEFINE e == Destroyed(l, At(s, k))
           d == Del(s, k + 1)
<1>1. s \in Seq(Nodes) /\ Len(s) \in Nat /\ k + 1 \in 1..Len(s) /\ Chain(l.next, s)
  <2>1. Chain(l.next, s)
    BY DEF ListOK
  <2>2. s \in Seq(Nodes)
    BY <2>1 DEF Chain
  <2> QED BY <2>1, <2>2
<1>2. PICK p : p = At(s, k + 1)
  OBVIOUS
<1>3. l.next[At(s, k)] = p /\ l.next[p] = At(s, k + 2)
  <2>1. \A j \in 0..Len(s) : l.next[At(s, j)] = At(s, j + 1)
    BY <1>1 DEF Chain
  <2>2. k \in 0..Len(s) /\ k + 1 \in 0..Len(s) /\ (k + 1) + 1 = k + 2
    BY <1>1
  <2> QED BY <1>2, <2>1, <2>2
<1>4. e = [next  |-> [q \in DOMAIN l.next |->
                        IF q = p THEN Nil ELSE IF q = At(s, k) THEN l.next[p] ELSE l.next[q]],
           tail  |-> IF l.next[p] = Nil THEN At(s, k) ELSE l.tail,
           count |-> l.count - 1,
           iter  |-> [i \in DOMAIN l.iter |-> Unlinked(l.next, l.iter[i], At(s, k), p)],
           due   |-> [i \in DOMAIN l.iter |-> l.due[i] \ {p}],
           got   |-> [i \in DOMAIN l.iter |-> l.got[i] \ {p}]]
  BY <1>3, Zenon DEF Destroyed
<1> HIDE DEF e, d
<1>5. Chain(e.next, d)
  <2>1. e.next = [q \in DOMAIN l.next |->
                    IF q = p THEN Nil ELSE IF q = At(s, k) THEN l.next[p] ELSE l.next[q]]
    BY <1>4
  <2> QED BY <1>1, <1>2, <2>1, ChainDel DEF d
<1>6. Len(d) = Len(s) - 1 /\ At(d, Len(d)) = IF k = Len(s) - 1 THEN At(s, k) ELSE At(s, Len(s))
  BY <1>1, DelIs, AtDel DEF d
<1>7. e.count = Len(d)
  BY <1>4, <1>6 DEF ListOK
<1>8. e.tail = At(d, Len(d))
  <2>1. At(s, k + 2) = Nil <=> k = Len(s) - 1
    <3>1. At(s, Len(s) + 1) = Nil
      BY <1>1, AtIs
    <3>2. \A i, j \in 0..Len(s) + 1 : At(s, i) = At(s, j) => i = j
      BY <1>1, AtOnce
    <3> QED BY <1>1, <3>1, <3>2
  <2>2. l.tail = At(s, Len(s))
    BY DEF ListOK
  <2>3. e.tail = IF l.next[p] = Nil THEN At(s, k) ELSE l.tail
    BY <1>4
  <2> QED BY <1>3, <1>6, <2>1, <2>2, <2>3
<1>9. /\ DOMAIN e.iter = DOMAIN l.iter /\ DOMAIN e.due = DOMAIN l.iter /\ DOMAIN e.got = DOMAIN l.iter
      /\ \A i \in DOMAIN l.iter : /\ e.iter[i] = Unlinked(l.next, l.iter[i], At(s, k), p)
                                  /\ e.due[i] = l.due[i] \ {p} /\ e.got[i] = l.got[i] \ {p}
  BY <1>4
<1>10. ASSUME NEW i \in DOMAIN l.iter PROVE IterOK(e.iter[i], d, e.due[i], e.got[i])
  <2>1. IterOK(l.iter[i], s, l.due[i], l.got[i])
    BY DEF ListOK
  <2>2. IterOK(Unlinked(l.next, l.iter[i], At(s, k), p), Del(s, k + 1), l.due[i] \ {p}, l.got[i] \ {p})
    BY <1>1, <1>2, <2>1, IterDel
  <2> QED BY <1>9, <2>2 DEF d
<1>11. ListOK(e, d)
  BY <1>5, <1>7, <1>8, <1>9, <1>10 DEF ListOK
<1> QED BY <1>11 DEF e, d

-----------------------------------------------------------------------------
(* A node is put in.                                                       *)

Ins(s, m, p) == [j \in 1..Len(s) + 1 |-> IF j < m THEN s[j] ELSE IF j = m THEN p ELSE s[j - 1]]

LEMMA InsIs ==
  ASSUME NEW s \in Seq(Nodes), NEW m \in 1..Len(s) + 1, NEW p \in Nodes
  PROVE  /\ Ins(s, m, p) \in Seq(Nodes) /\ Len(Ins(s, m, p)) = Len(s) + 1
         /\ \A j \in 1..Len(s) + 1 :
              Ins(s, m, p)[j] = IF j < m THEN s[j] ELSE IF j = m THEN p ELSE s[j - 1]
<1>1. Len(s) \in Nat /\ Len(s) + 1 \in Nat /\ \A j \in 1..Len(s) : s[j] \in Nodes
  OBVIOUS
<1>2. Ins(s, m, p) \in [1..Len(s) + 1 -> Nodes]
  BY <1>1 DEF Ins
<1>3. Ins(s, m, p) \in Seq(Nodes)
  BY <1>1, <1>2
<1>4. Len(Ins(s, m, p)) = Len(s) + 1
  BY <1>1, <1>2
<1> QED BY <1>3, <1>4 DEF Ins

LEMMA AtIns ==
  ASSUME NEW s \in Seq(Nodes), NEW m \in 1..Len(s) + 1, NEW p \in Nodes, NEW r \in 0..Len(s) + 2
  PROVE  At(Ins(s, m, p), r) = IF r < m THEN At(s, r) ELSE IF r = m THEN p ELSE At(s, r - 1)
<1>1. Len(s) \in Nat /\ Len(Ins(s, m, p)) = Len(s) + 1
  BY InsIs
<1>2. CASE r = 0
  BY <1>2 DEF At
<1>3. CASE r \in 1..Len(s) + 1
  <2>1. Ins(s, m, p)[r] = IF r < m THEN s[r] ELSE IF r = m THEN p ELSE s[r - 1]
    BY <1>1, <1>3 DEF Ins
  <2>2. At(Ins(s, m, p), r) = Ins(s, m, p)[r]
    BY <1>1, <1>3 DEF At
  <2>3. r < m => At(s, r) = s[r]
    BY <1>1, <1>3 DEF At
  <2>4. r > m => At(s, r - 1) = s[r - 1]
    BY <1>1, <1>3 DEF At
  <2> QED BY <1>1, <1>3, <2>1, <2>2, <2>3, <2>4
<1>4. CASE r = Len(s) + 2
  BY <1>1, <1>4 DEF At
<1> QED BY <1>1, <1>2, <1>3, <1>4

LEMMA ChainIns ==
  ASSUME NEW nx, NEW s, Chain(nx, s), NEW k \in 0..Len(s), NEW p \in Nodes,
         \A j \in 1..Len(s) : s[j] # p, NEW nx2,
         nx2 = [q \in DOMAIN nx |-> IF q = At(s, k) THEN p
                                    ELSE IF q = p THEN At(s, k + 1) ELSE nx[q]]
  PROVE  Chain(nx2, Ins(s, k + 1, p))
<1> DEFINE d == Ins(s, k + 1, p)
<1>1. s \in Seq(Nodes) /\ Len(s) \in Nat /\ k + 1 \in 1..Len(s) + 1
  BY DEF Chain
<1>2. d \in Seq(Nodes) /\ Len(d) = Len(s) + 1
      /\ \A j \in 1..Len(d) : d[j] = IF j < k + 1 THEN s[j] ELSE IF j = k + 1 THEN p ELSE s[j - 1]
  <2>1. d \in Seq(Nodes) /\ Len(d) = Len(s) + 1
    BY <1>1, InsIs
  <2>2. \A j \in 1..Len(s) + 1 : d[j] = IF j < k + 1 THEN s[j] ELSE IF j = k + 1 THEN p ELSE s[j - 1]
    BY DEF Ins
  <2> QED BY <2>1, <2>2
<1>3. \A r \in 0..Len(s) + 2 : At(d, r) = IF r < k + 1 THEN At(s, r) ELSE IF r = k + 1 THEN p ELSE At(s, r - 1)
  BY <1>1, AtIns
<1> HIDE DEF d
<1>4. \A i, j \in 1..Len(d) : d[i] = d[j] => i = j
  <2> SUFFICES ASSUME NEW i \in 1..Len(d), NEW j \in 1..Len(d), d[i] = d[j] PROVE i = j
    OBVIOUS
  <2>1. \A m, n \in 1..Len(s) : s[m] = s[n] => m = n
    BY DEF Chain
  <2> DEFINE Old(x) == IF x < k + 1 THEN x ELSE x - 1
  <2>2. \A x \in 1..Len(d) : x # k + 1 => Old(x) \in 1..Len(s) /\ d[x] = s[Old(x)]
    BY <1>1, <1>2
  <2>3. d[k + 1] = p /\ k + 1 \in 1..Len(d)
    BY <1>1, <1>2
  <2>4. \A x \in 1..Len(d) : x # k + 1 => d[x] # p
    BY <2>2
  <2>5. CASE i = k + 1 \/ j = k + 1
    BY <2>3, <2>4, <2>5
  <2>6. CASE i # k + 1 /\ j # k + 1
    <3>1. Old(i) = Old(j)
      BY <2>1, <2>2, <2>6
    <3> QED BY <1>1, <1>2, <2>6, <3>1
  <2> QED BY <2>5, <2>6
<1>5. \A j \in 0..Len(s) : nx[At(s, j)] = At(s, j + 1) /\ At(s, j) \in DOMAIN nx /\ At(s, j) # p
  <2> SUFFICES ASSUME NEW j \in 0..Len(s)
               PROVE  nx[At(s, j)] = At(s, j + 1) /\ At(s, j) \in DOMAIN nx /\ At(s, j) # p
    OBVIOUS
  <2>1. nx[At(s, j)] = At(s, j + 1) /\ DOMAIN nx = {Head0} \cup Nodes
    BY DEF Chain
  <2>2. CASE j = 0
    BY <1>1, <2>1, <2>2, AtIs
  <2>3. CASE j \in 1..Len(s)
    BY <1>1, <2>1, <2>3, AtIs
  <2> QED BY <1>1, <2>2, <2>3
<1>6. \A i, j \in 0..Len(s) + 1 : At(s, i) = At(s, j) => i = j
  BY AtOnce
<1>7. ASSUME NEW r \in 0..Len(d) PROVE nx2[At(d, r)] = At(d, r + 1)
  <2>1. CASE r < k
    <3>1. At(d, r) = At(s, r) /\ At(d, r + 1) = At(s, r + 1)
      BY <1>1, <1>2, <1>3, <2>1
    <3>2. At(s, r) # At(s, k)
      BY <1>1, <1>2, <1>6, <2>1
    <3>3. At(s, r) \in DOMAIN nx /\ nx[At(s, r)] = At(s, r + 1) /\ At(s, r) # p
      BY <1>1, <1>2, <1>5, <2>1
    <3> QED BY <3>1, <3>2, <3>3
  <2>2. CASE r = k
    <3>1. At(d, r) = At(s, k) /\ At(d, r + 1) = p
      BY <1>1, <1>2, <1>3, <2>2
    <3>2. At(s, k) \in DOMAIN nx
      BY <1>1, <1>5
    <3> QED BY <3>1, <3>2
  <2>3. CASE r = k + 1
    <3>1. At(d, r) = p /\ At(d, r + 1) = At(s, k + 1)
      BY <1>1, <1>2, <1>3, <2>3
    <3>2. p \in DOMAIN nx /\ p # At(s, k)
      BY <1>1, <1>5 DEF Chain
    <3> QED BY <3>1, <3>2
  <2>4. CASE r > k + 1
    <3>1. At(d, r) = At(s, r - 1) /\ At(d, r + 1) = At(s, r)
      BY <1>1, <1>2, <1>3, <2>4
    <3>2. r - 1 \in 0..Len(s) /\ r - 1 # k
      BY <1>1, <1>2, <2>4
    <3>3. At(s, r - 1) # At(s, k)
      BY <1>1, <1>6, <3>2
    <3>4. At(s, r - 1) \in DOMAIN nx /\ nx[At(s, r - 1)] = At(s, r) /\ At(s, r - 1) # p
      <4>1. (r - 1) + 1 = r
        BY <1>1, <1>2
      <4> QED BY <1>5, <3>2, <4>1
    <3> QED BY <3>1, <3>3, <3>4
  <2> QED BY <1>1, <1>2, <2>1, <2>2, <2>3, <2>4
<1>8. ASSUME NEW q \in Nodes, \A j \in 1..Len(d) : d[j] # q PROVE nx2[q] = Nil
  <2>1. d[k + 1] = p
    BY <1>1, <1>2
  <2>2. q # p
    BY <1>1, <1>2, <1>8, <2>1
  <2>3. ASSUME NEW j \in 1..Len(s) PROVE s[j] # q
    <3>1. CASE j < k + 1
      BY <1>1, <1>2, <1>8, <3>1
    <3>2. CASE j >= k + 1
      <4>1. j + 1 \in 1..Len(d) /\ d[j + 1] = s[j]
        BY <1>1, <1>2, <3>2
      <4> QED BY <1>8, <4>1
    <3> QED BY <1>1, <3>1, <3>2
  <2>4. nx[q] = Nil /\ q \in DOMAIN nx
    BY <2>3 DEF Chain
  <2>5. q # At(s, k)
    BY <1>1, <2>3, AtIs
  <2> QED BY <2>2, <2>4, <2>5
<1>9. DOMAIN nx2 = {Head0} \cup Nodes
  BY DEF Chain
<1>10. Chain(nx2, d)
  BY <1>2, <1>4, <1>7, <1>8, <1>9 DEF Chain
<1> QED BY <1>10 DEF d

\* What an iterator has still to return and what it returned stays so.
LEMMA IterIns ==
  ASSUME NEW nx, NEW s, Chain(nx, s), NEW k \in 0..Len(s), NEW p \in Nodes,
         NEW it, NEW D, NEW G, IterOK(it, s, D, G), NEW u,
         u = IF it.prev = At(s, k) THEN [it EXCEPT !.prev = p]
             ELSE IF it.pos = At(s, k + 1) THEN [it EXCEPT !.pos = p] ELSE it
  PROVE  IterOK(u, Ins(s, k + 1, p), D, G)
<1> DEFINE d == Ins(s, k + 1, p)
<1>1. s \in Seq(Nodes) /\ Len(s) \in Nat /\ k + 1 \in 1..Len(s) + 1
  BY DEF Chain
<1>2. d \in Seq(Nodes) /\ Len(d) = Len(s) + 1
      /\ \A j \in 1..Len(d) : d[j] = IF j < k + 1 THEN s[j] ELSE IF j = k + 1 THEN p ELSE s[j - 1]
  <2>1. d \in Seq(Nodes) /\ Len(d) = Len(s) + 1
    BY <1>1, InsIs
  <2>2. \A j \in 1..Len(s) + 1 : d[j] = IF j < k + 1 THEN s[j] ELSE IF j = k + 1 THEN p ELSE s[j - 1]
    BY DEF Ins
  <2> QED BY <2>1, <2>2
<1>3. \A r \in 0..Len(s) + 2 : At(d, r) = IF r < k + 1 THEN At(s, r) ELSE IF r = k + 1 THEN p ELSE At(s, r - 1)
  BY <1>1, AtIns
<1>4. PICK a \in 1..Len(s) + 1, b \in 0..Len(s) :
        /\ it = [pos |-> At(s, a), prev |-> At(s, b)] /\ a \in {b + 1, b + 2}
        /\ D \subseteq {s[j] : j \in a..Len(s)} /\ G \subseteq {s[j] : j \in 1..a - 1}
  BY DEF IterOK
<1>5. \A i, j \in 0..Len(s) + 1 : At(s, i) = At(s, j) => i = j
  BY AtOnce
<1>6. u = [pos  |-> IF b # k /\ a = k + 1 THEN p ELSE At(s, a),
           prev |-> IF b = k THEN p ELSE At(s, b)]
  <2>1. (it.prev = At(s, k) <=> b = k) /\ (it.pos = At(s, k + 1) <=> a = k + 1)
    BY <1>1, <1>4, <1>5
  <2>2. CASE b = k
    BY <1>4, <2>1, <2>2
  <2>3. CASE b # k
    BY <1>4, <2>1, <2>3
  <2> QED BY <2>2, <2>3
<1> HIDE DEF d
<1> DEFINE a2 == IF b = k \/ a > k + 1 THEN a + 1 ELSE a
           b2 == IF b >= k THEN b + 1 ELSE b
<1>7. a2 \in 1..Len(d) + 1 /\ b2 \in 0..Len(d) /\ a2 \in {b2 + 1, b2 + 2}
  <2>1. Len(d) = Len(s) + 1 /\ Len(s) \in Nat /\ (a = b + 1 \/ a = b + 2)
    BY <1>1, <1>2, <1>4
  <2>2. a2 \in 1..Len(d) + 1 /\ b2 \in 0..Len(d)
    BY <2>1
  <2>3. a2 = b2 + 1 \/ a2 = b2 + 2
    BY <2>1
  <2> QED BY <2>2, <2>3
<1>8. u = [pos |-> At(d, a2), prev |-> At(d, b2)]
  <2>1. CASE b = k
    <3>1. a2 = a + 1 /\ b2 = k + 1 /\ a > k
      BY <1>1, <1>4, <2>1
    <3>2. At(d, a + 1) = At(s, a) /\ At(d, k + 1) = p
      BY <1>1, <1>3, <3>1
    <3> QED BY <1>6, <2>1, <3>1, <3>2
  <2>2. CASE b # k /\ a = k + 1
    <3>1. a2 = k + 1 /\ b2 = b /\ b < k
      BY <1>1, <1>4, <2>2
    <3>2. At(d, k + 1) = p /\ At(d, b) = At(s, b)
      BY <1>1, <1>3, <3>1
    <3> QED BY <1>6, <2>2, <3>1, <3>2
  <2>3. CASE b # k /\ a < k + 1
    <3>1. a2 = a /\ b2 = b /\ b < k
      BY <1>1, <1>4, <2>3
    <3>2. At(d, a) = At(s, a) /\ At(d, b) = At(s, b)
      BY <1>1, <1>3, <2>3, <3>1
    <3> QED BY <1>1, <1>6, <2>3, <3>1, <3>2
  <2>4. CASE b # k /\ a > k + 1
    <3>1. a2 = a + 1 /\ b2 = b + 1 /\ b > k
      BY <1>1, <1>4, <2>4
    <3>2. At(d, a + 1) = At(s, a) /\ At(d, b + 1) = At(s, b)
      BY <1>1, <1>3, <2>4, <3>1, SMTT(60)
    <3> QED BY <1>1, <1>6, <2>4, <3>1, <3>2
  <2> QED BY <1>1, <2>1, <2>2, <2>3, <2>4
<1>9. D \subseteq {d[j] : j \in a2..Len(d)}
  <2> SUFFICES ASSUME NEW j \in a..Len(s)
               PROVE  \E i \in a2..Len(d) : d[i] = s[j]
    BY <1>4
  <2>1. CASE j < k + 1
    <3>1. j \in a2..Len(d) /\ d[j] = s[j]
      BY <1>1, <1>2, <1>4, <2>1
    <3> QED BY <3>1
  <2>2. CASE j >= k + 1
    <3>1. j + 1 \in a2..Len(d) /\ d[j + 1] = s[j]
      BY <1>1, <1>2, <2>2
    <3> QED BY <3>1
  <2> QED BY <1>1, <2>1, <2>2
<1>10. G \subseteq {d[j] : j \in 1..a2 - 1}
  <2> SUFFICES ASSUME NEW j \in 1..a - 1
               PROVE  \E i \in 1..a2 - 1 : d[i] = s[j]
    <3>1. G \subseteq {s[x] : x \in 1..a - 1}
      BY <1>4
    <3> QED BY <3>1
  <2>1. CASE j < k + 1
    <3>1. j \in 1..a2 - 1 /\ d[j] = s[j]
      BY <1>1, <1>2, <2>1
    <3> QED BY <3>1
  <2>2. CASE j >= k + 1
    <3>1. j + 1 \in 1..a2 - 1 /\ d[j + 1] = s[j]
      BY <1>1, <1>2, <2>2, SMTT(60)
    <3> QED BY <3>1
  <2> QED BY <1>1, <2>1, <2>2
<1> HIDE DEF a2, b2
<1>11. IterOK(u, d, D, G)
  BY <1>7, <1>8, <1>9, <1>10 DEF IterOK
<1> QED BY <1>11 DEF d

LEMMA ListIs ==
  /\ List.next = next /\ List.tail = tail /\ List.count = count
  /\ List.iter = iter /\ List.due = due /\ List.got = got
BY DEF List

\* list_node_create
LEMMA CreatedOK ==
  ASSUME NEW s, ListOK(List, s), NEW k \in 0..Len(s), NEW p \in Nodes, p \in Free,
         InList = Elems(s), list_node_create(At(s, k), p)
  PROVE  ListOK(List', Ins(s, k + 1, p))
<1> DEFINE d == Ins(s, k + 1, p)
<1>1. Chain(next, s) /\ count = Len(s) /\ tail = At(s, Len(s)) /\ DOMAIN due = Live /\ DOMAIN got = Live
      /\ \A i \in Live : IterOK(iter[i], s, due[i], got[i])
  BY ListIs DEF ListOK, Live
<1>2. s \in Seq(Nodes) /\ Len(s) \in Nat /\ k + 1 \in 1..Len(s) + 1
  BY <1>1 DEF Chain
<1>3. \A j \in 1..Len(s) : s[j] # p
  BY <1>2 DEF Free, Elems
<1>4. next[At(s, k)] = At(s, k + 1)
  BY <1>1 DEF Chain
<1>5. /\ next' = [q \in DOMAIN next |-> IF q = At(s, k) THEN p ELSE IF q = p THEN At(s, k + 1) ELSE next[q]]
      /\ tail' = IF At(s, k + 1) = Nil THEN p ELSE tail
      /\ count' = count + 1
      /\ iter' = [i \in Live |-> IF iter[i].prev = At(s, k) THEN [iter[i] EXCEPT !.prev = p]
                                 ELSE IF iter[i].pos = At(s, k + 1) THEN [iter[i] EXCEPT !.pos = p]
                                 ELSE iter[i]]
      /\ due' = due /\ got' = got
  BY <1>4, Zenon DEF list_node_create
<1>6. Chain(next', d)
  BY <1>1, <1>3, <1>5, ChainIns
<1>7. Len(d) = Len(s) + 1
  BY <1>2, InsIs
<1>8. At(d, Len(d)) = IF k = Len(s) THEN p ELSE At(s, Len(s))
  <2>1. Len(s) + 1 \in 0..Len(s) + 2 /\ (Len(s) + 1) - 1 = Len(s)
    BY <1>2
  <2>2. \A r \in 0..Len(s) + 2 :
          At(d, r) = IF r < k + 1 THEN At(s, r) ELSE IF r = k + 1 THEN p ELSE At(s, r - 1)
    BY <1>2, AtIns
  <2> HIDE DEF d
  <2>3. CASE k = Len(s)
    BY <1>2, <1>7, <2>1, <2>2, <2>3
  <2>4. CASE k # Len(s)
    <3>1. ~(Len(s) + 1 < k + 1) /\ Len(s) + 1 # k + 1
      BY <1>2, <2>4
    <3> QED BY <1>7, <2>1, <2>2, <2>4, <3>1
  <2> QED BY <2>3, <2>4
<1>9. At(s, k + 1) = Nil <=> k = Len(s)
  BY <1>1, <1>2, AtIs, AtOnce
<1>10. count' = Len(d) /\ tail' = At(d, Len(d))
  BY <1>1, <1>5, <1>7, <1>8, <1>9
<1>11. ASSUME NEW i \in Live PROVE IterOK(iter'[i], d, due[i], got[i])
  <2>1. iter'[i] = IF iter[i].prev = At(s, k) THEN [iter[i] EXCEPT !.prev = p]
                   ELSE IF iter[i].pos = At(s, k + 1) THEN [iter[i] EXCEPT !.pos = p] ELSE iter[i]
    BY <1>5
  <2>2. IterOK(iter[i], s, due[i], got[i])
    BY <1>1
  <2> QED BY <1>1, <2>1, <2>2, IterIns
<1>12. DOMAIN iter' = Live
  BY <1>5
<1> HIDE DEF d
<1>13. ListOK(List', d)
  <2>1. /\ List'.next = next' /\ List'.tail = tail' /\ List'.count = count'
        /\ List'.iter = iter' /\ List'.due = due' /\ List'.got = got'
    BY DEF List
  <2> QED BY <1>1, <1>5, <1>6, <1>10, <1>11, <1>12, <2>1 DEF ListOK, Live
<1> QED BY <1>13 DEF d

-----------------------------------------------------------------------------
(* From follows the links.                                                 *)

Rest(s, k) == [j \in 1..Len(s) - k |-> s[k + j]]

\* The function that defines From.
Follows(f) ==
  f = [p \in {Head0, Nil} \cup Nodes |->
         IF p = Nil \/ next[p] = Nil THEN <<>> ELSE <<next[p]>> \o f[next[p]]]

LEMMA RestStep ==
  ASSUME NEW s \in Seq(Nodes)
  PROVE  /\ \A k \in 0..Len(s) : Rest(s, k) \in Seq(Nodes) /\ Len(Rest(s, k)) = Len(s) - k
         /\ \A k \in 0..Len(s) - 1 : Rest(s, k) = <<s[k + 1]>> \o Rest(s, k + 1)
         /\ Rest(s, 0) = s /\ Rest(s, Len(s)) = <<>>
<1>1. Len(s) \in Nat /\ \A j \in 1..Len(s) : s[j] \in Nodes
  OBVIOUS
<1>2. ASSUME NEW k \in 0..Len(s) PROVE Rest(s, k) \in Seq(Nodes) /\ Len(Rest(s, k)) = Len(s) - k
  <2>1. Rest(s, k) \in [1..Len(s) - k -> Nodes] /\ Len(s) - k \in Nat
    BY <1>1 DEF Rest
  <2> QED BY <2>1
<1>3. ASSUME NEW k \in 0..Len(s) - 1 PROVE Rest(s, k) = <<s[k + 1]>> \o Rest(s, k + 1)
  <2> DEFINE r == <<s[k + 1]>> \o Rest(s, k + 1)
  <2>1. Rest(s, k + 1) \in Seq(Nodes) /\ Len(Rest(s, k + 1)) = Len(s) - k - 1 /\ s[k + 1] \in Nodes
    BY <1>1, <1>2
  <2>2. r \in Seq(Nodes) /\ Len(r) = Len(s) - k
    BY <1>1, <2>1
  <2>3. Rest(s, k) \in Seq(Nodes) /\ Len(Rest(s, k)) = Len(s) - k
    BY <1>1, <1>2
  <2>4. ASSUME NEW j \in 1..Len(s) - k PROVE r[j] = Rest(s, k)[j]
    <3>1. Rest(s, k)[j] = s[k + j]
      BY DEF Rest
    <3>2. CASE j = 1
      BY <1>1, <2>1, <3>1, <3>2
    <3>3. CASE j # 1
      <4>1. j - 1 \in 1..Len(s) - (k + 1) /\ (k + 1) + (j - 1) = k + j
        BY <1>1, <3>3
      <4>2. Rest(s, k + 1)[j - 1] = s[k + j]
        BY <4>1 DEF Rest
      <4>3. r[j] = Rest(s, k + 1)[j - 1]
        BY <1>1, <2>1, <3>3
      <4> QED BY <3>1, <4>2, <4>3
    <3> QED BY <3>2, <3>3
  <2> HIDE DEF r
  <2>5. r = Rest(s, k)
    <3>1. r \in [1..Len(s) - k -> Nodes] /\ Rest(s, k) \in [1..Len(s) - k -> Nodes]
      BY <2>2, <2>3
    <3> QED BY <2>4, <3>1
  <2> QED BY <2>5 DEF r
<1>4. Rest(s, 0) = s /\ Rest(s, Len(s)) = <<>>
  <2>1. Rest(s, 0) \in Seq(Nodes) /\ Len(Rest(s, 0)) = Len(s)
    BY <1>1, <1>2
  <2>2. \A j \in 1..Len(s) : Rest(s, 0)[j] = s[j]
    BY <1>1 DEF Rest
  <2>3. Rest(s, Len(s)) \in Seq(Nodes) /\ Len(Rest(s, Len(s))) = 0
    BY <1>1, <1>2
  <2> QED BY <2>1, <2>2, <2>3
<1> QED BY <1>2, <1>3, <1>4

LEMMA FollowsExists ==
  ASSUME NEW s, Chain(next, s)
  PROVE  \E f : Follows(f)
<1> DEFINE Place(p) == CHOOSE k \in 0..Len(s) : At(s, k) = p
           f == [p \in {Head0, Nil} \cup Nodes |->
                   IF \E k \in 0..Len(s) : At(s, k) = p THEN Rest(s, Place(p)) ELSE <<>>]
           g == [p \in {Head0, Nil} \cup Nodes |->
                   IF p = Nil \/ next[p] = Nil THEN <<>> ELSE <<next[p]>> \o f[next[p]]]
<1>1. s \in Seq(Nodes) /\ Len(s) \in Nat
  BY DEF Chain
<1>2. \A j, k \in 0..Len(s) + 1 : At(s, j) = At(s, k) => j = k
  BY AtOnce
<1>3. \A k \in 0..Len(s) : At(s, k) \in {Head0, Nil} \cup Nodes
  BY <1>1, AtIs
<1>4. ASSUME NEW k \in 0..Len(s) PROVE f[At(s, k)] = Rest(s, k)
  <2>1. Place(At(s, k)) = k
    BY <1>1, <1>2
  <2>2. At(s, k) \in {Head0, Nil} \cup Nodes
    BY <1>3
  <2> HIDE DEF Place
  <2> QED BY <2>1, <2>2
<1>5. ASSUME NEW p \in {Head0, Nil} \cup Nodes PROVE f[p] = g[p]
  <2>1. CASE \E k \in 0..Len(s) : At(s, k) = p
    <3>1. PICK k \in 0..Len(s) : At(s, k) = p
      BY <2>1
    <3>2. f[p] = Rest(s, k) /\ p # Nil /\ next[p] = At(s, k + 1)
      <4>1. At(s, Len(s) + 1) = Nil
        BY <1>1, AtIs
      <4>2. p # Nil
        BY <1>1, <1>2, <3>1, <4>1
      <4>3. next[p] = At(s, k + 1)
        BY <3>1 DEF Chain
      <4>4. f[p] = Rest(s, k)
        BY <1>4, <3>1
      <4> QED BY <4>2, <4>3, <4>4
    <3> HIDE DEF f
    <3>3. CASE k = Len(s)
      <4>1. next[p] = Nil
        BY <1>1, <3>2, <3>3, AtIs
      <4> QED BY <1>1, <3>2, <3>3, <4>1, RestStep
    <3>4. CASE k < Len(s)
      <4>1. k + 1 \in 0..Len(s) /\ At(s, k + 1) = s[k + 1] /\ At(s, k + 1) \in Nodes
        BY <1>1, <3>4, AtIs
      <4>2. next[p] # Nil
        BY <1>1, <3>2, <4>1, AtIs
      <4>3. f[next[p]] = Rest(s, k + 1)
        BY <1>4, <3>2, <4>1
      <4>4. Rest(s, k) = <<s[k + 1]>> \o Rest(s, k + 1)
        <5>1. k \in 0..Len(s) - 1
          BY <1>1, <3>4
        <5> QED BY <1>1, <5>1, RestStep, Zenon
      <4> QED BY <3>2, <4>1, <4>2, <4>3, <4>4
    <3> QED BY <1>1, <3>3, <3>4
  <2>2. CASE ~(\E k \in 0..Len(s) : At(s, k) = p)
    <3>1. p # Nil => next[p] = Nil
      <4>1. p # Head0
        BY <1>1, <2>2, AtIs
      <4>2. p # Nil => p \in Nodes /\ \A k \in 1..Len(s) : s[k] # p
        BY <1>1, <2>2, <4>1, AtIs
      <4> QED BY <4>2 DEF Chain
    <3> QED BY <2>2, <3>1
  <2> QED BY <2>1, <2>2
<1>6. f = g
  BY <1>5
<1> QED BY <1>6, Zenon DEF Follows

LEMMA FromIs ==
  ASSUME NEW s, Chain(next, s)
  PROVE  From[Nil] = <<>> /\ \A k \in 0..Len(s) : From[At(s, k)] = Rest(s, k)
<1> DEFINE f == CHOOSE g : Follows(g)
<1>1. From = f
  BY Zenon DEF From, Follows
<1>2. Follows(f)
  BY FollowsExists
<1> HIDE DEF f
<1>3. \A p \in {Head0, Nil} \cup Nodes :
        f[p] = IF p = Nil \/ next[p] = Nil THEN <<>> ELSE <<next[p]>> \o f[next[p]]
  BY <1>2 DEF Follows
<1>4. s \in Seq(Nodes) /\ Len(s) \in Nat
  BY DEF Chain
<1> DEFINE T == {m \in Nat : m <= Len(s) => f[At(s, Len(s) - m)] = Rest(s, Len(s) - m)}
<1>5. \A k \in 0..Len(s) : At(s, k) \in {Head0, Nil} \cup Nodes /\ At(s, k) # Nil /\ next[At(s, k)] = At(s, k + 1)
  <2> SUFFICES ASSUME NEW k \in 0..Len(s)
               PROVE  At(s, k) \in {Head0, Nil} \cup Nodes /\ At(s, k) # Nil /\ next[At(s, k)] = At(s, k + 1)
    OBVIOUS
  <2>1. k = 0 \/ k \in 1..Len(s)
    BY <1>4
  <2>2. At(s, k) \in {Head0, Nil} \cup Nodes /\ At(s, k) # Nil
    BY <1>4, <2>1, AtIs
  <2> QED BY <2>2 DEF Chain
<1>6. 0 \in T
  <2>1. At(s, Len(s) + 1) = Nil
    BY <1>4, AtIs
  <2>2. f[At(s, Len(s))] = <<>>
    <3>1. Len(s) \in 0..Len(s)
      BY <1>4
    <3>2. At(s, Len(s)) \in {Head0, Nil} \cup Nodes /\ next[At(s, Len(s))] = Nil
      BY <1>5, <2>1, <3>1
    <3> QED BY <1>3, <3>2
  <2> QED BY <1>4, <2>2, RestStep
<1>7. ASSUME NEW m \in Nat, m \in T PROVE m + 1 \in T
  <2> SUFFICES ASSUME m + 1 <= Len(s)
               PROVE  f[At(s, Len(s) - (m + 1))] = Rest(s, Len(s) - (m + 1))
    OBVIOUS
  <2>0. Len(s) - (m + 1) \in 0..Len(s) - 1
    BY <1>4
  <2>1. PICK k \in 0..Len(s) - 1 : k = Len(s) - (m + 1)
    BY <2>0
  <2>2. k + 1 = Len(s) - m /\ k + 1 \in 1..Len(s) /\ k \in 0..Len(s)
    BY <1>4, <2>1
  <2>3. f[At(s, k + 1)] = Rest(s, k + 1)
    BY <1>4, <1>7, <2>2
  <2>4. At(s, k + 1) = s[k + 1] /\ At(s, k + 1) # Nil
    BY <1>4, <2>2, AtIs
  <2>5. f[At(s, k)] = <<s[k + 1]>> \o Rest(s, k + 1)
    <3>1. f[At(s, k)] = <<next[At(s, k)]>> \o f[next[At(s, k)]]
      BY <1>3, <1>5, <2>2, <2>4
    <3> QED BY <1>5, <2>2, <2>3, <2>4, <3>1
  <2> QED BY <1>4, <2>1, <2>5, RestStep
<1>8. T \subseteq Nat
  OBVIOUS
<1> HIDE DEF T
<1>9. T = Nat
  BY <1>6, <1>7, <1>8, NatBySets
<1>10. ASSUME NEW k \in 0..Len(s) PROVE f[At(s, k)] = Rest(s, k)
  <2>1. Len(s) - k \in T /\ Len(s) - (Len(s) - k) = k
    BY <1>4, <1>9
  <2> QED BY <1>4, <2>1 DEF T
<1>11. f[Nil] = <<>>
  BY <1>3
<1> QED BY <1>1, <1>10, <1>11

LEMMA InListIs ==
  ASSUME NEW s, Chain(next, s)
  PROVE  From[Head0] = s /\ InList = Elems(s)
<1>1. s \in Seq(Nodes)
  BY DEF Chain
<1>2. From[At(s, 0)] = Rest(s, 0)
  BY <1>1, FromIs
<1>3. At(s, 0) = Head0 /\ Rest(s, 0) = s
  BY <1>1, AtIs, RestStep
<1>4. From[Head0] = s
  BY <1>2, <1>3
<1> QED BY <1>4, Zenon DEF InList

-----------------------------------------------------------------------------
(* The calls.                                                              *)

LEMMA NowIs ==
  ASSUME NEW s, ListOK(List, s)
  PROVE  /\ Chain(next, s) /\ count = Len(s) /\ tail = At(s, Len(s))
         /\ DOMAIN due = Live /\ DOMAIN got = Live /\ DOMAIN iter = Live
         /\ \A i \in Live : IterOK(iter[i], s, due[i], got[i])
         /\ s \in Seq(Nodes) /\ Len(s) \in Nat /\ From[Head0] = s /\ InList = Elems(s)
<1>1. /\ Chain(next, s) /\ count = Len(s) /\ tail = At(s, Len(s))
      /\ DOMAIN due = Live /\ DOMAIN got = Live /\ DOMAIN iter = Live
      /\ \A i \in Live : IterOK(iter[i], s, due[i], got[i])
  BY ListIs DEF ListOK, Live
<1>2. s \in Seq(Nodes) /\ Len(s) \in Nat
  BY <1>1 DEF Chain
<1> QED BY <1>1, <1>2, InListIs

LEMMA ThenOK ==
  ASSUME NEW s, Chain(next', s), count' = Len(s), tail' = At(s, Len(s)),
         DOMAIN due' = DOMAIN iter', DOMAIN got' = DOMAIN iter',
         \A i \in DOMAIN iter' : IterOK(iter'[i], s, due'[i], got'[i])
  PROVE  ListInv'
<1>1. /\ List'.next = next' /\ List'.tail = tail' /\ List'.count = count'
      /\ List'.iter = iter' /\ List'.due = due' /\ List'.got = got'
  BY DEF List
<1>2. ListOK(List', s)
  BY <1>1 DEF ListOK
<1> QED BY <1>2 DEF ListInv

LEMMA BecomeOK ==
  ASSUME NEW l, NEW s, ListOK(l, s), Become(l)
  PROVE  ListInv'
BY ThenOK DEF Become, ListOK

LEMMA NodeCreated ==
  ASSUME NEW s, ListOK(List, s), NEW k \in 0..Len(s), NEW p \in Nodes, p \in Free,
         list_node_create(At(s, k), p)
  PROVE  ListInv'
BY NowIs, CreatedOK DEF ListInv

LEMMA NodeDestroyed ==
  ASSUME NEW s, ListOK(List, s), NEW k \in 0..Len(s), list_node_destroy(At(s, k))
  PROVE  ListInv'
<1>1. Chain(next, s) /\ Len(s) \in Nat /\ s \in Seq(Nodes)
  BY NowIs
<1>2. At(s, k) = At(s, k) /\ next[At(s, k)] = At(s, k + 1)
  BY <1>1 DEF Chain
<1>3. k # Len(s)
  BY <1>1, <1>2, AtIs DEF list_node_destroy
<1>4. ListOK(Destroyed(List, At(s, k)), Del(s, k + 1))
  BY <1>1, <1>3, DestroyedOK
<1> QED BY <1>4, BecomeOK DEF list_node_destroy

\* No node: list_create, list_flush, list_destroy.
LEMMA NoNodes ==
  /\ Chain([p \in {Head0} \cup Nodes |-> Nil], <<>>)
  /\ Len(<<>>) = 0 /\ At(<<>>, 0) = Head0 /\ At(<<>>, 1) = Nil
<1>1. At(<<>>, 0) = Head0 /\ At(<<>>, 1) = Nil
  BY DEF At
<1> QED BY <1>1 DEF Chain

LEMMA ListCreate == list_create => ListInv
<1> SUFFICES ASSUME list_create PROVE ListInv
  OBVIOUS
<1>1. /\ next = [p \in {Head0} \cup Nodes |-> Nil] /\ tail = Head0 /\ count = 0
      /\ iter = <<>> /\ due = <<>> /\ got = <<>>
  BY DEF list_create
<1>2. DOMAIN iter = {}
  BY <1>1
<1>3. ListOK(List, <<>>)
  BY <1>1, <1>2, NoNodes, ListIs DEF ListOK
<1> QED BY <1>3 DEF ListInv

LEMMA ListDestroy == list_destroy => ListInv'
<1> SUFFICES ASSUME list_destroy PROVE ListInv'
  OBVIOUS
<1>1. /\ next' = [p \in {Head0} \cup Nodes |-> Nil] /\ tail' = Head0 /\ count' = 0
      /\ iter' = <<>> /\ due' = <<>> /\ got' = <<>>
  BY DEF list_destroy
<1>2. DOMAIN iter' = {}
  BY <1>1
<1> QED BY <1>1, <1>2, NoNodes, ThenOK

LEMMA ListFlush == list_flush => ListInv'
<1> SUFFICES ASSUME list_flush PROVE ListInv'
  OBVIOUS
<1>1. /\ next' = [p \in {Head0} \cup Nodes |-> Nil] /\ tail' = Head0 /\ count' = 0
      /\ iter' = [i \in Live |-> [pos |-> Nil, prev |-> Head0]]
      /\ due' = [i \in Live |-> {}] /\ got' = [i \in Live |-> {}]
  BY DEF list_flush
<1>2. IterOK([pos |-> Nil, prev |-> Head0], <<>>, {}, {})
  <2>1. 1 \in 1..Len(<<>>) + 1 /\ 0 \in 0..Len(<<>>) /\ 1 \in {0 + 1, 0 + 2}
    BY NoNodes
  <2>2. [pos |-> Nil, prev |-> Head0] = [pos |-> At(<<>>, 1), prev |-> At(<<>>, 0)]
    BY NoNodes
  <2> QED BY <2>1, <2>2 DEF IterOK
<1>3. \A i \in DOMAIN iter' : IterOK(iter'[i], <<>>, due'[i], got'[i])
  BY <1>1, <1>2
<1>4. DOMAIN due' = DOMAIN iter' /\ DOMAIN got' = DOMAIN iter'
  BY <1>1
<1>5. Chain(next', <<>>) /\ count' = Len(<<>>) /\ tail' = At(<<>>, Len(<<>>))
  BY <1>1, NoNodes
<1> QED BY <1>3, <1>4, <1>5, ThenOK

\* A pass begins: list_iterator_create, list_iterator_reset and list_sort.
LEMMA PassBegins ==
  ASSUME NEW s \in Seq(Nodes)
  PROVE  IterOK([pos |-> At(s, 1), prev |-> Head0], s, Elems(s), {})
<1>1. Len(s) \in Nat /\ 1 \in 1..Len(s) + 1 /\ 0 \in 0..Len(s) /\ 1 \in {0 + 1, 0 + 2}
  OBVIOUS
<1>2. At(s, 0) = Head0
  BY AtIs
<1>3. Elems(s) \subseteq {s[k] : k \in 1..Len(s)}
  BY DEF Elems
<1> QED BY <1>1, <1>2, <1>3 DEF IterOK

LEMMA IteratorCreate ==
  ASSUME ListInv, NEW i \in Iterators, list_iterator_create(i)
  PROVE  ListInv'
<1>1. PICK s : ListOK(List, s)
  BY DEF ListInv
<1>2. /\ Chain(next, s) /\ count = Len(s) /\ tail = At(s, Len(s))
      /\ \A j \in Live : IterOK(iter[j], s, due[j], got[j])
      /\ s \in Seq(Nodes) /\ Len(s) \in Nat /\ InList = Elems(s)
  BY <1>1, NowIs
<1>3. /\ iter' = [j \in Live \cup {i} |-> IF j = i THEN [pos |-> next[Head0], prev |-> Head0] ELSE iter[j]]
      /\ due' = [j \in Live \cup {i} |-> IF j = i THEN InList ELSE due[j]]
      /\ got' = [j \in Live \cup {i} |-> IF j = i THEN {} ELSE got[j]]
      /\ next' = next /\ tail' = tail /\ count' = count
  BY DEF list_iterator_create
<1>4. next[Head0] = At(s, 1)
  <2>1. next[At(s, 0)] = At(s, 0 + 1)
    BY <1>2 DEF Chain
  <2> QED BY <1>2, <2>1, AtIs
<1>5. IterOK([pos |-> next[Head0], prev |-> Head0], s, InList, {})
  BY <1>2, <1>4, PassBegins
<1>6. \A j \in DOMAIN iter' : IterOK(iter'[j], s, due'[j], got'[j])
  BY <1>2, <1>3, <1>5
<1>7. DOMAIN due' = DOMAIN iter' /\ DOMAIN got' = DOMAIN iter'
  BY <1>3
<1> QED BY <1>2, <1>3, <1>6, <1>7, ThenOK

LEMMA IteratorDestroy ==
  ASSUME ListInv, NEW i \in Live, list_iterator_destroy(i)
  PROVE  ListInv'
<1>1. PICK s : ListOK(List, s)
  BY DEF ListInv
<1>2. /\ Chain(next, s) /\ count = Len(s) /\ tail = At(s, Len(s))
      /\ \A j \in Live : IterOK(iter[j], s, due[j], got[j])
  BY <1>1, NowIs
<1>3. /\ iter' = [j \in Live \ {i} |-> iter[j]] /\ due' = [j \in Live \ {i} |-> due[j]]
      /\ got' = [j \in Live \ {i} |-> got[j]] /\ next' = next /\ tail' = tail /\ count' = count
  BY DEF list_iterator_destroy
<1> QED BY <1>2, <1>3, ThenOK

LEMMA ListNext ==
  ASSUME ListInv, NEW i \in Live, list_next(i)
  PROVE  ListInv'
<1>1. PICK s : ListOK(List, s)
  BY DEF ListInv
<1>2. /\ Chain(next, s) /\ count = Len(s) /\ tail = At(s, Len(s))
      /\ DOMAIN due = Live /\ DOMAIN got = Live /\ DOMAIN iter = Live
      /\ \A j \in Live : IterOK(iter[j], s, due[j], got[j])
      /\ s \in Seq(Nodes) /\ Len(s) \in Nat
  BY <1>1, NowIs
<1>3. PICK a \in 1..Len(s) + 1, b \in 0..Len(s) :
        /\ iter[i] = [pos |-> At(s, a), prev |-> At(s, b)] /\ a \in {b + 1, b + 2}
        /\ due[i] \subseteq {s[k] : k \in a..Len(s)} /\ got[i] \subseteq {s[k] : k \in 1..a - 1}
  BY <1>2 DEF IterOK
<1>4. iter[i].pos = At(s, a) /\ iter[i].prev = At(s, b)
  BY <1>3
<1>5. /\ iter' = [iter EXCEPT ![i] =
                    [pos  |-> IF At(s, a) = Nil THEN Nil ELSE next[At(s, a)],
                     prev |-> IF next[At(s, b)] # At(s, a) THEN next[At(s, b)] ELSE At(s, b)]]
      /\ due' = [due EXCEPT ![i] = due[i] \ {At(s, a)}]
      /\ got' = [got EXCEPT ![i] = IF At(s, a) = Nil THEN got[i] ELSE got[i] \cup {At(s, a)}]
      /\ next' = next /\ tail' = tail /\ count' = count
  BY <1>4, Zenon DEF list_next
<1> DEFINE a2 == IF a = Len(s) + 1 THEN a ELSE a + 1
           b2 == a - 1
<1>6. At(s, a) = Nil <=> a = Len(s) + 1
  BY <1>2, AtIs, AtOnce
<1>7. (IF At(s, a) = Nil THEN Nil ELSE next[At(s, a)]) = At(s, a2)
  <2>1. a # Len(s) + 1 => next[At(s, a)] = At(s, a + 1)
    <3>1. a # Len(s) + 1 => a \in 0..Len(s)
      BY <1>2
    <3>2. \A k \in 0..Len(s) : next[At(s, k)] = At(s, k + 1)
      BY <1>2 DEF Chain
    <3> QED BY <3>1, <3>2
  <2>2. At(s, Len(s) + 1) = Nil
    BY <1>2, AtIs
  <2> QED BY <1>6, <2>1, <2>2
<1>8. (IF next[At(s, b)] # At(s, a) THEN next[At(s, b)] ELSE At(s, b)) = At(s, b2)
  <2>1. next[At(s, b)] = At(s, b + 1)
    BY <1>2 DEF Chain
  <2>2. CASE a = b + 1
    BY <1>2, <2>1, <2>2
  <2>3. CASE a = b + 2
    <3>1. At(s, b + 1) # At(s, a) /\ b2 = b + 1
      BY <1>2, <2>3, AtOnce
    <3> QED BY <2>1, <3>1
  <2> QED BY <1>3, <2>2, <2>3
<1>9. a2 \in 1..Len(s) + 1 /\ b2 \in 0..Len(s) /\ a2 \in {b2 + 1, b2 + 2}
  BY <1>2
<1>10. due[i] \ {At(s, a)} \subseteq {s[k] : k \in a2..Len(s)}
  <2>1. \A k \in a..Len(s) : s[k] # At(s, a) => k \in a2..Len(s)
    BY <1>2, AtIs
  <2> QED BY <1>3, <2>1
<1>11. (IF At(s, a) = Nil THEN got[i] ELSE got[i] \cup {At(s, a)}) \subseteq {s[k] : k \in 1..a2 - 1}
  <2>1. CASE a = Len(s) + 1
    BY <1>2, <1>3, <1>6, <2>1
  <2>2. CASE a # Len(s) + 1
    <3>1. At(s, a) = s[a] /\ a \in 1..a2 - 1 /\ \A k \in 1..a - 1 : k \in 1..a2 - 1
      BY <1>2, <2>2, AtIs
    <3> QED BY <1>3, <1>6, <2>2, <3>1
  <2> QED BY <2>1, <2>2
<1> HIDE DEF a2, b2
<1>12. iter'[i] = [pos |-> At(s, a2), prev |-> At(s, b2)]
  BY <1>2, <1>5, <1>7, <1>8
<1>13. due'[i] \subseteq {s[k] : k \in a2..Len(s)} /\ got'[i] \subseteq {s[k] : k \in 1..a2 - 1}
  BY <1>2, <1>5, <1>10, <1>11
<1>14. IterOK(iter'[i], s, due'[i], got'[i])
  BY <1>9, <1>12, <1>13 DEF IterOK
<1>15. \A j \in Live \ {i} : iter'[j] = iter[j] /\ due'[j] = due[j] /\ got'[j] = got[j]
  BY <1>2, <1>5
<1>16. DOMAIN iter' = Live /\ DOMAIN due' = Live /\ DOMAIN got' = Live
  BY <1>2, <1>5
<1>17. \A j \in DOMAIN iter' : IterOK(iter'[j], s, due'[j], got'[j])
  BY <1>2, <1>14, <1>15, <1>16
<1> QED BY <1>2, <1>5, <1>16, <1>17, ThenOK

\* list_append, list_enqueue, list_prepend, list_push and list_insert.
LEMMA NodePutIn ==
  ASSUME ListInv, NEW p \in Nodes,
         list_append(p) \/ list_prepend(p) \/ \E i \in Live : list_insert(i, p)
  PROVE  ListInv'
<1>1. PICK s : ListOK(List, s)
  BY DEF ListInv
<1>2. /\ tail = At(s, Len(s)) /\ \A i \in Live : IterOK(iter[i], s, due[i], got[i])
      /\ s \in Seq(Nodes) /\ Len(s) \in Nat /\ At(s, 0) = Head0
  <2>1. tail = At(s, Len(s)) /\ s \in Seq(Nodes) /\ Len(s) \in Nat
    BY <1>1, NowIs
  <2>2. \A i \in Live : IterOK(iter[i], s, due[i], got[i])
    BY <1>1, NowIs
  <2> QED BY <2>1, <2>2, AtIs
<1>3. CASE list_append(p)
  BY <1>1, <1>2, <1>3, NodeCreated DEF list_append
<1>4. CASE list_prepend(p)
  BY <1>1, <1>2, <1>4, NodeCreated DEF list_prepend
<1>5. CASE \E i \in Live : list_insert(i, p)
  <2>1. PICK i \in Live : list_insert(i, p)
    BY <1>5
  <2>2. PICK b \in 0..Len(s) : iter[i].prev = At(s, b)
    <3>1. IterOK(iter[i], s, due[i], got[i])
      BY <1>2
    <3>2. PICK a \in 1..Len(s) + 1, b \in 0..Len(s) : iter[i] = [pos |-> At(s, a), prev |-> At(s, b)]
      BY <3>1 DEF IterOK
    <3> QED BY <3>2
  <2> QED BY <1>1, <2>1, <2>2, NodeCreated DEF list_insert
<1> QED BY <1>3, <1>4, <1>5

\* list_pop, list_dequeue, list_remove and list_delete_item.
LEMMA NodeTakenOut ==
  ASSUME ListInv, list_pop \/ \E i \in Live : list_remove(i)
  PROVE  ListInv'
<1>1. PICK s : ListOK(List, s)
  BY DEF ListInv
<1>2. /\ \A i \in Live : IterOK(iter[i], s, due[i], got[i])
      /\ s \in Seq(Nodes) /\ Len(s) \in Nat /\ At(s, 0) = Head0
  <2>1. s \in Seq(Nodes) /\ Len(s) \in Nat
    BY <1>1, NowIs
  <2>2. \A i \in Live : IterOK(iter[i], s, due[i], got[i])
    BY <1>1, NowIs
  <2> QED BY <2>1, <2>2, AtIs
<1>3. CASE list_pop
  BY <1>1, <1>2, <1>3, NodeDestroyed DEF list_pop
<1>4. CASE \E i \in Live : list_remove(i)
  <2>1. PICK i \in Live : list_remove(i)
    BY <1>4
  <2>2. PICK b \in 0..Len(s) : iter[i].prev = At(s, b)
    <3>1. IterOK(iter[i], s, due[i], got[i])
      BY <1>2
    <3>2. PICK a \in 1..Len(s) + 1, b \in 0..Len(s) : iter[i] = [pos |-> At(s, a), prev |-> At(s, b)]
      BY <3>1 DEF IterOK
    <3> QED BY <3>2
  <2> QED BY <1>1, <2>1, <2>2, NodeDestroyed DEF list_remove
<1> QED BY <1>3, <1>4

\* What the next turn of list_delete_all makes of the list and the place, t.
Turn(t, p, k) ==
  IF Key[p] = k THEN [l |-> Destroyed(t.l, t.pp), pp |-> t.pp] ELSE [l |-> t.l, pp |-> p]

TurnsTo(f, s, k, m) ==
  f = [n \in 0..m |-> IF n = 0 THEN [l |-> List, pp |-> Head0] ELSE Turn(f[n-1], s[n], k)]

LEMMA TurnsExist ==
  ASSUME NEW s, NEW k, NEW m \in Nat
  PROVE  \E f : TurnsTo(f, s, k, m)
<1> DEFINE T == {n \in Nat : \E g : TurnsTo(g, s, k, n)}
<1>1. 0 \in T
  <2>1. TurnsTo([n \in 0..0 |-> [l |-> List, pp |-> Head0]], s, k, 0)
    BY DEF TurnsTo
  <2> QED BY <2>1
<1>2. ASSUME NEW n \in Nat, n \in T PROVE n + 1 \in T
  <2>1. PICK g : TurnsTo(g, s, k, n)
    BY <1>2
  <2> DEFINE h == [i \in 0..(n+1) |-> IF i <= n THEN g[i] ELSE Turn(g[n], s[n+1], k)]
  <2>2. \A i \in 0..n : g[i] = IF i = 0 THEN [l |-> List, pp |-> Head0] ELSE Turn(g[i-1], s[i], k)
    BY <2>1 DEF TurnsTo
  <2>3. ASSUME NEW i \in 0..(n+1)
        PROVE  h[i] = IF i = 0 THEN [l |-> List, pp |-> Head0] ELSE Turn(h[i-1], s[i], k)
    <3>1. CASE i \in 0..n
      <4>1. h[i] = g[i] /\ (i # 0 => h[i-1] = g[i-1])
        BY <3>1
      <4> HIDE DEF h
      <4> QED BY <2>2, <3>1, <4>1
    <3>2. CASE i = n + 1
      <4>1. h[n+1] = Turn(g[n], s[n+1], k) /\ h[n] = g[n] /\ (n + 1) - 1 = n /\ n + 1 # 0
        OBVIOUS
      <4> HIDE DEF h
      <4> QED BY <3>2, <4>1
    <3> QED BY <3>1, <3>2
  <2>4. TurnsTo(h, s, k, n+1)
    BY <2>3 DEF TurnsTo
  <2> QED BY <2>4
<1>3. T \subseteq Nat
  OBVIOUS
<1> HIDE DEF T
<1>4. T = Nat
  BY <1>1, <1>2, <1>3, NatBySets
<1> QED BY <1>4 DEF T

\* After n turns the place is before the nodes that are still to be looked at.
LEMMA TurnsOK ==
  ASSUME NEW s, ListOK(List, s), NEW k, NEW f, TurnsTo(f, s, k, Len(s))
  PROVE  \E d : ListOK(f[Len(s)].l, d)
<1> DEFINE Good(m, d, c) ==
             /\ ListOK(f[m].l, d) /\ c \in 0..Len(d) /\ f[m].pp = At(d, c) /\ Len(d) - c = Len(s) - m
             /\ \A j \in 1..Len(s) - m : d[c + j] = s[m + j]
           T == {m \in Nat : m <= Len(s) => \E d, c : Good(m, d, c)}
<1>1. s \in Seq(Nodes) /\ Len(s) \in Nat
  BY NowIs
<1>2. f[0] = [l |-> List, pp |-> Head0] /\ \A m \in 1..Len(s) : f[m] = Turn(f[m-1], s[m], k)
  <2>1. \A m \in 0..Len(s) : f[m] = IF m = 0 THEN [l |-> List, pp |-> Head0] ELSE Turn(f[m-1], s[m], k)
    BY DEF TurnsTo
  <2>2. 0 \in 0..Len(s) /\ \A m \in 1..Len(s) : m \in 0..Len(s) /\ m # 0
    BY <1>1
  <2> QED BY <2>1, <2>2
<1>3. 0 \in T
  <2>1. Good(0, s, 0)
    <3>1. f[0].l = List /\ f[0].pp = Head0
      BY <1>2
    <3>2. At(s, 0) = Head0 /\ 0 \in 0..Len(s) /\ \A j \in 1..Len(s) - 0 : s[0 + j] = s[0 + j]
      BY <1>1, AtIs
    <3> QED BY <3>1, <3>2
  <2> HIDE DEF Good
  <2> QED BY <2>1
<1>4. ASSUME NEW m \in Nat, m \in T PROVE m + 1 \in T
  <2> SUFFICES ASSUME m + 1 <= Len(s) PROVE \E d, c : Good(m + 1, d, c)
    OBVIOUS
  <2>1. PICK d, c : Good(m, d, c)
    BY <1>1, <1>4
  <2>2. f[m + 1] = Turn(f[m], s[m + 1], k)
    <3>1. m + 1 \in 1..Len(s) /\ (m + 1) - 1 = m
      BY <1>1
    <3> QED BY <1>2, <3>1
  <2>3. /\ ListOK(f[m].l, d) /\ c \in 0..Len(d) /\ f[m].pp = At(d, c) /\ Len(d) - c = Len(s) - m
        /\ \A j \in 1..Len(s) - m : d[c + j] = s[m + j]
    BY <2>1
  <2>4. d \in Seq(Nodes) /\ Len(d) \in Nat /\ c \in 0..Len(d) - 1
    <3>1. Chain(f[m].l.next, d)
      BY <2>3 DEF ListOK
    <3>2. d \in Seq(Nodes)
      BY <3>1 DEF Chain
    <3> QED BY <1>1, <2>3, <3>2
  <2>5. d[c + 1] = s[m + 1] /\ At(d, c + 1) = d[c + 1]
    <3>1. 1 \in 1..Len(s) - m /\ c + 1 \in 1..Len(d)
      BY <1>1, <2>3, <2>4
    <3> QED BY <2>3, <2>4, <3>1, AtIs
  <2>6. CASE Key[s[m + 1]] = k
    <3>1. f[m + 1].l = Destroyed(f[m].l, At(d, c)) /\ f[m + 1].pp = At(d, c)
      BY <2>2, <2>3, <2>6 DEF Turn
    <3> DEFINE e == Del(d, c + 1)
    <3>2. ListOK(f[m + 1].l, e)
      BY <2>3, <2>4, <3>1, DestroyedOK
    <3>3. Len(e) = Len(d) - 1 /\ \A j \in 1..Len(d) - 1 : e[j] = IF j < c + 1 THEN d[j] ELSE d[j + 1]
      BY <2>4, DelIs
    <3>4. At(e, c) = At(d, c)
      BY <2>4, AtDel
    <3> HIDE DEF e
    <3>5. c \in 0..Len(e) /\ Len(e) - c = Len(s) - (m + 1)
      BY <1>1, <2>3, <2>4, <3>3
    <3>6. ASSUME NEW j \in 1..Len(s) - (m + 1) PROVE e[c + j] = s[(m + 1) + j]
      <4>1. e[c + j] = d[(c + j) + 1]
        <5>1. c + j \in 1..Len(d) - 1 /\ ~(c + j < c + 1)
          BY <1>1, <2>3, <2>4
        <5> QED BY <3>3, <5>1
      <4>2. j + 1 \in 1..Len(s) - m /\ c + (j + 1) = (c + j) + 1 /\ m + (j + 1) = (m + 1) + j
        BY <1>1, <2>4
      <4>3. d[c + (j + 1)] = s[m + (j + 1)]
        BY <2>3, <4>2
      <4> QED BY <4>1, <4>2, <4>3
    <3>7. Good(m + 1, e, c)
      BY <3>1, <3>2, <3>4, <3>5, <3>6
    <3> HIDE DEF Good
    <3> QED BY <3>7
  <2>7. CASE Key[s[m + 1]] # k
    <3>1. f[m + 1].l = f[m].l /\ f[m + 1].pp = s[m + 1]
      BY <2>2, <2>7 DEF Turn
    <3>2. c + 1 \in 0..Len(d) /\ Len(d) - (c + 1) = Len(s) - (m + 1)
      BY <1>1, <2>3, <2>4
    <3>3. ASSUME NEW j \in 1..Len(s) - (m + 1) PROVE d[(c + 1) + j] = s[(m + 1) + j]
      <4>1. j + 1 \in 1..Len(s) - m /\ c + (j + 1) = (c + 1) + j /\ m + (j + 1) = (m + 1) + j
        BY <1>1, <2>4
      <4>2. d[c + (j + 1)] = s[m + (j + 1)]
        BY <2>3, <4>1
      <4> QED BY <4>1, <4>2
    <3>4. Good(m + 1, d, c + 1)
      BY <2>3, <2>5, <3>1, <3>2, <3>3
    <3> HIDE DEF Good
    <3> QED BY <3>4
  <2> QED BY <2>6, <2>7
<1>5. T \subseteq Nat
  OBVIOUS
<1> HIDE DEF T
<1>6. T = Nat
  BY <1>3, <1>4, <1>5, NatBySets
<1>7. PICK d, c : Good(Len(s), d, c)
  BY <1>1, <1>6 DEF T
<1>8. ListOK(f[Len(s)].l, d)
  BY <1>7
<1> QED BY <1>8

LEMMA ListDeleteAll ==
  ASSUME ListInv, NEW k, list_delete_all(k)
  PROVE  ListInv'
<1>1. PICK s : ListOK(List, s)
  BY DEF ListInv
<1>2. From[Head0] = s /\ Len(s) \in Nat
  BY <1>1, NowIs
<1> DEFINE f == CHOOSE g : TurnsTo(g, s, k, Len(s))
<1>3. TurnsTo(f, s, k, Len(s))
  BY <1>2, TurnsExist
<1>4. Become(f[Len(s)].l)
  BY <1>2, ZenonT(60) DEF list_delete_all, TurnsTo, Turn
<1> HIDE DEF f
<1>5. PICK d : ListOK(f[Len(s)].l, d)
  BY <1>1, <1>3, TurnsOK
<1> QED BY <1>4, <1>5, BecomeOK

LEMMA ListSort == ListInv /\ list_sort => ListInv'
<1> SUFFICES ASSUME ListInv, list_sort PROVE ListInv'
  OBVIOUS
<1> DEFINE s == From[Head0]
<1>1. ListOK(List, s)
  <2>1. PICK z : ListOK(List, z)
    BY DEF ListInv
  <2>2. From[Head0] = z
    BY <2>1, NowIs
  <2> QED BY <2>1, <2>2
<1> DEFINE Place(p) == CHOOSE n \in DOMAIN s : s[n] = p
<1>3. PICK t \in [DOMAIN s -> InList] :
        /\ \A m, n \in DOMAIN t : m < n =>
             \/ Key[t[m]] < Key[t[n]]
             \/ Key[t[m]] = Key[t[n]] /\ Place(t[m]) < Place(t[n])
        /\ next' = [p \in {Head0} \cup Nodes |->
                      IF p = Head0 THEN t[1]
                      ELSE IF \E n \in 1..Len(s) - 1 : t[n] = p
                           THEN t[1 + CHOOSE n \in DOMAIN t : t[n] = p] ELSE Nil]
        /\ tail' = t[Len(s)]
        /\ iter' = [i \in Live |-> [pos |-> t[1], prev |-> Head0]]
        /\ due' = [i \in Live |-> Elems(t)]
        /\ got' = [i \in Live |-> {}]
  BY Zenon DEF list_sort
<1> HIDE DEF s, Place
<1>2. /\ count = Len(s) /\ s \in Seq(Nodes) /\ Len(s) \in Nat /\ InList = Elems(s)
  BY <1>1, NowIs
<1>4. Len(s) > 1 /\ count' = Len(s)
  BY <1>2 DEF list_sort
<1>5. DOMAIN s = 1..Len(s) /\ \A n \in 1..Len(s) : t[n] \in Nodes /\ t[n] \in Elems(s)
  BY <1>2, <1>3 DEF Elems
<1>6. t \in Seq(Nodes) /\ Len(t) = Len(s) /\ DOMAIN t = 1..Len(s)
  <2>1. t \in [1..Len(s) -> Nodes]
    BY <1>3, <1>5
  <2> QED BY <1>2, <2>1
<1>7. \A p \in Elems(s) : Place(p) \in Nat
  <2> SUFFICES ASSUME NEW p \in Elems(s) PROVE Place(p) \in Nat
    OBVIOUS
  <2>1. \E n \in DOMAIN s : s[n] = p
    BY <1>5 DEF Elems
  <2>2. Place(p) \in DOMAIN s
    BY <2>1 DEF Place
  <2> QED BY <1>2, <1>5, <2>2
<1>8. \A m, n \in 1..Len(s) : m < n => t[m] # t[n]
  <2> SUFFICES ASSUME NEW m \in 1..Len(s), NEW n \in 1..Len(s), m < n, t[m] = t[n] PROVE FALSE
    OBVIOUS
  <2>1. Key[t[n]] \in Nat /\ Place(t[n]) \in Nat
    BY <1>5, <1>7, ListsAssumption
  <2>2. Key[t[m]] = Key[t[n]] /\ Place(t[m]) = Place(t[n])
    OBVIOUS
  <2>3. Key[t[m]] < Key[t[n]] \/ Place(t[m]) < Place(t[n])
    BY <1>3, <1>6
  <2> QED BY <2>1, <2>2, <2>3
<1>9. \A m, n \in 1..Len(s) : t[m] = t[n] => m = n
  BY <1>2, <1>8
<1>10. \A k \in 1..Len(t) : At(t, k) = t[k] /\ At(t, k) \in Nodes
  BY <1>6, AtIs
<1>11. At(t, 0) = Head0 /\ At(t, Len(t) + 1) = Nil /\ Head0 \notin Nodes
  BY <1>6, AtIs
<1>12. ASSUME NEW k \in 0..Len(t) PROVE next'[At(t, k)] = At(t, k + 1)
  <2>1. CASE k = 0
    <3>1. next'[Head0] = t[1]
      BY <1>3
    <3>2. 1 \in 1..Len(t)
      BY <1>2, <1>4, <1>6
    <3> QED BY <1>10, <1>11, <2>1, <3>1, <3>2
  <2>2. CASE k \in 1..Len(s) - 1
    <3>1. k \in 1..Len(t) /\ k + 1 \in 1..Len(t) /\ k \in DOMAIN t
      BY <1>2, <1>6, <2>2
    <3>2. (CHOOSE n \in DOMAIN t : t[n] = t[k]) = k
      BY <1>6, <1>9, <3>1
    <3>3. t[k] \in Nodes /\ t[k] # Head0
      BY <1>10, <1>11, <3>1
    <3>4. next'[t[k]] = t[1 + CHOOSE n \in DOMAIN t : t[n] = t[k]]
      BY <1>3, <2>2, <3>3
    <3>5. next'[t[k]] = t[1 + k]
      BY <3>2, <3>4, Zenon
    <3>6. 1 + k = k + 1
      BY <3>1
    <3> QED BY <1>10, <3>1, <3>5, <3>6
  <2>3. CASE k = Len(s)
    <3>1. k \in 1..Len(t)
      BY <1>2, <1>4, <1>6, <2>3
    <3>2. t[k] \in Nodes /\ t[k] # Head0
      BY <1>10, <1>11, <3>1
    <3>3. \A n \in 1..Len(s) - 1 : t[n] # t[k]
      BY <1>2, <1>8, <1>4, <2>3
    <3>4. next'[t[k]] = Nil
      BY <1>3, <3>2, <3>3
    <3> QED BY <1>6, <1>10, <1>11, <2>3, <3>1, <3>4
  <2> QED BY <1>2, <1>6, <2>1, <2>2, <2>3
<1>13. ASSUME NEW p \in Nodes, \A k \in 1..Len(t) : t[k] # p PROVE next'[p] = Nil
  <2>1. \A k \in 1..Len(s) - 1 : t[k] # p
    BY <1>2, <1>6, <1>13
  <2>2. p # Head0
    BY <1>11
  <2> QED BY <1>3, <2>1, <2>2
<1>14. Chain(next', t)
  <2>1. DOMAIN next' = {Head0} \cup Nodes
    BY <1>3
  <2> QED BY <1>6, <1>9, <1>12, <1>13, <2>1 DEF Chain
<1>15. count' = Len(t) /\ tail' = At(t, Len(t))
  <2>1. Len(t) \in 1..Len(t)
    BY <1>2, <1>4, <1>6
  <2> QED BY <1>3, <1>4, <1>6, <1>10, <2>1
<1>16. IterOK([pos |-> t[1], prev |-> Head0], t, Elems(t), {})
  <2>1. At(t, 1) = t[1]
    BY <1>2, <1>4, <1>6, <1>10
  <2> QED BY <1>6, <2>1, PassBegins
<1>17. DOMAIN due' = DOMAIN iter' /\ DOMAIN got' = DOMAIN iter'
  BY <1>3
<1>18. \A i \in DOMAIN iter' : IterOK(iter'[i], t, due'[i], got'[i])
  BY <1>3, <1>16
<1> QED BY <1>14, <1>15, <1>17, <1>18, ThenOK

-----------------------------------------------------------------------------
LEMMA ListStays == ListInv /\ [ListStep]_lvars => ListInv'
<1> SUFFICES ASSUME ListInv, [ListStep]_lvars PROVE ListInv'
  OBVIOUS
<1>1. CASE \E p \in Nodes : list_append(p) \/ list_prepend(p) \/ \E i \in Live : list_insert(i, p)
  BY <1>1, NodePutIn
<1>2. CASE list_pop \/ \E i \in Live : list_remove(i)
  BY <1>2, NodeTakenOut
<1>3. CASE list_flush
  BY <1>3, ListFlush
<1>4. CASE list_destroy
  BY <1>4, ListDestroy
<1>5. CASE \E p \in Nodes : list_delete_all(Key[p])
  BY <1>5, ListDeleteAll
<1>6. CASE list_sort
  BY <1>6, ListSort
<1>7. CASE \E i \in Iterators : list_iterator_create(i)
  BY <1>7, IteratorCreate
<1>8. CASE \E i \in Live : list_iterator_destroy(i)
  BY <1>8, IteratorDestroy
<1>9. CASE \E i \in Live : list_next(i)
  BY <1>9, ListNext
<1>10. CASE UNCHANGED lvars
  <2>1. List' = List
    BY <1>10 DEF lvars, List
  <2> QED BY <2>1 DEF ListInv
<1> QED BY <1>1, <1>2, <1>3, <1>4, <1>5, <1>6, <1>7, <1>8, <1>9, <1>10 DEF ListStep

LEMMA ListInvEachOnce == ListInv => EachOnce
<1> SUFFICES ASSUME ListInv PROVE EachOnce
  OBVIOUS
<1>1. PICK s : ListOK(List, s)
  BY DEF ListInv
<1>2. /\ Chain(next, s) /\ count = Len(s) /\ tail = At(s, Len(s))
      /\ s \in Seq(Nodes) /\ Len(s) \in Nat /\ From[Head0] = s /\ InList = Elems(s)
  BY <1>1, NowIs
<1>3. \A i \in Live : IterOK(iter[i], s, due[i], got[i])
  BY <1>1, NowIs
<1>4. tail = IF s = <<>> THEN Head0 ELSE s[Len(s)]
  BY <1>2 DEF At
<1> DEFINE Ahead(i) == IF iter[i].pos = Nil THEN {} ELSE {iter[i].pos} \cup Elems(From[iter[i].pos])
<1>5. ASSUME NEW i \in Live
      PROVE  /\ iter[i].pos \in InList \cup {Nil} /\ iter[i].prev \in InList \cup {Head0}
             /\ \/ iter[i].pos = next[iter[i].prev]
                \/ next[iter[i].prev] # Nil /\ iter[i].pos = next[next[iter[i].prev]]
             /\ due[i] \subseteq Ahead(i) /\ got[i] \subseteq InList \ Ahead(i)
  <2> DEFINE ahead == Ahead(i)
  <2>0. /\ iter[i].pos = Nil => ahead = {}
        /\ iter[i].pos # Nil => ahead = {iter[i].pos} \cup Elems(From[iter[i].pos])
    OBVIOUS
  <2> HIDE DEF ahead
  <2>1. PICK a \in 1..Len(s) + 1, b \in 0..Len(s) :
          /\ iter[i] = [pos |-> At(s, a), prev |-> At(s, b)] /\ a \in {b + 1, b + 2}
          /\ due[i] \subseteq {s[k] : k \in a..Len(s)} /\ got[i] \subseteq {s[k] : k \in 1..a - 1}
    BY <1>3 DEF IterOK
  <2>2. iter[i].pos = At(s, a) /\ iter[i].prev = At(s, b)
    BY <2>1
  <2>3. \A k \in 1..Len(s) : At(s, k) = s[k] /\ At(s, k) \in Nodes /\ s[k] \in InList
    BY <1>2, AtIs DEF Elems
  <2>4. At(s, 0) = Head0 /\ At(s, Len(s) + 1) = Nil /\ Nil \notin Nodes
    BY <1>2, AtIs
  <2>5. iter[i].pos \in InList \cup {Nil}
    <3>1. a = Len(s) + 1 \/ a \in 1..Len(s)
      BY <1>2
    <3> QED BY <2>2, <2>3, <2>4, <3>1
  <2>6. iter[i].prev \in InList \cup {Head0}
    <3>1. b = 0 \/ b \in 1..Len(s)
      BY <1>2
    <3> QED BY <2>2, <2>3, <2>4, <3>1
  <2>7. \A k \in 0..Len(s) : next[At(s, k)] = At(s, k + 1)
    BY <1>2 DEF Chain
  <2>8. next[iter[i].prev] = At(s, b + 1)
    BY <2>2, <2>7
  <2>9. \/ iter[i].pos = next[iter[i].prev]
        \/ next[iter[i].prev] # Nil /\ iter[i].pos = next[next[iter[i].prev]]
    <3>1. CASE a = b + 1
      BY <2>2, <2>8, <3>1
    <3>2. CASE a = b + 2
      <4>1. b + 1 \in 1..Len(s) /\ b + 1 \in 0..Len(s) /\ (b + 1) + 1 = a
        BY <1>2, <3>2
      <4>2. At(s, b + 1) # Nil
        BY <2>3, <2>4, <4>1
      <4>3. next[At(s, b + 1)] = At(s, a)
        BY <2>7, <4>1
      <4> QED BY <2>2, <2>8, <4>2, <4>3
    <3> QED BY <2>1, <3>1, <3>2
  <2>10. ahead = {s[k] : k \in a..Len(s)}
    <3>1. CASE a = Len(s) + 1
      <4>1. a..Len(s) = {}
        BY <1>2, <3>1
      <4>2. ahead = {}
        BY <2>2, <2>4, <2>0, <3>1
      <4> QED BY <4>1, <4>2
    <3>2. CASE a \in 1..Len(s)
      <4>1. At(s, a) = s[a] /\ s[a] # Nil /\ a \in 0..Len(s)
        BY <1>2, <2>3, <2>4, <3>2
      <4>2. From[At(s, a)] = Rest(s, a)
        BY <1>2, <4>1, FromIs
      <4>3. ahead = {s[a]} \cup Elems(Rest(s, a))
        BY <2>2, <2>0, <4>1, <4>2
      <4>4. Len(Rest(s, a)) = Len(s) - a
        BY <1>2, <4>1, RestStep
      <4>5. Elems(Rest(s, a)) = {s[a + j] : j \in 1..Len(s) - a}
        BY <4>4 DEF Elems, Rest
      <4>6. \A k \in a..Len(s) : k = a \/ (k - a \in 1..Len(s) - a /\ a + (k - a) = k)
        BY <1>2, <3>2
      <4>7. \A j \in 1..Len(s) - a : a + j \in a..Len(s)
        BY <1>2, <3>2
      <4>8. a \in a..Len(s)
        BY <1>2, <3>2
      <4>9. \A k \in a..Len(s) : s[k] \in ahead
        <5> SUFFICES ASSUME NEW k \in a..Len(s) PROVE s[k] \in ahead
          OBVIOUS
        <5>1. CASE k = a
          BY <4>3, <5>1
        <5>2. CASE k # a
          <6>1. s[a + (k - a)] \in {s[a + j] : j \in 1..Len(s) - a}
            BY <4>6, <5>2
          <6> QED BY <4>3, <4>5, <4>6, <5>2, <6>1
        <5> QED BY <5>1, <5>2
      <4>10. ahead \subseteq {s[k] : k \in a..Len(s)}
        BY <4>3, <4>5, <4>7, <4>8
      <4>11. {s[k] : k \in a..Len(s)} \subseteq ahead
        BY <4>9
      <4> QED BY <4>10, <4>11
    <3> QED BY <1>2, <3>1, <3>2
  <2>11. got[i] \subseteq InList \ ahead
    <3> SUFFICES ASSUME NEW k \in 1..a - 1 PROVE s[k] \in InList /\ s[k] \notin {s[j] : j \in a..Len(s)}
      BY <2>1, <2>10
    <3>1. k \in 1..Len(s)
      BY <1>2
    <3>2. \A j \in a..Len(s) : j \in 1..Len(s) /\ j # k
      BY <1>2
    <3>3. \A m, n \in 1..Len(s) : s[m] = s[n] => m = n
      BY <1>2 DEF Chain
    <3> QED BY <2>3, <3>1, <3>2, <3>3
  <2>12. due[i] \subseteq ahead
    BY <2>1, <2>10
  <2> QED BY <2>5, <2>6, <2>9, <2>11, <2>12 DEF ahead
<1>6. /\ count = Len(From[Head0])
      /\ tail = IF From[Head0] = <<>> THEN Head0 ELSE From[Head0][Len(From[Head0])]
  BY <1>2, <1>4
<1> QED BY <1>5, <1>6, Zenon DEF EachOnce

\* While other threads insert, remove and sort (list_insert, list_remove,
\* list_delete_all, list_sort), a pass with list_next returns every node that
\* stays in the list once and in order, for any number of nodes and iterators.
THEOREM EachOnceAlways == ListSpec => []EachOnce
<1>1. ListInv /\ [ListStep]_lvars => ListInv'
  BY ListStays
<1>2. list_create => ListInv
  BY ListCreate
<1>3. ListInv => EachOnce
  BY ListInvEachOnce
<1> QED BY <1>1, <1>2, <1>3, PTL DEF ListSpec

-----------------------------------------------------------------------------
(* Numbers.                                                                *)

LEMMA ModIs ==
  ASSUME NEW N \in Nat \ {0}, NEW i \in Int
  PROVE  /\ i % N \in 0..N-1
         /\ i \in 0..N-1 => i % N = i
         /\ i \in N..N+N-1 => i % N = i - N
OBVIOUS

LEMMA MinIs ==
  ASSUME NEW a \in Int, NEW b \in Int
  PROVE  Min({a, b}) = (IF a <= b THEN a ELSE b) /\ Max({a, b}) = (IF a >= b THEN a ELSE b)
<1>1. PICK m : m = (IF a <= b THEN a ELSE b)
  OBVIOUS
<1>2. m \in {a, b} /\ \A y \in {a, b} : m <= y
  BY <1>1
<1>3. \A x \in {a, b} : (\A y \in {a, b} : x <= y) => x = m
  BY <1>2
<1>4. Min({a, b}) = m
  BY <1>2, <1>3 DEF Min
<1>5. PICK n : n = (IF a >= b THEN a ELSE b)
  OBVIOUS
<1>6. n \in {a, b} /\ \A y \in {a, b} : n >= y
  BY <1>5
<1>7. \A x \in {a, b} : (\A y \in {a, b} : x >= y) => x = n
  BY <1>6
<1>8. Max({a, b}) = n
  BY <1>6, <1>7 DEF Max
<1> QED BY <1>1, <1>4, <1>5, <1>8

LEMMA MaxIn ==
  ASSUME NEW n \in Nat, NEW K \in SUBSET (1..n), K # {}
  PROVE  Max(K) \in K
<1> DEFINE T == {n - k : k \in K}
<1>1. T \subseteq Nat
  BY n \in Nat, K \subseteq 1..n
<1>2. T # {}
  OBVIOUS
<1>6. PICK x \in T : \A y \in T : x <= y
  <2> HIDE DEF T
  <2> QED BY <1>1, <1>2, NatMin
<1>3. PICK k \in K : x = n - k
  BY <1>6
<1>4. \A j \in K : n - j \in T
  OBVIOUS
<1>5. \A j \in K : k >= j
  BY <1>6, <1>3, <1>4
<1> QED BY <1>5 DEF Max

-----------------------------------------------------------------------------
(* The ring.                                                               *)

Cell == Byte \cup {Unset}

Fields == {"size", "max", "used", "overwrite", "got_wrap", "i_in", "i_out", "i_rep", "data"}

\* Cells are counted around the ring.
Turned(c, x) == IF x <= c.size THEN x ELSE x - (c.size + 1)
Back(c)      == IF c.i_out >= c.i_rep THEN c.i_out - c.i_rep ELSE c.i_out - c.i_rep + c.size + 1
Span(c)      == Back(c) + c.used
ByteAt(c, j) == c.data[Turned(c, c.i_rep + j)]

\* What holds of each buffer: the unread bytes follow the replayable ones and end
\* at i_in, and one cell at least stays empty.
Ring(b, c) ==
  /\ DOMAIN c = Fields
  /\ c.size \in Nat /\ MinSize[b] <= c.size /\ c.size <= MaxSize[b] /\ c.max = MaxSize[b]
  /\ c.used \in Nat /\ c.got_wrap \in BOOLEAN /\ c.overwrite \in Options
  /\ c.i_in \in 0..c.size /\ c.i_out \in 0..c.size /\ c.i_rep \in 0..c.size
  /\ c.data \in [0..c.size -> Cell]
  /\ Span(c) <= c.size
  /\ c.i_in = Turned(c, c.i_out + c.used)

LEMMA SizesOf ==
  ASSUME NEW b \in Buffers
  PROVE  /\ MinSize[b] \in Nat /\ MinSize[b] > 0 /\ MaxSize[b] \in Nat /\ MinSize[b] <= MaxSize[b]
         /\ CBUF_CHUNK \in Nat /\ CBUF_CHUNK > 0 /\ MaxWrite \in Nat
BY CbufAssumption

LEMMA RingIs ==
  ASSUME NEW b \in Buffers, NEW c, Ring(b, c)
  PROVE  /\ DOMAIN c = Fields
         /\ c.size \in Nat /\ c.size > 0 /\ c.size <= MaxSize[b] /\ c.max = MaxSize[b] /\ MaxSize[b] \in Nat
         /\ c.used \in Nat /\ c.got_wrap \in BOOLEAN /\ c.overwrite \in Options
         /\ c.i_in \in 0..c.size /\ c.i_out \in 0..c.size /\ c.i_rep \in 0..c.size
         /\ c.data \in [0..c.size -> Cell]
         /\ Back(c) \in Nat /\ Span(c) \in Nat /\ Span(c) = Back(c) + c.used /\ Span(c) <= c.size
         /\ c.i_in = Turned(c, c.i_out + c.used) /\ c.i_in = Turned(c, c.i_rep + Span(c))
         /\ c.i_out = Turned(c, c.i_rep + Back(c))
<1>1. c.size \in Nat /\ c.i_out \in 0..c.size /\ c.i_rep \in 0..c.size /\ c.used \in Nat
  BY DEF Ring
<1>2. Back(c) \in Nat /\ c.i_out = Turned(c, c.i_rep + Back(c)) /\ Back(c) <= c.size
  BY <1>1 DEF Back, Turned
<1>3. Span(c) \in Nat /\ Span(c) = Back(c) + c.used /\ Span(c) <= c.size
  BY <1>1, <1>2 DEF Span, Ring
<1>4. c.i_in = Turned(c, c.i_out + c.used)
  BY DEF Ring
<1>5. c.i_in = Turned(c, c.i_rep + Span(c))
  BY <1>1, <1>2, <1>3, <1>4 DEF Turned
<1>6. c.size > 0 /\ MaxSize[b] \in Nat
  <2>1. MinSize[b] <= c.size
    BY DEF Ring
  <2> QED BY <1>1, <2>1, SizesOf
<1>7. /\ DOMAIN c = Fields /\ c.size <= MaxSize[b] /\ c.max = MaxSize[b] /\ c.i_in \in 0..c.size
      /\ c.got_wrap \in BOOLEAN /\ c.overwrite \in Options /\ c.data \in [0..c.size -> Cell]
  BY DEF Ring
<1> QED BY <1>1, <1>2, <1>3, <1>4, <1>5, <1>6, <1>7

\* The code's arithmetic.
LEMMA ModTurned ==
  ASSUME NEW c, c.size \in Nat, NEW x \in 0..c.size + c.size + 1
  PROVE  Mod(c, x) = Turned(c, x) /\ Turned(c, x) \in 0..c.size
<1>1. PICK n : n = c.size + 1
  OBVIOUS
<1>2. n \in Nat \ {0} /\ x \in Int /\ x \in 0..n+n-1
  BY <1>1
<1>3. x % n = (IF x <= n - 1 THEN x ELSE x - n)
  <2>1. CASE x \in 0..n-1
    <3>1. x % n = x
      BY <1>2, <2>1, ModIs
    <3> QED BY <1>2, <2>1, <3>1
  <2>2. CASE x \in n..n+n-1
    <3>1. x % n = x - n
      BY <1>2, <2>2, ModIs
    <3> QED BY <1>2, <2>2, <3>1
  <2> QED BY <1>2, <2>1, <2>2
<1>4. Mod(c, x) = x % n
  BY <1>1 DEF Mod
<1>5. Mod(c, x) = Turned(c, x)
  BY <1>1, <1>3, <1>4 DEF Turned
<1> QED BY <1>5 DEF Turned

LEMMA ModIn ==
  ASSUME NEW c, c.size \in Nat, NEW x \in Int
  PROVE  Mod(c, x) \in 0..c.size
<1>1. c.size + 1 \in Nat \ {0} /\ (c.size + 1) - 1 = c.size
  OBVIOUS
<1> QED BY <1>1, ModIs DEF Mod

LEMMA ReusedIs ==
  ASSUME NEW b \in Buffers, NEW c, Ring(b, c)
  PROVE  cbuf_reused(c) = Back(c)
<1>1. c.size \in Nat /\ c.i_out \in 0..c.size /\ c.i_rep \in 0..c.size
  BY RingIs
<1>2. c.i_out - c.i_rep + c.size + 1 \in 0..c.size + c.size + 1
  BY <1>1
<1>3. cbuf_reused(c) = Turned(c, c.i_out - c.i_rep + c.size + 1)
  BY <1>1, <1>2, ModTurned DEF cbuf_reused
<1> QED BY <1>1, <1>3 DEF Turned, Back

-----------------------------------------------------------------------------
(* What the ring says of the stream.                                       *)

LEMMA BytesIn ==
  ASSUME NEW b \in Buffers, NEW c, Ring(b, c), NEW j \in 0..c.size
  PROVE  /\ c.i_rep + j \in 0..c.size + c.size + 1
         /\ Turned(c, c.i_rep + j) \in 0..c.size /\ ByteAt(c, j) \in Cell
<1>1. c.size \in Nat /\ c.i_rep \in 0..c.size /\ c.data \in [0..c.size -> Cell]
  BY RingIs
<1>2. c.i_rep + j \in 0..c.size + c.size + 1
  BY <1>1
<1>3. Turned(c, c.i_rep + j) \in 0..c.size
  BY <1>1, <1>2, ModTurned
<1> QED BY <1>1, <1>2, <1>3 DEF ByteAt

LEMMA PastIs ==
  ASSUME NEW b \in Buffers, NEW c, Ring(b, c)
  PROVE  Past(c) = [k \in 1..Back(c) |-> ByteAt(c, k - 1)]
<1>1. /\ c.size \in Nat /\ c.i_out \in 0..c.size /\ c.i_rep \in 0..c.size /\ c.used \in Nat
      /\ Back(c) \in Nat /\ Back(c) <= c.size /\ cbuf_reused(c) = Back(c)
  BY RingIs, ReusedIs
<1>2. Min({c.size, cbuf_reused(c)}) = Back(c)
  BY <1>1, MinIs
<1>3. Mod(c, c.i_out - Back(c) + c.size + 1) = c.i_rep
  <2>1. c.i_out - Back(c) + c.size + 1 \in 0..c.size + c.size + 1
    BY <1>1 DEF Back
  <2>2. Mod(c, c.i_out - Back(c) + c.size + 1) = Turned(c, c.i_out - Back(c) + c.size + 1)
    BY <1>1, <2>1, ModTurned
  <2> QED BY <1>1, <2>2 DEF Turned, Back
<1>4. Past(c) = Cells(c, c.i_rep, Back(c))
  BY <1>2, <1>3 DEF Past, cbuf_replayer
<1>5. ASSUME NEW k \in 1..Back(c) PROVE c.data[Mod(c, c.i_rep + k - 1)] = ByteAt(c, k - 1)
  <2>1. k - 1 \in 0..c.size /\ c.i_rep + k - 1 = c.i_rep + (k - 1)
    BY <1>1
  <2>2. c.i_rep + (k - 1) \in 0..c.size + c.size + 1
    BY <2>1, BytesIn
  <2>3. Mod(c, c.i_rep + (k - 1)) = Turned(c, c.i_rep + (k - 1))
    BY <1>1, <2>2, ModTurned
  <2> QED BY <2>1, <2>3 DEF ByteAt
<1> QED BY <1>4, <1>5 DEF Cells

LEMMA UnreadIs ==
  ASSUME NEW b \in Buffers, NEW c, Ring(b, c)
  PROVE  Unread(c) = [k \in 1..c.used |-> ByteAt(c, Back(c) + k - 1)]
<1>1. /\ c.size \in Nat /\ c.i_out \in 0..c.size /\ c.i_rep \in 0..c.size /\ c.used \in Nat
      /\ Back(c) \in Nat /\ Back(c) + c.used <= c.size /\ c.i_out = Turned(c, c.i_rep + Back(c))
  BY RingIs
<1>2. Min({c.size, c.used}) = c.used
  BY <1>1, MinIs
<1>4. Unread(c) = Cells(c, c.i_out, c.used)
  BY <1>2 DEF Unread, cbuf_reader
<1>5. ASSUME NEW k \in 1..c.used PROVE c.data[Mod(c, c.i_out + k - 1)] = ByteAt(c, Back(c) + k - 1)
  <2>1. Back(c) + k - 1 \in 0..c.size /\ c.i_out + k - 1 \in 0..c.size + c.size + 1
    BY <1>1
  <2>2. Mod(c, c.i_out + k - 1) = Turned(c, c.i_out + k - 1)
    BY <1>1, <2>1, ModTurned
  <2>3. Turned(c, c.i_out + k - 1) = Turned(c, c.i_rep + (Back(c) + k - 1))
    BY <1>1, <2>1 DEF Turned
  <2> QED BY <2>2, <2>3 DEF ByteAt
<1> QED BY <1>4, <1>5 DEF Cells

\* The two as sequences.
LEMMA ViewIs ==
  ASSUME NEW b \in Buffers, NEW c, Ring(b, c)
  PROVE  /\ Past(c) \in Seq(Cell) /\ Len(Past(c)) = Back(c)
         /\ \A k \in 1..Back(c) : Past(c)[k] = ByteAt(c, k - 1)
         /\ Unread(c) \in Seq(Cell) /\ Len(Unread(c)) = c.used
         /\ \A k \in 1..c.used : Unread(c)[k] = ByteAt(c, Back(c) + k - 1)
<1>1. c.size \in Nat /\ Back(c) \in Nat /\ c.used \in Nat /\ Back(c) + c.used <= c.size
  BY RingIs
<1>2. /\ \A k \in 1..Back(c) : ByteAt(c, k - 1) \in Cell
      /\ \A k \in 1..c.used : ByteAt(c, Back(c) + k - 1) \in Cell
  <2>1. ASSUME NEW k \in 1..Back(c) PROVE ByteAt(c, k - 1) \in Cell
    <3>1. k - 1 \in 0..c.size
      BY <1>1
    <3> QED BY <3>1, BytesIn
  <2>2. ASSUME NEW k \in 1..c.used PROVE ByteAt(c, Back(c) + k - 1) \in Cell
    <3>1. Back(c) + k - 1 \in 0..c.size
      BY <1>1
    <3> QED BY <3>1, BytesIn
  <2> QED BY <2>1, <2>2
<1>3. /\ Past(c) \in Seq(Cell) /\ Len(Past(c)) = Back(c)
      /\ \A k \in 1..Back(c) : Past(c)[k] = ByteAt(c, k - 1)
  BY <1>1, <1>2, PastIs
<1>4. /\ Unread(c) \in Seq(Cell) /\ Len(Unread(c)) = c.used
      /\ \A k \in 1..c.used : Unread(c)[k] = ByteAt(c, Back(c) + k - 1)
  BY <1>1, <1>2, UnreadIs
<1> QED BY <1>3, <1>4

\* Together they are the bytes from i_rep on.
LEMMA HeldIs ==
  ASSUME NEW b \in Buffers, NEW c, Ring(b, c)
  PROVE  /\ Past(c) \o Unread(c) \in Seq(Cell) /\ Len(Past(c) \o Unread(c)) = Span(c)
         /\ \A k \in 1..Span(c) : (Past(c) \o Unread(c))[k] = ByteAt(c, k - 1)
<1> DEFINE p == Past(c)
           u == Unread(c)
<1>1. /\ Back(c) \in Nat /\ c.used \in Nat /\ Span(c) = Back(c) + c.used
      /\ p \in Seq(Cell) /\ Len(p) = Back(c) /\ u \in Seq(Cell) /\ Len(u) = c.used
      /\ \A k \in 1..Back(c) : p[k] = ByteAt(c, k - 1)
      /\ \A k \in 1..c.used : u[k] = ByteAt(c, Back(c) + k - 1)
  BY RingIs, ViewIs
<1> HIDE DEF p, u
<1>2. /\ p \o u \in Seq(Cell) /\ Len(p \o u) = Span(c)
      /\ \A k \in 1..Len(p) + Len(u) : (p \o u)[k] = IF k <= Len(p) THEN p[k] ELSE u[k - Len(p)]
  <2>1. /\ p \o u \in Seq(Cell) /\ Len(p \o u) = Len(p) + Len(u)
        /\ \A k \in 1..Len(p) + Len(u) : (p \o u)[k] = IF k <= Len(p) THEN p[k] ELSE u[k - Len(p)]
    BY <1>1, ConcatProperties, Zenon
  <2> QED BY <1>1, <2>1
<1>3. ASSUME NEW k \in 1..Span(c) PROVE (p \o u)[k] = ByteAt(c, k - 1)
  <2>1. CASE k \in 1..Back(c)
    <3>1. (p \o u)[k] = p[k]
      BY <1>1, <1>2, <2>1
    <3> QED BY <1>1, <2>1, <3>1
  <2>2. CASE k \notin 1..Back(c)
    <3>1. k - Back(c) \in 1..c.used /\ k > Len(p)
      BY <1>1, <2>2
    <3>2. (p \o u)[k] = u[k - Back(c)]
      BY <1>1, <1>2, <3>1
    <3>3. u[k - Back(c)] = ByteAt(c, Back(c) + (k - Back(c)) - 1)
      BY <1>1, <3>1
    <3>4. Back(c) + (k - Back(c)) - 1 = k - 1
      BY <1>1
    <3> QED BY <3>2, <3>3, <3>4
  <2> QED BY <2>1, <2>2
<1> QED BY <1>2, <1>3 DEF p, u

\* What a cell outside holds makes no difference.
LEMMA ForgetIs ==
  ASSUME NEW b \in Buffers, NEW c, Ring(b, c), NEW f, f = Forget(c)
  PROVE  /\ Ring(b, f) /\ f.size = c.size /\ f.used = c.used /\ f.got_wrap = c.got_wrap
         /\ f.i_in = c.i_in /\ f.i_out = c.i_out /\ f.i_rep = c.i_rep
         /\ f.overwrite = c.overwrite /\ f.max = c.max /\ Back(f) = Back(c) /\ Span(f) = Span(c)
         /\ \A j \in 0..Span(c) - 1 : ByteAt(f, j) = ByteAt(c, j)
<1> DEFINE held == {Mod(c, c.i_rep + k) : k \in 0 .. cbuf_reused(c) + c.used - 1}
           data == [i \in 0 .. c.size |-> IF i \in held THEN c.data[i] ELSE Unset]
<1>1. /\ DOMAIN c = Fields /\ c.size \in Nat /\ c.data \in [0..c.size -> Cell] /\ Span(c) \in Nat
      /\ Span(c) <= c.size /\ Span(c) = Back(c) + c.used /\ Back(c) \in Nat /\ c.used \in Nat
      /\ cbuf_reused(c) = Back(c) /\ c.i_rep \in 0..c.size
  BY RingIs, ReusedIs
<1>2. f = [c EXCEPT !.data = data]
  BY DEF Forget
<1>3. data \in [0..c.size -> Cell]
  BY <1>1 DEF Cell
<1>4. ASSUME NEW j \in 0..Span(c) - 1 PROVE data[Turned(c, c.i_rep + j)] = ByteAt(c, j)
  <2>1. j \in 0..c.size /\ j \in 0..cbuf_reused(c) + c.used - 1
    BY <1>1
  <2>2. c.i_rep + j \in 0..c.size + c.size + 1 /\ Turned(c, c.i_rep + j) \in 0..c.size
    BY <2>1, BytesIn
  <2>3. Mod(c, c.i_rep + j) = Turned(c, c.i_rep + j)
    BY <1>1, <2>2, ModTurned
  <2>4. Turned(c, c.i_rep + j) \in held
    BY <2>1, <2>3
  <2> QED BY <2>2, <2>4 DEF ByteAt
<1> HIDE DEF held, data
<1>5. /\ DOMAIN f = Fields /\ f.data = data /\ f.size = c.size /\ f.used = c.used
      /\ f.got_wrap = c.got_wrap /\ f.overwrite = c.overwrite /\ f.max = c.max
      /\ f.i_in = c.i_in /\ f.i_out = c.i_out /\ f.i_rep = c.i_rep
  BY <1>1, <1>2 DEF Fields
<1>6. Back(f) = Back(c) /\ Span(f) = Span(c) /\ \A x : Turned(f, x) = Turned(c, x)
  BY <1>5 DEF Back, Span, Turned
<1>7. Ring(b, f)
  BY <1>3, <1>5, <1>6 DEF Ring
<1>8. ASSUME NEW j \in 0..Span(c) - 1 PROVE ByteAt(f, j) = ByteAt(c, j)
  BY <1>4, <1>5, <1>6 DEF ByteAt
<1> QED BY <1>5, <1>6, <1>7, <1>8

-----------------------------------------------------------------------------
(* The steps of Stream, told of two rings.                                 *)

AtMostOf(m, n) == IF m < n THEN m ELSE n

\* n bytes arrived: so many of the old ones stay in front of them.
Staying(d, n) == IF Span(d) > n THEN Span(d) - n ELSE 0
Wrote(c, d, n) ==
  /\ Span(d) = AtMostOf(d.size, Span(c) + n)
  /\ d.used = AtMostOf(d.size, c.used + n)
  /\ d.got_wrap = (c.got_wrap \/ Span(c) + n > d.size)
  /\ \A j \in 0..Staying(d, n) - 1 : ByteAt(d, j) = ByteAt(c, Span(c) - Staying(d, n) + j)

\* The bytes stay, whatever of them is unread.
Kept(c, d) ==
  /\ d.size = c.size /\ d.got_wrap = c.got_wrap /\ Span(d) = Span(c)
  /\ \A j \in 0..Span(c) - 1 : ByteAt(d, j) = ByteAt(c, j)

LEMMA CutIs ==
  ASSUME NEW s \in Seq(Cell), NEW m \in 1..Len(s) + 1, NEW n \in m-1..Len(s)
  PROVE  /\ SubSeq(s, m, n) \in Seq(Cell) /\ Len(SubSeq(s, m, n)) = n - m + 1
         /\ \A i \in 1..n - m + 1 : SubSeq(s, m, n)[i] = s[m + i - 1]
<1>1. Len(s) \in Nat /\ m \in Nat /\ n \in Nat /\ n - m + 1 \in Nat
  OBVIOUS
<1>2. ASSUME NEW i \in 1..n - m + 1 PROVE m + i - 1 \in 1..Len(s) /\ s[m + i - 1] \in Cell
  <2>1. m + i - 1 \in 1..Len(s)
    BY <1>1
  <2> QED BY <2>1
<1>3. SubSeq(s, m, n) = [i \in 1..n - m + 1 |-> s[m + i - 1]]
  BY <1>1
<1>4. [i \in 1..n - m + 1 |-> s[m + i - 1]] \in Seq(Cell)
  BY <1>1, <1>2
<1> QED BY <1>1, <1>3, <1>4

Left(all, n) == IF all > n THEN all - n ELSE 0

\* The last k of old are the first of new.
Carried(old, new, k) == SubSeq(new, 1, k) = SubSeq(old, 1 + Len(old) - k, Len(old))

\* Write, Consume and Rewind of Stream.
Arrives(c, d, n) ==
  LET old  == Past(c) \o Unread(c)
      all  == AtMostOf(d.size, Len(old) + n)
      kept == Left(all, n)
  IN  /\ Len(Past(d) \o Unread(d)) = all
      /\ Len(Unread(d)) = AtMostOf(d.size, Len(Unread(c)) + n)
      /\ Carried(old, Past(d) \o Unread(d), kept)
      /\ d.got_wrap = (c.got_wrap \/ Len(old) + n > d.size)
Takes(c, d, n) ==
  /\ Past(d) = Past(c) \o SubSeq(Unread(c), 1, n)
  /\ Unread(d) = SubSeq(Unread(c), n + 1, Len(Unread(c)))
Returns(c, d, n) ==
  /\ Past(d) = SubSeq(Past(c), 1, Len(Past(c)) - n)
  /\ Unread(d) = SubSeq(Past(c), 1 + Len(Past(c)) - n, Len(Past(c))) \o Unread(c)

LEMMA WroteIsWrite ==
  ASSUME NEW b \in Buffers, NEW c, Ring(b, c), NEW d, Ring(b, d), NEW n \in Nat, Wrote(c, d, n)
  PROVE  Arrives(c, d, n)
<1> SUFFICES ASSUME NEW old, old = Past(c) \o Unread(c),
                    NEW all, all = AtMostOf(d.size, Len(Past(c) \o Unread(c)) + n),
                    NEW kept, kept = Left(all, n)
             PROVE  /\ Len(Past(d) \o Unread(d)) = all
                    /\ Len(Unread(d)) = AtMostOf(d.size, Len(Unread(c)) + n)
                    /\ Carried(old, Past(d) \o Unread(d), kept)
                    /\ d.got_wrap = (c.got_wrap \/ Len(old) + n > d.size)
  BY Zenon DEF Arrives
<1> DEFINE new == Past(d) \o Unread(d)
<1>1. /\ new \in Seq(Cell) /\ Len(new) = Span(d) /\ \A k \in 1..Span(d) : new[k] = ByteAt(d, k - 1)
      /\ old \in Seq(Cell) /\ Len(old) = Span(c) /\ \A k \in 1..Span(c) : old[k] = ByteAt(c, k - 1)
      /\ Len(Unread(d)) = d.used /\ Len(Unread(c)) = c.used
      /\ Span(c) \in Nat /\ Span(d) \in Nat /\ d.size \in Nat
  <2>1. /\ new \in Seq(Cell) /\ Len(new) = Span(d) /\ \A k \in 1..Span(d) : new[k] = ByteAt(d, k - 1)
    BY HeldIs
  <2>2. /\ old \in Seq(Cell) /\ Len(old) = Span(c) /\ \A k \in 1..Span(c) : old[k] = ByteAt(c, k - 1)
    BY HeldIs
  <2>3. Len(Unread(d)) = d.used /\ Len(Unread(c)) = c.used
    BY ViewIs
  <2>4. Span(c) \in Nat /\ Span(d) \in Nat /\ d.size \in Nat
    BY RingIs
  <2> QED BY <2>1, <2>2, <2>3, <2>4
<1> HIDE DEF new
<1>2. /\ all = Span(d) /\ kept = Staying(d, n) /\ Len(Unread(d)) = AtMostOf(d.size, Len(Unread(c)) + n)
      /\ d.got_wrap = (c.got_wrap \/ Len(old) + n > d.size)
  BY <1>1 DEF Wrote, Staying, Left
<1>0. Len(old) = Span(c) /\ Span(c) \in Nat /\ Span(d) \in Nat /\ Len(new) = Span(d) /\ Len(old) \in Nat
  BY <1>1
<1>3. kept \in Nat /\ kept <= Span(d) /\ kept <= Span(c) /\ Span(d) = AtMostOf(d.size, Span(c) + n)
  <2>1. Span(d) = AtMostOf(d.size, Span(c) + n) /\ d.size \in Nat /\ kept = Staying(d, n)
    BY <1>1, <1>2 DEF Wrote
  <2> QED BY <1>0, <2>1 DEF Staying, AtMostOf
<1>4. /\ SubSeq(new, 1, kept) \in Seq(Cell) /\ Len(SubSeq(new, 1, kept)) = kept - 1 + 1
      /\ \A i \in 1..kept - 1 + 1 : SubSeq(new, 1, kept)[i] = new[1 + i - 1]
  <2>1. 1 \in 1..Len(new) + 1 /\ kept \in 1 - 1..Len(new)
    BY <1>1, <1>3
  <2> QED BY <1>1, <2>1, CutIs
<1> DEFINE from == 1 + Len(old) - kept
<1>5. /\ SubSeq(old, from, Len(old)) \in Seq(Cell) /\ Len(SubSeq(old, from, Len(old))) = Len(old) - from + 1
      /\ \A i \in 1..Len(old) - from + 1 : SubSeq(old, from, Len(old))[i] = old[from + i - 1]
  <2>1. from \in 1..Len(old) + 1 /\ Len(old) \in from - 1..Len(old)
    <3>1. kept \in Nat /\ Len(old) \in Nat /\ kept <= Len(old)
      BY <1>0, <1>3
    <3> QED BY <3>1
  <2> HIDE DEF from
  <2> QED BY <1>1, <2>1, CutIs
<1>6. Len(old) - from + 1 = kept /\ kept - 1 + 1 = kept
  BY <1>1, <1>3
<1>7. ASSUME NEW i \in 1..kept PROVE SubSeq(new, 1, kept)[i] = SubSeq(old, from, Len(old))[i]
  <2>1. /\ i \in 1..Span(d) /\ 1 + i - 1 = i /\ i - 1 \in 0..kept - 1
        /\ from + i - 1 \in 1..Span(c) /\ (from + i - 1) - 1 = Span(c) - kept + (i - 1)
    BY <1>0, <1>3, SMTT(60)
  <2>2. SubSeq(new, 1, kept)[i] = ByteAt(d, i - 1)
    BY <1>1, <1>4, <1>6, <2>1
  <2>3. SubSeq(old, from, Len(old))[i] = ByteAt(c, (from + i - 1) - 1)
    <3>1. SubSeq(old, from, Len(old))[i] = old[from + i - 1]
      BY <1>5, <1>6
    <3> HIDE DEF from
    <3> QED BY <1>1, <2>1, <3>1
  <2>4. ByteAt(d, i - 1) = ByteAt(c, Span(c) - kept + (i - 1))
    BY <1>2, <2>1 DEF Wrote
  <2> QED BY <2>1, <2>2, <2>3, <2>4
<1> HIDE DEF from
<1>8. SubSeq(new, 1, kept) = SubSeq(old, from, Len(old))
  <2>1. PICK x : x = SubSeq(new, 1, kept)
    OBVIOUS
  <2>2. PICK y : y = SubSeq(old, from, Len(old))
    OBVIOUS
  <2>3. x \in Seq(Cell) /\ y \in Seq(Cell) /\ Len(x) = Len(y) /\ \A i \in 1..Len(x) : x[i] = y[i]
    BY <1>4, <1>5, <1>6, <1>7, <2>1, <2>2
  <2>4. x = y
    BY <2>3, SeqEqual, Zenon
  <2> QED BY <2>1, <2>2, <2>4
<1>9. Carried(old, new, kept)
  BY <1>8, Zenon DEF Carried, from
<1> QED BY <1>1, <1>2, <1>9 DEF new

\* A part of a sequence is a part of what it is followed by.
LEMMA JoinIs ==
  ASSUME NEW s \in Seq(Cell), NEW u \in Seq(Cell), NEW r \in Seq(Cell),
         Len(r) = Len(s) + Len(u),
         \A k \in 1..Len(s) : r[k] = s[k],
         \A k \in 1..Len(u) : r[Len(s) + k] = u[k]
  PROVE  r = s \o u
<1>1. /\ s \o u \in Seq(Cell) /\ Len(s \o u) = Len(s) + Len(u)
      /\ \A k \in 1..Len(s) + Len(u) : (s \o u)[k] = IF k <= Len(s) THEN s[k] ELSE u[k - Len(s)]
  BY ConcatProperties, Zenon
<1>2. Len(s) \in Nat /\ Len(u) \in Nat
  OBVIOUS
<1>3. ASSUME NEW k \in 1..Len(r) PROVE r[k] = (s \o u)[k]
  <2>1. CASE k <= Len(s)
    BY <1>1, <1>2, <2>1
  <2>2. CASE k > Len(s)
    <3>1. k - Len(s) \in 1..Len(u) /\ Len(s) + (k - Len(s)) = k /\ ~(k <= Len(s))
      BY <1>2, <2>2
    <3>2. r[k] = u[k - Len(s)]
      <4>1. r[Len(s) + (k - Len(s))] = u[k - Len(s)]
        BY <3>1
      <4> QED BY <3>1, <4>1
    <3> QED BY <1>1, <3>1, <3>2
  <2> QED BY <1>2, <2>1, <2>2
<1>4. PICK x : x = s \o u
  OBVIOUS
<1>5. x \in Seq(Cell) /\ Len(r) = Len(x) /\ \A k \in 1..Len(r) : r[k] = x[k]
  BY <1>1, <1>3, <1>4
<1>6. r = x
  BY <1>5, SeqEqual, Zenon
<1> QED BY <1>4, <1>6

\* n bytes are read.
LEMMA ReadIsConsume ==
  ASSUME NEW b \in Buffers, NEW c, Ring(b, c), NEW d, Ring(b, d), Kept(c, d),
         NEW n \in 0..c.used, d.used = c.used - n
  PROVE  Takes(c, d, n)
<1> DEFINE p == Past(c)
           u == Unread(c)
           q == Past(d)
           v == Unread(d)
<1>1. /\ p \in Seq(Cell) /\ Len(p) = Back(c) /\ \A k \in 1..Back(c) : p[k] = ByteAt(c, k - 1)
      /\ u \in Seq(Cell) /\ Len(u) = c.used /\ \A k \in 1..c.used : u[k] = ByteAt(c, Back(c) + k - 1)
  BY ViewIs
<1>2. /\ q \in Seq(Cell) /\ Len(q) = Back(d) /\ \A k \in 1..Back(d) : q[k] = ByteAt(d, k - 1)
      /\ v \in Seq(Cell) /\ Len(v) = d.used /\ \A k \in 1..d.used : v[k] = ByteAt(d, Back(d) + k - 1)
  BY ViewIs
<1> HIDE DEF p, u, q, v
<1>0. Len(p) = Back(c) /\ Len(u) = c.used /\ Len(q) = Back(d) /\ Len(v) = d.used
  BY <1>1, <1>2
<1>3. /\ Back(c) \in Nat /\ c.used \in Nat /\ Back(d) \in Nat /\ d.used \in Nat
      /\ Back(d) = Back(c) + n /\ Span(c) = Back(c) + c.used /\ d.used = c.used - n
  <2>1. /\ Back(c) \in Nat /\ c.used \in Nat /\ Back(d) \in Nat /\ d.used \in Nat
        /\ Span(c) = Back(c) + c.used /\ Span(d) = Back(d) + d.used /\ Span(d) = Span(c)
    BY RingIs DEF Kept
  <2>2. n \in Nat
    BY <2>1
  <2> QED BY <2>1, <2>2
<1>4. \A j \in 0..Span(c) - 1 : ByteAt(d, j) = ByteAt(c, j)
  BY DEF Kept
<1> DEFINE f == SubSeq(u, 1, n)
           g == SubSeq(u, n + 1, Len(u))
<1>5. f \in Seq(Cell) /\ Len(f) = n /\ \A i \in 1..n : f[i] = u[i]
  <2>1. 1 \in 1..Len(u) + 1 /\ n \in 1 - 1..Len(u) /\ n - 1 + 1 = n /\ \A i \in 1..n : 1 + i - 1 = i
    BY <1>1, <1>3
  <2>2. f \in Seq(Cell) /\ Len(f) = n - 1 + 1 /\ \A i \in 1..n - 1 + 1 : f[i] = u[1 + i - 1]
    BY <1>1, <2>1, CutIs
  <2> HIDE DEF f
  <2> QED BY <2>1, <2>2
<1>6. g \in Seq(Cell) /\ Len(g) = d.used /\ \A i \in 1..d.used : g[i] = u[n + i]
  <2> DEFINE m == n + 1
  <2>1. /\ m \in 1..Len(u) + 1 /\ Len(u) \in m - 1..Len(u) /\ Len(u) - m + 1 = d.used
        /\ \A i \in 1..d.used : m + i - 1 = n + i
    BY <1>1, <1>3
  <2> HIDE DEF m
  <2>2. /\ SubSeq(u, m, Len(u)) \in Seq(Cell) /\ Len(SubSeq(u, m, Len(u))) = Len(u) - m + 1
        /\ \A i \in 1..Len(u) - m + 1 : SubSeq(u, m, Len(u))[i] = u[m + i - 1]
    BY <1>1, <2>1, CutIs
  <2>3. g = SubSeq(u, m, Len(u))
    BY DEF m
  <2> HIDE DEF g
  <2> QED BY <2>1, <2>2, <2>3
<1> HIDE DEF f, g
<1>7. q = p \o f
  <2>1. Len(q) = Len(p) + Len(f)
    BY <1>1, <1>2, <1>3, <1>5
  <2>2. ASSUME NEW k \in 1..Len(p) PROVE q[k] = p[k]
    <3>1. k \in 1..Back(c) /\ k \in 1..Back(d) /\ k - 1 \in 0..Span(c) - 1
      BY <1>1, <1>3
    <3> QED BY <1>1, <1>2, <1>4, <3>1
  <2>3. ASSUME NEW k \in 1..Len(f) PROVE q[Len(p) + k] = f[k]
    <3>1. /\ k \in 1..n /\ k \in 1..c.used /\ Len(p) + k \in 1..Back(d)
          /\ Back(c) + k - 1 \in 0..Span(c) - 1 /\ (Len(p) + k) - 1 = Back(c) + k - 1
      <4>1. k \in 1..n
        BY <1>5
      <4> QED BY <1>0, <1>3, <4>1, SMTT(60)
    <3>2. q[Len(p) + k] = ByteAt(d, (Len(p) + k) - 1)
      BY <1>2, <3>1
    <3>3. f[k] = ByteAt(c, Back(c) + k - 1)
      BY <1>1, <1>5, <3>1
    <3> QED BY <1>4, <3>1, <3>2, <3>3
  <2> QED BY <1>1, <1>2, <1>5, <2>1, <2>2, <2>3, JoinIs
<1>8. v = g
  <2>1. ASSUME NEW k \in 1..d.used PROVE v[k] = g[k]
    <3>1. /\ n + k \in 1..c.used /\ Back(d) + k - 1 = Back(c) + (n + k) - 1
          /\ Back(d) + k - 1 \in 0..Span(c) - 1
      BY <1>3
    <3>2. v[k] = ByteAt(d, Back(d) + k - 1)
      BY <1>2
    <3>3. g[k] = ByteAt(c, Back(c) + (n + k) - 1)
      BY <1>1, <1>6, <3>1
    <3> QED BY <1>4, <3>1, <3>2, <3>3
  <2>2. v \in Seq(Cell) /\ g \in Seq(Cell) /\ Len(v) = Len(g) /\ \A k \in 1..Len(v) : v[k] = g[k]
    BY <1>2, <1>6, <2>1
  <2> QED BY <2>2, SeqEqual, Zenon
<1> QED BY <1>7, <1>8, Zenon DEF Takes, p, u, q, v, f, g

\* n bytes are to be read again.
LEMMA ReplayIsRewind ==
  ASSUME NEW b \in Buffers, NEW c, Ring(b, c), NEW d, Ring(b, d), Kept(c, d),
         NEW n \in 0..Back(c), d.used = c.used + n
  PROVE  Returns(c, d, n)
<1> DEFINE p == Past(c)
           u == Unread(c)
           q == Past(d)
           v == Unread(d)
<1>1. /\ p \in Seq(Cell) /\ Len(p) = Back(c) /\ \A k \in 1..Back(c) : p[k] = ByteAt(c, k - 1)
      /\ u \in Seq(Cell) /\ Len(u) = c.used /\ \A k \in 1..c.used : u[k] = ByteAt(c, Back(c) + k - 1)
  BY ViewIs
<1>2. /\ q \in Seq(Cell) /\ Len(q) = Back(d) /\ \A k \in 1..Back(d) : q[k] = ByteAt(d, k - 1)
      /\ v \in Seq(Cell) /\ Len(v) = d.used /\ \A k \in 1..d.used : v[k] = ByteAt(d, Back(d) + k - 1)
  BY ViewIs
<1> HIDE DEF p, u, q, v
<1>0. Len(p) = Back(c) /\ Len(u) = c.used /\ Len(q) = Back(d) /\ Len(v) = d.used
  BY <1>1, <1>2
<1>3. /\ Back(c) \in Nat /\ c.used \in Nat /\ Back(d) \in Nat /\ d.used \in Nat
      /\ Back(d) = Back(c) - n /\ Span(c) = Back(c) + c.used /\ d.used = c.used + n
  <2>1. /\ Back(c) \in Nat /\ c.used \in Nat /\ Back(d) \in Nat /\ d.used \in Nat
        /\ Span(c) = Back(c) + c.used /\ Span(d) = Back(d) + d.used /\ Span(d) = Span(c)
    BY RingIs DEF Kept
  <2>2. n \in Nat
    BY <2>1
  <2>3. Back(d) = Back(c) - n
    BY <2>1, <2>2
  <2> QED BY <2>1, <2>3
<1>4. \A j \in 0..Span(c) - 1 : ByteAt(d, j) = ByteAt(c, j)
  BY DEF Kept
<1> DEFINE f == SubSeq(p, 1, Len(p) - n)
           g == SubSeq(p, 1 + Len(p) - n, Len(p))
<1>5. f \in Seq(Cell) /\ Len(f) = Back(d) /\ \A i \in 1..Back(d) : f[i] = p[i]
  <2> DEFINE m == Len(p) - n
  <2>1. 1 \in 1..Len(p) + 1 /\ m \in 1 - 1..Len(p) /\ m - 1 + 1 = Back(d) /\ \A i \in 1..Back(d) : 1 + i - 1 = i
    BY <1>1, <1>3
  <2> HIDE DEF m
  <2>2. /\ SubSeq(p, 1, m) \in Seq(Cell) /\ Len(SubSeq(p, 1, m)) = m - 1 + 1
        /\ \A i \in 1..m - 1 + 1 : SubSeq(p, 1, m)[i] = p[1 + i - 1]
    BY <1>1, <2>1, CutIs
  <2>3. f = SubSeq(p, 1, m)
    BY DEF m
  <2> HIDE DEF f
  <2> QED BY <2>1, <2>2, <2>3
<1>6. g \in Seq(Cell) /\ Len(g) = n /\ \A i \in 1..n : g[i] = p[Back(d) + i]
  <2> DEFINE m == 1 + Len(p) - n
  <2>1. /\ m \in 1..Len(p) + 1 /\ Len(p) \in m - 1..Len(p) /\ Len(p) - m + 1 = n
        /\ \A i \in 1..n : m + i - 1 = Back(d) + i
    BY <1>0, <1>3
  <2> HIDE DEF m
  <2>2. /\ SubSeq(p, m, Len(p)) \in Seq(Cell) /\ Len(SubSeq(p, m, Len(p))) = Len(p) - m + 1
        /\ \A i \in 1..Len(p) - m + 1 : SubSeq(p, m, Len(p))[i] = p[m + i - 1]
    BY <1>1, <2>1, CutIs
  <2>3. g = SubSeq(p, m, Len(p))
    BY DEF m
  <2> HIDE DEF g
  <2> QED BY <2>1, <2>2, <2>3
<1> HIDE DEF f, g
<1>7. q = f
  <2>1. ASSUME NEW k \in 1..Back(d) PROVE q[k] = f[k]
    <3>1. k \in 1..Back(c) /\ k - 1 \in 0..Span(c) - 1
      BY <1>3
    <3> QED BY <1>1, <1>2, <1>4, <1>5, <3>1
  <2>2. q \in Seq(Cell) /\ f \in Seq(Cell) /\ Len(q) = Len(f) /\ \A k \in 1..Len(q) : q[k] = f[k]
    BY <1>2, <1>5, <2>1
  <2> QED BY <2>2, SeqEqual, Zenon
<1>8. v = g \o u
  <2>1. Len(v) = Len(g) + Len(u)
    BY <1>1, <1>2, <1>3, <1>6
  <2>2. ASSUME NEW k \in 1..Len(g) PROVE v[k] = g[k]
    <3>1. /\ k \in 1..n /\ k \in 1..d.used /\ Back(d) + k \in 1..Back(c)
          /\ Back(d) + k - 1 \in 0..Span(c) - 1
      <4>1. k \in 1..n
        BY <1>6
      <4> QED BY <1>3, <4>1, SMTT(60)
    <3>2. v[k] = ByteAt(d, Back(d) + k - 1)
      BY <1>2, <3>1
    <3>3. g[k] = ByteAt(c, Back(d) + k - 1)
      <4>1. g[k] = p[Back(d) + k]
        BY <1>6, <3>1
      <4>2. p[Back(d) + k] = ByteAt(c, (Back(d) + k) - 1)
        BY <1>1, <3>1
      <4>3. (Back(d) + k) - 1 = Back(d) + k - 1
        BY <1>3, <3>1
      <4> QED BY <4>1, <4>2, <4>3
    <3> QED BY <1>4, <3>1, <3>2, <3>3
  <2>3. ASSUME NEW k \in 1..Len(u) PROVE v[Len(g) + k] = u[k]
    <3>1. /\ k \in 1..c.used /\ Len(g) + k \in 1..d.used
          /\ Back(d) + (Len(g) + k) - 1 = Back(c) + k - 1 /\ Back(c) + k - 1 \in 0..Span(c) - 1
      BY <1>1, <1>3, <1>6, SMTT(60)
    <3>2. v[Len(g) + k] = ByteAt(d, Back(d) + (Len(g) + k) - 1)
      BY <1>2, <3>1
    <3> QED BY <1>1, <1>4, <3>1, <3>2
  <2> QED BY <1>1, <1>2, <1>6, <2>1, <2>2, <2>3, JoinIs
<1> QED BY <1>7, <1>8, Zenon DEF Returns, p, u, q, v, f, g

-----------------------------------------------------------------------------
(* The regions move.                                                       *)

LEMMA BackOf ==
  ASSUME NEW c, c.size \in Nat, c.i_rep \in 0..c.size, NEW x \in 0..c.size,
         c.i_out = Turned(c, c.i_rep + x)
  PROVE  Back(c) = x
BY DEF Turned, Back

LEMMA DropIs ==
  ASSUME NEW b \in Buffers, NEW c, Ring(b, c), NEW n \in 0..c.used, NEW d, d = cbuf_dropper(c, n)
  PROVE  Ring(b, d) /\ Kept(c, d) /\ d.used = c.used - n
<1>1. /\ DOMAIN c = Fields /\ c.size \in Nat /\ c.used \in Nat /\ c.i_out \in 0..c.size
      /\ c.i_rep \in 0..c.size /\ Back(c) \in Nat /\ Span(c) = Back(c) + c.used /\ Span(c) <= c.size
      /\ c.i_out = Turned(c, c.i_rep + Back(c)) /\ c.i_in = Turned(c, c.i_rep + Span(c))
  BY RingIs
<1>2. d = [c EXCEPT !.used = c.used - n, !.i_out = Mod(c, c.i_out + n)]
  BY DEF cbuf_dropper
<1>3. Mod(c, c.i_out + n) = Turned(c, c.i_out + n) /\ Turned(c, c.i_out + n) \in 0..c.size
  <2>1. c.i_out + n \in 0..c.size + c.size + 1
    BY <1>1
  <2> QED BY <1>1, <2>1, ModTurned
<1>4. /\ DOMAIN d = Fields /\ d.size = c.size /\ d.max = c.max /\ d.used = c.used - n
      /\ d.overwrite = c.overwrite /\ d.got_wrap = c.got_wrap /\ d.i_in = c.i_in
      /\ d.i_rep = c.i_rep /\ d.data = c.data /\ d.i_out = Turned(c, c.i_out + n)
  BY <1>1, <1>2, <1>3 DEF Fields
<1>5. \A x : Turned(d, x) = Turned(c, x)
  BY <1>4 DEF Turned
<1>6. d.i_out = Turned(d, d.i_rep + (Back(c) + n)) /\ Back(c) + n \in 0..d.size
  BY <1>1, <1>4 DEF Turned
<1>7. Back(d) = Back(c) + n
  BY <1>1, <1>4, <1>6, BackOf
<1>8. Span(d) = Span(c) /\ d.used \in Nat
  BY <1>1, <1>4, <1>7 DEF Span
<1>9. d.i_in = Turned(d, d.i_out + d.used)
  BY <1>1, <1>4 DEF Turned
<1>10. Ring(b, d)
  BY <1>3, <1>4, <1>8, <1>9 DEF Ring
<1>11. Kept(c, d)
  BY <1>4, <1>5, <1>8 DEF Kept, ByteAt
<1> QED BY <1>4, <1>10, <1>11

LEMMA RewindIs ==
  ASSUME NEW b \in Buffers, NEW c, Ring(b, c), NEW n \in 0..Back(c), NEW d, d = RewindBy(c, n)
  PROVE  Ring(b, d) /\ Kept(c, d) /\ d.used = c.used + n
<1>1. /\ DOMAIN c = Fields /\ c.size \in Nat /\ c.used \in Nat /\ c.i_out \in 0..c.size
      /\ c.i_rep \in 0..c.size /\ Back(c) \in Nat /\ Span(c) = Back(c) + c.used /\ Span(c) <= c.size
      /\ c.i_out = Turned(c, c.i_rep + Back(c)) /\ c.i_in = Turned(c, c.i_rep + Span(c))
  BY RingIs
<1>2. d = [c EXCEPT !.used = c.used + n, !.i_out = Mod(c, c.i_out - n + c.size + 1)]
  BY DEF RewindBy
<1>0. n \in Nat /\ n <= Back(c)
  BY <1>1
<1>3. /\ Mod(c, c.i_out - n + c.size + 1) = Turned(c, c.i_out - n + c.size + 1)
      /\ Turned(c, c.i_out - n + c.size + 1) \in 0..c.size
  <2>1. c.i_out - n + c.size + 1 \in 0..c.size + c.size + 1
    BY <1>0, <1>1
  <2> QED BY <1>1, <2>1, ModTurned
<1>4. /\ DOMAIN d = Fields /\ d.size = c.size /\ d.max = c.max /\ d.used = c.used + n
      /\ d.overwrite = c.overwrite /\ d.got_wrap = c.got_wrap /\ d.i_in = c.i_in
      /\ d.i_rep = c.i_rep /\ d.data = c.data /\ d.i_out = Turned(c, c.i_out - n + c.size + 1)
  BY <1>1, <1>2, <1>3 DEF Fields
<1>5. \A x : Turned(d, x) = Turned(c, x)
  BY <1>4 DEF Turned
<1>6. d.i_out = Turned(d, d.i_rep + (Back(c) - n)) /\ Back(c) - n \in 0..d.size
  BY <1>0, <1>1, <1>4 DEF Turned
<1>7. Back(d) = Back(c) - n
  BY <1>1, <1>4, <1>6, BackOf
<1>8. Span(d) = Span(c) /\ d.used \in Nat
  BY <1>0, <1>1, <1>4, <1>7 DEF Span
<1>9. d.i_in = Turned(d, d.i_out + d.used)
  <2>1. Span(c) = (Back(c) - n) + d.used
    BY <1>0, <1>1, <1>4
  <2> QED BY <1>0, <1>1, <1>4, <1>6, <2>1 DEF Turned
<1>10. Ring(b, d)
  BY <1>3, <1>4, <1>8, <1>9 DEF Ring
<1>11. Kept(c, d)
  BY <1>4, <1>5, <1>8 DEF Kept, ByteAt
<1> QED BY <1>4, <1>10, <1>11

LEMMA FlushIs ==
  ASSUME NEW b \in Buffers, NEW c, Ring(b, c),
         NEW d, d = [c EXCEPT !.used = 0, !.got_wrap = FALSE, !.i_in = 0, !.i_out = 0, !.i_rep = 0]
  PROVE  Ring(b, d) /\ d.size = c.size /\ d.got_wrap = FALSE /\ Back(d) = 0 /\ d.used = 0
<1>1. DOMAIN c = Fields /\ c.size \in Nat
  BY RingIs
<1>2. /\ DOMAIN d = Fields /\ d.size = c.size /\ d.max = c.max /\ d.used = 0
      /\ d.overwrite = c.overwrite /\ d.got_wrap = FALSE /\ d.i_in = 0
      /\ d.i_rep = 0 /\ d.data = c.data /\ d.i_out = 0
  BY <1>1 DEF Fields
<1>3. Back(d) = 0 /\ Span(d) = 0
  BY <1>2 DEF Back, Span
<1>4. d.i_in = Turned(d, d.i_out + d.used)
  BY <1>1, <1>2 DEF Turned
<1>5. Ring(b, d)
  BY <1>1, <1>2, <1>3, <1>4 DEF Ring
<1> QED BY <1>2, <1>3, <1>5

LEMMA OptionIs ==
  ASSUME NEW b \in Buffers, NEW c, Ring(b, c), NEW o \in Options, NEW d, d = [c EXCEPT !.overwrite = o]
  PROVE  Ring(b, d) /\ Kept(c, d) /\ d.used = c.used
<1>1. DOMAIN c = Fields
  BY RingIs
<1>2. /\ DOMAIN d = Fields /\ d.size = c.size /\ d.max = c.max /\ d.used = c.used
      /\ d.overwrite = o /\ d.got_wrap = c.got_wrap /\ d.i_in = c.i_in
      /\ d.i_rep = c.i_rep /\ d.data = c.data /\ d.i_out = c.i_out
  BY <1>1 DEF Fields
<1>3. Back(d) = Back(c) /\ Span(d) = Span(c) /\ \A x : Turned(d, x) = Turned(c, x)
  BY <1>2 DEF Back, Span, Turned
<1>4. Ring(b, d)
  BY <1>2, <1>3 DEF Ring
<1>5. Kept(c, d)
  BY <1>2, <1>3 DEF Kept, ByteAt
<1> QED BY <1>2, <1>4, <1>5

LEMMA KeptIsWrote ==
  ASSUME NEW b \in Buffers, NEW c, Ring(b, c), NEW d, Ring(b, d), Kept(c, d), d.used = c.used
  PROVE  Wrote(c, d, 0)
<1>1. /\ Span(c) \in Nat /\ c.size \in Nat /\ Span(c) <= c.size /\ c.used \in Nat /\ c.used <= Span(c)
      /\ d.size = c.size /\ d.got_wrap = c.got_wrap /\ Span(d) = Span(c) /\ c.got_wrap \in BOOLEAN
  <2>1. /\ Span(c) \in Nat /\ c.size \in Nat /\ Span(c) <= c.size /\ c.used \in Nat /\ Back(c) \in Nat
        /\ Span(c) = Back(c) + c.used /\ c.got_wrap \in BOOLEAN
    BY RingIs
  <2> QED BY <2>1 DEF Kept
<1>2. /\ Span(d) = AtMostOf(d.size, Span(c) + 0) /\ d.used = AtMostOf(d.size, c.used + 0)
      /\ Staying(d, 0) = Span(c) /\ ~(Span(c) + 0 > d.size)
  BY <1>1 DEF AtMostOf, Staying
<1>3. ASSUME NEW j \in 0..Staying(d, 0) - 1
      PROVE  ByteAt(d, j) = ByteAt(c, Span(c) - Staying(d, 0) + j)
  <2>1. j \in 0..Span(c) - 1 /\ Span(c) - Staying(d, 0) + j = j
    BY <1>1, <1>2
  <2> QED BY <2>1 DEF Kept
<1> QED BY <1>1, <1>2, <1>3 DEF Wrote

-----------------------------------------------------------------------------
(* The array grows.                                                        *)

GrownSize(c, n) ==
  Min({(c.size + 1 + n) + CBUF_CHUNK - ((c.size + 1 + n) % CBUF_CHUNK), c.max + 1}) - 1

LEMMA GrownSizeIs ==
  ASSUME NEW b \in Buffers, NEW c, Ring(b, c), NEW n \in Nat
  PROVE  /\ GrownSize(c, n) \in Nat /\ c.size <= GrownSize(c, n) /\ GrownSize(c, n) <= MaxSize[b]
         /\ GrownSize(c, n) = c.max \/ GrownSize(c, n) >= c.size + n
<1> DEFINE want == c.size + 1 + n
           k == want % CBUF_CHUNK
<1>1. c.size \in Nat /\ c.size <= MaxSize[b] /\ c.max = MaxSize[b] /\ MaxSize[b] \in Nat
  BY RingIs
<1>2. want \in Nat /\ CBUF_CHUNK \in Nat \ {0}
  BY <1>1, SizesOf
<1>3. k \in 0..CBUF_CHUNK - 1
  <2> HIDE DEF want
  <2> QED BY <1>2, ModIs
<1> HIDE DEF k
<1>4. Min({want + CBUF_CHUNK - k, c.max + 1})
        = (IF want + CBUF_CHUNK - k <= c.max + 1 THEN want + CBUF_CHUNK - k ELSE c.max + 1)
  <2>1. want + CBUF_CHUNK - k \in Int /\ c.max + 1 \in Int
    BY <1>1, <1>2, <1>3
  <2> QED BY <2>1, MinIs
<1>5. GrownSize(c, n) = Min({want + CBUF_CHUNK - k, c.max + 1}) - 1
  BY DEF GrownSize, k
<1> QED BY <1>1, <1>2, <1>3, <1>4, <1>5

LEMMA GrowIs ==
  ASSUME NEW b \in Buffers, NEW c, Ring(b, c), NEW n \in Nat, NEW mem \in BOOLEAN,
         NEW d, d = cbuf_grow(c, n, mem)
  PROVE  /\ Ring(b, d) /\ Wrote(c, d, 0) /\ d.used = c.used /\ Span(d) = Span(c) /\ Back(d) = Back(c)
         /\ d.overwrite = c.overwrite /\ c.size <= d.size
         /\ ~mem \/ d.size = d.max \/ d.size >= c.size + n
<1>1. /\ DOMAIN c = Fields /\ c.size \in Nat /\ c.used \in Nat /\ c.i_out \in 0..c.size
      /\ c.i_rep \in 0..c.size /\ c.i_in \in 0..c.size /\ Back(c) \in Nat
      /\ Span(c) = Back(c) + c.used /\ Span(c) <= c.size
      /\ c.i_out = Turned(c, c.i_rep + Back(c)) /\ c.i_in = Turned(c, c.i_rep + Span(c))
      /\ c.data \in [0..c.size -> Cell] /\ Span(c) \in Nat
  BY RingIs
<1>0. /\ c.size \in Nat /\ c.used \in Nat /\ Back(c) \in Nat /\ Span(c) \in Nat
      /\ c.i_rep \in Nat /\ c.i_out \in Nat /\ c.i_in \in Nat
      /\ c.i_rep <= c.size /\ c.i_out <= c.size /\ c.i_in <= c.size
      /\ Span(c) = Back(c) + c.used /\ Span(c) <= c.size
  BY <1>1
<1>4. c.i_out = Turned(c, c.i_rep + Back(c)) /\ c.i_in = Turned(c, c.i_rep + Span(c))
  BY <1>1
<1>2. CASE c.size = c.max \/ ~mem
  <2>1. d = c
    BY <1>2 DEF cbuf_grow
  <2>2. Kept(c, c)
    BY DEF Kept
  <2>3. Wrote(c, c, 0)
    BY <2>2, KeptIsWrote
  <2> QED BY <1>1, <1>2, <2>1, <2>3
<1>3. CASE ~(c.size = c.max \/ ~mem)
  <2> DEFINE wide == GrownSize(c, n)
             by == wide - c.size
             wraps == c.i_rep > c.i_in
             cells == [i \in 0 .. wide |->
                        IF wraps /\ i >= c.i_rep + by THEN c.data[i - by]
                        ELSE IF i <= c.size /\ ~(wraps /\ i >= c.i_rep) THEN c.data[i]
                        ELSE Unset]
             out == IF wraps /\ c.i_out >= c.i_rep THEN c.i_out + by ELSE c.i_out
             rep == IF wraps THEN c.i_rep + by ELSE c.i_rep
  <2>1. /\ wide \in Nat /\ c.size <= wide /\ wide <= MaxSize[b]
        /\ wide = c.max \/ wide >= c.size + n
    BY GrownSizeIs
  <2>2. d = [c EXCEPT !.size = wide, !.data = cells, !.i_out = out, !.i_rep = rep]
    BY <1>3 DEF cbuf_grow, GrownSize
  <2> HIDE DEF wide
  <2>3. cells \in [0..wide -> Cell]
    <3>1. ASSUME NEW i \in 0..wide
          PROVE  /\ wraps /\ i >= c.i_rep + by => i - by \in 0..c.size
                 /\ i <= c.size => i \in 0..c.size
      BY <1>1, <2>1
    <3> QED BY <1>1, <3>1 DEF Cell
  <2>14. /\ c.i_rep + Back(c) <= c.size => c.i_out = c.i_rep + Back(c)
         /\ c.i_rep + Back(c) > c.size => c.i_out = c.i_rep + Back(c) - (c.size + 1)
         /\ c.i_rep + Span(c) <= c.size => c.i_in = c.i_rep + Span(c)
         /\ c.i_rep + Span(c) > c.size => c.i_in = c.i_rep + Span(c) - (c.size + 1)
    BY <1>0, <1>4 DEF Turned
  <2>15. by \in Nat /\ wide = c.size + by
    BY <1>0, <2>1
  <2>16. wraps <=> c.i_rep + Span(c) > c.size
    BY <1>0, <2>14
  <2>17. /\ wraps => rep = c.i_rep + by /\ (c.i_out >= c.i_rep => out = c.i_out + by)
         /\ wraps /\ c.i_out < c.i_rep => out = c.i_out
         /\ ~wraps => rep = c.i_rep /\ out = c.i_out
    BY <1>0
  <2>18. c.i_out >= c.i_rep <=> c.i_rep + Back(c) <= c.size
    BY <1>0, <2>14
  <2> HIDE DEF by, wraps, rep, out
  <2>4. out \in 0..wide /\ rep \in 0..wide
    <3>1. CASE wraps
      <4>1. CASE c.i_out >= c.i_rep
        BY <1>0, <2>15, <2>17, <3>1, <4>1
      <4>2. CASE c.i_out < c.i_rep
        <5>1. rep = c.i_rep + by /\ out = c.i_out
          BY <2>17, <3>1, <4>2
        <5> QED BY <1>0, <2>15, <5>1
      <4> QED BY <1>0, <4>1, <4>2
    <3>2. CASE ~wraps
      BY <1>0, <2>15, <2>17, <3>2
    <3> QED BY <3>1, <3>2
  <2>5. ASSUME NEW j \in 0..Span(c) - 1
        PROVE  LET x == IF rep + j <= wide THEN rep + j ELSE rep + j - (wide + 1)
               IN  x \in 0..wide /\ cells[x] = c.data[Turned(c, c.i_rep + j)]
    <3> DEFINE y == Turned(c, c.i_rep + j)
               x == IF rep + j <= wide THEN rep + j ELSE rep + j - (wide + 1)
    <3>0. j \in Nat /\ j < Span(c)
      BY <1>0
    <3>3. /\ rep + j <= wide => x = rep + j
          /\ rep + j > wide => x = rep + j - (wide + 1)
      BY <2>4, <2>1, <3>0
    <3>4. /\ c.i_rep + j <= c.size => y = c.i_rep + j
          /\ c.i_rep + j > c.size => y = c.i_rep + j - (c.size + 1)
      BY <1>0, <3>0 DEF Turned
    <3> HIDE DEF x, y
    <3>1. CASE wraps
      <4>0. rep = c.i_rep + by
        BY <2>17, <3>1
      <4>1. CASE c.i_rep + j <= c.size
        <5>1. x = c.i_rep + j + by /\ y = c.i_rep + j
          BY <1>0, <2>15, <3>0, <3>3, <3>4, <4>0, <4>1
        <5>2. x >= c.i_rep + by /\ x - by = y /\ x \in 0..wide
          BY <1>0, <2>15, <3>0, <4>1, <5>1
        <5>3. cells[x] = c.data[x - by]
          BY <3>1, <5>2
        <5> QED BY <5>2, <5>3 DEF x, y
      <4>2. CASE c.i_rep + j > c.size
        <5>1. x = y /\ y = c.i_rep + j - (c.size + 1)
          BY <1>0, <2>15, <3>0, <3>3, <3>4, <4>0, <4>2
        <5>2. /\ x \in 0..wide /\ x <= c.size /\ ~(x >= c.i_rep) /\ ~(x >= c.i_rep + by)
          BY <1>0, <2>15, <3>0, <4>2, <5>1
        <5>3. cells[x] = c.data[x]
          BY <3>1, <5>2
        <5> QED BY <5>1, <5>2, <5>3 DEF x, y
      <4> QED BY <1>0, <3>0, <4>1, <4>2
    <3>2. CASE ~wraps
      <4>1. rep = c.i_rep /\ c.i_rep + j <= c.size
        BY <1>0, <2>16, <2>17, <3>0, <3>2
      <4>2. x = c.i_rep + j /\ y = c.i_rep + j
        BY <1>0, <2>15, <3>0, <3>3, <3>4, <4>1
      <4>3. x \in 0..wide /\ x <= c.size
        BY <1>0, <2>15, <3>0, <4>1, <4>2
      <4>4. cells[x] = c.data[x]
        BY <3>2, <4>3
      <4> QED BY <4>2, <4>3, <4>4 DEF x, y
    <3> QED BY <3>1, <3>2
  <2>6. /\ rep + Back(c) <= wide => out = rep + Back(c)
        /\ rep + Back(c) > wide => out = rep + Back(c) - (wide + 1)
    <3>1. CASE wraps
      <4>0. rep = c.i_rep + by
        BY <2>17, <3>1
      <4>1. CASE c.i_rep + Back(c) <= c.size
        <5>1. out = c.i_out + by /\ c.i_out = c.i_rep + Back(c)
          BY <2>14, <2>17, <2>18, <3>1, <4>1
        <5> QED BY <1>0, <2>15, <4>0, <4>1, <5>1
      <4>2. CASE c.i_rep + Back(c) > c.size
        <5>1. c.i_out < c.i_rep
          BY <1>0, <2>18, <4>2
        <5>2. out = c.i_out /\ c.i_out = c.i_rep + Back(c) - (c.size + 1)
          BY <2>14, <2>17, <3>1, <4>2, <5>1
        <5> QED BY <1>0, <2>15, <4>0, <4>2, <5>2
      <4> QED BY <1>0, <4>1, <4>2
    <3>2. CASE ~wraps
      <4>1. rep = c.i_rep /\ out = c.i_out /\ c.i_rep + Back(c) <= c.size
        BY <1>0, <2>16, <2>17, <3>2
      <4> QED BY <1>0, <2>14, <2>15, <4>1
    <3> QED BY <3>1, <3>2
  <2>7. /\ rep + Span(c) <= wide => c.i_in = rep + Span(c)
        /\ rep + Span(c) > wide => c.i_in = rep + Span(c) - (wide + 1)
    <3>1. CASE wraps
      <4>1. rep = c.i_rep + by /\ c.i_rep + Span(c) > c.size
        BY <2>16, <2>17, <3>1
      <4> QED BY <1>0, <2>14, <2>15, <4>1
    <3>2. CASE ~wraps
      <4>1. rep = c.i_rep /\ c.i_rep + Span(c) <= c.size
        BY <1>0, <2>16, <2>17, <3>2
      <4> QED BY <1>0, <2>14, <2>15, <4>1
    <3> QED BY <3>1, <3>2
  <2>19. /\ out + c.used <= wide => c.i_in = out + c.used
         /\ out + c.used > wide => c.i_in = out + c.used - (wide + 1)
    <3>1. rep + Span(c) = rep + Back(c) + c.used
      BY <1>0, <2>4
    <3>2. CASE rep + Back(c) <= wide
      <4>1. out + c.used = rep + Span(c)
        BY <1>0, <2>4, <2>6, <3>1, <3>2
      <4> QED BY <1>0, <2>1, <2>4, <2>7, <3>2, <4>1
    <3>3. CASE rep + Back(c) > wide
      <4>1. /\ out + c.used = rep + Span(c) - (wide + 1) /\ rep + Span(c) > wide
            /\ out + c.used <= wide
        BY <1>0, <2>1, <2>4, <2>6, <3>1, <3>3
      <4> QED BY <1>0, <2>1, <2>4, <2>7, <4>1
    <3> QED BY <1>0, <2>1, <2>4, <3>2, <3>3
  <2> HIDE DEF cells
  <2>8. /\ DOMAIN d = Fields /\ d.size = wide /\ d.max = c.max /\ d.used = c.used
        /\ d.overwrite = c.overwrite /\ d.got_wrap = c.got_wrap /\ d.i_in = c.i_in
        /\ d.i_rep = rep /\ d.data = cells /\ d.i_out = out
    BY <1>1, <2>2 DEF Fields
  <2>9. Back(d) = Back(c) /\ Span(d) = Span(c)
    <3>1. d.i_out = Turned(d, d.i_rep + Back(c)) /\ Back(c) \in 0..d.size
      <4>1. d.i_out = out /\ d.i_rep = rep /\ d.size = wide
        BY <2>8
      <4> QED BY <1>0, <2>1, <2>4, <2>6, <4>1 DEF Turned
    <3>2. Back(d) = Back(c)
      BY <2>1, <2>4, <2>8, <3>1, BackOf
    <3> QED BY <2>8, <3>2 DEF Span
  <2>10. MinSize[b] <= d.size /\ c.max = MaxSize[b]
    <3>1. MinSize[b] <= c.size /\ MinSize[b] \in Nat /\ c.max = MaxSize[b]
      BY SizesOf DEF Ring
    <3> QED BY <1>1, <2>1, <2>8, <3>1
  <2>11. Ring(b, d)
    <3>1. c.got_wrap \in BOOLEAN /\ c.overwrite \in Options /\ d.i_in \in 0..d.size
      BY <1>1, <2>1, <2>8, RingIs
    <3>2. d.i_in = Turned(d, d.i_out + d.used)
      BY <1>1, <2>1, <2>4, <2>8, <2>19 DEF Turned
    <3>3. Span(d) <= d.size
      BY <1>1, <2>1, <2>8, <2>9
    <3> QED BY <1>1, <2>1, <2>3, <2>4, <2>8, <2>10, <3>1, <3>2, <3>3 DEF Ring
  <2>12. ASSUME NEW j \in 0..Span(c) - 1 PROVE ByteAt(d, j) = ByteAt(c, j)
    <3>1. j \in 0..c.size /\ ByteAt(c, j) = c.data[Turned(c, c.i_rep + j)]
      BY <1>1, SMTT(60) DEF ByteAt
    <3>2. ByteAt(d, j) = cells[IF rep + j <= wide THEN rep + j ELSE rep + j - (wide + 1)]
      <4>1. d.data = cells /\ d.i_rep = rep /\ d.size = wide
        BY <2>8
      <4>2. Turned(d, d.i_rep + j) = (IF rep + j <= wide THEN rep + j ELSE rep + j - (wide + 1))
        BY <1>0, <2>1, <2>4, <4>1 DEF Turned
      <4> QED BY <4>1, <4>2 DEF ByteAt
    <3> QED BY <2>5, <3>1, <3>2
  <2>13. Wrote(c, d, 0)
    <3>1. /\ Span(d) = AtMostOf(d.size, Span(c) + 0) /\ d.used = AtMostOf(d.size, c.used + 0)
          /\ Staying(d, 0) = Span(c) /\ ~(Span(c) + 0 > d.size)
      BY <1>1, <2>1, <2>8, <2>9 DEF AtMostOf, Staying
    <3>2. ASSUME NEW j \in 0..Staying(d, 0) - 1
          PROVE  ByteAt(d, j) = ByteAt(c, Span(c) - Staying(d, 0) + j)
      <4>1. j \in 0..Span(c) - 1 /\ Span(c) - Staying(d, 0) + j = j
        BY <1>1, <3>1
      <4> QED BY <2>12, <4>1
    <3>3. d.got_wrap = c.got_wrap /\ c.got_wrap \in BOOLEAN
      BY <2>8, RingIs
    <3> QED BY <3>1, <3>2, <3>3 DEF Wrote
  <2> QED BY <2>1, <2>8, <2>9, <2>11, <2>13
<1> QED BY <1>2, <1>3

-----------------------------------------------------------------------------
(* Bytes arrive.                                                           *)

LEMMA TurnedIn ==
  ASSUME NEW c, c.size \in Nat, NEW y \in 0..c.size, NEW z \in 0..c.size
  PROVE  /\ Turned(c, y) = y /\ Turned(c, y + z) \in 0..c.size
         /\ y + z <= c.size => Turned(c, y + z) = y + z
         /\ y + z > c.size => Turned(c, y + z) = y + z - (c.size + 1)
BY DEF Turned

LEMMA TurnTwice ==
  ASSUME NEW c, c.size \in Nat, NEW a \in 0..c.size, NEW y \in 0..c.size, NEW z \in 0..c.size
  PROVE  Turned(c, Turned(c, a + y) + z) = Turned(c, a + Turned(c, y + z))
<1>1. CASE a + y <= c.size /\ y + z <= c.size
  BY <1>1 DEF Turned
<1>2. CASE a + y <= c.size /\ y + z > c.size
  BY <1>2 DEF Turned
<1>3. CASE a + y > c.size /\ y + z <= c.size
  BY <1>3 DEF Turned
<1>4. CASE a + y > c.size /\ y + z > c.size
  BY <1>4 DEF Turned
<1> QED BY <1>1, <1>2, <1>3, <1>4

LEMMA TurnApart ==
  ASSUME NEW c, c.size \in Nat, NEW a \in 0..c.size, NEW y \in 0..c.size, NEW z \in 0..c.size, y # z
  PROVE  Turned(c, a + y) # Turned(c, a + z)
BY DEF Turned

\* The cells that a write of n bytes touches.
LEMMA PutIs ==
  ASSUME NEW b \in Buffers, NEW c, Ring(b, c), NEW w \in Seq(Cell)
  PROVE  /\ Put(c, w) \in [0..c.size -> Cell]
         /\ \A i \in 0..c.size : (\A k \in 1..Len(w) : Mod(c, c.i_in + k - 1) # i) => Put(c, w)[i] = c.data[i]
<1> DEFINE at(i) == {k \in 1 .. Len(w) : Mod(c, c.i_in + k - 1) = i}
           new(i) == IF at(i) = {} THEN c.data[i] ELSE w[Max(at(i))]
<1>1. c.size \in Nat /\ c.data \in [0..c.size -> Cell] /\ Len(w) \in Nat
  BY RingIs
<1>2. ASSUME NEW i \in 0..c.size PROVE new(i) \in Cell
  <2>1. CASE at(i) = {}
    BY <1>1, <2>1
  <2>2. CASE at(i) # {}
    <3>1. at(i) \in SUBSET (1..Len(w))
      OBVIOUS
    <3> DEFINE K == at(i)
    <3>2. K \in SUBSET (1..Len(w)) /\ K # {}
      BY <2>2, <3>1
    <3> HIDE DEF K
    <3>3. Max(K) \in 1..Len(w)
      BY <1>1, <3>2, MaxIn
    <3>4. w[Max(K)] \in Cell
      BY <1>1, <3>3
    <3>5. new(i) = w[Max(K)]
      BY <2>2 DEF K
    <3> QED BY <3>4, <3>5
  <2> QED BY <2>1, <2>2
<1>3. Put(c, w) = [i \in 0..c.size |-> new(i)]
  BY DEF Put
<1>4. ASSUME NEW i \in 0..c.size, \A k \in 1..Len(w) : Mod(c, c.i_in + k - 1) # i
      PROVE  new(i) = c.data[i]
  <2>1. at(i) = {}
    BY <1>4
  <2> QED BY <2>1
<1> HIDE DEF new
<1> QED BY <1>2, <1>3, <1>4

\* None of n bytes gets into cell a + y.
LEMMA PutAway ==
  ASSUME NEW b \in Buffers, NEW c, Ring(b, c), NEW w \in Seq(Cell), Len(w) <= c.size, NEW y \in 0..c.size,
         \A k \in 1..Len(w) : Turned(c, Span(c) + (k - 1)) # y
  PROVE  Put(c, w)[Turned(c, c.i_rep + y)] = c.data[Turned(c, c.i_rep + y)]
<1>1. /\ c.size \in Nat /\ c.i_rep \in 0..c.size /\ Span(c) \in 0..c.size /\ c.i_in \in 0..c.size
      /\ c.i_in = Turned(c, c.i_rep + Span(c)) /\ Len(w) \in Nat
  BY RingIs
<1>2. ASSUME NEW k \in 1..Len(w) PROVE Mod(c, c.i_in + k - 1) # Turned(c, c.i_rep + y)
  <2>1. /\ k - 1 \in 0..c.size /\ c.i_in + k - 1 = c.i_in + (k - 1)
        /\ c.i_in + (k - 1) \in 0..c.size + c.size + 1
    BY <1>1, SMTT(60)
  <2>2. Mod(c, c.i_in + k - 1) = Turned(c, c.i_in + (k - 1))
    BY <1>1, <2>1, ModTurned
  <2>3. Turned(c, c.i_in + (k - 1)) = Turned(c, c.i_rep + Turned(c, Span(c) + (k - 1)))
    <3>1. Turned(c, Turned(c, c.i_rep + Span(c)) + (k - 1)) = Turned(c, c.i_rep + Turned(c, Span(c) + (k - 1)))
      BY <1>1, <2>1, TurnTwice, ZenonT(60)
    <3> QED BY <1>1, <3>1
  <2>4. Turned(c, Span(c) + (k - 1)) \in 0..c.size
    BY <1>1, <2>1, TurnedIn
  <2>5. Turned(c, c.i_rep + Turned(c, Span(c) + (k - 1))) # Turned(c, c.i_rep + y)
    BY <1>1, <2>4, TurnApart
  <2> QED BY <2>2, <2>3, <2>5
<1>3. Turned(c, c.i_rep + y) \in 0..c.size
  BY <1>1, TurnedIn
<1> QED BY <1>2, <1>3, PutIs

LEMMA RingNumbers ==
  ASSUME NEW b \in Buffers, NEW c, Ring(b, c)
  PROVE  /\ c.size \in Nat /\ c.used \in Nat /\ Back(c) \in Nat /\ Span(c) \in Nat
         /\ c.i_rep \in Nat /\ c.i_out \in Nat /\ c.i_in \in Nat
         /\ c.i_rep <= c.size /\ c.i_out <= c.size /\ c.i_in <= c.size
         /\ Span(c) = Back(c) + c.used /\ Span(c) <= c.size
<1>1. /\ c.size \in Nat /\ c.used \in Nat /\ Back(c) \in Nat /\ Span(c) \in Nat
      /\ c.i_rep \in 0..c.size /\ c.i_out \in 0..c.size /\ c.i_in \in 0..c.size
      /\ Span(c) = Back(c) + c.used /\ Span(c) <= c.size
  BY RingIs
<1> QED BY <1>1

Bytes(w, n) == w \in Seq(Cell) /\ Len(w) = n

\* Everything fits: the regions behind stay.
LEMMA FitsIs ==
  ASSUME NEW b \in Buffers, NEW c, Ring(b, c), NEW n \in Nat, n > 0, NEW w, Bytes(w, n),
         Span(c) + n <= c.size, NEW d, d = Advance(c, n, Put(c, w))
  PROVE  /\ Ring(b, d) /\ Wrote(c, d, n) /\ d.size = c.size /\ d.max = c.max
         /\ d.overwrite = c.overwrite
<1>0. /\ c.size \in Nat /\ c.used \in Nat /\ Back(c) \in Nat /\ Span(c) \in Nat
      /\ Span(c) = Back(c) + c.used /\ c.i_in \in 0..c.size /\ c.i_out \in 0..c.size /\ c.i_rep \in 0..c.size
      /\ c.i_in = Turned(c, c.i_rep + Span(c)) /\ c.i_out = Turned(c, c.i_rep + Back(c))
      /\ c.got_wrap \in BOOLEAN /\ DOMAIN c = Fields
  BY RingIs
<1>00. /\ c.size \in Nat /\ c.used \in Nat /\ Back(c) \in Nat /\ Span(c) \in Nat
       /\ c.i_rep \in Nat /\ c.i_out \in Nat /\ c.i_in \in Nat
       /\ c.i_rep <= c.size /\ c.i_out <= c.size /\ c.i_in <= c.size
       /\ Span(c) = Back(c) + c.used /\ Span(c) <= c.size
  BY RingNumbers
<1>1. /\ Mod(c, c.i_in + n) = Turned(c, c.i_in + n) /\ Turned(c, c.i_in + n) \in 0..c.size
  <2>1. c.i_in + n \in 0..c.size + c.size + 1
    BY <1>00
  <2> QED BY <1>0, <2>1, ModTurned
<1>2. /\ ~(n > c.size - c.used - cbuf_reused(c)) /\ ~(n > c.size - c.used)
      /\ Min({c.used + n, c.size}) = c.used + n
  <2>1. cbuf_reused(c) = Back(c)
    BY ReusedIs
  <2>2. Min({c.used + n, c.size}) = (IF c.used + n <= c.size THEN c.used + n ELSE c.size)
    BY <1>00, MinIs, SMTT(60)
  <2> QED BY <1>00, <2>1, <2>2
<1>3. d = [c EXCEPT !.used = c.used + n, !.i_in = Turned(c, c.i_in + n), !.data = Put(c, w),
                    !.got_wrap = c.got_wrap \/ FALSE, !.i_rep = c.i_rep, !.i_out = c.i_out]
  BY <1>1, <1>2 DEF Advance
<1>4. /\ DOMAIN d = Fields /\ d.size = c.size /\ d.max = c.max /\ d.used = c.used + n
      /\ d.overwrite = c.overwrite /\ d.i_in = Turned(c, c.i_in + n)
      /\ d.i_rep = c.i_rep /\ d.data = Put(c, w) /\ d.i_out = c.i_out
  BY <1>0, <1>3 DEF Fields
<1>5. d.got_wrap = c.got_wrap
  BY <1>0, <1>3, Zenon DEF Fields
<1>6. Back(d) = Back(c) /\ Span(d) = Span(c) + n /\ \A x : Turned(d, x) = Turned(c, x)
  <2>1. Back(d) = Back(c) /\ \A x : Turned(d, x) = Turned(c, x)
    BY <1>4 DEF Back, Turned
  <2> QED BY <1>0, <1>4, <2>1 DEF Span
<1>7. d.i_in = Turned(d, d.i_out + d.used)
  <2>1. c.i_in = Turned(c, c.i_out + c.used)
    BY RingIs
  <2>2. c.used \in 0..c.size /\ n \in 0..c.size /\ c.used + n <= c.size /\ c.i_out \in 0..c.size
    BY <1>00
  <2>3. Turned(c, Turned(c, c.i_out + c.used) + n) = Turned(c, c.i_out + Turned(c, c.used + n))
    BY <1>00, <2>2, TurnTwice
  <2>4. Turned(c, c.used + n) = c.used + n
    BY <1>00, <2>2, TurnedIn
  <2> QED BY <1>4, <1>6, <2>1, <2>3, <2>4
<1>8. Ring(b, d)
  <2>1. d.data \in [0..c.size -> Cell]
    BY <1>4, PutIs DEF Bytes
  <2>2. d.used \in Nat /\ Span(d) <= d.size
    BY <1>0, <1>4, <1>6
  <2> QED BY <1>0, <1>1, <1>4, <1>5, <1>6, <1>7, <2>1, <2>2 DEF Ring
<1>9. ASSUME NEW j \in 0..Span(c) - 1 PROVE ByteAt(d, j) = ByteAt(c, j)
  <2>1. j \in 0..c.size /\ n <= c.size
    BY <1>0
  <2>2. ASSUME NEW k \in 1..n PROVE Turned(c, Span(c) + (k - 1)) # j
    <3>1. Span(c) + (k - 1) \in Nat /\ Span(c) + (k - 1) <= c.size /\ Span(c) + (k - 1) > j
      BY <1>00
    <3> QED BY <1>00, <3>1 DEF Turned
  <2>3. Put(c, w)[Turned(c, c.i_rep + j)] = c.data[Turned(c, c.i_rep + j)]
    BY <2>1, <2>2, PutAway DEF Bytes
  <2> QED BY <1>4, <1>6, <2>3 DEF ByteAt
<1>10. Wrote(c, d, n)
  <2>1. /\ Span(d) = AtMostOf(d.size, Span(c) + n) /\ d.used = AtMostOf(d.size, c.used + n)
        /\ Staying(d, n) = Span(c) /\ ~(Span(c) + n > d.size)
    BY <1>0, <1>4, <1>6 DEF AtMostOf, Staying
  <2>2. ASSUME NEW j \in 0..Staying(d, n) - 1
        PROVE  ByteAt(d, j) = ByteAt(c, Span(c) - Staying(d, n) + j)
    <3>1. j \in 0..Span(c) - 1 /\ Span(c) - Staying(d, n) + j = j
      BY <1>0, <2>1
    <3> QED BY <1>9, <3>1
  <2> QED BY <1>0, <1>5, <2>1, <2>2 DEF Wrote
<1> QED BY <1>4, <1>8, <1>10

\* The oldest bytes are pushed out.
LEMMA PushIs ==
  ASSUME NEW b \in Buffers, NEW c, Ring(b, c), NEW n \in Nat, n > 0, NEW w, Bytes(w, n),
         Span(c) + n > c.size, NEW d, d = Advance(c, n, Put(c, w))
  PROVE  /\ Ring(b, d) /\ Wrote(c, d, n) /\ d.size = c.size /\ d.max = c.max
         /\ d.overwrite = c.overwrite
<1>0. /\ c.i_in \in 0..c.size /\ c.i_out \in 0..c.size /\ c.i_rep \in 0..c.size /\ Span(c) \in 0..c.size
      /\ c.i_in = Turned(c, c.i_rep + Span(c)) /\ c.i_out = Turned(c, c.i_rep + Back(c))
      /\ c.i_in = Turned(c, c.i_out + c.used)
      /\ c.got_wrap \in BOOLEAN /\ DOMAIN c = Fields
  BY RingIs
<1>00. /\ c.size \in Nat /\ c.used \in Nat /\ Back(c) \in Nat /\ Span(c) \in Nat
       /\ c.i_rep \in Nat /\ c.i_out \in Nat /\ c.i_in \in Nat
       /\ c.i_rep <= c.size /\ c.i_out <= c.size /\ c.i_in <= c.size
       /\ Span(c) = Back(c) + c.used /\ Span(c) <= c.size
  BY RingNumbers
<1> DEFINE m == Mod(c, c.i_in + n)
           rep == Turned(c, m + 1)
           out == IF n > c.size - c.used THEN rep ELSE c.i_out
           held == IF c.used + n <= c.size THEN c.used + n ELSE c.size
<1>1. m \in 0..c.size
  <2>1. c.i_in + n \in Int
    BY <1>00
  <2> QED BY <1>00, <2>1, ModIn
<1>2. n <= c.size => m = Turned(c, c.i_in + n)
  <2>1. n <= c.size => c.i_in + n \in 0..c.size + c.size + 1
    BY <1>00
  <2> QED BY <1>00, <2>1, ModTurned
<1>3. rep = Mod(c, m + 1) /\ rep \in 0..c.size
  <2> HIDE DEF m
  <2>1. m + 1 \in 0..c.size + c.size + 1
    BY <1>00, <1>1
  <2> QED BY <1>00, <2>1, ModTurned
<1>4. /\ n > c.size - c.used - cbuf_reused(c) /\ Min({c.used + n, c.size}) = held
  <2>1. cbuf_reused(c) = Back(c)
    BY ReusedIs
  <2>2. Min({c.used + n, c.size}) = (IF c.used + n <= c.size THEN c.used + n ELSE c.size)
    BY <1>00, MinIs
  <2> QED BY <1>00, <2>1, <2>2
<1>5. d = [c EXCEPT !.used = held, !.i_in = m, !.data = Put(c, w),
                    !.got_wrap = c.got_wrap \/ TRUE, !.i_rep = rep, !.i_out = out]
  BY <1>3, <1>4 DEF Advance
<1> HIDE DEF m, rep, out, held
<1>6. /\ DOMAIN d = Fields /\ d.size = c.size /\ d.max = c.max /\ d.used = held
      /\ d.overwrite = c.overwrite /\ d.i_in = m
      /\ d.i_rep = rep /\ d.data = Put(c, w) /\ d.i_out = out
  BY <1>0, <1>5 DEF Fields
<1>7. d.got_wrap = TRUE
  BY <1>0, <1>5, Zenon DEF Fields
<1>8. \A x : Turned(d, x) = Turned(c, x)
  BY <1>6 DEF Turned
\* Where unread bytes are lost too, nothing is left to replay.
<1>9. ASSUME n > c.size - c.used
      PROVE  d.i_in = Turned(d, d.i_out + d.used) /\ Back(d) + d.used = d.size
  <2>1. out = rep /\ held = c.size
    BY <1>00, <1>9 DEF out, held
  <2>2. Back(d) = 0
    <3>1. d.i_out = d.i_rep /\ d.i_rep \in Nat
      BY <1>3, <1>00, <1>6, <2>1
    <3> QED BY <3>1 DEF Back
  <2>3. Turned(c, Turned(c, m + 1) + c.size) = Turned(c, m + Turned(c, 1 + c.size))
    <3>1. 1 \in 0..c.size
      <4>1. c.size > 0
        BY RingIs
      <4> QED BY <1>00, <4>1
    <3> QED BY <1>00, <1>1, <3>1, TurnTwice
  <2>4. Turned(c, 1 + c.size) = 0 /\ Turned(c, m + 0) = m
    BY <1>00, <1>1 DEF Turned
  <2>5. d.i_in = Turned(d, d.i_out + d.used)
    BY <1>6, <1>8, <2>1, <2>3, <2>4 DEF rep
  <2>6. Back(d) + d.used = d.size
    BY <1>00, <1>6, <2>1, <2>2
  <2> QED BY <2>5, <2>6
<1>10. ASSUME n <= c.size - c.used
       PROVE  d.i_in = Turned(d, d.i_out + d.used) /\ Back(d) + d.used = d.size
  <2> DEFINE x == c.size - c.used - n
             y == c.used + n
  <2>1. out = c.i_out /\ held = y /\ x \in 0..c.size /\ y \in 0..c.size /\ n \in 0..c.size
        /\ c.used \in 0..c.size /\ n <= c.size
    BY <1>00, <1>10 DEF out, held
  <2>2. m = Turned(c, c.i_out + y)
    <3>1. Turned(c, Turned(c, c.i_out + c.used) + n) = Turned(c, c.i_out + Turned(c, c.used + n))
      BY <1>0, <1>00, <2>1, TurnTwice
    <3>2. Turned(c, c.used + n) = c.used + n
      BY <1>00, <2>1, TurnedIn
    <3> QED BY <1>0, <1>2, <2>1, <3>1, <3>2
  <2>3. rep = Turned(c, c.i_out + Turned(c, y + 1)) /\ Turned(c, y + 1) \in 0..c.size
    <3> HIDE DEF y
    <3>1. 1 \in 0..c.size
      <4>1. c.size > 0
        BY RingIs
      <4> QED BY <1>00, <4>1
    <3>2. Turned(c, Turned(c, c.i_out + y) + 1) = Turned(c, c.i_out + Turned(c, y + 1))
      BY <1>0, <1>00, <2>1, <3>1, TurnTwice
    <3>3. Turned(c, y + 1) \in 0..c.size
      BY <1>00, <2>1, <3>1, TurnedIn
    <3> QED BY <2>2, <3>2, <3>3 DEF rep
  <2>4. Turned(c, rep + x) = Turned(c, c.i_out + Turned(c, Turned(c, y + 1) + x))
    <3> HIDE DEF x, y
    <3>1. PICK z : z = Turned(c, y + 1)
      OBVIOUS
    <3>2. Turned(c, Turned(c, c.i_out + z) + x) = Turned(c, c.i_out + Turned(c, z + x))
      BY <1>0, <1>00, <2>1, <2>3, <3>1, TurnTwice
    <3> QED BY <2>3, <3>1, <3>2
  <2>5. Turned(c, Turned(c, y + 1) + x) = 0
    <3>1. y + x = c.size
      BY <1>00, <2>1
    <3> HIDE DEF x, y
    <3>2. CASE y + 1 <= c.size
      BY <1>00, <2>1, <3>1, <3>2 DEF Turned
    <3>3. CASE y + 1 > c.size
      BY <1>00, <2>1, <3>1, <3>3 DEF Turned
    <3> QED BY <1>00, <2>1, <3>2, <3>3
  <2>6. d.i_out = Turned(d, d.i_rep + x)
    <3>1. Turned(c, c.i_out + 0) = c.i_out
      BY <1>00 DEF Turned
    <3> HIDE DEF x, y
    <3> QED BY <1>6, <1>8, <2>1, <2>4, <2>5, <3>1
  <2>7. Back(d) = x
    <3> HIDE DEF x, y
    <3> QED BY <1>00, <1>3, <1>6, <2>1, <2>6, BackOf
  <2>8. d.i_in = Turned(d, d.i_out + d.used)
    BY <1>6, <1>8, <2>1, <2>2
  <2>9. Back(d) + d.used = d.size
    BY <1>00, <1>6, <2>1, <2>7
  <2> QED BY <2>8, <2>9
<1>11. d.i_in = Turned(d, d.i_out + d.used) /\ Span(d) = c.size
  <2>1. n > c.size - c.used \/ n <= c.size - c.used
    BY <1>00
  <2>2. d.i_in = Turned(d, d.i_out + d.used) /\ Back(d) + d.used = d.size
    BY <1>9, <1>10, <2>1
  <2> QED BY <1>6, <2>2 DEF Span
<1>12. Ring(b, d)
  <2>1. d.data \in [0..c.size -> Cell]
    BY <1>6, PutIs DEF Bytes
  <2>2. d.used \in Nat /\ Span(d) <= d.size /\ out \in 0..c.size
    BY <1>0, <1>00, <1>3, <1>6, <1>11 DEF held, out
  <2>3. c.max = MaxSize[b] /\ c.overwrite \in Options /\ MinSize[b] <= c.size /\ c.size <= MaxSize[b]
    BY DEF Ring
  <2> QED BY <1>0, <1>00, <1>1, <1>3, <1>6, <1>7, <1>11, <2>1, <2>2, <2>3 DEF Ring
<1> DEFINE y == Span(c) + n - c.size
<1>13. ASSUME n < c.size PROVE rep = Turned(c, c.i_rep + y) /\ y \in 0..c.size
  <2> DEFINE z == y - 1
  <2>1. n \in 0..c.size /\ z \in 0..c.size /\ y \in 0..c.size /\ z + 1 = y /\ 1 \in 0..c.size
    BY <1>00, <1>13
  <2>2. m = Turned(c, c.i_rep + z)
    <3>1. Turned(c, Turned(c, c.i_rep + Span(c)) + n) = Turned(c, c.i_rep + Turned(c, Span(c) + n))
      BY <1>0, <1>00, <2>1, TurnTwice
    <3>2. Turned(c, Span(c) + n) = z
      BY <1>00, <2>1 DEF Turned
    <3>3. m = Turned(c, c.i_in + n)
      BY <1>00, <1>2, <1>13
    <3> QED BY <1>0, <3>1, <3>2, <3>3
  <2> HIDE DEF z, y
  <2>3. Turned(c, Turned(c, c.i_rep + z) + 1) = Turned(c, c.i_rep + Turned(c, z + 1))
    BY <1>0, <1>00, <2>1, TurnTwice
  <2>4. Turned(c, z + 1) = y
    BY <1>00, <2>1, TurnedIn
  <2> QED BY <2>1, <2>2, <2>3, <2>4 DEF rep
<1>14. ASSUME n < c.size, NEW j \in 0..c.size - n - 1
       PROVE  ByteAt(d, j) = ByteAt(c, Span(c) - (c.size - n) + j)
  <2>1. /\ j \in 0..c.size /\ y + j \in 0..c.size /\ y + j < Span(c) /\ n <= c.size
        /\ y + j = Span(c) - (c.size - n) + j /\ y \in 0..c.size
    BY <1>00, <1>14
  <2>2. ASSUME NEW k \in 1..n PROVE Turned(c, Span(c) + (k - 1)) # y + j
    <3>1. CASE Span(c) + (k - 1) <= c.size
      <4>1. Span(c) + (k - 1) >= Span(c)
        BY <1>00
      <4> QED BY <1>00, <2>1, <3>1, <4>1 DEF Turned
    <3>2. CASE Span(c) + (k - 1) > c.size
      <4>1. Span(c) + (k - 1) - (c.size + 1) < y
        BY <1>00
      <4> QED BY <1>00, <2>1, <3>2, <4>1 DEF Turned
    <3> QED BY <1>00, <3>1, <3>2
  <2>3. Put(c, w)[Turned(c, c.i_rep + (y + j))] = c.data[Turned(c, c.i_rep + (y + j))]
    <3>1. PICK i : i = y + j
      OBVIOUS
    <3>2. i \in 0..c.size /\ \A k \in 1..n : Turned(c, Span(c) + (k - 1)) # i
      BY <2>1, <2>2, <3>1
    <3>3. Put(c, w)[Turned(c, c.i_rep + i)] = c.data[Turned(c, c.i_rep + i)]
      BY <2>1, <3>2, PutAway DEF Bytes
    <3> QED BY <3>1, <3>3
  <2>4. Turned(c, rep + j) = Turned(c, c.i_rep + (y + j))
    <3> HIDE DEF y
    <3>1. Turned(c, Turned(c, c.i_rep + y) + j) = Turned(c, c.i_rep + Turned(c, y + j))
      BY <1>0, <1>00, <2>1, TurnTwice
    <3>2. Turned(c, y + j) = y + j
      BY <1>00, <2>1, TurnedIn
    <3> QED BY <1>13, <1>14, <3>1, <3>2
  <2> HIDE DEF y
  <2> QED BY <1>6, <1>8, <2>1, <2>3, <2>4 DEF ByteAt
<1>15. Wrote(c, d, n)
  <2>1. /\ Span(d) = AtMostOf(d.size, Span(c) + n) /\ d.used = AtMostOf(d.size, c.used + n)
        /\ Staying(d, n) = (IF c.size > n THEN c.size - n ELSE 0) /\ Span(c) + n > d.size
    BY <1>00, <1>6, <1>11 DEF AtMostOf, Staying, held
  <2>2. ASSUME NEW j \in 0..Staying(d, n) - 1
        PROVE  ByteAt(d, j) = ByteAt(c, Span(c) - Staying(d, n) + j)
    <3>1. CASE n < c.size
      <4>1. Staying(d, n) = c.size - n
        BY <1>00, <2>1, <3>1
      <4> QED BY <1>14, <3>1, <4>1
    <3>2. CASE n >= c.size
      BY <1>00, <2>1, <3>2
    <3> QED BY <1>00, <3>1, <3>2
  <2> QED BY <1>0, <1>7, <2>1, <2>2 DEF Wrote
<1> QED BY <1>6, <1>12, <1>15

LEMMA AdvanceIs ==
  ASSUME NEW b \in Buffers, NEW c, Ring(b, c), NEW n \in Nat, n > 0, NEW w, Bytes(w, n),
         NEW d, d = Advance(c, n, Put(c, w))
  PROVE  /\ Ring(b, d) /\ Wrote(c, d, n) /\ d.size = c.size /\ d.max = c.max
         /\ d.overwrite = c.overwrite
<1>1. Span(c) \in Nat /\ c.size \in Nat
  BY RingNumbers
<1>2. CASE Span(c) + n <= c.size
  BY <1>2, FitsIs
<1>3. CASE Span(c) + n > c.size
  BY <1>3, PushIs
<1> QED BY <1>1, <1>2, <1>3

\* One write after another, with no growth in between.
LEMMA Compose ==
  ASSUME NEW b \in Buffers, NEW c, Ring(b, c), NEW g, Ring(b, g), NEW d, Ring(b, d),
         NEW k \in Nat, NEW n \in Nat, Wrote(c, g, k), Wrote(g, d, n), d.size = g.size
  PROVE  Wrote(c, d, k + n)
<1>1. /\ Span(c) \in Nat /\ Span(g) \in Nat /\ Span(d) \in Nat /\ d.size \in Nat
      /\ c.used \in Nat /\ g.used \in Nat /\ d.used \in Nat
  BY RingNumbers
<1>2. /\ Span(g) = AtMostOf(d.size, Span(c) + k) /\ Span(d) = AtMostOf(d.size, Span(g) + n)
      /\ g.used = AtMostOf(d.size, c.used + k) /\ d.used = AtMostOf(d.size, g.used + n)
  BY DEF Wrote
<1>3. /\ d.got_wrap = (c.got_wrap \/ Span(c) + k > d.size \/ Span(g) + n > d.size)
      /\ d.got_wrap \in BOOLEAN /\ c.got_wrap \in BOOLEAN
  <2>1. /\ g.got_wrap = (c.got_wrap \/ Span(c) + k > d.size)
        /\ d.got_wrap = (g.got_wrap \/ Span(g) + n > d.size)
    BY DEF Wrote
  <2>2. c.got_wrap \in BOOLEAN
    BY RingIs
  <2> QED BY <2>1, <2>2, Zenon
<1>4. Span(d) = AtMostOf(d.size, Span(c) + (k + n)) /\ d.used = AtMostOf(d.size, c.used + (k + n))
  BY <1>1, <1>2 DEF AtMostOf
<1>5. (Span(c) + k > d.size \/ Span(g) + n > d.size) <=> Span(c) + (k + n) > d.size
  BY <1>1, <1>2 DEF AtMostOf
<1>6. d.got_wrap = (c.got_wrap \/ Span(c) + (k + n) > d.size)
  BY <1>3, <1>5, Zenon
<1>7. ASSUME NEW j \in 0..Staying(d, k + n) - 1
      PROVE  ByteAt(d, j) = ByteAt(c, Span(c) - Staying(d, k + n) + j)
  <2>1. Staying(d, k + n) = Span(d) - (k + n) /\ Span(d) > k + n /\ j \in Nat /\ j < Span(d) - (k + n)
    <3>1. CASE Span(d) > k + n
      BY <1>1, <3>1 DEF Staying
    <3>2. CASE Span(d) <= k + n
      BY <1>1, <3>2 DEF Staying
    <3> QED BY <1>1, <3>1, <3>2
  <2>2. Span(d) <= Span(g) + n /\ Span(g) <= Span(c) + k
    BY <1>1, <1>2 DEF AtMostOf
  <2>3. Staying(d, n) = Span(d) - n /\ Staying(g, k) = Span(g) - k
    BY <1>1, <2>1, <2>2 DEF Staying
  <2> DEFINE i == Span(g) - Staying(d, n) + j
  <2>4. j \in 0..Staying(d, n) - 1 /\ i \in 0..Staying(g, k) - 1
    BY <1>1, <2>1, <2>2, <2>3
  <2>5. ByteAt(d, j) = ByteAt(g, i)
    BY <2>4 DEF Wrote
  <2>6. Span(c) - Staying(g, k) + i = Span(c) - Staying(d, k + n) + j
    BY <1>1, <2>1, <2>2, <2>3
  <2> HIDE DEF i
  <2>7. ByteAt(g, i) = ByteAt(c, Span(c) - Staying(g, k) + i)
    BY <2>4 DEF Wrote
  <2> QED BY <2>5, <2>6, <2>7
<1> QED BY <1>4, <1>6, <1>7 DEF Wrote

-----------------------------------------------------------------------------
(* The writing calls.                                                      *)

LEMMA RoomIs ==
  ASSUME NEW b \in Buffers, NEW c, Ring(b, c), NEW len \in Nat, NEW mem \in BOOLEAN,
         NEW g, g = Room(c, len, mem)
  PROVE  /\ Ring(b, g) /\ Wrote(c, g, 0) /\ g.used = c.used
         /\ g.overwrite = c.overwrite /\ c.size <= g.size
         /\ ~mem \/ g.size = g.max \/ len <= g.size - g.used
         /\ ~mem \/ c.size = c.max \/ len <= c.size - c.used => g = c
<1>1. c.size \in Nat /\ c.used \in Nat /\ c.used <= c.size
  <2>1. c.size \in Nat /\ c.used \in Nat /\ Span(c) = Back(c) + c.used /\ Back(c) \in Nat /\ Span(c) <= c.size
    BY RingNumbers
  <2> QED BY <2>1
<1>2. CASE len > c.size - c.used
  <2> DEFINE n == len - (c.size - c.used)
  <2>1. n \in Nat
    BY <1>1, <1>2
  <2>2. g = cbuf_grow(c, n, mem)
    BY <1>2 DEF Room
  <2> HIDE DEF n
  <2>3. /\ Ring(b, g) /\ Wrote(c, g, 0) /\ g.used = c.used /\ g.overwrite = c.overwrite /\ c.size <= g.size
        /\ ~mem \/ g.size = g.max \/ g.size >= c.size + n
    BY <2>1, <2>2, GrowIs
  <2>4. g.size >= c.size + n => len <= g.size - g.used
    <3>1. g.size \in Nat
      BY <2>3, RingNumbers
    <3> QED BY <1>1, <2>1, <2>3, <3>1 DEF n
  <2>5. ~mem \/ c.size = c.max \/ len <= c.size - c.used => g = c
    <3>1. ~mem \/ c.size = c.max => g = c
      BY <2>2 DEF cbuf_grow
    <3> QED BY <1>1, <1>2, <3>1
  <2> QED BY <2>3, <2>4, <2>5
<1>3. CASE len <= c.size - c.used
  <2>1. g = c
    BY <1>1, <1>3 DEF Room
  <2>2. Wrote(c, c, 0)
    <3>1. Kept(c, c)
      BY DEF Kept
    <3> QED BY <3>1, KeptIsWrote
  <2> QED BY <1>1, <1>3, <2>1, <2>2
<1> QED BY <1>1, <1>2, <1>3

LEMMA AdmittedIs ==
  ASSUME NEW b \in Buffers, NEW c, Ring(b, c), NEW len \in Nat
  PROVE  Admitted(c, len) \in Nat /\ Admitted(c, len) <= len
<1>1. c.size \in Nat /\ c.used \in Nat /\ c.used <= c.size /\ c.size - c.used \in Nat
  <2>1. c.size \in Nat /\ c.used \in Nat /\ Span(c) = Back(c) + c.used /\ Back(c) \in Nat /\ Span(c) <= c.size
    BY RingNumbers
  <2> QED BY <2>1
<1>2. c.overwrite \in {"NO_DROP", "WRAP_ONCE", "WRAP_MANY"}
  BY RingIs DEF Options
<1>3. /\ Min({len, c.size - c.used}) = (IF len <= c.size - c.used THEN len ELSE c.size - c.used)
      /\ Min({len, c.size}) = (IF len <= c.size THEN len ELSE c.size)
  BY <1>1, MinIs
<1>4. CASE c.overwrite = "NO_DROP"
  BY <1>1, <1>3, <1>4 DEF Admitted
<1>5. CASE c.overwrite = "WRAP_ONCE"
  BY <1>1, <1>3, <1>5 DEF Admitted
<1>6. CASE c.overwrite = "WRAP_MANY"
  BY <1>1, <1>3, <1>6 DEF Admitted
<1> QED BY <1>2, <1>4, <1>5, <1>6

\* The beginning of a text.
LEMMA BeginningIs ==
  ASSUME NEW w \in Seq(Cell), NEW n \in 0..Len(w)
  PROVE  Bytes(SubSeq(w, 1, n), n)
<1>1. 1 \in 1..Len(w) + 1 /\ n \in 1 - 1..Len(w) /\ n - 1 + 1 = n
  OBVIOUS
<1>2. SubSeq(w, 1, n) \in Seq(Cell) /\ Len(SubSeq(w, 1, n)) = n - 1 + 1
  BY <1>1, CutIs
<1> QED BY <1>1, <1>2 DEF Bytes

SameSize(c, d) == d.size = c.size

LEMMA WriterIs ==
  ASSUME NEW b \in Buffers, NEW c, Ring(b, c), NEW len \in Nat, NEW w \in Seq(Cell), NEW mem \in BOOLEAN,
         NEW d, d = cbuf_writer(c, len, w, mem)
  PROVE  /\ Ring(b, d) /\ c.size <= d.size /\ d.overwrite = c.overwrite
         /\ SameSize(Room(c, len, mem), d)
         /\ \E n \in 0..Len(w) : Wrote(c, d, n)
<1> DEFINE g == Room(c, len, mem)
           n == Min({Admitted(g, len), Len(w)})
<1>1. Ring(b, g) /\ Wrote(c, g, 0) /\ g.overwrite = c.overwrite /\ c.size <= g.size
  BY RoomIs
<1>2. d = IF n = 0 THEN g ELSE Advance(g, n, Put(g, SubSeq(w, 1, n)))
  BY DEF cbuf_writer
<1> HIDE DEF g
<1>3. n \in Nat /\ n <= Len(w) /\ n \in 0..Len(w)
  <2>1. Admitted(g, len) \in Nat /\ Len(w) \in Nat
    BY <1>1, AdmittedIs
  <2>2. n = (IF Admitted(g, len) <= Len(w) THEN Admitted(g, len) ELSE Len(w))
    BY <2>1, MinIs
  <2> HIDE DEF n
  <2> QED BY <2>1, <2>2
<1> HIDE DEF n
<1>4. CASE n = 0
  BY <1>1, <1>2, <1>3, <1>4 DEF g, SameSize
<1>5. CASE n # 0
  <2> DEFINE v == SubSeq(w, 1, n)
  <2>1. Bytes(v, n) /\ n > 0
    BY <1>3, <1>5, BeginningIs
  <2>2. d = Advance(g, n, Put(g, v))
    BY <1>2, <1>5
  <2> HIDE DEF v
  <2>3. Ring(b, d) /\ Wrote(g, d, n) /\ d.size = g.size /\ d.overwrite = g.overwrite
    BY <1>1, <1>3, <2>1, <2>2, AdvanceIs
  <2>4. Wrote(c, d, 0 + n) /\ 0 + n = n
    BY <1>1, <1>3, <2>3, Compose
  <2> QED BY <1>1, <1>3, <2>3, <2>4 DEF g, SameSize
<1> QED BY <1>4, <1>5

LEMMA ForgetWrote ==
  ASSUME NEW b \in Buffers, NEW c, NEW d, Ring(b, d), NEW n \in Nat, Wrote(c, d, n), NEW f, f = Forget(d)
  PROVE  Ring(b, f) /\ Wrote(c, f, n)
<1>1. /\ Ring(b, f) /\ f.size = d.size /\ f.used = d.used /\ f.got_wrap = d.got_wrap /\ Span(f) = Span(d)
      /\ \A j \in 0..Span(d) - 1 : ByteAt(f, j) = ByteAt(d, j)
  BY ForgetIs
<1>2. Staying(f, n) = Staying(d, n)
  BY <1>1 DEF Staying
<1>3. ASSUME NEW j \in 0..Staying(d, n) - 1 PROVE ByteAt(f, j) = ByteAt(c, Span(c) - Staying(d, n) + j)
  <2>1. j \in 0..Span(d) - 1
    <3>1. Span(d) \in Nat
      BY RingNumbers
    <3> QED BY <3>1 DEF Staying
  <2> QED BY <1>1, <2>1 DEF Wrote
<1> QED BY <1>1, <1>2, <1>3 DEF Wrote

LEMMA CopierIs ==
  ASSUME NEW a \in Buffers, NEW src, Ring(a, src), NEW b \in Buffers, NEW c, Ring(b, c),
         NEW asked \in Nat, NEW mem \in BOOLEAN, NEW r, r = cbuf_copier(src, c, asked, mem)
  PROVE  /\ r.len \in 0..src.used /\ Ring(b, r.dst) /\ c.size <= r.dst.size
         /\ \E n \in 0..MaxSize[b] : Wrote(c, r.dst, n)
<1> DEFINE avail == Min({asked, src.used})
           g == Room(c, avail, mem)
           len == Admitted(g, avail)
           ncopy == Min({len, g.size})
           w == Cells(src, src.i_out + len - ncopy, ncopy)
<1>1. r = [len |-> len, dst |-> IF len = 0 THEN g ELSE Advance(g, ncopy, Put(g, w))]
  BY DEF cbuf_copier
<1>2. avail \in Nat /\ avail <= src.used /\ src.used \in Nat
  <2>1. src.used \in Nat
    BY RingNumbers
  <2>2. avail = (IF asked <= src.used THEN asked ELSE src.used)
    BY <2>1, MinIs
  <2> HIDE DEF avail
  <2> QED BY <2>1, <2>2
<1> HIDE DEF avail
<1>3. Ring(b, g) /\ Wrote(c, g, 0) /\ c.size <= g.size
  BY <1>2, RoomIs
<1> HIDE DEF g
<1>4. len \in Nat /\ len <= avail
  BY <1>2, <1>3, AdmittedIs
<1> HIDE DEF len
<1>5. g.size \in Nat /\ g.size <= MaxSize[b] /\ g.size > 0 /\ MaxSize[b] \in Nat
  BY <1>3, RingIs
<1>6. ncopy = (IF len <= g.size THEN len ELSE g.size)
  BY <1>4, <1>5, MinIs
<1> HIDE DEF ncopy
<1>7. ncopy \in Nat /\ ncopy \in 0..MaxSize[b] /\ (len # 0 => ncopy > 0) /\ len \in 0..src.used
  BY <1>2, <1>4, <1>5, <1>6
<1>8. Bytes(w, ncopy)
  <2>1. src.size \in Nat /\ src.i_out \in 0..src.size /\ src.data \in [0..src.size -> Cell]
    BY RingIs
  <2> DEFINE from == src.i_out + len - ncopy
  <2>2. from \in Int
    BY <1>4, <1>7, <2>1
  <2> HIDE DEF from
  <2>3. ASSUME NEW k \in 1..ncopy PROVE src.data[Mod(src, from + k - 1)] \in Cell
    <3>1. from + k - 1 \in Int
      BY <1>7, <2>2
    <3>2. Mod(src, from + k - 1) \in 0..src.size
      BY <2>1, <3>1, ModIn
    <3> QED BY <2>1, <3>2
  <2>4. Cells(src, from, ncopy) \in Seq(Cell) /\ Len(Cells(src, from, ncopy)) = ncopy
    BY <1>7, <2>3 DEF Cells
  <2> QED BY <2>4 DEF Bytes, from
<1> HIDE DEF w
<1>9. CASE len = 0
  <2>1. r.len = len /\ r.dst = g
    BY <1>1, <1>9
  <2>2. 0 \in 0..MaxSize[b]
    BY <1>5
  <2> QED BY <1>3, <1>7, <2>1, <2>2
<1>10. CASE len # 0
  <2> DEFINE d == Advance(g, ncopy, Put(g, w))
  <2>1. r.len = len /\ r.dst = d
    BY <1>1, <1>10
  <2>2. Ring(b, d) /\ Wrote(g, d, ncopy) /\ d.size = g.size
    BY <1>3, <1>7, <1>8, <1>10, AdvanceIs
  <2> HIDE DEF d
  <2>3. Wrote(c, d, 0 + ncopy) /\ 0 + ncopy = ncopy
    BY <1>3, <1>7, <2>2, Compose
  <2> QED BY <1>3, <1>7, <2>1, <2>2, <2>3
<1> QED BY <1>9, <1>10

LEMMA NewlineIs ==
  ASSUME NEW b \in Buffers, NEW c, Ring(b, c), NEW mem \in BOOLEAN,
         NEW v \in Seq(Cell), Len(v) = 1, NEW d, d = cbuf_writer(c, 1, v, mem), Room(c, 1, mem) = c
  PROVE  Ring(b, d) /\ d.size = c.size /\ \E n \in 0..1 : Wrote(c, d, n)
<1>1. PICK one : one = 1
  OBVIOUS
<1>2. one \in Nat /\ d = cbuf_writer(c, one, v, mem)
  BY <1>1
<1>3. Ring(b, d)
  BY <1>2, WriterIs, SMTT(30)
<1>4. SameSize(Room(c, one, mem), d)
  <2> USE ONLY b \in Buffers, Ring(b, c), mem \in BOOLEAN, v \in Seq(Cell), <1>2, WriterIs
  <2>1. one \in Nat /\ d = cbuf_writer(c, one, v, mem) => SameSize(Room(c, one, mem), d)
    BY Zenon
  <2> QED BY <2>1
<1>5. \E n \in 0..Len(v) : Wrote(c, d, n)
  <2> USE ONLY b \in Buffers, Ring(b, c), mem \in BOOLEAN, v \in Seq(Cell), <1>2, WriterIs
  <2>1. one \in Nat /\ d = cbuf_writer(c, one, v, mem) => \E n \in 0..Len(v) : Wrote(c, d, n)
    BY Zenon
  <2> QED BY <2>1
<1> QED BY <1>1, <1>3, <1>4, <1>5 DEF SameSize

LEMMA LineIs ==
  ASSUME NEW b \in Buffers, NEW c, Ring(b, c), NEW s \in Seq(Cell), NEW mem \in BOOLEAN,
         NEW d, d = LineWritten(c, s, mem)
  PROVE  Ring(b, d) /\ c.size <= d.size /\ \E n \in 0..Len(s) + 1 : Wrote(c, d, n)
<1> DEFINE len == IF s = <<>> \/ Last(s) # NL THEN Len(s) + 1 ELSE Len(s)
           g == Room(c, len, mem)
           fits == CASE c.overwrite = "NO_DROP"   -> len <= g.size - g.used
                     [] c.overwrite = "WRAP_ONCE" -> len <= g.size
                     [] c.overwrite = "WRAP_MANY" -> TRUE
           text == SubSeq(s, 1 + Max({0, len - g.size}), Len(s))
           wrote == cbuf_writer(g, Len(text), text, mem)
           body == Forget(wrote)
<1>1. d = IF ~fits THEN g ELSE IF len = Len(s) THEN body ELSE cbuf_writer(body, 1, <<NL>>, mem)
  BY DEF LineWritten
<1>2. len \in Nat /\ Len(s) \in Nat /\ (len = Len(s) \/ len = Len(s) + 1)
  OBVIOUS
<1> HIDE DEF fits, len
<1>3. /\ Ring(b, g) /\ Wrote(c, g, 0) /\ c.size <= g.size
      /\ ~mem \/ g.size = g.max \/ len <= g.size - g.used
  BY <1>2, RoomIs
<1> HIDE DEF g
<1>4. g.size \in Nat /\ g.size > 0 /\ g.used \in Nat /\ g.used <= g.size /\ g.max = MaxSize[b]
  <2>1. g.size \in Nat /\ g.size > 0 /\ g.used \in Nat /\ Span(g) = Back(g) + g.used /\ Back(g) \in Nat
        /\ Span(g) <= g.size /\ g.max = MaxSize[b]
    BY <1>3, RingIs
  <2> QED BY <2>1
<1>5. text \in Seq(Cell) /\ Len(text) \in Nat /\ Len(text) <= Len(s)
  <2> DEFINE x == Max({0, len - g.size})
             m == 1 + x
  <2>1. x = (IF 0 >= len - g.size THEN 0 ELSE len - g.size)
    <3>1. PICK y : y = len - g.size
      OBVIOUS
    <3>2. y \in Int /\ 0 \in Int
      BY <1>2, <1>4, <3>1
    <3>3. Max({0, y}) = (IF 0 >= y THEN 0 ELSE y)
      BY <3>2, MinIs
    <3> QED BY <3>1, <3>3
  <2> HIDE DEF x
  <2>2. m \in 1..Len(s) + 1 /\ Len(s) \in m - 1..Len(s) /\ Len(s) - m + 1 \in Nat /\ Len(s) - m + 1 <= Len(s)
    <3>1. PICK l : l = Len(s)
      OBVIOUS
    <3>2. l \in Nat /\ (len = l \/ len = l + 1) /\ len \in Nat
      BY <1>2, <3>1
    <3>3. x \in Nat /\ x <= l
      BY <1>4, <2>1, <3>2
    <3>4. m \in 1..l + 1 /\ l \in m - 1..l /\ l - m + 1 \in Nat /\ l - m + 1 <= l
      BY <3>2, <3>3
    <3> QED BY <3>1, <3>4
  <2>3. text = SubSeq(s, m, Len(s))
    BY DEF x
  <2> HIDE DEF m, text
  <2>4. SubSeq(s, m, Len(s)) \in Seq(Cell) /\ Len(SubSeq(s, m, Len(s))) = Len(s) - m + 1
    BY <2>2, CutIs
  <2> QED BY <2>2, <2>3, <2>4
<1> HIDE DEF text
<1>6. Room(g, Len(text), mem) = g
  <2>1. ~mem \/ g.size = g.max \/ Len(text) <= g.size - g.used
    BY <1>2, <1>3, <1>4, <1>5
  <2> QED BY <1>3, <1>5, <2>1, RoomIs
<1>7. PICK n \in 0..Len(text) : Wrote(g, wrote, n)
  BY <1>3, <1>5, WriterIs
<1>8. Ring(b, wrote) /\ wrote.size = g.size
  <2>1. Ring(b, wrote) /\ SameSize(Room(g, Len(text), mem), wrote)
    BY <1>3, <1>5, WriterIs
  <2> QED BY <1>6, <2>1 DEF SameSize
<1> HIDE DEF wrote
<1>9. /\ Ring(b, body) /\ Wrote(g, body, n) /\ body.size = g.size /\ body.max = g.max /\ n \in Nat
      /\ body.used = AtMostOf(g.size, g.used + n) /\ n <= Len(text)
  <2>1. n \in Nat /\ n <= Len(text)
    BY <1>5, <1>7
  <2>2. Ring(b, body) /\ Wrote(g, body, n)
    BY <1>7, <1>8, <2>1, ForgetWrote
  <2>3. body.size = wrote.size
    BY <1>8, ForgetIs
  <2>4. body.max = MaxSize[b]
    BY <2>2, RingIs
  <2>5. body.used = AtMostOf(body.size, g.used + n)
    BY <2>2 DEF Wrote
  <2> QED BY <1>4, <1>8, <2>1, <2>2, <2>3, <2>4, <2>5
<1> HIDE DEF body
<1>10. Wrote(c, body, n)
  <2>1. Wrote(c, body, 0 + n) /\ 0 + n = n
    BY <1>3, <1>9, Compose
  <2> QED BY <2>1
<1>11. CASE ~fits
  BY <1>1, <1>2, <1>3, <1>11
<1>12. CASE fits /\ len = Len(s)
  <2>1. d = body /\ n \in 0..Len(s) + 1
    BY <1>1, <1>2, <1>5, <1>9, <1>12
  <2> QED BY <1>3, <1>9, <1>10, <2>1
<1>13. CASE fits /\ len # Len(s)
  <2>1. d = cbuf_writer(body, 1, <<NL>>, mem) /\ len = Len(s) + 1
    BY <1>1, <1>2, <1>13
  <2>2. <<NL>> \in Seq(Cell) /\ Len(<<NL>>) = 1
    BY DEF Cell, Byte
  <2>3. Room(body, 1, mem) = body
    <3>1. len <= g.size - g.used => 1 <= body.size - body.used
      BY <1>2, <1>4, <1>5, <1>9, <2>1 DEF AtMostOf
    <3>2. ~mem \/ body.size = body.max \/ 1 <= body.size - body.used
      BY <1>3, <1>9, <3>1
    <3> QED BY <1>9, <3>2, RoomIs
  <2>4. Ring(b, d) /\ d.size = body.size /\ \E k \in 0..1 : Wrote(body, d, k)
    <3>1. PICK v : v = <<NL>>
      OBVIOUS
    <3>2. v \in Seq(Cell) /\ Len(v) = 1 /\ d = cbuf_writer(body, 1, v, mem)
      BY <2>1, <2>2, <3>1
    <3> QED BY <1>9, <2>3, <3>2, NewlineIs
  <2>5. PICK k \in 0..1 : Wrote(body, d, k)
    BY <2>4
  <2>6. k \in Nat /\ n + k \in 0..Len(s) + 1
    BY <1>2, <1>5, <1>9
  <2>7. Wrote(c, d, n + k)
    BY <1>9, <1>10, <2>4, <2>5, <2>6, Compose
  <2> QED BY <1>3, <1>9, <2>4, <2>6, <2>7
<1> QED BY <1>11, <1>12, <1>13

-----------------------------------------------------------------------------
(* The loops that look for lines.                                          *)

Step(c, stop, back, t) ==
  IF t.i = stop \/ t.chars = 0 \/ t.lines = 0 THEN t
  ELSE IF back THEN ReplayTurn(c, t) ELSE UnreadTurn(c, t)

IsLoop(f, c, s, stop, back, n) == f = [k \in 0..n |-> IF k = 0 THEN s ELSE Step(c, stop, back, f[k-1])]

LEMMA LoopSteps ==
  ASSUME NEW c, NEW s, NEW stop, NEW back, NEW n \in Nat, NEW f, IsLoop(f, c, s, stop, back, n)
  PROVE  f[0] = s /\ \A k \in 1..n : f[k] = Step(c, stop, back, f[k-1])
<1>1. ASSUME NEW i \in 0..n PROVE f[i] = IF i = 0 THEN s ELSE Step(c, stop, back, f[i-1])
  BY DEF IsLoop
<1>2. f[0] = s
  BY <1>1
<1>3. ASSUME NEW k \in 1..n PROVE f[k] = Step(c, stop, back, f[k-1])
  <2>1. k \in 0..n /\ k # 0
    OBVIOUS
  <2> QED BY <1>1, <2>1
<1> QED BY <1>2, <1>3

LEMMA LoopExists ==
  ASSUME NEW c, NEW s, NEW stop, NEW back, NEW n \in Nat
  PROVE  \E f : IsLoop(f, c, s, stop, back, n)
<1> DEFINE T == {m \in Nat : \E g : IsLoop(g, c, s, stop, back, m)}
<1>1. 0 \in T
  <2>1. IsLoop([k \in 0..0 |-> s], c, s, stop, back, 0)
    BY DEF IsLoop
  <2> QED BY <2>1
<1>2. ASSUME NEW m \in Nat, m \in T PROVE m + 1 \in T
  <2>1. PICK g : IsLoop(g, c, s, stop, back, m)
    BY <1>2
  <2> DEFINE h == [i \in 0..(m+1) |-> IF i <= m THEN g[i] ELSE Step(c, stop, back, g[m])]
  <2>2. g[0] = s /\ \A k \in 1..m : g[k] = Step(c, stop, back, g[k-1])
    BY <2>1, LoopSteps
  <2>3. \A i \in 0..(m+1) : h[i] = IF i = 0 THEN s ELSE Step(c, stop, back, h[i-1])
    <3> SUFFICES ASSUME NEW i \in 0..(m+1)
                 PROVE  h[i] = IF i = 0 THEN s ELSE Step(c, stop, back, h[i-1])
      OBVIOUS
    <3>1. CASE i = 0
      BY <2>2, <3>1
    <3>2. CASE i \in 1..m
      BY <2>2, <3>2
    <3>3. CASE i = m + 1
      BY <3>3
    <3> QED BY <3>1, <3>2, <3>3
  <2>4. IsLoop(h, c, s, stop, back, m+1)
    BY <2>3 DEF IsLoop
  <2> QED BY <2>4
<1>3. T \subseteq Nat
  OBVIOUS
<1> HIDE DEF T
<1>4. T = Nat
  BY <1>1, <1>2, <1>3, NatBySets
<1> QED BY <1>4 DEF T

Closed(c, stop, back, K) == \A t \in K : Step(c, stop, back, t) \in K

\* A loop that keeps to K ends in K.
LEMMA LoopIn ==
  ASSUME NEW c, NEW s, NEW stop, NEW back, NEW n \in Nat, NEW f, IsLoop(f, c, s, stop, back, n),
         NEW K, s \in K, Closed(c, stop, back, K)
  PROVE  f[n] \in K
<1>1. f[0] = s /\ \A k \in 1..n : f[k] = Step(c, stop, back, f[k-1])
  BY LoopSteps
<1> DEFINE T == {i \in Nat : i <= n => f[i] \in K}
<1>2. 0 \in T
  BY <1>1
<1>3. ASSUME NEW i \in Nat, i \in T PROVE i + 1 \in T
  BY <1>1, <1>3 DEF Closed
<1>4. T \subseteq Nat
  OBVIOUS
<1> HIDE DEF T
<1>5. T = Nat
  BY <1>2, <1>3, <1>4, NatBySets
<1> QED BY <1>5 DEF T

LEMMA SearchIs ==
  ASSUME NEW c, c.size \in Nat, NEW s, NEW stop, NEW K
  PROVE  /\ s \in K /\ Closed(c, stop, FALSE, K) => Search(c, UnreadTurn, s, stop) \in K
         /\ s \in K /\ Closed(c, stop, TRUE, K) => Search(c, ReplayTurn, s, stop) \in K
<1>1. ASSUME s \in K, Closed(c, stop, FALSE, K)
      PROVE  Search(c, UnreadTurn, s, stop) \in K
  <2> DEFINE f == CHOOSE g : IsLoop(g, c, s, stop, FALSE, c.size)
  <2>1. IsLoop(f, c, s, stop, FALSE, c.size)
    BY LoopExists
  <2>2. Search(c, UnreadTurn, s, stop) = f[c.size]
    BY DEF Search, IsLoop, Step
  <2> HIDE DEF f
  <2>3. f[c.size] \in K
    <3>1. PICK n, back : n = c.size /\ back = FALSE
      OBVIOUS
    <3>2. /\ n \in Nat /\ IsLoop(f, c, s, stop, back, n) /\ s \in K
          /\ Closed(c, stop, back, K)
      BY <1>1, <2>1, <3>1
    <3>3. f[n] \in K
      BY <3>2, LoopIn
    <3> QED BY <3>1, <3>3
  <2> QED BY <2>2, <2>3
<1>2. ASSUME s \in K, Closed(c, stop, TRUE, K)
      PROVE  Search(c, ReplayTurn, s, stop) \in K
  <2> DEFINE f == CHOOSE g : IsLoop(g, c, s, stop, TRUE, c.size)
  <2>1. IsLoop(f, c, s, stop, TRUE, c.size)
    BY LoopExists
  <2>2. Search(c, ReplayTurn, s, stop) = f[c.size]
    BY DEF Search, IsLoop, Step
  <2> HIDE DEF f
  <2>3. f[c.size] \in K
    <3>1. PICK n, back : n = c.size /\ back = TRUE
      OBVIOUS
    <3>2. /\ n \in Nat /\ IsLoop(f, c, s, stop, back, n) /\ s \in K
          /\ Closed(c, stop, back, K)
      BY <1>2, <2>1, <3>1
    <3>3. f[n] \in K
      BY <3>2, LoopIn
    <3> QED BY <3>1, <3>3
  <2> QED BY <2>2, <2>3
<1> QED BY <1>1, <1>2

\* The bytes that are looked at lie in the ring.
Loop(c) == [i : 0..c.size, n : Nat, m : Nat, l : Int, lines : Int, chars : Int]

LEMMA LessIs ==
  ASSUME NEW n \in Int
  PROVE  Less(n) \in Int
BY DEF Less

LEMMA UnreadLineIs ==
  ASSUME NEW b \in Buffers, NEW c, Ring(b, c), NEW chars \in Int, NEW lines \in Int
  PROVE  cbuf_find_unread_line(c, chars, lines).bytes \in 0..c.used
<1> DEFINE K == {t \in Loop(c) : t.n <= c.used /\ t.m <= t.n /\ t.i = Turned(c, c.i_out + t.n)}
           ch == IF lines > 0 THEN -1 ELSE chars
           s0 == [i |-> c.i_out, n |-> 0, m |-> 0, l |-> 0, lines |-> lines, chars |-> ch]
           s  == Search(c, UnreadTurn, s0, c.i_in)
<1>1. /\ c.size \in Nat /\ c.used \in Nat /\ c.i_out \in 0..c.size /\ c.used <= c.size
      /\ c.i_in = Turned(c, c.i_out + c.used)
  <2>1. /\ c.size \in Nat /\ c.used \in Nat /\ c.i_out \in 0..c.size /\ Back(c) \in Nat
        /\ Span(c) = Back(c) + c.used /\ Span(c) <= c.size /\ c.i_in = Turned(c, c.i_out + c.used)
    BY RingIs
  <2> QED BY <2>1
<1>2. s0 \in K
  <2>1. Turned(c, c.i_out + 0) = c.i_out
    BY <1>1 DEF Turned
  <2>2. ch \in Int
    OBVIOUS
  <2> HIDE DEF ch
  <2> QED BY <1>1, <2>1, <2>2 DEF Loop
<1>3. ASSUME NEW t \in K PROVE Step(c, c.i_in, FALSE, t) \in K
  <2>0. /\ t \in Loop(c) /\ t.i \in 0..c.size /\ t.n \in Nat /\ t.m \in Nat /\ t.l \in Int /\ t.lines \in Int
        /\ t.chars \in Int /\ t.n <= c.used /\ t.m <= t.n /\ t.i = Turned(c, c.i_out + t.n)
    BY DEF Loop
  <2>1. CASE t.i = c.i_in \/ t.chars = 0 \/ t.lines = 0
    BY <2>1 DEF Step
  <2>2. CASE ~(t.i = c.i_in \/ t.chars = 0 \/ t.lines = 0)
    <3>1. t.n < c.used
      BY <1>1, <2>0, <2>2
    <3>2. Mod(c, t.i + 1) = Turned(c, c.i_out + (t.n + 1)) /\ Mod(c, t.i + 1) \in 0..c.size
      <4>1. t.i + 1 \in 0..c.size + c.size + 1
        BY <1>1, <2>0
      <4>2. Mod(c, t.i + 1) = Turned(c, t.i + 1) /\ Turned(c, t.i + 1) \in 0..c.size
        BY <1>1, <4>1, ModTurned
      <4> QED BY <1>1, <2>0, <3>1, <4>2 DEF Turned
    <3>3. Less(t.chars) \in Int /\ Less(t.lines) \in Int
      BY <2>0, LessIs
    <3>4. PICK u : u = UnreadTurn(c, t)
      OBVIOUS
    <3>5. /\ u \in Loop(c) /\ u.n = t.n + 1 /\ u.i = Mod(c, t.i + 1)
          /\ (u.m = t.n + 1 \/ u.m = t.m)
      BY <2>0, <3>2, <3>3, <3>4 DEF UnreadTurn, Loop
    <3>6. u \in K
      <4>1. u.n <= c.used /\ u.m <= u.n /\ u.i = Turned(c, c.i_out + u.n)
        <5>1. u.i = Turned(c, c.i_out + u.n)
          BY <3>2, <3>5
        <5> QED BY <1>1, <2>0, <3>1, <3>5, <5>1
      <4> QED BY <3>5, <4>1
    <3> QED BY <2>2, <3>4, <3>6 DEF Step
  <2> QED BY <2>1, <2>2
<1> HIDE DEF K
<1>4. s \in K
  <2>1. Closed(c, c.i_in, FALSE, K)
    BY <1>3 DEF Closed
  <2> HIDE DEF s0
  <2> QED BY <1>1, <1>2, <2>1, SearchIs
<1> HIDE DEF s
<1>5. s.m \in 0..c.used
  <2>1. s.m \in Nat /\ s.n \in Nat /\ s.n <= c.used /\ s.m <= s.n
    BY <1>4 DEF K, Loop
  <2> QED BY <1>1, <2>1
<1>6. cbuf_find_unread_line(c, chars, lines).bytes \in {0, s.m}
  BY DEF cbuf_find_unread_line, NoLines, s
<1> QED BY <1>1, <1>5, <1>6

LEMMA ReplayLineIs ==
  ASSUME NEW b \in Buffers, NEW c, Ring(b, c), NEW chars \in Int, NEW lines \in Int
  PROVE  cbuf_find_replay_line(c, chars, lines).bytes \in 0..Back(c)
<1> DEFINE K == {t \in Loop(c) : t.n <= Back(c) /\ t.m <= t.n /\ t.i = Turned(c, c.i_rep + (Back(c) - t.n))}
           open == c.data[Mod(c, c.i_out + c.size)] # NL
           li == IF lines > 0 /\ ~open THEN lines + 1 ELSE lines
           ch == (IF lines > 0 THEN -1 ELSE chars + 1) - (IF open THEN 1 ELSE 0)
           s0 == [i |-> c.i_out, n |-> 0, m |-> 0, l |-> IF open THEN 0 ELSE -1, lines |-> li, chars |-> ch]
           s  == Search(c, ReplayTurn, s0, c.i_rep)
<1>1. /\ c.size \in Nat /\ Back(c) \in Nat /\ c.i_out \in 0..c.size /\ c.i_rep \in 0..c.size
      /\ Back(c) <= c.size /\ c.i_out = Turned(c, c.i_rep + Back(c))
  <2>1. /\ c.size \in Nat /\ c.used \in Nat /\ c.i_out \in 0..c.size /\ c.i_rep \in 0..c.size /\ Back(c) \in Nat
        /\ Span(c) = Back(c) + c.used /\ Span(c) <= c.size /\ c.i_out = Turned(c, c.i_rep + Back(c))
    BY RingIs
  <2> QED BY <2>1
<1>2. s0 \in K
  <2>1. c.i_out = Turned(c, c.i_rep + (Back(c) - 0))
    BY <1>1
  <2>2. ch \in Int /\ li \in Int
    <3> HIDE DEF open
    <3> QED OBVIOUS
  <2> HIDE DEF ch, li, open
  <2> QED BY <1>1, <2>1, <2>2 DEF Loop
<1>3. ASSUME NEW t \in K PROVE Step(c, c.i_rep, TRUE, t) \in K
  <2>0. /\ t \in Loop(c) /\ t.i \in 0..c.size /\ t.n \in Nat /\ t.m \in Nat /\ t.l \in Int /\ t.lines \in Int
        /\ t.chars \in Int /\ t.n <= Back(c) /\ t.m <= t.n /\ t.i = Turned(c, c.i_rep + (Back(c) - t.n))
    BY DEF Loop
  <2>1. CASE t.i = c.i_rep \/ t.chars = 0 \/ t.lines = 0
    BY <2>1 DEF Step
  <2>2. CASE ~(t.i = c.i_rep \/ t.chars = 0 \/ t.lines = 0)
    <3>1. t.n < Back(c)
      <4>1. t.n = Back(c) => Turned(c, c.i_rep + (Back(c) - t.n)) = c.i_rep
        BY <1>1 DEF Turned
      <4> QED BY <1>1, <2>0, <2>2, <4>1
    <3>2. Mod(c, t.i + c.size) = Turned(c, c.i_rep + (Back(c) - (t.n + 1))) /\ Mod(c, t.i + c.size) \in 0..c.size
      <4>1. t.i + c.size \in 0..c.size + c.size + 1
        BY <1>1, <2>0
      <4>2. Mod(c, t.i + c.size) = Turned(c, t.i + c.size) /\ Turned(c, t.i + c.size) \in 0..c.size
        BY <1>1, <4>1, ModTurned
      <4> QED BY <1>1, <2>0, <3>1, <4>2 DEF Turned
    <3>3. Less(t.chars) \in Int /\ Less(t.lines) \in Int
      BY <2>0, LessIs
    <3>4. PICK u : u = ReplayTurn(c, t)
      OBVIOUS
    <3>5. /\ u \in Loop(c) /\ u.n = t.n + 1 /\ u.i = Mod(c, t.i + c.size)
          /\ (u.m = t.n \/ u.m = t.m)
      BY <2>0, <3>2, <3>3, <3>4 DEF ReplayTurn, Loop
    <3>6. u \in K
      <4>1. u.n <= Back(c) /\ u.m <= u.n /\ u.i = Turned(c, c.i_rep + (Back(c) - u.n))
        <5>1. u.i = Turned(c, c.i_rep + (Back(c) - u.n))
          BY <3>2, <3>5
        <5> QED BY <1>1, <2>0, <3>1, <3>5, <5>1
      <4> QED BY <3>5, <4>1
    <3> QED BY <2>2, <3>4, <3>6 DEF Step
  <2> QED BY <2>1, <2>2
<1> HIDE DEF K
<1>4. s \in K
  <2>1. Closed(c, c.i_rep, TRUE, K)
    BY <1>3 DEF Closed
  <2> HIDE DEF s0
  <2> QED BY <1>1, <1>2, <2>1, SearchIs
<1> HIDE DEF s
<1>5. s.m \in 0..Back(c) /\ s.n \in 0..Back(c)
  <2>1. s.m \in Nat /\ s.n \in Nat /\ s.n <= Back(c) /\ s.m <= s.n
    BY <1>4 DEF K, Loop
  <2> QED BY <1>1, <2>1
<1>6. cbuf_find_replay_line(c, chars, lines).bytes \in {0, s.m, s.n}
  BY DEF cbuf_find_replay_line, NoLines, s
<1> QED BY <1>1, <1>5, <1>6

-----------------------------------------------------------------------------
(* What a call does to a buffer, as a step of Stream.                      *)

Written(b, c, d) == c.size <= d.size /\ \E n \in 0..MaxWrite + MaxSize[b] : Wrote(c, d, n)
Consumed(c, d)   == Kept(c, d) /\ \E n \in 1..c.used : d.used = c.used - n
Rewound(c, d)    == Kept(c, d) /\ \E n \in 1..Back(c) : d.used = c.used + n
Emptied(c, d)    == d.size = c.size /\ d.got_wrap = FALSE /\ Back(d) = 0 /\ d.used = 0

Streams(b, c, d) == Ring(b, d) /\ (Written(b, c, d) \/ Consumed(c, d) \/ Rewound(c, d) \/ Emptied(c, d))

LEMMA ForgetKept ==
  ASSUME NEW b \in Buffers, NEW c, NEW d, Ring(b, d), Kept(c, d), NEW f, f = Forget(d)
  PROVE  Ring(b, f) /\ Kept(c, f) /\ f.used = d.used
<1>1. /\ Ring(b, f) /\ f.size = d.size /\ f.used = d.used /\ f.got_wrap = d.got_wrap /\ Span(f) = Span(d)
      /\ \A j \in 0..Span(d) - 1 : ByteAt(f, j) = ByteAt(d, j)
  BY ForgetIs
<1> QED BY <1>1 DEF Kept

LEMMA WrittenIs ==
  ASSUME NEW b \in Buffers, NEW c, NEW d, Ring(b, d), c.size <= d.size,
         NEW n \in 0..MaxWrite + MaxSize[b], Wrote(c, d, n), NEW f, f = Forget(d)
  PROVE  Streams(b, c, f)
<1>1. n \in Nat
  BY SizesOf
<1>2. Ring(b, f) /\ Wrote(c, f, n)
  BY <1>1, ForgetWrote
<1>3. f.size = d.size
  BY ForgetIs
<1> QED BY <1>2, <1>3 DEF Streams, Written

LEMMA UnchangedIs ==
  ASSUME NEW b \in Buffers, NEW c, Ring(b, c), NEW d, Ring(b, d), Kept(c, d), d.used = c.used,
         NEW f, f = Forget(d)
  PROVE  Streams(b, c, f)
<1>1. Wrote(c, d, 0)
  BY KeptIsWrote
<1>2. c.size <= d.size
  <2>1. d.size = c.size /\ c.size \in Nat
    BY RingIs DEF Kept
  <2> QED BY <2>1
<1>3. 0 \in 0..MaxWrite + MaxSize[b]
  BY SizesOf
<1> QED BY <1>1, <1>2, <1>3, WrittenIs

LEMMA DropStreams ==
  ASSUME NEW b \in Buffers, NEW c, Ring(b, c), NEW n \in 0..c.used, NEW f, f = Forget(cbuf_dropper(c, n))
  PROVE  Streams(b, c, f)
<1>1. PICK d : d = cbuf_dropper(c, n)
  OBVIOUS
<1>2. Ring(b, d) /\ Kept(c, d) /\ d.used = c.used - n /\ f = Forget(d)
  BY <1>1, DropIs
<1>3. c.used \in Nat /\ n \in Nat
  BY RingIs
<1>4. CASE n = 0
  <2>1. d.used = c.used
    BY <1>2, <1>3, <1>4
  <2> QED BY <1>2, <2>1, UnchangedIs
<1>5. CASE n # 0
  <2>1. n \in 1..c.used
    BY <1>3, <1>5
  <2>2. Ring(b, f) /\ Kept(c, f) /\ f.used = c.used - n
    BY <1>2, ForgetKept
  <2> QED BY <2>1, <2>2 DEF Streams, Consumed
<1> QED BY <1>4, <1>5

LEMMA RewindStreams ==
  ASSUME NEW b \in Buffers, NEW c, Ring(b, c), NEW n \in 0..Back(c), NEW f, f = Forget(RewindBy(c, n))
  PROVE  Streams(b, c, f)
<1>1. PICK d : d = RewindBy(c, n)
  OBVIOUS
<1>2. Ring(b, d) /\ Kept(c, d) /\ d.used = c.used + n /\ f = Forget(d)
  BY <1>1, RewindIs
<1>3. c.used \in Nat /\ Back(c) \in Nat /\ n \in Nat
  BY RingIs
<1>4. CASE n = 0
  <2>1. d.used = c.used
    BY <1>2, <1>3, <1>4
  <2> QED BY <1>2, <2>1, UnchangedIs
<1>5. CASE n # 0
  <2>1. n \in 1..Back(c)
    BY <1>3, <1>5
  <2>2. Ring(b, f) /\ Kept(c, f) /\ f.used = c.used + n
    BY <1>2, ForgetKept
  <2> QED BY <2>1, <2>2 DEF Streams, Rewound
<1> QED BY <1>4, <1>5

LEMMA OptionStreams ==
  ASSUME NEW b \in Buffers, NEW c, Ring(b, c), NEW o \in Options,
         NEW f, f = Forget([c EXCEPT !.overwrite = o])
  PROVE  Streams(b, c, f)
<1>1. PICK d : d = [c EXCEPT !.overwrite = o]
  OBVIOUS
<1>2. Ring(b, d) /\ Kept(c, d) /\ d.used = c.used /\ f = Forget(d)
  BY <1>1, OptionIs
<1> QED BY <1>2, UnchangedIs

LEMMA FlushStreams ==
  ASSUME NEW b \in Buffers, NEW c, Ring(b, c),
         NEW f, f = Forget([c EXCEPT !.used = 0, !.got_wrap = FALSE, !.i_in = 0, !.i_out = 0, !.i_rep = 0])
  PROVE  Streams(b, c, f)
<1>1. PICK d : d = [c EXCEPT !.used = 0, !.got_wrap = FALSE, !.i_in = 0, !.i_out = 0, !.i_rep = 0]
  OBVIOUS
<1>2. Ring(b, d) /\ d.size = c.size /\ d.got_wrap = FALSE /\ Back(d) = 0 /\ d.used = 0
  BY <1>1, FlushIs, ZenonT(60)
<1>3. f = Forget(d)
  BY <1>1
<1>4. /\ Ring(b, f) /\ f.size = d.size /\ f.used = d.used /\ f.got_wrap = d.got_wrap /\ Back(f) = Back(d)
  BY <1>2, <1>3, ForgetIs
<1> QED BY <1>2, <1>4 DEF Streams, Emptied

LEMMA WriterStreams ==
  ASSUME NEW b \in Buffers, NEW c, Ring(b, c), NEW len \in Nat, NEW w \in Seq(Cell), Len(w) <= MaxWrite,
         NEW mem \in BOOLEAN, NEW f, f = Forget(cbuf_writer(c, len, w, mem))
  PROVE  Streams(b, c, f)
<1>1. PICK d : d = cbuf_writer(c, len, w, mem)
  OBVIOUS
<1>2. Ring(b, d) /\ c.size <= d.size /\ f = Forget(d) /\ \E n \in 0..Len(w) : Wrote(c, d, n)
  BY <1>1, WriterIs
<1>3. PICK n \in 0..Len(w) : Wrote(c, d, n)
  BY <1>2
<1>4. n \in 0..MaxWrite + MaxSize[b]
  <2>1. Len(w) \in Nat /\ MaxWrite \in Nat /\ MaxSize[b] \in Nat
    BY SizesOf
  <2> QED BY <2>1
<1> QED BY <1>2, <1>3, <1>4, WrittenIs

LEMMA LineStreams ==
  ASSUME NEW b \in Buffers, NEW c, Ring(b, c), NEW s \in Seq(Cell), Len(s) <= MaxWrite,
         NEW mem \in BOOLEAN, NEW f, f = Forget(LineWritten(c, s, mem))
  PROVE  Streams(b, c, f)
<1>1. PICK d : d = LineWritten(c, s, mem)
  OBVIOUS
<1>2. Ring(b, d) /\ c.size <= d.size /\ f = Forget(d) /\ \E n \in 0..Len(s) + 1 : Wrote(c, d, n)
  BY <1>1, LineIs
<1>3. PICK n \in 0..Len(s) + 1 : Wrote(c, d, n)
  BY <1>2
<1>4. n \in 0..MaxWrite + MaxSize[b]
  <2>1. /\ Len(s) \in Nat /\ MaxWrite \in Nat /\ MaxSize[b] \in Nat /\ MaxSize[b] >= 1
    BY SizesOf
  <2> QED BY <2>1
<1> QED BY <1>2, <1>3, <1>4, WrittenIs

LEMMA CopierStreams ==
  ASSUME NEW a \in Buffers, NEW src, Ring(a, src), NEW b \in Buffers, NEW c, Ring(b, c),
         NEW asked \in Nat, NEW mem \in BOOLEAN, NEW r, r = cbuf_copier(src, c, asked, mem),
         NEW f, f = Forget(r.dst), NEW g, g = Forget(cbuf_dropper(src, r.len))
  PROVE  Streams(b, c, f) /\ Streams(a, src, g)
<1>1. /\ r.len \in 0..src.used /\ Ring(b, r.dst) /\ c.size <= r.dst.size
      /\ \E n \in 0..MaxSize[b] : Wrote(c, r.dst, n)
  BY CopierIs
<1>2. PICK d, len : d = r.dst /\ len = r.len
  OBVIOUS
<1>3. PICK n \in 0..MaxSize[b] : Wrote(c, d, n)
  BY <1>1, <1>2
<1>4. n \in 0..MaxWrite + MaxSize[b]
  BY SizesOf
<1>5. Streams(b, c, f)
  BY <1>1, <1>2, <1>3, <1>4, WrittenIs
<1>6. Streams(a, src, g)
  BY <1>1, <1>2, DropStreams
<1> QED BY <1>5, <1>6

-----------------------------------------------------------------------------
(* The calls.                                                              *)

\* Every buffer is a ring.
RingInv ==
  /\ cbuf = [b \in Buffers |-> cbuf[b]]
  /\ \A b \in Buffers : Ring(b, cbuf[b])

Streamed == \A b \in Buffers : cbuf'[b] = cbuf[b] \/ Streams(b, cbuf[b], cbuf'[b])

LEMMA SetIs ==
  ASSUME RingInv, NEW b \in Buffers, NEW new, Set(b, new), Streams(b, cbuf[b], Forget(new))
  PROVE  RingInv' /\ Streamed
<1>1. cbuf = [a \in Buffers |-> cbuf[a]] /\ \A a \in Buffers : Ring(a, cbuf[a])
  BY DEF RingInv
<1>2. PICK f : f = Forget(new)
  OBVIOUS
<1>3. cbuf' = [cbuf EXCEPT ![b] = f]
  BY <1>2 DEF Set
<1>4. Streams(b, cbuf[b], f) /\ Ring(b, f)
  BY <1>2 DEF Streams
<1>5. cbuf' = [a \in Buffers |-> cbuf'[a]] /\ \A a \in Buffers : cbuf'[a] = IF a = b THEN f ELSE cbuf[a]
  BY <1>1, <1>3
<1> QED BY <1>1, <1>4, <1>5 DEF RingInv, Streamed

LEMMA BoundedIs ==
  ASSUME NEW len \in Nat \cup {-1}, NEW n \in Nat
  PROVE  Bounded(len, n) \in 0..n
<1>1. CASE len = -1
  BY <1>1 DEF Bounded
<1>2. CASE len # -1
  <2>1. len \in Nat /\ Min({len, n}) = (IF len <= n THEN len ELSE n)
    BY <1>2, MinIs
  <2> QED BY <1>2, <2>1 DEF Bounded
<1> QED BY <1>1, <1>2

LEMMA TextIs ==
  ASSUME NEW w \in Text
  PROVE  w \in Seq(Cell) /\ Len(w) <= MaxWrite
<1>1. PICK m \in 0..MaxWrite : w \in [1..m -> Byte]
  BY DEF Text, BoundedSeq, SeqOf
<1>2. m \in Nat /\ Byte \subseteq Cell
  BY SizesOf DEF Cell
<1>3. w \in Seq(Cell) /\ Len(w) = m
  BY <1>1, <1>2
<1> QED BY <1>1, <1>2, <1>3

LEMMA LengthIs ==
  /\ Length \subseteq Nat \cup {-1} /\ 1..MaxWrite \subseteq Nat /\ {-1, MaxWrite} \subseteq Nat \cup {-1}
  /\ LineCount \subseteq Int
BY CbufAssumption DEF Length, LineCount

\* The calls that read.
LEMMA ReadCalls ==
  ASSUME RingInv, NEW b \in Buffers, NEW len \in Nat \cup {-1}
  PROVE  /\ cbuf_drop(b, len) => RingInv' /\ Streamed
         /\ len # -1 /\ cbuf_read(b, len) => RingInv' /\ Streamed
         /\ \A took \in Nat : cbuf_read_to_fd(b, len, took) => RingInv' /\ Streamed
         /\ cbuf_rewind(b, len) => RingInv' /\ Streamed
<1>1. Ring(b, cbuf[b]) /\ cbuf[b].used \in Nat /\ Back(cbuf[b]) \in Nat /\ cbuf_reused(cbuf[b]) = Back(cbuf[b])
  <2>1. Ring(b, cbuf[b])
    BY DEF RingInv
  <2> QED BY <2>1, RingIs, ReusedIs
<1>2. ASSUME cbuf_drop(b, len) PROVE RingInv' /\ Streamed
  <2>1. PICK n : n = Bounded(len, cbuf[b].used)
    OBVIOUS
  <2>2. n \in 0..cbuf[b].used
    BY <1>1, <2>1, BoundedIs
  <2>3. PICK new : new = cbuf_dropper(cbuf[b], n)
    OBVIOUS
  <2>4. Set(b, new)
    BY <1>2, <2>1, <2>3 DEF cbuf_drop
  <2>5. Streams(b, cbuf[b], Forget(new))
    BY <1>1, <2>2, <2>3, DropStreams
  <2> QED BY <2>4, <2>5, SetIs
<1>3. ASSUME len # -1, cbuf_read(b, len) PROVE RingInv' /\ Streamed
  <2>1. PICK n : n = Min({len, cbuf[b].used})
    OBVIOUS
  <2>2. n \in 0..cbuf[b].used
    <3>1. len \in Nat /\ n = (IF len <= cbuf[b].used THEN len ELSE cbuf[b].used)
      BY <1>1, <1>3, <2>1, MinIs
    <3> QED BY <1>1, <3>1
  <2>3. Len(cbuf_reader(cbuf[b], len)) = n
    <3>1. n \in Nat /\ cbuf_reader(cbuf[b], len) = Cells(cbuf[b], cbuf[b].i_out, n)
      BY <1>1, <2>1, <2>2 DEF cbuf_reader
    <3> QED BY <3>1 DEF Cells
  <2>4. PICK new : new = cbuf_dropper(cbuf[b], n)
    OBVIOUS
  <2>5. Set(b, new)
    BY <1>3, <2>3, <2>4 DEF cbuf_read
  <2>6. Streams(b, cbuf[b], Forget(new))
    BY <1>1, <2>2, <2>4, DropStreams
  <2> QED BY <2>5, <2>6, SetIs
<1>4. ASSUME NEW took \in Nat, cbuf_read_to_fd(b, len, took) PROVE RingInv' /\ Streamed
  <2>1. took \in 0..cbuf[b].used
    <3>1. Bounded(len, cbuf[b].used) \in 0..cbuf[b].used
      BY <1>1, BoundedIs
    <3>2. took <= Bounded(len, cbuf[b].used)
      BY <1>4 DEF cbuf_read_to_fd
    <3> QED BY <1>1, <3>1, <3>2
  <2>2. PICK new : new = cbuf_dropper(cbuf[b], took)
    OBVIOUS
  <2>3. Set(b, new)
    BY <1>4, <2>2 DEF cbuf_read_to_fd
  <2>4. Streams(b, cbuf[b], Forget(new))
    BY <1>1, <2>1, <2>2, DropStreams
  <2> QED BY <2>3, <2>4, SetIs
<1>5. ASSUME cbuf_rewind(b, len) PROVE RingInv' /\ Streamed
  <2>1. PICK n : n = Bounded(len, Back(cbuf[b]))
    OBVIOUS
  <2>2. n \in 0..Back(cbuf[b])
    BY <1>1, <2>1, BoundedIs
  <2>3. PICK new : new = RewindBy(cbuf[b], n)
    OBVIOUS
  <2>4. Set(b, new)
    BY <1>1, <1>5, <2>1, <2>3 DEF cbuf_rewind
  <2>5. Streams(b, cbuf[b], Forget(new))
    BY <1>1, <2>2, <2>3, RewindStreams
  <2> QED BY <2>4, <2>5, SetIs
<1> QED BY <1>2, <1>3, <1>4, <1>5

LEMMA LineCalls ==
  ASSUME RingInv, NEW b \in Buffers, NEW len \in Int, NEW n \in Int
  PROVE  /\ cbuf_drop_line(b, len, n) => RingInv' /\ Streamed
         /\ cbuf_read_line(b, len, n) => RingInv' /\ Streamed
         /\ cbuf_rewind_line(b, len, n) => RingInv' /\ Streamed
<1>1. Ring(b, cbuf[b])
  BY DEF RingInv
<1>2. ASSUME cbuf_drop_line(b, len, n) PROVE RingInv' /\ Streamed
  <2>1. PICK k : k = cbuf_find_unread_line(cbuf[b], len, n).bytes
    OBVIOUS
  <2>2. k \in 0..cbuf[b].used
    BY <1>1, <2>1, UnreadLineIs
  <2>3. PICK new : new = cbuf_dropper(cbuf[b], k)
    OBVIOUS
  <2>4. Set(b, new)
    BY <1>2, <2>1, <2>3 DEF cbuf_drop_line
  <2>5. Streams(b, cbuf[b], Forget(new))
    BY <1>1, <2>2, <2>3, DropStreams
  <2> QED BY <2>4, <2>5, SetIs
<1>3. ASSUME cbuf_read_line(b, len, n) PROVE RingInv' /\ Streamed
  <2>0. PICK chars : chars = len - 1
    OBVIOUS
  <2>1. PICK k : k = cbuf_find_unread_line(cbuf[b], chars, n).bytes
    OBVIOUS
  <2>2. k \in 0..cbuf[b].used
    BY <1>1, <2>0, <2>1, UnreadLineIs
  <2>3. PICK new : new = cbuf_dropper(cbuf[b], k)
    OBVIOUS
  <2>4. Set(b, new)
    BY <1>3, <2>0, <2>1, <2>3 DEF cbuf_read_line
  <2>5. Streams(b, cbuf[b], Forget(new))
    BY <1>1, <2>2, <2>3, DropStreams
  <2> QED BY <2>4, <2>5, SetIs
<1>4. ASSUME cbuf_rewind_line(b, len, n) PROVE RingInv' /\ Streamed
  <2>1. PICK k : k = cbuf_find_replay_line(cbuf[b], len, n).bytes
    OBVIOUS
  <2>2. k \in 0..Back(cbuf[b])
    BY <1>1, <2>1, ReplayLineIs
  <2>3. PICK new : new = RewindBy(cbuf[b], k)
    OBVIOUS
  <2>4. Set(b, new)
    BY <1>4, <2>1, <2>3 DEF cbuf_rewind_line
  <2>5. Streams(b, cbuf[b], Forget(new))
    BY <1>1, <2>2, <2>3, RewindStreams
  <2> QED BY <2>4, <2>5, SetIs
<1> QED BY <1>2, <1>3, <1>4

\* The calls that write or set.
LEMMA WriteCalls ==
  ASSUME RingInv, NEW b \in Buffers, NEW w \in Seq(Cell), Len(w) <= MaxWrite, NEW mem \in BOOLEAN
  PROVE  /\ cbuf_write(b, w, mem) => RingInv' /\ Streamed
         /\ \A len \in Nat \cup {-1} : cbuf_write_from_fd(b, len, w, mem) => RingInv' /\ Streamed
         /\ cbuf_write_line(b, w, mem) => RingInv' /\ Streamed
         /\ cbuf_flush(b) => RingInv' /\ Streamed
         /\ \A o \in Options : cbuf_opt_set(b, o) => RingInv' /\ Streamed
<1>1. Ring(b, cbuf[b]) /\ Len(w) \in Nat
  BY DEF RingInv
<1>2. ASSUME cbuf_write(b, w, mem) PROVE RingInv' /\ Streamed
  <2>1. PICK len, new : len = Len(w) /\ new = cbuf_writer(cbuf[b], len, w, mem)
    OBVIOUS
  <2>2. Set(b, new)
    BY <1>2, <2>1 DEF cbuf_write
  <2>3. len \in Nat
    BY <1>1, <2>1
  <2>4. Streams(b, cbuf[b], Forget(new))
    BY <1>1, <2>1, <2>3, WriterStreams
  <2> QED BY <2>2, <2>4, SetIs
<1>3. ASSUME NEW len \in Nat \cup {-1}, cbuf_write_from_fd(b, len, w, mem) PROVE RingInv' /\ Streamed
  <2> DEFINE nfree == cbuf[b].size - cbuf[b].used
             wants == IF len # -1 THEN len ELSE IF nfree = 0 THEN CBUF_CHUNK ELSE nfree
  <2>1. wants \in Nat
    <3>1. nfree \in Nat
      <4>1. cbuf[b].size \in Nat /\ cbuf[b].used \in Nat /\ cbuf[b].used <= cbuf[b].size
        BY <1>1, RingNumbers
      <4> QED BY <4>1
    <3> HIDE DEF nfree
    <3> QED BY <3>1, SizesOf
  <2>2. PICK new : new = cbuf_writer(cbuf[b], wants, w, mem)
    OBVIOUS
  <2>3. Set(b, new)
    BY <1>3, <2>2 DEF cbuf_write_from_fd
  <2> HIDE DEF wants
  <2>4. Streams(b, cbuf[b], Forget(new))
    BY <1>1, <2>1, <2>2, WriterStreams
  <2> QED BY <2>3, <2>4, SetIs
<1>4. ASSUME cbuf_write_line(b, w, mem) PROVE RingInv' /\ Streamed
  <2>1. PICK new : new = LineWritten(cbuf[b], w, mem)
    OBVIOUS
  <2>2. Set(b, new)
    BY <1>4, <2>1 DEF cbuf_write_line
  <2>3. Streams(b, cbuf[b], Forget(new))
    BY <1>1, <2>1, LineStreams
  <2> QED BY <2>2, <2>3, SetIs
<1>5. ASSUME cbuf_flush(b) PROVE RingInv' /\ Streamed
  <2>1. PICK new : new = [cbuf[b] EXCEPT !.used = 0, !.got_wrap = FALSE, !.i_in = 0, !.i_out = 0, !.i_rep = 0]
    OBVIOUS
  <2>2. Set(b, new)
    BY <1>5, <2>1 DEF cbuf_flush
  <2>3. Streams(b, cbuf[b], Forget(new))
    BY <1>1, <2>1, FlushStreams
  <2> QED BY <2>2, <2>3, SetIs
<1>6. ASSUME NEW o \in Options, cbuf_opt_set(b, o) PROVE RingInv' /\ Streamed
  <2>1. PICK new : new = [cbuf[b] EXCEPT !.overwrite = o]
    OBVIOUS
  <2>2. Set(b, new)
    BY <1>6, <2>1 DEF cbuf_opt_set
  <2>3. Streams(b, cbuf[b], Forget(new))
    BY <1>1, <2>1, OptionStreams
  <2> QED BY <2>2, <2>3, SetIs
<1> QED BY <1>2, <1>3, <1>4, <1>5, <1>6

\* The calls between two buffers.
LEMMA CopyCalls ==
  ASSUME RingInv, NEW src \in Buffers, NEW dst \in Buffers, NEW len \in Nat \cup {-1}, NEW mem \in BOOLEAN
  PROVE  /\ cbuf_copy(src, dst, len, mem) => RingInv' /\ Streamed
         /\ cbuf_move(src, dst, len, mem) => RingInv' /\ Streamed
<1>1. Ring(src, cbuf[src]) /\ Ring(dst, cbuf[dst])
  BY DEF RingInv
<1>2. PICK asked : asked = Bounded(len, cbuf[src].used)
  OBVIOUS
<1>3. asked \in Nat
  <2>1. cbuf[src].used \in Nat
    BY <1>1, RingIs
  <2>2. asked \in 0..cbuf[src].used
    BY <1>2, <2>1, BoundedIs
  <2> QED BY <2>1, <2>2
<1>4. PICK r : r = cbuf_copier(cbuf[src], cbuf[dst], asked, mem)
  OBVIOUS
<1>5. PICK f, g : f = Forget(r.dst) /\ g = Forget(cbuf_dropper(cbuf[src], r.len))
  OBVIOUS
<1>6. Streams(dst, cbuf[dst], f) /\ Streams(src, cbuf[src], g)
  BY <1>1, <1>3, <1>4, <1>5, CopierStreams
<1>7. ASSUME cbuf_copy(src, dst, len, mem) PROVE RingInv' /\ Streamed
  <2>1. PICK new : new = r.dst
    OBVIOUS
  <2>2. Set(dst, new)
    BY <1>2, <1>4, <1>7, <2>1 DEF cbuf_copy
  <2> QED BY <1>5, <1>6, <2>1, <2>2, SetIs
<1>8. ASSUME cbuf_move(src, dst, len, mem) PROVE RingInv' /\ Streamed
  <2>1. src # dst /\ cbuf' = [cbuf EXCEPT ![dst] = f, ![src] = Forget(cbuf_dropper(@, r.len))]
    BY <1>2, <1>4, <1>5, <1>8 DEF cbuf_move
  <2>2. cbuf = [a \in Buffers |-> cbuf[a]] /\ \A a \in Buffers : Ring(a, cbuf[a])
    BY DEF RingInv
  <2>3. /\ cbuf' = [a \in Buffers |-> cbuf'[a]]
        /\ \A a \in Buffers : cbuf'[a] = IF a = src THEN g ELSE IF a = dst THEN f ELSE cbuf[a]
    BY <1>5, <2>1, <2>2
  <2>4. Ring(src, g) /\ Ring(dst, f)
    BY <1>6 DEF Streams
  <2> QED BY <1>6, <2>2, <2>3, <2>4 DEF RingInv, Streamed
<1> QED BY <1>7, <1>8

LEMMA StepIs ==
  ASSUME RingInv, CbufStep
  PROVE  RingInv' /\ Streamed
<1>0. Direct \subseteq Buffers
  BY CbufAssumption
<1>1. ASSUME NEW b \in Direct,
             \/ cbuf_flush(b)
             \/ \E o \in Options : cbuf_opt_set(b, o)
      PROVE  RingInv' /\ Streamed
  <2>1. PICK w : w = <<>>
    OBVIOUS
  <2>2. w \in Seq(Cell) /\ Len(w) <= MaxWrite /\ TRUE \in BOOLEAN
    BY <2>1, SizesOf, <1>0
  <2> QED BY <1>0, <1>1, <2>2, WriteCalls
<1>2. ASSUME NEW b \in Direct,
             \/ \E len \in Length : cbuf_drop(b, len)
             \/ \E len \in 1 .. MaxWrite : cbuf_read(b, len)
             \/ \E len \in {-1, MaxWrite}, took \in 1 .. MaxWrite : cbuf_read_to_fd(b, len, took)
             \/ \E len \in Length : cbuf_rewind(b, len)
      PROVE  RingInv' /\ Streamed
  <2>1. CASE \E len \in Length : cbuf_drop(b, len)
    BY <1>0, <2>1, LengthIs, ReadCalls
  <2>2. CASE \E len \in 1 .. MaxWrite : cbuf_read(b, len)
    <3>1. PICK len \in 1..MaxWrite : cbuf_read(b, len)
      BY <2>2
    <3>2. len \in Nat /\ len # -1
      OBVIOUS
    <3> QED BY <1>0, <3>1, <3>2, ReadCalls
  <2>3. CASE \E len \in {-1, MaxWrite}, took \in 1 .. MaxWrite : cbuf_read_to_fd(b, len, took)
    <3>1. PICK len \in {-1, MaxWrite}, took \in 1 .. MaxWrite : cbuf_read_to_fd(b, len, took)
      BY <2>3
    <3>2. len \in Nat \cup {-1} /\ took \in Nat
      BY LengthIs
    <3> QED BY <1>0, <3>1, <3>2, ReadCalls
  <2>4. CASE \E len \in Length : cbuf_rewind(b, len)
    BY <1>0, <2>4, LengthIs, ReadCalls
  <2> QED BY <1>2, <2>1, <2>2, <2>3, <2>4
<1>3. ASSUME NEW b \in Direct, NEW len \in 1 .. MaxWrite, NEW n \in LineCount,
             cbuf_drop_line(b, len, n) \/ cbuf_read_line(b, len, n) \/ cbuf_rewind_line(b, len, n)
      PROVE  RingInv' /\ Streamed
  <2>1. b \in Buffers /\ len \in Int /\ n \in Int
    BY <1>0, LengthIs
  <2> QED BY <1>3, <2>1, LineCalls
<1>4. ASSUME NEW b \in Direct, NEW w \in Text, NEW mem \in BOOLEAN,
             \/ cbuf_write(b, w, mem)
             \/ \E len \in {-1, MaxWrite} : cbuf_write_from_fd(b, len, w, mem)
             \/ cbuf_write_line(b, w, mem)
      PROVE  RingInv' /\ Streamed
  <2>1. b \in Buffers /\ w \in Seq(Cell) /\ Len(w) <= MaxWrite /\ {-1, MaxWrite} \subseteq Nat \cup {-1}
    BY <1>0, TextIs, LengthIs
  <2> QED BY <1>4, <2>1, WriteCalls
<1>5. ASSUME NEW src \in Buffers, NEW dst \in Direct, NEW len \in Length, NEW mem \in BOOLEAN,
             cbuf_copy(src, dst, len, mem) \/ cbuf_move(src, dst, len, mem)
      PROVE  RingInv' /\ Streamed
  <2>1. dst \in Buffers /\ len \in Nat \cup {-1}
    BY <1>0, LengthIs
  <2> QED BY <1>5, <2>1, CopyCalls
<1>6. \/ \E b \in Direct : cbuf_flush(b) \/ \E o \in Options : cbuf_opt_set(b, o)
      \/ \E b \in Direct :
           \/ \E len \in Length : cbuf_drop(b, len)
           \/ \E len \in 1 .. MaxWrite : cbuf_read(b, len)
           \/ \E len \in {-1, MaxWrite}, took \in 1 .. MaxWrite : cbuf_read_to_fd(b, len, took)
           \/ \E len \in Length : cbuf_rewind(b, len)
      \/ \E b \in Direct, len \in 1 .. MaxWrite, n \in LineCount :
           cbuf_drop_line(b, len, n) \/ cbuf_read_line(b, len, n) \/ cbuf_rewind_line(b, len, n)
      \/ \E b \in Direct, w \in Text, mem \in BOOLEAN :
           \/ cbuf_write(b, w, mem)
           \/ \E len \in {-1, MaxWrite} : cbuf_write_from_fd(b, len, w, mem)
           \/ cbuf_write_line(b, w, mem)
      \/ \E src \in Buffers, dst \in Direct, len \in Length, mem \in BOOLEAN :
           cbuf_copy(src, dst, len, mem) \/ cbuf_move(src, dst, len, mem)
  BY Zenon DEF CbufStep
<1> QED BY <1>1, <1>2, <1>3, <1>4, <1>5, <1>6

-----------------------------------------------------------------------------
(* The buffers are streams.                                                *)

LEMMA WrittenNext ==
  ASSUME NEW b \in Buffers, Ring(b, cbuf[b]), Ring(b, cbuf'[b]), Written(b, cbuf[b], cbuf'[b])
  PROVE  S(b)!Next
<1>1. PICK n \in 0..MaxWrite + MaxSize[b] : Wrote(cbuf[b], cbuf'[b], n)
  BY DEF Written
<1>2. PICK c, d : c = cbuf[b] /\ d = cbuf'[b]
  OBVIOUS
<1>3. Ring(b, c) /\ Ring(b, d) /\ Wrote(c, d, n) /\ n \in Nat /\ c.size <= d.size
  BY <1>1, <1>2, SizesOf DEF Written
<1>4. d.size \in c.size .. MaxSize[b]
  <2>1. c.size \in Nat /\ d.size \in Nat /\ d.size <= MaxSize[b] /\ MaxSize[b] \in Nat
    BY <1>3, RingIs
  <2> QED BY <1>3, <2>1
<1>5. Arrives(c, d, n)
  BY <1>3, WroteIsWrite
<1>6. S(b)!Write(n, d.size)
  BY <1>2, <1>5, Zenon DEF S!Write, S!AtMost, S!FirstOf, S!LastOf, AtMostOf, Arrives, Carried, Left
<1> QED BY <1>2, <1>4, <1>6 DEF S!Next

LEMMA StreamsNext ==
  ASSUME NEW b \in Buffers, Ring(b, cbuf[b]), Streams(b, cbuf[b], cbuf'[b])
  PROVE  S(b)!Next
<1>1. PICK c, d : c = cbuf[b] /\ d = cbuf'[b]
  OBVIOUS
<1>2. Ring(b, c) /\ Ring(b, d) /\ (Written(b, c, d) \/ Consumed(c, d) \/ Rewound(c, d) \/ Emptied(c, d))
  BY <1>1 DEF Streams
<1>3. CASE Written(b, c, d)
  BY <1>1, <1>2, <1>3, WrittenNext
<1>4. CASE Consumed(c, d)
  <2>1. PICK n \in 1..c.used : d.used = c.used - n
    BY <1>4 DEF Consumed
  <2>2. Len(Unread(c)) = c.used /\ c.used \in Nat /\ n \in 0..c.used
    <3>1. Len(Unread(c)) = c.used /\ c.used \in Nat
      BY <1>2, ViewIs, RingIs
    <3> QED BY <3>1
  <2>3. Takes(c, d, n)
    BY <1>2, <1>4, <2>1, <2>2, ReadIsConsume DEF Consumed
  <2>4. d.size = c.size /\ d.got_wrap = c.got_wrap
    BY <1>4 DEF Consumed, Kept
  <2>5. S(b)!Consume(n)
    BY <1>1, <2>3, <2>4 DEF S!Consume, S!FirstOf, Takes
  <2>6. n \in 1..Len(Unread(cbuf[b]))
    BY <1>1, <2>2
  <2> QED BY <2>5, <2>6 DEF S!Next
<1>5. CASE Rewound(c, d)
  <2>1. PICK n \in 1..Back(c) : d.used = c.used + n
    BY <1>5 DEF Rewound
  <2>2. Len(Past(c)) = Back(c) /\ Back(c) \in Nat /\ n \in 0..Back(c)
    <3>1. Len(Past(c)) = Back(c) /\ Back(c) \in Nat
      BY <1>2, ViewIs, RingIs
    <3> QED BY <3>1
  <2>3. Returns(c, d, n)
    BY <1>2, <1>5, <2>1, <2>2, ReplayIsRewind DEF Rewound
  <2>4. d.size = c.size /\ d.got_wrap = c.got_wrap
    BY <1>5 DEF Rewound, Kept
  <2>5. S(b)!Rewind(n)
    BY <1>1, <2>3, <2>4 DEF S!Rewind, S!FirstOf, S!LastOf, Returns
  <2>6. n \in 1..Len(Past(cbuf[b]))
    BY <1>1, <2>2
  <2> QED BY <2>5, <2>6 DEF S!Next
<1>6. CASE Emptied(c, d)
  <2>1. Past(d) = <<>> /\ Unread(d) = <<>>
    <3>1. Past(d) \in Seq(Cell) /\ Len(Past(d)) = 0 /\ Unread(d) \in Seq(Cell) /\ Len(Unread(d)) = 0
      BY <1>2, <1>6, ViewIs DEF Emptied
    <3> QED BY <3>1, EmptySeq
  <2>2. S(b)!Flush
    BY <1>1, <1>6, <2>1 DEF S!Flush, Emptied
  <2> QED BY <2>2 DEF S!Next
<1> QED BY <1>2, <1>3, <1>4, <1>5, <1>6

LEMMA CreateIs ==
  ASSUME NEW b \in Buffers, NEW c, c = cbuf_create(b)
  PROVE  /\ Ring(b, c) /\ c.used = 0 /\ Back(c) = 0 /\ c.got_wrap = FALSE /\ c.overwrite = "WRAP_MANY"
<1>1. MinSize[b] \in Nat /\ MinSize[b] > 0 /\ MaxSize[b] \in Nat /\ MinSize[b] <= MaxSize[b]
  BY SizesOf
<1>2. /\ DOMAIN c = Fields /\ c.size = MinSize[b] /\ c.max = MaxSize[b] /\ c.used = 0
      /\ c.overwrite = "WRAP_MANY" /\ c.got_wrap = FALSE /\ c.i_in = 0 /\ c.i_out = 0 /\ c.i_rep = 0
      /\ c.data = [i \in 0 .. MinSize[b] |-> Unset]
  BY DEF cbuf_create, Fields
<1>3. c.data \in [0..c.size -> Cell]
  BY <1>2 DEF Cell
<1>4. Back(c) = 0 /\ Span(c) = 0
  <2>1. Back(c) = 0
    BY <1>2 DEF Back
  <2> QED BY <1>2, <2>1 DEF Span
<1>5. Turned(c, c.i_out + c.used) = 0
  BY <1>1, <1>2 DEF Turned
<1>6. /\ c.size \in Nat /\ MinSize[b] <= c.size /\ c.size <= MaxSize[b] /\ c.max = MaxSize[b]
      /\ c.used \in Nat /\ c.got_wrap \in BOOLEAN /\ c.overwrite \in Options
      /\ c.i_in \in 0..c.size /\ c.i_out \in 0..c.size /\ c.i_rep \in 0..c.size
      /\ Span(c) <= c.size /\ c.i_in = Turned(c, c.i_out + c.used)
  <2>1. c.overwrite \in Options /\ c.got_wrap \in BOOLEAN
    BY <1>2 DEF Options
  <2>2. c.size \in Nat /\ MinSize[b] <= c.size /\ c.size <= MaxSize[b] /\ c.max = MaxSize[b]
    BY <1>1, <1>2
  <2>3. c.i_in \in 0..c.size /\ c.i_out \in 0..c.size /\ c.i_rep \in 0..c.size /\ c.used \in Nat
    BY <1>2, <2>2
  <2>4. Span(c) <= c.size /\ c.i_in = Turned(c, c.i_out + c.used)
    BY <1>2, <1>4, <1>5, <2>2
  <2> QED BY <2>1, <2>2, <2>3, <2>4
<1>7. Ring(b, c)
  BY <1>2, <1>3, <1>6 DEF Ring
<1> QED BY <1>2, <1>4, <1>7

\* A buffer that was filled, emptied and written again.
LEMMA HoldingIs ==
  ASSUME NEW b \in Buffers, NEW w \in Seq(Byte)
  PROVE  Ring(b, Holding(cbuf_create(b), w))
<1>1. PICK c : c = cbuf_create(b)
  OBVIOUS
<1>2. /\ Ring(b, c) /\ c.used = 0 /\ c.overwrite = "WRAP_MANY" /\ c.size \in Nat /\ c.size > 0
      /\ Span(c) = 0
  <2>1. Ring(b, c) /\ c.used = 0 /\ Back(c) = 0 /\ c.overwrite = "WRAP_MANY"
    BY <1>1, CreateIs
  <2> QED BY <2>1, RingIs
<1>3. PICK fill : fill = [k \in 1 .. c.size |-> NL]
  OBVIOUS
<1>4. fill \in Seq(Cell) /\ Len(fill) = c.size
  BY <1>2, <1>3 DEF Cell, Byte
<1>5. PICK d : d = cbuf_writer(c, c.size, fill, FALSE)
  OBVIOUS
<1>6. Ring(b, d) /\ d.used = c.size
  <2>1. Room(c, c.size, FALSE) = c
    BY DEF Room, cbuf_grow
  <2>2. Min({Admitted(c, c.size), Len(fill)}) = c.size
    <3>1. Admitted(c, c.size) = c.size
      BY <1>2 DEF Admitted
    <3> QED BY <1>2, <1>4, <3>1, MinIs
  <2>3. PICK v : v = SubSeq(fill, 1, c.size)
    OBVIOUS
  <2>4. d = Advance(c, c.size, Put(c, v))
    <3>1. c.size # 0
      BY <1>2
    <3> QED BY <1>5, <2>1, <2>2, <2>3, <3>1, Zenon DEF cbuf_writer
  <2>5. Bytes(v, c.size)
    BY <1>2, <1>4, <2>3, BeginningIs
  <2>6. Ring(b, d) /\ Wrote(c, d, c.size) /\ d.size = c.size
    BY <1>2, <2>4, <2>5, AdvanceIs
  <2>7. d.used = AtMostOf(c.size, 0 + c.size)
    BY <1>2, <2>6 DEF Wrote
  <2> QED BY <1>2, <2>6, <2>7 DEF AtMostOf
<1>7. PICK e : e = cbuf_dropper(d, c.size)
  OBVIOUS
<1>8. Ring(b, e)
  <2>1. c.size \in 0..d.used
    BY <1>2, <1>6
  <2> QED BY <1>6, <1>7, <2>1, DropIs
<1>9. PICK len : len = Len(w)
  OBVIOUS
<1>10. w \in Seq(Cell) /\ len \in Nat
  <2>1. Byte \subseteq Cell
    BY DEF Cell
  <2> QED BY <1>9, <2>1
<1>11. PICK f : f = cbuf_writer(e, len, w, FALSE)
  OBVIOUS
<1>12. Ring(b, f)
  BY <1>8, <1>10, <1>11, WriterIs
<1>13. Ring(b, Forget(f))
  BY <1>12, ForgetIs
<1> QED BY <1>1, <1>3, <1>5, <1>7, <1>9, <1>11, <1>13 DEF Holding

LEMMA StartIs ==
  ASSUME CbufInit
  PROVE  RingInv /\ \A b \in Direct : S(b)!Empty
<1>1. PICK w \in Preset : cbuf = [b \in Buffers |-> IF w[b] = <<>> THEN cbuf_create(b) ELSE Holding(cbuf_create(b), w[b])]
  BY DEF CbufInit
<1>2. ASSUME NEW b \in Buffers PROVE Ring(b, cbuf[b])
  <2>1. PICK v : v = w[b]
    OBVIOUS
  <2>2. v \in Seq(Byte)
    BY <2>1, CbufAssumption
  <2>3. cbuf[b] = IF v = <<>> THEN cbuf_create(b) ELSE Holding(cbuf_create(b), v)
    BY <1>1, <2>1
  <2> QED BY <2>2, <2>3, CreateIs, HoldingIs
<1>3. ASSUME NEW b \in Direct PROVE S(b)!Empty
  <2>1. b \in Buffers /\ w[b] = <<>>
    BY CbufAssumption
  <2>2. PICK c : c = cbuf[b]
    OBVIOUS
  <2>3. c = cbuf_create(b)
    BY <1>1, <2>1, <2>2
  <2>4. Ring(b, c) /\ c.used = 0 /\ Back(c) = 0 /\ c.got_wrap = FALSE
    BY <2>1, <2>3, CreateIs
  <2>5. Past(c) \in Seq(Cell) /\ Len(Past(c)) = 0 /\ Unread(c) \in Seq(Cell) /\ Len(Unread(c)) = 0
    BY <2>1, <2>4, ViewIs
  <2>6. Past(c) = <<>> /\ Unread(c) = <<>>
    BY <2>5, EmptySeq
  <2> QED BY <2>2, <2>4, <2>6 DEF S!Empty
<1> QED BY <1>1, <1>2, <1>3 DEF RingInv

\* cbuf.c: whatever is called in whatever order, each buffer is a stream.
THEOREM IsStreamAlways == CbufSpec => IsStream
<1>1. CbufInit => RingInv /\ \A b \in Direct : S(b)!Empty
  BY StartIs
<1>2. RingInv /\ [CbufStep]_cvars => RingInv'
  <2>1. CASE CbufStep
    BY <2>1, StepIs
  <2>2. CASE UNCHANGED cvars
    BY <2>2 DEF cvars, RingInv
  <2> QED BY <2>1, <2>2
<1>3. RingInv /\ [CbufStep]_cvars => [\A b \in Buffers : UNCHANGED S(b)!svars \/ S(b)!Next]_cvars
  <2> SUFFICES ASSUME RingInv, CbufStep, NEW b \in Buffers
               PROVE  UNCHANGED S(b)!svars \/ S(b)!Next
    OBVIOUS
  <2>1. Ring(b, cbuf[b]) /\ (cbuf'[b] = cbuf[b] \/ Streams(b, cbuf[b], cbuf'[b]))
    BY StepIs DEF RingInv, Streamed
  <2>2. CASE cbuf'[b] = cbuf[b]
    BY <2>2 DEF S!svars
  <2>3. CASE Streams(b, cbuf[b], cbuf'[b])
    BY <2>1, <2>3, StreamsNext
  <2> QED BY <2>1, <2>2, <2>3
<1> QED BY <1>1, <1>2, <1>3, PTL DEF CbufSpec, IsStream
=============================================================================
