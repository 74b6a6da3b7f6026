------------------------------- MODULE SeqOps -------------------------------
(***************************************************************************)
(* Sequences as the lists of list.c are used: what a list holds, a list    *)
(* after list_delete_all, as _purge_job_start_req walks it, and what a     *)
(* loop over a list adds up.                                               *)
(***************************************************************************)
EXTENDS Naturals, Sequences

Elems(s) == {s[i] : i \in 1..Len(s)}

\* The sequence s without the members of D, in the same order.
Without(s, D) ==
  LET f[i \in 0..Len(s)] ==
        IF i = 0 THEN <<>>
        ELSE IF s[i] \in D THEN f[i-1] ELSE Append(f[i-1], s[i])
  IN  f[Len(s)]

\* What a loop over n rows adds up.
Total(w, n) == LET f[k \in 0..n] == IF k = 0 THEN 0 ELSE f[k-1] + w[k] IN f[n]
=============================================================================
