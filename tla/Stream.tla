------------------------------- MODULE Stream -------------------------------
(***************************************************************************)
(* What a circular buffer promises: a stream of bytes of which unread is to *)
(* be read next and past, what was read last, can be read again.  Together  *)
(* they are never longer than room; a write that needs more pushes out the  *)
(* oldest bytes, which never come back.                                     *)
(***************************************************************************)
EXTENDS Integers, Sequences

CONSTANTS MaxRoom, MaxWrite
VARIABLES past, unread, room, lost

svars == <<past, unread, room, lost>>

LastOf(n, s) == SubSeq(s, 1 + Len(s) - n, Len(s))
FirstOf(n, s) == SubSeq(s, 1, n)
AtMost(a, b) == IF a < b THEN a ELSE b

Empty == past = <<>> /\ unread = <<>> /\ ~lost

\* n bytes arrive, with room for r: the last of what was there stays in front of
\* them.  Which bytes they are is for the caller to say.
Write(n, r) ==
    LET old  == past \o unread
        all  == AtMost(r, Len(old) + n)
        kept == IF all > n THEN all - n ELSE 0
    IN  /\ room' = r
        /\ Len(past' \o unread') = all
        /\ Len(unread') = AtMost(r, Len(unread) + n)
        /\ FirstOf(kept, past' \o unread') = LastOf(kept, old)
        /\ lost' = (lost \/ Len(old) + n > r)

\* n bytes are read or dropped.
Consume(n) ==
    /\ past' = past \o FirstOf(n, unread)
    /\ unread' = SubSeq(unread, n + 1, Len(unread))
    /\ UNCHANGED <<room, lost>>

\* The last n bytes are to be read again.
Rewind(n) ==
    /\ past' = FirstOf(Len(past) - n, past)
    /\ unread' = LastOf(n, past) \o unread
    /\ UNCHANGED <<room, lost>>

Flush == past' = <<>> /\ unread' = <<>> /\ lost' = FALSE /\ UNCHANGED room

Next ==
    \/ \E r \in room .. MaxRoom, n \in 0 .. MaxWrite : Write(n, r)
    \/ \E n \in 1 .. Len(unread) : Consume(n)
    \/ \E n \in 1 .. Len(past) : Rewind(n)
    \/ Flush

Spec == Empty /\ [][Next]_svars
=============================================================================
