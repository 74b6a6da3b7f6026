-------------------------------- MODULE Cbuf --------------------------------
(***************************************************************************)
(* The circular buffer that step_io and the log keep their bytes in         *)
(* (common/cbuf.c).  Every call locks the buffer, cbuf_copy and cbuf_move   *)
(* both buffers in the order of their addresses, so that a call is a step.  *)
(*                                                                         *)
(* data has size + 1 cells, of which those from i_rep to i_in hold bytes:    *)
(* the replayable ones up to i_out, the unread ones from there.  A cell      *)
(* outside holds no byte that may be read; the model forgets it.            *)
(***************************************************************************)
EXTENDS Integers, SequencesExt

CONSTANTS
    Buffers,        \* the buffers: src and dst of cbuf_copy and cbuf_move
    Preset,         \* what each holds before the calls: empty, or bytes that wrap
    Direct,         \* bound: those that are read and written, not only copied
    MinSize,        \* minsize of each
    MaxSize,        \* maxsize of each
    CBUF_CHUNK,     \* how a buffer grows; 1000 in the code
    Letter,         \* the bytes that are no newline
    MaxWrite        \* bound: the bytes of one write

NL == "\n"
Byte == Letter \cup {NL}

ASSUME CbufAssumption ==
    /\ \A b \in Buffers : MinSize[b] \in Nat \ {0} /\ MaxSize[b] \in Nat /\ MinSize[b] <= MaxSize[b]
    /\ CBUF_CHUNK \in Nat \ {0} /\ MaxWrite \in Nat /\ Direct \subseteq Buffers
    /\ \A w \in Preset, b \in Buffers : w[b] \in Seq(Byte) /\ (b \in Direct => w[b] = <<>>)

Unset == "?"

VARIABLE cbuf
cvars == <<cbuf>>

-----------------------------------------------------------------------------
(* The ring.                                                                *)

Mod(cb, i) == i % (cb.size + 1)

\* cbuf_reused: the replayable bytes.
cbuf_reused(cb) == Mod(cb, cb.i_out - cb.i_rep + cb.size + 1)

\* The n bytes from cell i on.
Cells(cb, i, n) == [k \in 1 .. n |-> cb.data[Mod(cb, i + k - 1)]]

Forget(cb) ==
    LET held == {Mod(cb, cb.i_rep + k) : k \in 0 .. cbuf_reused(cb) + cb.used - 1}
    IN  [cb EXCEPT !.data = [i \in 0 .. cb.size |-> IF i \in held THEN cb.data[i] ELSE Unset]]

cbuf_create(b) ==
    [size |-> MinSize[b], max |-> MaxSize[b], used |-> 0, overwrite |-> "WRAP_MANY",
     got_wrap |-> FALSE, i_in |-> 0, i_out |-> 0, i_rep |-> 0,
     data |-> [i \in 0 .. MinSize[b] |-> Unset]]

\* cbuf_grow: by whole chunks up to maxsize; the replayable bytes that wrap
\* around the end of the array move to its new end.  alloc is size and the
\* cell that stays empty.  Nothing changes when realloc fails.
cbuf_grow(cb, n, mem) ==
    LET want == cb.size + 1 + n
        size == Min({want + CBUF_CHUNK - (want % CBUF_CHUNK), cb.max + 1}) - 1
        by   == size - cb.size
        wraps == cb.i_rep > cb.i_in
    IN  IF cb.size = cb.max \/ ~mem THEN cb
        ELSE [cb EXCEPT
               !.size = size,
               !.data = [i \in 0 .. size |->
                           IF wraps /\ i >= cb.i_rep + by THEN @[i - by]
                           ELSE IF i <= cb.size /\ ~(wraps /\ i >= cb.i_rep) THEN @[i]
                           ELSE Unset],
               !.i_out = IF wraps /\ @ >= cb.i_rep THEN @ + by ELSE @,
               !.i_rep = IF wraps THEN @ + by ELSE @]

\* The growth that cbuf_writer, cbuf_copier and cbuf_write_line begin with.
Room(cb, len, mem) ==
    IF len > cb.size - cb.used THEN cbuf_grow(cb, len - (cb.size - cb.used), mem) ELSE cb

\* What of len bytes the overwrite option admits; none is ENOSPC.
Admitted(cb, len) ==
    CASE cb.overwrite = "NO_DROP"   -> Min({len, cb.size - cb.used})
      [] cb.overwrite = "WRAP_ONCE" -> Min({len, cb.size})
      [] cb.overwrite = "WRAP_MANY" -> len

\* Mutant: unread bytes that were overwritten are still to be read.
Advance_KeepOut(cb, n, data) ==
    LET in   == Mod(cb, cb.i_in + n)
        wrap == n > cb.size - cb.used - cbuf_reused(cb)
    IN  [cb EXCEPT !.used = Min({@ + n, cb.size}), !.i_in = in, !.data = data,
                   !.got_wrap = @ \/ wrap, !.i_rep = IF wrap THEN Mod(cb, in + 1) ELSE @]

\* n bytes were put from i_in on: the ends of the regions follow.
Advance(cb, n, data) ==
    LET nfree == cb.size - cb.used
        in    == Mod(cb, cb.i_in + n)
        wrap  == n > nfree - cbuf_reused(cb)
        rep   == IF wrap THEN Mod(cb, in + 1) ELSE cb.i_rep
    IN  [cb EXCEPT !.used = Min({@ + n, cb.size}), !.i_in = in, !.data = data,
                   !.got_wrap = @ \/ wrap, !.i_rep = rep,
                   !.i_out = IF n > nfree THEN rep ELSE @]

\* The bytes of w into the cells from i_in on, the later over the earlier.
Put(cb, w) ==
    [i \in 0 .. cb.size |->
       LET at == {k \in 1 .. Len(w) : Mod(cb, cb.i_in + k - 1) = i}
       IN  IF at = {} THEN cb.data[i] ELSE w[Max(at)]]

\* cbuf_writer: of the len bytes asked for, the source w may give fewer.
cbuf_writer(cb, len, w, mem) ==
    LET grown == Room(cb, len, mem)
        n     == Min({Admitted(grown, len), Len(w)})
    IN  IF n = 0 THEN grown ELSE Advance(grown, n, Put(grown, SubSeq(w, 1, n)))

\* cbuf_dropper (cbuf_shrink does nothing).
cbuf_dropper(cb, n) == [cb EXCEPT !.used = @ - n, !.i_out = Mod(cb, @ + n)]

\* cbuf_reader and cbuf_replayer: what of len bytes they hand to a sink that
\* takes all.
cbuf_reader(cb, len) == Cells(cb, cb.i_out, Min({len, cb.used}))
cbuf_replayer(cb, len) ==
    LET n == Min({len, cbuf_reused(cb)})
    IN  Cells(cb, Mod(cb, cb.i_out - n + cb.size + 1), n)

\* cbuf_copier: only what will not be overwritten at once is copied.
cbuf_copier(src, dst, asked, mem) ==
    LET avail == Min({asked, src.used})
        grown == Room(dst, avail, mem)
        len   == Admitted(grown, avail)
        ncopy == Min({len, grown.size})
        w     == Cells(src, src.i_out + len - ncopy, ncopy)
    IN  [len |-> len, dst |-> IF len = 0 THEN grown ELSE Advance(grown, ncopy, Put(grown, w))]

-----------------------------------------------------------------------------
(* Lines.                                                                   *)

\* A loop that looks at the bytes one by one, at most once each, from s on and
\* until it is at cell stop or has as many bytes or lines as it looks for.
Search(cb, Turn(_, _), s, stop) ==
    LET loop[k \in 0 .. cb.size] ==
          IF k = 0 THEN s
          ELSE LET t == loop[k - 1]
               IN  IF t.i = stop \/ t.chars = 0 \/ t.lines = 0 THEN t ELSE Turn(cb, t)
    IN  loop[cb.size]

Less(n) == IF n > 0 THEN n - 1 ELSE n

\* A turn in cbuf_find_unread_line, and in cbuf_find_replay_line, which goes
\* backwards.
UnreadTurn(cb, s) ==
    LET end == cb.data[s.i] = NL
    IN  [i |-> Mod(cb, s.i + 1), n |-> s.n + 1, chars |-> Less(s.chars),
         lines |-> IF end THEN Less(s.lines) ELSE s.lines,
         m |-> IF end THEN s.n + 1 ELSE s.m, l |-> IF end THEN s.l + 1 ELSE s.l]

ReplayTurn(cb, s) ==
    LET i   == Mod(cb, s.i + cb.size)
        end == cb.data[i] = NL
    IN  [i |-> i, n |-> s.n + 1, chars |-> Less(s.chars),
         lines |-> IF end THEN Less(s.lines) ELSE s.lines,
         m |-> IF end THEN s.n ELSE s.m, l |-> IF end THEN s.l + 1 ELSE s.l]

NoLines == [bytes |-> 0, lines |-> 0, nl |-> FALSE]

\* Mutant: the number of bytes is not set aside when lines are asked for.
cbuf_find_unread_line_Both(cb, chars, lines) ==
    LET s == Search(cb, UnreadTurn, [i |-> cb.i_out, n |-> 0, m |-> 0, l |-> 0, lines |-> lines,
                                     chars |-> chars], cb.i_in)
    IN  IF lines = 0 \/ cb.used = 0 \/ s.lines > 0 THEN NoLines
        ELSE [bytes |-> s.m, lines |-> s.l, nl |-> FALSE]

\* cbuf_find_unread_line.
cbuf_find_unread_line(cb, chars, lines) ==
    LET s == Search(cb, UnreadTurn, [i |-> cb.i_out, n |-> 0, m |-> 0, l |-> 0, lines |-> lines,
                                     chars |-> IF lines > 0 THEN -1 ELSE chars], cb.i_in)
    IN  IF lines = 0 \/ (lines <= -1 /\ chars <= 0) \/ cb.used = 0 \/ s.lines > 0 THEN NoLines
        ELSE [bytes |-> s.m, lines |-> s.l, nl |-> FALSE]

\* cbuf_find_replay_line: the last replayable line needs no newline and the
\* first one ever written none before it.
cbuf_find_replay_line(cb, chars, lines) ==
    LET open == cb.data[Mod(cb, cb.i_out + cb.size)] # NL
        s == Search(cb, ReplayTurn,
                    [i |-> cb.i_out, n |-> 0, m |-> 0, l |-> IF open THEN 0 ELSE -1,
                     lines |-> IF lines > 0 /\ ~open THEN lines + 1 ELSE lines,
                     chars |-> (IF lines > 0 THEN -1 ELSE chars + 1) - (IF open THEN 1 ELSE 0)], cb.i_rep)
        first == ~cb.got_wrap /\ (s.chars > 0 \/ s.lines > 0)
        missing == s.lines > (IF first THEN 1 ELSE 0)
    IN  IF lines = 0 \/ (lines <= -1 /\ chars <= 0) \/ cbuf_reused(cb) = 0 THEN NoLines
        ELSE IF missing THEN [NoLines EXCEPT !.nl = open]
        ELSE [bytes |-> IF first THEN s.n ELSE s.m, lines |-> IF first THEN s.l + 1 ELSE s.l,
              nl |-> open]

-----------------------------------------------------------------------------
(* The calls.  mem says whether realloc succeeds.                           *)

Set(b, new) == cbuf' = [cbuf EXCEPT ![b] = Forget(new)]

\* Bytes that were written after as many others as fit were written and read.
Holding(cb, w) ==
    LET fill == [k \in 1 .. cb.size |-> NL]
    IN  Forget(cbuf_writer(cbuf_dropper(cbuf_writer(cb, cb.size, fill, FALSE), cb.size), Len(w), w, FALSE))

CbufInit ==
    cbuf \in {[b \in Buffers |-> IF w[b] = <<>> THEN cbuf_create(b) ELSE Holding(cbuf_create(b), w[b])]
                : w \in Preset}

cbuf_flush(b) ==
    Set(b, [cbuf[b] EXCEPT !.used = 0, !.got_wrap = FALSE, !.i_in = 0, !.i_out = 0, !.i_rep = 0])

cbuf_opt_set(b, o) == Set(b, [cbuf[b] EXCEPT !.overwrite = o])

\* -1 asks for all there is.
Bounded(len, n) == IF len = -1 THEN n ELSE Min({len, n})

cbuf_drop(b, len) == Set(b, cbuf_dropper(cbuf[b], Bounded(len, cbuf[b].used)))

cbuf_read(b, len) == Set(b, cbuf_dropper(cbuf[b], Len(cbuf_reader(cbuf[b], len))))

\* The descriptor takes some of the bytes.
cbuf_read_to_fd(b, len, took) ==
    /\ took <= Bounded(len, cbuf[b].used)
    /\ Set(b, cbuf_dropper(cbuf[b], took))

RewindBy(cb, n) == [cb EXCEPT !.used = @ + n, !.i_out = Mod(cb, @ - n + cb.size + 1)]

cbuf_rewind(b, len) == Set(b, RewindBy(cbuf[b], Bounded(len, cbuf_reused(cbuf[b]))))

cbuf_write(b, w, mem) == w # <<>> /\ Set(b, cbuf_writer(cbuf[b], Len(w), w, mem))

\* What the descriptor has may be less, or nothing, of what fits.
cbuf_write_from_fd(b, len, w, mem) ==
    LET nfree == cbuf[b].size - cbuf[b].used
        want  == IF len # -1 THEN len ELSE IF nfree = 0 THEN CBUF_CHUNK ELSE nfree
    IN  /\ Len(w) <= want
        /\ Set(b, cbuf_writer(cbuf[b], want, w, mem))

cbuf_drop_line(b, len, lines) ==
    Set(b, cbuf_dropper(cbuf[b], cbuf_find_unread_line(cbuf[b], len, lines).bytes))

\* The destination has len bytes, one of them for the final zero.
cbuf_read_line(b, len, lines) ==
    Set(b, cbuf_dropper(cbuf[b], cbuf_find_unread_line(cbuf[b], len - 1, lines).bytes))

cbuf_rewind_line(b, len, lines) ==
    Set(b, RewindBy(cbuf[b], cbuf_find_replay_line(cbuf[b], len, lines).bytes))

\* cbuf_write_line: a newline is added where there is none; when the line is too
\* long its end is kept.
LineWritten(cb, s, mem) ==
    LET len   == IF s = <<>> \/ Last(s) # NL THEN Len(s) + 1 ELSE Len(s)
        grown == Room(cb, len, mem)
        fits  == CASE cb.overwrite = "NO_DROP"   -> len <= grown.size - grown.used
                   [] cb.overwrite = "WRAP_ONCE" -> len <= grown.size
                   [] cb.overwrite = "WRAP_MANY" -> TRUE
        text  == SubSeq(s, 1 + Max({0, len - grown.size}), Len(s))
        body  == Forget(cbuf_writer(grown, Len(text), text, mem))
    IN  IF ~fits THEN grown
        ELSE IF len = Len(s) THEN body
        ELSE cbuf_writer(body, 1, <<NL>>, mem)
cbuf_write_line(b, s, mem) == Set(b, LineWritten(cbuf[b], s, mem))

cbuf_copy(src, dst, len, mem) ==
    /\ src # dst
    /\ Set(dst, cbuf_copier(cbuf[src], cbuf[dst], Bounded(len, cbuf[src].used), mem).dst)

cbuf_move(src, dst, len, mem) ==
    LET c == cbuf_copier(cbuf[src], cbuf[dst], Bounded(len, cbuf[src].used), mem)
    IN  /\ src # dst
        /\ cbuf' = [cbuf EXCEPT ![dst] = Forget(c.dst),
                                ![src] = Forget(cbuf_dropper(@, c.len))]

Options == {"NO_DROP", "WRAP_ONCE", "WRAP_MANY"}
Text == BoundedSeq(Byte, MaxWrite)
Length == {-1} \cup 1 .. MaxWrite
LineCount == {-1, 1, 2}

CbufStep ==
    \/ \E b \in Direct :
         \/ cbuf_flush(b)
         \/ \E o \in Options : cbuf_opt_set(b, o)
         \/ \E len \in Length : cbuf_drop(b, len)
         \/ \E len \in 1 .. MaxWrite : cbuf_read(b, len)
         \/ \E len \in {-1, MaxWrite}, took \in 1 .. MaxWrite : cbuf_read_to_fd(b, len, took)
         \/ \E len \in Length : cbuf_rewind(b, len)
         \/ \E len \in 1 .. MaxWrite, n \in LineCount : cbuf_drop_line(b, len, n)
         \/ \E len \in 1 .. MaxWrite, n \in LineCount : cbuf_read_line(b, len, n)
         \/ \E len \in 1 .. MaxWrite, n \in LineCount : cbuf_rewind_line(b, len, n)
         \/ \E w \in Text, mem \in BOOLEAN : cbuf_write(b, w, mem)
         \/ \E len \in {-1, MaxWrite}, w \in Text, mem \in BOOLEAN : cbuf_write_from_fd(b, len, w, mem)
         \/ \E s \in Text, mem \in BOOLEAN : cbuf_write_line(b, s, mem)
    \/ \E src \in Buffers, dst \in Direct, len \in Length, mem \in BOOLEAN : cbuf_copy(src, dst, len, mem)
    \/ \E src \in Buffers, dst \in Direct, len \in Length, mem \in BOOLEAN : cbuf_move(src, dst, len, mem)

CbufSpec == CbufInit /\ [][CbufStep]_cvars

-----------------------------------------------------------------------------
Past(cb)   == cbuf_replayer(cb, cb.size)
Unread(cb) == cbuf_reader(cb, cb.size)

S(b) == INSTANCE Stream WITH
            MaxRoom <- MaxSize[b], MaxWrite <- MaxWrite + MaxSize[b],
            past <- Past(cbuf[b]), unread <- Unread(cbuf[b]),
            room <- cbuf[b].size, lost <- cbuf[b].got_wrap

\* Whatever the calls and their order, with wrap-around, growth and copies from
\* one to the other, each buffer is the stream of Stream: the bytes come out in
\* the order they went in, only the oldest are given up, and got_wrap says
\* whether any were.
IsStream ==
    /\ \A b \in Direct : S(b)!Empty
    /\ [][\A b \in Buffers : UNCHANGED S(b)!svars \/ S(b)!Next]_cvars

\* The reference for the lines: where they end in what is unread, and where they
\* begin in what is replayable.
LineEnds(u) == {k \in DOMAIN u : u[k] = NL}
LineStarts(p, wrapped) == {k \in DOMAIN p : IF k = 1 THEN ~wrapped ELSE p[k - 1] = NL}
NthMin(K, n) == CHOOSE k \in K : Cardinality({j \in K : j <= k}) = n
NthMax(K, n) == CHOOSE k \in K : Cardinality({j \in K : j >= k}) = n

UnreadLines(u, chars, lines) ==
    LET E == LineEnds(u)
        N == Cardinality({k \in E : k <= chars})
    IN  IF lines > 0 THEN (IF lines <= Cardinality(E) THEN NthMin(E, lines) ELSE 0)
        ELSE IF N = 0 THEN 0 ELSE NthMin(E, N)
ReplayLines(p, wrapped, chars, lines) ==
    LET B  == LineStarts(p, wrapped)
        nl == IF p # <<>> /\ Last(p) # NL THEN 1 ELSE 0
        N  == Cardinality({k \in B : Len(p) + 1 - k + nl <= chars})
        n  == IF lines > 0 THEN lines ELSE N
    IN  IF n = 0 \/ n > Cardinality(B) THEN 0 ELSE Len(p) + 1 - NthMax(B, n)

\* In every state the buffer gets into, a line call finds the bytes that the
\* comments of the two find functions describe, and a write that is admitted
\* leaves its last bytes at the end of what is unread.
CallsAgree ==
    \A b \in Direct :
      LET cb == cbuf[b]
          u  == Unread(cb)
          p  == Past(cb)
      IN  /\ \A chars \in 0 .. MaxWrite + 1, lines \in LineCount :
               /\ cbuf_find_unread_line(cb, chars, lines).bytes = UnreadLines(u, chars, lines)
               /\ cbuf_find_replay_line(cb, chars, lines).bytes = ReplayLines(p, cb.got_wrap, chars, lines)
          /\ \A w \in Text, mem \in BOOLEAN :
               LET new == cbuf_writer(cb, Len(w), w, mem)
                   all == u \o SubSeq(w, 1, Admitted(Room(cb, Len(w), mem), Len(w)))
               IN  Unread(new) = SubSeq(all, 1 + Max({0, Len(all) - new.size}), Len(all))
=============================================================================
