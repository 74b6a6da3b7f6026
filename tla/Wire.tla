-------------------------------- MODULE Wire --------------------------------
(***************************************************************************)
(* The packed form of messages (common/pack.c) and of the objects in them. *)
(*                                                                         *)
(* A pack function is described by the items it packs, in order, and an    *)
(* unpack function by the items it unpacks: AcctRecords, DbdMessages and   *)
(* SlurmMessages hold one definition per function.  Pack turns items into  *)
(* the bytes of a message and Unpack reads them back the way the C code    *)
(* does: it sees bytes and widths only, so that two functions that do not  *)
(* agree read one field's bytes as another's, or lose their place.         *)
(*                                                                         *)
(* What is abstracted: a value is the path of the field it comes from      *)
(* (<<"my_list", "name">>), its bytes are that path with the width and the *)
(* position, every string that is not NULL has StrLen bytes, and the       *)
(* strings and the lists of a message are alike (Shapes).                  *)
(***************************************************************************)
EXTENDS Integers, Sequences

(* The shape of a message: the object it carries is there or NULL ("top"),  *)
(* so are the objects within that object ("sub"), and the lists are NULL,   *)
(* empty, or hold one or two elements ("list"); the strings that are no      *)
(* elements of lists are NULL, or text without a quotation mark, with one,   *)
(* or with several ("str").                                                  *)
Shapes == [top : BOOLEAN, sub : BOOLEAN, list : {"NULL", "0", "1", "2"},
           str : {"NULL", "text", "one quote", "quotes"}]

\* Values that do not come from a field.
Zero   == <<"0">>
NO_VAL == <<"NO_VAL">>
Minus1 == <<"-1">>
Consts == {Zero, NO_VAL, Minus1}

\* Bytes of a string, its final zero included (a bound: all strings are alike).
StrLen == 3

-----------------------------------------------------------------------------
(* Items.  k: the kind, f: the field ("" for the element of a list), w: the *)
(* width in bytes.  Some have more: v, a constant; of, the items of an      *)
(* element or of a nested object; null, what is packed for a NULL pointer;  *)
(* none, the counts that stand for a NULL list.                             *)

Item(k, f, w)     == [k |-> k, f |-> f, w |-> w]
Nested(k, f, of)  == [k |-> k, f |-> f, w |-> 2, of |-> of]
Const(c, w)       == [k |-> "const", f |-> "", w |-> w, v |-> c]

U8(f)   == Item("num", f, 1)
U16(f)  == Item("num", f, 2)
U32(f)  == Item("num", f, 4)
U64(f)  == Item("num", f, 8)
Time(f) == Item("num", f, 8)
Dbl(f)  == Item("num", f, 8)
Str(f)  == Item("str", f, 4)
\* A string that the unpack function looks at and frees again.
Checked(f) == Item("checked", f, 4)

Z8   == Const(Zero, 1)
Z16  == Const(Zero, 2)
Z32  == Const(Zero, 4)
Z64  == Const(Zero, 8)
ZT   == Const(Zero, 8)
NV16 == Const(NO_VAL, 2)
NV   == Const(NO_VAL, 4)
NV64 == Const(NO_VAL, 8)
Null == Const(Zero, 4)                  \* packnull: a string of length 0

\* A field that is read and not kept.
Skip16 == Item("skip", "", 2)
Skip32 == Item("skip", "", 4)

\* No bytes: the string f, which was read before, ends at its quotation mark, and
\* g is what is behind it.
Split(f, g) == [k |-> "split", f |-> f, w |-> 0, to |-> g]

\* n times the same item.
Rep(n, i) == [j \in 1..n |-> i]

\* What a pack function packs for an object, and for NULL; Always has no
\* test for NULL.
Object(full, null) == [full |-> full, null |-> null]
Always(full)       == [full |-> full, null |-> full]

\* A list: a count and the elements.  Packing, "none" is the count written
\* for a NULL list; unpacking, the counts for which no list is made.
List(f, none, of)   == [k |-> "list", f |-> f, w |-> 4, of |-> of, none |-> none]
Strs(f)             == List(f, {NO_VAL}, <<Str("")>>)
Recs(f, obj)        == List(f, {NO_VAL}, obj.full)
\* The elements are unpacked by a function whose error the caller heeds or
\* does not heed.
Call(f, of)         == Nested("call", f, of)
Unchecked(f, of)    == Nested("unchecked", f, of)
RecsOf(f, of)       == List(f, {NO_VAL}, <<Call("", of)>>)

\* pack16_array, pack32_array, packstr_array.
Array16(f)  == List(f, {Zero}, <<U16("")>>)
Array32(f)  == List(f, {Zero}, <<U32("")>>)
StrArray(f) == List(f, {Zero}, <<Str("")>>)

\* A nested object that may be NULL, and one that is part of its owner.
Rec(f, obj)  == [k |-> "rec", f |-> f, w |-> 0, of |-> obj.full, null |-> obj.null]
Part(f, obj) == Nested("part", f, obj.full)

\* RPC version 2 sends the first element of some lists, as a number or a
\* string.
First32(f)  == Item("first", f, 4)
FirstStr(f) == Item("firststr", f, 4)

\* An unpack function that calls the pack function: the bytes that were
\* received are overwritten and skipped.
Overwritten(f, obj) == Nested("overwritten", f, obj.full)

\* A count that a later Loop goes by, and the Loop.
Count(f)     == [k |-> "count", f |-> f, w |-> 4, none |-> {}]
Count16(f)   == [k |-> "count", f |-> f, w |-> 2, none |-> {}]
Loop(of)     == Nested("loop", "", of)
\* Items that are there when the count before them is not 0.
Some(of)     == Nested("some", "", of)

\* A number of 16 bits, and items that follow when it is not 0, or when it is.
\* Packing, they are there when the objects within the message are.
When(f, of)   == Nested("when", f, of)
Unless(f, of) == Nested("unless", f, of)
When8(f, of)  == [When(f, of) EXCEPT !.w = 1]

-----------------------------------------------------------------------------
(* Packing.                                                                 *)

\* pack16, pack32, pack64, pack_time, packdouble: w bytes of a value.
Bytes(x, w) == [j \in 1..w |-> IF x = Zero THEN <<x, 1, 1>> ELSE <<x, w, j>>]

\* packmem: the length, then the bytes.
Packed(x) == Bytes(<<"length">>, 4) \o Bytes(x, StrLen)

\* The value of a string, and its two parts when it has a quotation mark.
Text(p, str)   == IF str = "text" THEN p ELSE Append(p, str)
Before(p)      == Append(p, "before")
Behind(p)      == Append(p, "behind")
BadName        == <<"bad_name">>

\* The count of a list or of an array, as it is packed.
ListCount(i, sh) ==
    IF sh.list = "NULL" /\ i.none # {} THEN CHOOSE c \in i.none : TRUE
    ELSE IF sh.list = "NULL" THEN Zero ELSE <<sh.list>>

\* Does the receiver hear of the list itself?  An empty list is as good as
\* none, except where a count says that there is none.
Made(i, c) == c \notin i.none /\ (c # Zero \/ Minus1 \in i.none)

Elements(sh) == CASE sh.list = "1" -> 1 [] sh.list = "2" -> 2 [] OTHER -> 0

Path(path, i) == IF i.f = "" THEN path ELSE Append(path, i.f)

\* The bytes of the items, and the pairs of a field and its value that the
\* receiver should get.
RECURSIVE Pack(_, _, _)
PackItem(i, sh, path) ==
    LET p     == Path(path, i)
        n     == Elements(sh)
        one   == Pack(i.of, sh, IF i.k \in {"when", "unless"} THEN path ELSE p)
        Empty == [wire |-> <<>>, sent |-> <<>>]
        Times == CASE n = 0 -> Empty
                   [] n = 1 -> one
                   [] n = 2 -> [wire |-> one.wire \o one.wire, sent |-> one.sent \o one.sent]
        Plain(b) == [wire |-> b, sent |-> <<<<p, p>>>>]
        c     == ListCount(i, sh)
    IN  CASE i.k = "const" -> [wire |-> Bytes(i.v, i.w), sent |-> <<>>]
          [] i.k = "num"   -> Plain(Bytes(p, i.w))
          [] i.k = "checked" -> Plain(Packed(p))
          [] i.k = "str"   -> IF i.f = "" THEN Plain(Packed(p))
                              ELSE IF sh.str = "NULL" THEN [wire |-> Bytes(Zero, 4), sent |-> <<>>]
                              ELSE [wire |-> Packed(Text(p, sh.str)),
                                    sent |-> <<<<p, Text(p, sh.str)>>>>]
          [] i.k = "list"  -> [wire |-> Bytes(c, 4) \o Times.wire,
                               sent |-> (IF Made(i, c) THEN <<<<p, c>>>> ELSE <<>>)
                                        \o Times.sent]
          [] i.k = "count" -> [wire |-> Bytes(c, i.w), sent |-> <<<<p, c>>>>]
          [] i.k = "loop"  -> Times
          [] i.k = "some"  -> IF n = 0 THEN Empty ELSE one
          [] i.k = "rec"   -> IF (path = <<>> /\ sh.top) \/ (path # <<>> /\ sh.sub)
                              THEN one ELSE Pack(i.null, sh, p)
          [] i.k \in {"part", "call"} -> one
          [] i.k = "when"  -> IF sh.sub THEN [wire |-> Bytes(p, i.w) \o one.wire,
                                              sent |-> <<<<p, p>>>> \o one.sent]
                              ELSE [wire |-> Bytes(Zero, i.w), sent |-> <<>>]
          [] i.k = "unless" -> IF sh.sub THEN [one EXCEPT !.wire = Bytes(Zero, i.w) \o @]
                               ELSE Plain(Bytes(p, i.w))
          [] i.k = "first" -> IF n = 0 THEN [wire |-> Bytes(NO_VAL, 4), sent |-> <<>>]
                              ELSE Plain(Bytes(p, 4))
          [] i.k = "firststr" -> IF n = 0 THEN [wire |-> Bytes(Zero, 4), sent |-> <<>>]
                                 ELSE Plain(Packed(p))
Pack(items, sh, path) ==
    IF items = <<>> THEN [wire |-> <<>>, sent |-> <<>>]
    ELSE LET a == PackItem(Head(items), sh, path)
             b == Pack(Tail(items), sh, path)
         IN  [wire |-> a.wire \o b.wire, sent |-> a.sent \o b.sent]

-----------------------------------------------------------------------------
(* Unpacking.  r: pos, the bytes read so far; rc, "ok" or the reason the    *)
(* function gave up ("short": the buffer ended; "lost": a length or a count *)
(* was made of bytes that are neither, the reader has lost its place); got, *)
(* pairs of the field that was set and the value it was given; mem, the      *)
(* fields for which a string, a list or an array was allocated; n, the      *)
(* count read last.                                                         *)

Start == [pos |-> 0, rc |-> "ok", got |-> <<>>, mem |-> {}, n |-> 0]

\* The value that w bytes stand for.
Garbage == <<"garbage">>
Value(b) == LET x == b[1][1] IN IF b = Bytes(x, Len(b)) THEN x ELSE Garbage

\* unpack16 ... unpack_time: w bytes, or an error when fewer remain.
Take(r, w, wire) ==
    IF Len(wire) - r.pos < w THEN [r |-> [r EXCEPT !.rc = "short"], x |-> Garbage]
    ELSE [r |-> [r EXCEPT !.pos = @ + w], x |-> Value(SubSeq(wire, r.pos + 1, r.pos + w))]

\* unpackmem_xmalloc: NULL for the length 0.
TakeStr(r, wire) ==
    LET t == Take(r, 4, wire)
    IN  CASE t.r.rc # "ok"        -> t
          [] t.x = Zero           -> t
          [] t.x = <<"length">>   -> Take(t.r, StrLen, wire)
          [] OTHER                -> [t EXCEPT !.r.rc = "lost"]

\* The counts a list of a message can have.
Number(x) == CASE x = Zero -> 0 [] x = <<"1">> -> 1 [] x = <<"2">> -> 2 [] OTHER -> -1

\* A field is set; what an allocated field is set to is memory of the receiver.
Set(t, p, x) == IF t.rc = "ok" /\ x \notin Consts THEN [t EXCEPT !.got = Append(@, <<p, x>>)] ELSE t
Keep(t, p, x) == IF t.rc = "ok" /\ x \notin Consts THEN [Set(t, p, x) EXCEPT !.mem = @ \cup {p}] ELSE t

\* What becomes of the string p when it is split: nothing without a quotation mark;
\* with several no part can be told; strchr of NULL is the end of the reader.
SplitString(r, p, q) ==
    LET n    == {k \in DOMAIN r.got : r.got[k][1] = p}
        Is(x) == [k \in DOMAIN r.got |-> IF k \in n THEN <<p, x>> ELSE r.got[k]]
    IN  CASE n = {} -> [r EXCEPT !.rc = "crashed"]
          [] \E k \in n : r.got[k][2] = Text(p, "one quote") ->
               Keep([r EXCEPT !.got = Is(Before(p))], q, Behind(p))
          [] \E k \in n : r.got[k][2] = Text(p, "quotes") -> [r EXCEPT !.got = Is(BadName)]
          [] OTHER -> r

RECURSIVE Unpack(_, _, _, _), Repeat(_, _, _, _, _)
UnpackItem(i, wire, path, r) ==
    LET p == Path(path, i)
        t == Take(r, i.w, wire)
        s == TakeStr(r, wire)
        m == Number(t.x)
    IN  CASE i.k = "num"  -> Set(t.r, p, t.x)
          [] i.k = "skip" -> t.r
          [] i.k = "split" -> SplitString(r, p, Append(path, i.to))
          [] i.k = "checked" -> Set(s.r, p, s.x)
          [] i.k \in {"str", "firststr"} -> Keep(s.r, p, s.x)
          [] i.k = "first" -> Keep(t.r, p, t.x)
          [] i.k \in {"list", "count"} /\ t.r.rc # "ok" -> t.r
          [] i.k \in {"list", "count"} /\ t.x \in i.none -> t.r
          [] i.k \in {"list", "count"} /\ m < 0 -> [t.r EXCEPT !.rc = "lost"]
          [] i.k = "list" /\ ~Made(i, t.x) -> Repeat(m, i.of, wire, p, t.r)
          [] i.k = "list" /\ Made(i, t.x) ->
                 Repeat(m, i.of, wire, p, [t.r EXCEPT !.got = Append(@, <<p, t.x>>),
                                                      !.mem = @ \cup {p}])
          [] i.k = "count" -> [t.r EXCEPT !.n = m, !.got = Append(@, <<p, t.x>>)]
          [] i.k = "loop"  -> Repeat(r.n, i.of, wire, p, r)
          [] i.k = "some"  -> IF r.n = 0 THEN r ELSE Unpack(i.of, wire, p, r)
          [] i.k \in {"when", "unless"} /\ (i.k = "when") = (t.x = Zero) -> Set(t.r, p, t.x)
          [] i.k \in {"when", "unless"} /\ (i.k = "when") # (t.x = Zero) ->
                 Unpack(i.of, wire, path, Set(t.r, p, t.x))
          [] i.k = "call"  -> Unpack(i.of, wire, p, r)
          [] i.k = "unchecked" -> [Unpack(i.of, wire, p, r) EXCEPT !.rc = "ok"]
          [] i.k = "overwritten" ->
                 [r EXCEPT !.pos = @ + Len(Pack(i.of, [top |-> TRUE, sub |-> TRUE, list |-> "0",
                                                       str |-> "text"], p).wire)]
\* The first error ends the function (goto unpack_error).
Unpack(items, wire, path, r) ==
    IF items = <<>> \/ r.rc # "ok" THEN r
    ELSE Unpack(Tail(items), wire, path, UnpackItem(Head(items), wire, path, r))
Repeat(m, items, wire, path, r) ==
    IF m = 0 \/ r.rc # "ok" THEN r
    ELSE Repeat(m - 1, items, wire, path, Unpack(items, wire, path, r))
=============================================================================
