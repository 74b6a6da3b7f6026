------------------------------ MODULE Bitstring ------------------------------
(***************************************************************************)
(* Bit strings (common/bitstring.c), which jobs, partitions and credentials *)
(* keep their nodes and cores in.                                           *)
(*                                                                         *)
(* A bit string has nbits bits in whole words.  on is the set of bits that   *)
(* are one in those words, the bits past nbits of the last word included:    *)
(* bit_not and bit_realloc leave them with any value, and the calls that     *)
(* look at whole words see them.                                            *)
(***************************************************************************)
EXTENDS Integers, SequencesExt, Bitwise

CONSTANTS
    WordBits,   \* the bits of a word: 32 in the code, 64 with USE_64BIT_BITSTR
    ByteBits,   \* the bits of a byte that memset writes
    Sizes,      \* the sizes a bit string is given by bit_alloc and bit_realloc
    Others      \* the bits of the second operand of a call with two

ASSUME BitstringAssumption ==
    /\ WordBits \in {4, 8} /\ WordBits % ByteBits = 0
    /\ Sizes \subseteq Nat \ {0}

VARIABLE bs
bvars == <<bs>>

-----------------------------------------------------------------------------
(* Words.                                                                   *)

_bit_word(bit) == bit \div WordBits
Words(n) == (n + WordBits - 1) \div WordBits
Held(n) == 0 .. Words(n) * WordBits - 1
Bits(b) == 0 .. b.nbits - 1

\* The value of word w.
Word(b, w) == FoldSet(LAMBDA bit, v : v + 2 ^ (bit % WordBits), 0, {bit \in b.on : _bit_word(bit) = w})

\* The first bit of every word the loops over whole words visit.
WordsOf(b) == 0 .. Words(b.nbits) - 1

bit_alloc(n) == [nbits |-> n, on |-> {}]
bit_test(b, bit) == bit \in b.on
bit_set(b, bit) == [b EXCEPT !.on = @ \cup {bit}]
bit_clear(b, bit) == [b EXCEPT !.on = @ \ {bit}]

\* The bits that bit_nset and bit_nclear write: one by one up to a byte, one by
\* one down to a byte, and the bytes between.
Written(start, stop) ==
    LET low   == {k \in start .. stop : \A j \in start .. k : j % ByteBits > 0}
        start2 == start + Cardinality(low)
        high  == {k \in start2 .. stop : \A j \in k .. stop : (j + 1) % ByteBits > 0}
        stop2 == stop - Cardinality(high)
        bytes == IF stop2 > start2 THEN start2 .. start2 + ((stop2 - start2 + 1) \div ByteBits) * ByteBits - 1 ELSE {}
    IN  low \cup high \cup bytes
bit_nset(b, start, stop) == [b EXCEPT !.on = @ \cup Written(start, stop)]
bit_nclear(b, start, stop) == [b EXCEPT !.on = @ \ Written(start, stop)]

\* bit_realloc: new words come with whatever the memory held.
bit_realloc(b, n, junk) ==
    LET moved == [nbits |-> n, on |-> (b.on \cap Held(n)) \cup (junk \cap (Held(n) \ Held(b.nbits)))]
    IN  IF n > b.nbits THEN bit_nclear(moved, b.nbits, n - 1) ELSE moved

-----------------------------------------------------------------------------
(* Searches.  The loops over bits give the first or the last that meets a    *)
(* condition; those over words pass over words of one value.                 *)

FirstOf(S) == IF S = {} THEN -1 ELSE Min(S)
LastOf(S)  == IF S = {} THEN -1 ELSE Max(S)

\* bit_ffc passes over words that equal BITSTR_MAXPOS, the number of the last
\* bit of a word.
BITSTR_MAXPOS == WordBits - 1
bit_ffc(b) == FirstOf({k \in Bits(b) : Word(b, _bit_word(k)) # BITSTR_MAXPOS /\ ~bit_test(b, k)})
bit_ffs(b) == FirstOf({k \in Bits(b) : Word(b, _bit_word(k)) # 0 /\ bit_test(b, k)})

\* bit_fls: the bits of a last word that is not full, then the full words.
bit_fls(b) ==
    LET n    == b.nbits
        part == {k \in Bits(b) : n % WordBits # 0 /\ _bit_word(k) = _bit_word(n)}
        found == {k \in part : bit_test(b, k)}
        full == Bits(b) \ part
    IN  IF found # {} THEN Max(found)
        ELSE LastOf({k \in full : Word(b, _bit_word(k)) # 0 /\ bit_test(b, k)})

\* The loops that count bits of one kind in a row, from first to last: where
\* the first row of n begins.
FirstRow(n, first, last, In(_)) ==
    FirstOf({k \in first .. last + 1 - n : \A j \in k .. k + n - 1 : In(j)})
bit_nffc(b, n) == FirstRow(n, 0, b.nbits - 1, LAMBDA k : ~bit_test(b, k))
bit_nffs(b, n) == FirstRow(n, 0, b.nbits - n, LAMBDA k : bit_test(b, k))

\* bit_noc: from the seed to the end, then from the beginning to the first bit
\* from the seed on that is set.
bit_noc(b, n, seed) ==
    LET from == IF seed + n >= b.nbits THEN b.nbits ELSE seed
        late == FirstRow(n, from, b.nbits - 1, LAMBDA k : ~bit_test(b, k))
        stop == Min({k \in from .. b.nbits - 1 : bit_test(b, k)} \cup {b.nbits})
    IN  IF late >= 0 THEN late ELSE FirstRow(n, 0, stop - 1, LAMBDA k : ~bit_test(b, k))

bit_fill_gaps(b) == IF bit_ffs(b) = -1 THEN b ELSE bit_nset(b, bit_ffs(b), bit_fls(b))

-----------------------------------------------------------------------------
(* Words of two bit strings of one size.                                    *)

\* bit_super_set: b1 has no bit that b2 lacks.
bit_super_set(b1, b2) == \A w \in WordsOf(b1) : Word(b1, w) = (Word(b1, w) & Word(b2, w))
bit_equal(b1, b2) == b1.nbits = b2.nbits /\ \A w \in WordsOf(b1) : Word(b1, w) = Word(b2, w)

bit_and(b1, b2) == [b1 EXCEPT !.on = @ \cap b2.on]
bit_not(b)      == [b EXCEPT !.on = Held(b.nbits) \ @]
bit_or(b1, b2)  == [b1 EXCEPT !.on = @ \cup b2.on]
bit_copybits(dest, src) == [dest EXCEPT !.on = src.on]

\* hweight: the ones of a word, added up in fields of 1, 2, 4, ... bits.
FieldMask(k) == FoldSet(LAMBDA i, v : v + 2 ^ i, 0, {i \in 0 .. WordBits - 1 : (i \div k) % 2 = 0})
hweight(word) ==
    FoldLeft(LAMBDA res, k : (res & FieldMask(k)) + (shiftR(res, k) & FieldMask(k)),
             word, IF WordBits = 4 THEN <<1, 2>> ELSE <<1, 2, 4>>)

\* Mutant: the last word is always counted whole.
FullWords_All(b) == WordsOf(b)

\* The words that are counted whole, and the bits after them.
FullWords(b) == {w \in WordsOf(b) : (w + 1) * WordBits - 1 < b.nbits}
Rest(b) == {k \in Bits(b) : _bit_word(k) \notin FullWords(b)}

bit_set_count(b) ==
    FoldSet(LAMBDA w, n : n + hweight(Word(b, w)), 0, FullWords(b))
        + Cardinality({k \in Rest(b) : bit_test(b, k)})
bit_overlap(b1, b2) ==
    FoldSet(LAMBDA w, n : n + hweight(Word(b1, w) & Word(b2, w)), 0, FullWords(b1))
        + Cardinality({k \in Rest(b1) : bit_test(b1, k) /\ bit_test(b2, k)})
bit_clear_count(b) == b.nbits - bit_set_count(b)

\* bit_nset_max_count: it stops at a clear bit with fewer bits left than the
\* longest row so far.
RECURSIVE MaxRow(_, _, _, _)
MaxRow(b, k, cnt, most) ==
    IF k = b.nbits THEN most
    ELSE LET c == IF bit_test(b, k) THEN cnt + 1 ELSE 0
             m == Max({c, most})
         IN  IF c = 0 /\ b.nbits - k < m THEN m ELSE MaxRow(b, k + 1, c, m)
bit_nset_max_count(b) == MaxRow(b, 0, 0, 0)

\* bit_pick_cnt: whole words while they fit, then bit by bit; NULL when there
\* are too few.
NoBits == [nbits |-> 0, on |-> {}]
RECURSIVE Picked(_, _, _, _)
Picked(b, n, bit, picked) ==
    LET w    == _bit_word(bit)
        ones == {k \in b.on : _bit_word(k) = w}
        rest == {k \in bit .. b.nbits - 1 : bit_test(b, k)}
        need == n - Cardinality(picked)
    IN  IF bit >= b.nbits \/ need <= 0 THEN picked
        ELSE IF ones = {} THEN Picked(b, n, bit + WordBits, picked)
        ELSE IF hweight(Word(b, w)) <= need /\ bit + WordBits - 1 < b.nbits
        THEN Picked(b, n, bit + WordBits, picked \cup ones)
        ELSE picked \cup {k \in rest : Cardinality({j \in rest : j < k}) < need}
bit_pick_cnt(b, n) ==
    LET p == Picked(b, n, 0, {})
    IN  IF b.nbits < n \/ Cardinality(p) < n THEN NoBits ELSE [nbits |-> b.nbits, on |-> p]

\* bit_rotate_copy into a bit string of nbits: the bits that do not wrap, then
\* those that do.
bit_rotate_copy(b, by, nbits) ==
    LET n    == by % nbits
        wrap == IF n > nbits - b.nbits THEN n - (nbits - b.nbits) ELSE 0
        up   == {k \in b.on : k < b.nbits - wrap}
        over == {k \in b.on : k \in b.nbits - wrap .. b.nbits - 1}
    IN  [nbits |-> nbits, on |-> {k + n : k \in up} \cup {k - (b.nbits - wrap) : k \in over}]
bit_rotate(b, n) == IF n = 0 THEN b ELSE bit_copybits(b, bit_rotate_copy(b, n, b.nbits))

\* bit_get_bit_num and bit_get_pos_num: the pos-th set bit, and back.
Ones(b) == {k \in Bits(b) : bit_test(b, k)}
bit_get_bit_num(b, pos) == FirstOf({k \in Ones(b) : Cardinality({j \in Ones(b) : j < k}) = pos})
bit_get_pos_num(b, bit) == IF bit_test(b, bit) THEN Cardinality({k \in Ones(b) : k <= bit}) - 1 ELSE -1

-----------------------------------------------------------------------------
(* Text.  A range text is the sequence of its ranges, a mask that of its     *)
(* digits, the digit of the highest bits first.                              *)

\* bit_fmt: from each set bit to the last of its row; a word of zeros is passed
\* over.
RECURSIVE Ranges(_, _)
Ranges(b, bit) ==
    IF bit >= b.nbits THEN <<>>
    ELSE IF Word(b, _bit_word(bit)) = 0 THEN Ranges(b, bit + WordBits)
    ELSE IF ~bit_test(b, bit) THEN Ranges(b, bit + 1)
    ELSE LET last == Max({k \in bit .. b.nbits - 1 : \A j \in bit .. k : bit_test(b, j)})
         IN  <<<<bit, last>>>> \o Ranges(b, last + 1)
bit_fmt(b) == Ranges(b, 0)

\* bit_unfmt and bitfmt2int: an empty text changes nothing, a bit past the end
\* stops the loop.
bit_unfmt(b, text) ==
    LET good == {n \in 0 .. Len(text) : \A i \in 1 .. n : text[i][1] < b.nbits /\ text[i][2] < b.nbits}
    IN  IF text = <<>> THEN b
        ELSE FoldLeft(LAMBDA a, r : bit_nset(a, r[1], r[2]), bit_nclear(b, 0, b.nbits - 1),
                      SubSeq(text, 1, Max(good)))

\* bit_fmt_hexmask has four bits to a digit, bit_fmt_binmask one.
DigitAt(b, i, width) ==
    FoldSet(LAMBDA k, v : v + 2 ^ k, 0, {k \in 0 .. width - 1 : i * width + k < b.nbits /\ bit_test(b, i * width + k)})
Mask(b, width) == LET n == (b.nbits + width - 1) \div width IN [i \in 1 .. n |-> DigitAt(b, n - i, width)]
bit_fmt_hexmask(b) == Mask(b, 4)
bit_fmt_binmask(b) == Mask(b, 1)

\* bit_unfmt_hexmask and bit_unfmt_binmask only set bits, of those there are.
Unmask(b, text, width) ==
    LET digit(k) == text[Len(text) - (k \div width)]
    IN  [b EXCEPT !.on = @ \cup {k \in Bits(b) : k \div width < Len(text)
                                                 /\ (digit(k) \div 2 ^ (k % width)) % 2 = 1}]
bit_unfmt_hexmask(b, text) == Unmask(b, text, 4)
bit_unfmt_binmask(b, text) == Unmask(b, text, 1)

-----------------------------------------------------------------------------
(* The calls that change a bit string.                                      *)

Operand(on) == [nbits |-> bs.nbits, on |-> on \cap Bits(bs)]

BitstringInit == \E n \in Sizes : bs = bit_alloc(n)

BitstringStep ==
    \/ \E k \in Bits(bs) : bs' = bit_set(bs, k)
    \/ \E k \in Bits(bs) : bs' = bit_clear(bs, k)
    \/ \E k, j \in Bits(bs) : k <= j /\ bs' = bit_nset(bs, k, j)
    \/ \E k, j \in Bits(bs) : k <= j /\ bs' = bit_nclear(bs, k, j)
    \/ \E n \in Sizes : \E junk \in SUBSET (Held(n) \ Held(bs.nbits)) : bs' = bit_realloc(bs, n, junk)
    \/ \E on \in Others : bs' = bit_and(bs, Operand(on))
    \/ \E on \in Others : bs' = bit_or(bs, Operand(on))
    \/ \E on \in Others : bs' = bit_copybits(bs, Operand(on))
    \/ bs' = bit_not(bs)
    \/ bs' = bit_fill_gaps(bs)
    \/ \E n \in {-1, 1, 2} : bs' = bit_rotate(bs, n)
    \/ \E on \in Others : bs' = bit_unfmt(bs, bit_fmt(Operand(on)))

-----------------------------------------------------------------------------
Clean(b) == b.on \subseteq Bits(b)
Rows(b, n, set) == {k \in 0 .. b.nbits - n : \A j \in k .. k + n - 1 : (j \in b.on) = set}
Image(b) == [nbits |-> b.nbits, on |-> Ones(b)]

\* Whatever is left in the unused bits of the last word, the calls that go by
\* whole words and bytes give what one bit after the other would: the counts,
\* the first and last bits, rows of bits, picks and rotations, and both text
\* forms are read back.  bit_ffc is right unless a word has the value
\* BITSTR_MAXPOS, bit_nffs for a row that ends n bits before the end,
\* bit_equal and bit_super_set when the unused bits are clear, and bit_unfmt
\* for a text that is not empty.
BitsAgree ==
    LET b    == bs
        ones == Ones(b)
        zero == Bits(b) \ ones
        none == bit_alloc(b.nbits)
    IN  /\ bit_ffs(b) = FirstOf(ones) /\ bit_fls(b) = LastOf(ones)
        /\ (\A w \in WordsOf(b) : Word(b, w) # BITSTR_MAXPOS) => bit_ffc(b) = FirstOf(zero)
        /\ bit_ffc(b) \in zero \cup {-1}
        /\ bit_set_count(b) = Cardinality(ones) /\ bit_clear_count(b) = Cardinality(zero)
        /\ bit_nset_max_count(b) = Max({n \in 0 .. b.nbits : n = 0 \/ Rows(b, n, TRUE) # {}})
        /\ Image(bit_fill_gaps(b)).on = {k \in Bits(b) : \E i, j \in ones : i <= k /\ k <= j}
        /\ \A n \in 1 .. b.nbits :
             /\ bit_nffs(b, n) = FirstOf({k \in Rows(b, n, TRUE) : k + n - 1 <= b.nbits - n})
             /\ n < b.nbits => bit_nffc(b, n) = FirstOf(Rows(b, n, FALSE))
             /\ \A seed \in Bits(b) :
                  LET at == bit_noc(b, n, seed)
                  IN  IF at = -1 THEN Rows(b, n, FALSE) = {} ELSE at \in Rows(b, n, FALSE)
             /\ LET p == bit_pick_cnt(b, n)
                IN  IF Cardinality(ones) < n THEN p = NoBits
                    ELSE p.on = {k \in ones : Cardinality({j \in ones : j < k}) < n}
        /\ \A by \in -b.nbits .. b.nbits, more \in {0, 1} :
             Image(bit_rotate_copy(b, by, b.nbits + more)).on = {(k + by) % (b.nbits + more) : k \in ones}
        /\ \A on \in Others :
             /\ bit_overlap(b, Operand(on)) = Cardinality(ones \cap on)
             /\ Clean(b) => /\ bit_super_set(b, Operand(on)) = (ones \subseteq on)
                            /\ bit_equal(b, Operand(on)) = (ones = on \cap Bits(b))
        /\ \A k \in ones : bit_get_bit_num(b, bit_get_pos_num(b, k)) = k
        /\ \A n \in 0 .. b.nbits - 1 : (bit_get_bit_num(b, n) = -1) = (n >= Cardinality(ones))
        /\ Image(bit_unfmt(none, bit_fmt(b))).on = ones
        /\ Image(bit_unfmt_hexmask(none, bit_fmt_hexmask(b))).on = ones
        /\ Image(bit_unfmt_binmask(none, bit_fmt_binmask(b))).on = ones
==============================================================================
