----------------------------- MODULE CacheFormat -----------------------------
(***************************************************************************)
(* How an example is written to a cache and read back (cache.cc, the cache *)
(* half of simple_label.cc).  A cell is a float, a size_t or a byte.  The  *)
(* widths are parameters: in the code a word has 32 bits, a run-length     *)
(* digit 7, a feature is allotted 6 bytes and an index has at most 29      *)
(* bits: with its sign and two flags a difference just fits in a word.     *)
(***************************************************************************)
EXTENDS Integers, Sequences, SequencesExt, Bits

CONSTANTS
  WordBits,    \* the width of int32_t and uint32_t
  DigitBits,   \* the bits a cell of a run-length number carries
  IntSize,     \* int_size: the cells allotted to a number
  MaxBits      \* the largest num_bits parse_args accepts

ASSUME WidthAssumption ==
  /\ {WordBits, DigitBits, IntSize, MaxBits} \subseteq Nat \ {0}
  /\ IntSize * DigitBits >= WordBits
  /\ MaxBits + 3 <= WordBits

Word == Pow2[WordBits]
Base == Pow2[DigitBits]
neg_1 == 1
general == 2

-----------------------------------------------------------------------------
(* Numbers.                                                                *)

\* Every digit but the last carries the high bit.
RunLenEncode(i) ==
  LET encode[n \in 0 .. i] ==
        IF n < Base THEN <<n>> ELSE <<(n % Base) + Base>> \o encode[n \div Base]
  IN  encode[i]

\* The digits at the front of cells, the lowest first; the result is cut to a
\* word when it is stored in weight_index.
RunLength(cells) ==
  CHOOSE n \in 1 .. Len(cells) :
    cells[n] < Base /\ \A i \in 1 .. n - 1 : cells[i] >= Base
RunLenDecode(cells) ==
  LET n == RunLength(cells)
      highest[k \in 0 .. n] ==
        IF k = 0 THEN 0 ELSE (cells[(n + 1) - k] % Base) + (Base * highest[k - 1])
  IN  highest[n] % Word

\* The slip: n and -n are the same.
Unsigned(n) == (IF n >= 0 THEN 2 * n ELSE -2 * n) % Word

\* Signed differences, small ones of either sign to small numbers.
ZigZagEncode(n) == (IF n >= 0 THEN 2 * n ELSE -2 * n - 1) % Word
ZigZagDecode(n) == IF n % 2 = 0 THEN n \div 2 ELSE -((n + 1) \div 2)

-----------------------------------------------------------------------------
(* The features of a namespace: differences of indices, two flag bits.     *)

IsUnit(x) == x \in {1, -1}
Flag(x) == CASE x = 1 -> 0 [] x = -1 -> neg_1 [] OTHER -> general

FeatureCells(last, f) ==
  RunLenEncode(((ZigZagEncode(f.weight_index - last) * 4) % Word) + Flag(f.x))
    \o (IF IsUnit(f.x) THEN <<>> ELSE <<f.x>>)

Last0(fs, i) == IF i = 1 THEN 0 ELSE fs[i - 1].weight_index

Body(fs) == FlattenSeq([i \in 1 .. Len(fs) |-> FeatureCells(Last0(fs, i), fs[i])])

\* The slip: the values are not counted.
NumbersOnly(fs) == Len(fs) * IntSize

\* What output_features asks buf_write for, and what it writes there: the
\* index, the size of the body, the body.
Storage(fs) == Len(fs) * IntSize + Cardinality({i \in DOMAIN fs : ~IsUnit(fs[i].x)})
OutputFeatures(ns, fs) ==
  [room |-> 2 + Storage(fs), cells |-> <<ns, Len(Body(fs))>> \o Body(fs)]

\* A round of the loop of read_cached_features: the feature at the front of
\* cells, whose index is a difference to `last`, and what is behind it.
DecodeFeature(cells, last) ==
  LET n    == RunLength(cells)
      word == RunLenDecode(cells)
      diff == ZigZagDecode(word \div 4)
      taken == IF word % 4 = general THEN n + 1 ELSE n
  IN  [x |-> CASE word % 2 = neg_1 -> -1
               [] word % 4 = general -> cells[n + 1]
               [] OTHER -> 1,
       weight_index |-> last + diff,
       backwards |-> diff < 0,
       behind |-> SubSeq(cells, taken + 1, Len(cells))]

-----------------------------------------------------------------------------
(* The pieces of an example, in the order they are written.  Each is one   *)
(* buf_write.                                                              *)

CacheLabel(ae) == [room |-> 2, cells |-> <<ae.label, ae.weight>>]

CacheTag(ae) == [room |-> 1 + Len(ae.tag), cells |-> <<Len(ae.tag)>> \o ae.tag]
\* c_memcpy of the tag ends the program when there is nothing to copy.
CannotCache(ae) == ae.tag = <<>>

OutputByte(n) == [room |-> 1, cells |-> <<n>>]

CacheFeatures(ae) ==
  <<CacheTag(ae), OutputByte(Len(ae.indices))>>
    \o [i \in 1 .. Len(ae.indices) |->
          OutputFeatures(ae.indices[i], ae.atomics[ae.indices[i]])]

CacheExample(ae) == <<CacheLabel(ae)>> \o CacheFeatures(ae)
=============================================================================
