---------------------------- MODULE ExampleSetup ----------------------------
(***************************************************************************)
(* What parser.cc does to an example before and after its reader: the slot *)
(* is cleared, the features are sorted, n-grams are added, and             *)
(* setup_example drops and adds namespaces, makes room for per-feature     *)
(* state and cuts every namespace at the boundaries of the threads.        *)
(***************************************************************************)
EXTENDS Integers, Sequences, SequencesExt, Bits

CONSTANTS
  ConstantNamespace,   \* constant_namespace
  Constant,            \* the hash of the constant feature
  QuadraticConstant    \* the multiplier of addgrams

\* parse_atomic_example, before the reader: what the last example listed.
Clear(ae) ==
  [ae EXCEPT
     !.atomics = [ns \in DOMAIN ae.atomics |->
                    IF ns \in ToSet(ae.indices) THEN <<>> ELSE ae.atomics[ns]],
     !.subsets = [ns \in DOMAIN ae.subsets |->
                    IF ns \in ToSet(ae.indices) THEN <<>> ELSE ae.subsets[ns]],
     !.indices = <<>>, !.tag = <<>>, !.sorted = FALSE]

\* Every namespace of the example with its features as given.
WithAtomics(ae, features) ==
  [ae EXCEPT !.atomics = [ns \in DOMAIN ae.atomics |->
                            IF ns \in ToSet(ae.indices) THEN features[ns] ELSE @[ns]]]

-----------------------------------------------------------------------------
(* unique_sort_features.                                                   *)

\* Every index once, in order, with the value of one of the features that
\* had it: qsort is not stable.
IndicesIn(fs) == {f.weight_index : f \in ToSet(fs)}
Increasing(fs) == \A i \in 1 .. Len(fs) - 1 : fs[i].weight_index < fs[i + 1].weight_index
UniqueSorted(fs) ==
  {sorted \in [1 .. Cardinality(IndicesIn(fs)) -> ToSet(fs)] :
     Increasing(sorted) /\ IndicesIn(sorted) = IndicesIn(fs)}

UniqueSortFeatures(ae) ==
  {[ae EXCEPT !.sorted = TRUE, !.atomics = atomics] :
     atomics \in {a \in [DOMAIN ae.atomics ->
                           UNION {UniqueSorted(ae.atomics[ns]) : ns \in DOMAIN ae.atomics}] :
                    \A ns \in DOMAIN ae.atomics : a[ns] \in UniqueSorted(ae.atomics[ns])}}

-----------------------------------------------------------------------------
(* generateGrams.  A gram mask lists the offsets of the features joined.   *)

\* The slip: what was skipped before one feature is skipped before the next again.
RepeatedSkips(n, skip_gram, mask, skipped) ==
  LET masks[i \in Nat, skips \in Nat, m \in Seq(Nat), s \in Nat] ==
        IF i = 0 THEN <<m>>
        ELSE masks[i - 1, skips, Append(m, Last(m) + 1 + s), s]
               \o (IF skips > 0 THEN masks[i, skips - 1, m, s + 1] ELSE <<>>)
  IN  masks[n, skip_gram, mask, skipped]

\* addgrams: a mask that is long enough is used; one that is not is extended
\* past `skipped` features, or one more of them is skipped.
GramMasks(n, skip_gram, mask, skipped) ==
  LET masks[p \in (0 .. n) \X (0 .. skip_gram) \X (Seq(Nat) \ {<<>>}) \X Nat] ==
        LET i     == p[1]
            skips == p[2]
            m     == p[3]
            s     == p[4]
        IN  IF i = 0 THEN <<m>>
            ELSE masks[<<i - 1, skips, Append(m, Last(m) + 1 + s), 0>>]
                   \o (IF skips > 0 THEN masks[<<i, skips - 1, m, s + 1>>] ELSE <<>>)
  IN  masks[<<n, skip_gram, mask, skipped>>]

Joined(fs, mask, i) ==
  FoldLeft(LAMBDA index, offset : (index * (1 + QuadraticConstant))
                                    + fs[i + offset].weight_index,
           fs[i].weight_index, Tail(mask))

GramsOf(fs, mask, weightMask) ==
  [i \in 1 .. (IF Last(mask) < Len(fs) THEN Len(fs) - Last(mask) ELSE 0) |->
     [x |-> 1, weight_index |-> Joined(fs, mask, i) % (weightMask + 1)]]

MasksFor(ngram, skips) ==
  FlattenSeq([n \in 1 .. ngram - 1 |-> GramMasks(n, skips, <<0>>, 0)])

GenerateGrams(ae, ngram, skips, weightMask) ==
  LET masks == MasksFor(ngram, skips)
      grams(fs) == FlattenSeq([m \in DOMAIN masks |-> GramsOf(fs, masks[m], weightMask)])
  IN  WithAtomics(ae, [ns \in ToSet(ae.indices) |-> ae.atomics[ns] \o grams(ae.atomics[ns])])

-----------------------------------------------------------------------------
(* setup_example.                                                          *)

\* An ignored namespace is emptied as well as unlisted.
NotIgnored(indices, ignore) ==
  FoldLeft(LAMBDA kept, ns : IF ns \in ignore THEN kept ELSE Append(kept, ns), <<>>, indices)
DropIgnored(ae, ignore) ==
  [ae EXCEPT !.atomics = [ns \in DOMAIN ae.atomics |->
                            IF ns \in ignore /\ ns \in ToSet(ae.indices)
                              THEN <<>> ELSE ae.atomics[ns]],
             !.indices = NotIgnored(@, ignore)]

AddConstant(ae, weightMask) ==
  [ae EXCEPT !.indices = Append(@, ConstantNamespace),
             !.atomics[ConstantNamespace] =
                Append(@, [x |-> 1, weight_index |-> Constant % (weightMask + 1)])]

Strided(ae, stride) ==
  WithAtomics(ae, [ns \in ToSet(ae.indices) |->
    [i \in DOMAIN ae.atomics[ns] |->
       [ae.atomics[ns][i] EXCEPT !.weight_index = @ * stride]]])

\* The slip: an index on the boundary is left to the thread before it.
SearchPast(fs, begin, value, end) ==
  LET search[b \in Nat, e \in Nat] ==
        LET middle == b + ((e - b) \div 2)
        IN  IF e - b <= 1 THEN IF fs[b].weight_index > value THEN b ELSE e
            ELSE IF fs[middle].weight_index > value THEN search[b, middle]
            ELSE search[middle, e]
  IN  search[begin, end]

\* search between positions begin and end (not included), as the code halves
\* it: right for a sorted sequence, some position for any other.
Search(fs, begin, value, end) ==
  LET search[p \in (begin .. end) \X (begin .. end)] ==
        LET b      == p[1]
            e      == p[2]
            middle == b + ((e - b) \div 2)
        IN  IF e - b <= 1 THEN IF fs[b].weight_index >= value THEN b ELSE e
            ELSE IF fs[middle].weight_index >= value THEN search[<<b, middle>>]
            ELSE search[<<middle, e>>]
  IN  search[<<begin, end>>]
Find(fs, begin, value) ==
  IF begin > Len(fs) THEN begin ELSE Search(fs, begin, value, Len(fs) + 1)

\* A thread's share of the weights.  With more partitions than weights it is
\* 0 and the loop over the boundaries does not end.
ExpertSize(length, stride, partition_bits) ==
  stride * (length \div Pow2[partition_bits])

Cut(fs, length, stride, partition_bits) ==
  LET size == ExpertSize(length, stride, partition_bits)
  IN  FoldLeft(LAMBDA cuts, t : Append(cuts, Find(fs, Last(cuts), t * size)),
               <<1>>, [t \in 1 .. (length * stride) \div size |-> t])

SetupExample(ae, opt, weightMask) ==
  LET kept    == DropIgnored(ae, opt.ignore)
      whole   == IF opt.add_constant THEN AddConstant(kept, weightMask) ELSE kept
      strided == IF opt.stride = 1 THEN whole ELSE Strided(whole, opt.stride)
  IN  [strided EXCEPT
         !.subsets = [ns \in DOMAIN ae.atomics |->
           IF ns \in ToSet(strided.indices)
             THEN Cut(strided.atomics[ns], weightMask + 1, opt.stride, opt.partition_bits)
             ELSE ae.subsets[ns]]]
=============================================================================
