------------------------------ MODULE LdaBatch ------------------------------
(***************************************************************************)
(* The merge_set of lda.cc: the features of a minibatch, a sorted run per  *)
(* namespace and example at first, merged like the runs of a merge sort    *)
(* until one is left.  start_lda goes through it once for each index, so   *)
(* equal indices must be neighbours.                                       *)
(***************************************************************************)
EXTENDS Integers, SequencesExt

Triple(document, weight_index) == [document |-> document, weight_index |-> weight_index]

Smaller(run, e) ==
  CHOOSE n \in 0 .. Len(run) :
    /\ \A i \in 1 .. n : run[i].weight_index < e.weight_index
    /\ n = Len(run) \/ run[n + 1].weight_index >= e.weight_index

\* The slip: the runs are not merged but joined.
JoinPair(source, dest) == dest \o source
MergePair(source, dest) ==
  LET TakeOne(m, e) ==
        LET n == Smaller(m.left, e)
        IN  [merged |-> m.merged \o SubSeq(m.left, 1, n) \o <<e>>,
             left   |-> SubSeq(m.left, n + 1, Len(m.left))]
      m == FoldLeft(TakeOne, [merged |-> <<>>, left |-> dest], source)
  IN  m.merged \o m.left

\* merge: the last two runs, while the last is more than half as long.
TooLong(merge_set) ==
  LET j == Len(merge_set)
  IN  j > 1 /\ 2 * Len(merge_set[j]) > Len(merge_set[j - 1])
MergeLast(merge_set) ==
  LET j == Len(merge_set)
  IN  SubSeq(merge_set, 1, j - 2) \o <<MergePair(merge_set[j], merge_set[j - 1])>>
Merge(merge_set) ==
  FoldLeft(LAMBDA m, n : IF TooLong(m) THEN MergeLast(m) ELSE m, merge_set, merge_set)

\* merge_all.  It takes index() - 1, an unsigned number, for the last run: there
\* has to be one.
MergeAll(merge_set) ==
  FoldLeft(MergePair, Last(merge_set), Reverse(Front(merge_set)))

\* merge_in: a new run for every namespace of the example.
MergeIn(merge_set, document, namespaces) ==
  Merge(merge_set \o
        [i \in DOMAIN namespaces |->
           [j \in DOMAIN namespaces[i] |-> Triple(document, namespaces[i][j])]])
=============================================================================
