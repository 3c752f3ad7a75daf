----------------------------- MODULE Regressor -----------------------------
(***************************************************************************)
(* parse_regressor.cc: the weights, one array per thread, and the files    *)
(* they are kept in.  A weight is a small integer.  A file is a record of  *)
(* the settings it was made with and of pairs of an index and a weight.    *)
(***************************************************************************)
EXTENDS Integers, SequencesExt, FiniteSetsExt, Bits

Zero == 0
One == 1              \* what adaptive starts from
RandomWeight == 5     \* drand48() - 0.5
TopicWeight == 6      \* what an LDA topic starts from
InitialT == 7         \* global.initial_t

NoWeights == <<>>     \* weight_vectors = NULL
NoFile == [version |-> "none"]
Current == "1.0"      \* the version this program writes and accepts

ThreadCount(s) == Pow2[s.thread_bits]
Length(s) == Pow2[s.num_bits]

\* initialize_regressor fills in what follows from bottom to top.
InitialValue(s, j) ==
  LET k == j % s.stride
  IN  IF s.adaptive /\ j >= 1 /\ (j - 1) % s.stride = 0 THEN One
      ELSE IF s.lda > 0 /\ k < s.lda THEN TopicWeight
      ELSE IF s.lda > 0 /\ k = s.lda THEN InitialT
      ELSE IF s.random_weights /\ j < Length(s) \div ThreadCount(s) THEN RandomWeight
      ELSE IF k = 0 THEN s.initial_weight ELSE Zero

InitializeRegressor(s) ==
  [t \in 0 .. ThreadCount(s) - 1 |->
     [j \in 0 .. ((s.stride * Length(s)) \div ThreadCount(s)) - 1 |-> InitialValue(s, j)]]

-----------------------------------------------------------------------------
(* dump_regressor                                                          *)

\* The weight of index i: the threads take turns, each skips its own stride.
WeightOf(s, w, i) == w[i % ThreadCount(s)][s.stride * (i \div ThreadCount(s))]

\* The k-th topic of index i.
TopicOf(s, w, i, k) == w[i % ThreadCount(s)][(s.stride * i + k) \div ThreadCount(s)]

\* Weights that are zero are not written, topics always are.
EntriesOf(s, w, i) ==
  IF s.lda > 0
    THEN [k \in 1 .. s.lda |-> <<s.stride * i + (k - 1), TopicOf(s, w, i, k - 1)>>]
  ELSE IF WeightOf(s, w, i) = Zero THEN <<>> ELSE <<<<i, WeightOf(s, w, i)>>>>
Entries(s, w) == FlattenSeq([n \in 1 .. Length(s) |-> EntriesOf(s, w, n - 1)])

Header(s) ==
  [version |-> Current, num_bits |-> s.num_bits, thread_bits |-> s.thread_bits,
   pairs |-> s.pairs, ngram |-> s.ngram, skips |-> s.skips, entries |-> <<>>]
Dump(s, w) == [Header(s) EXCEPT !.entries = Entries(s, w)]

\* The readable model has no binary version number in front.
Readable(model) == [model EXCEPT !.version = "text"]

-----------------------------------------------------------------------------
(* parse_regressor_args                                                    *)

\* The slip: an array of one thread has no room for the others.
PlaceUnstrided(s, h) == h \div ThreadCount(s)

\* Where in its thread's array a weight that was read goes.
Place(s, h) ==
  IF s.lda = 0 THEN (h * s.stride) \div ThreadCount(s) ELSE h \div ThreadCount(s)

\* Weights of several files are added up.
AddEntry(s, w, e) == [w EXCEPT ![e[1] % ThreadCount(s)][Place(s, e[1])] = @ + e[2]]
AddEntries(s, w, file) == FoldLeft(LAMBDA v, e : AddEntry(s, v, e), w, file.entries)

\* The first file sets what the features are made of; the bits of the input,
\* and with them the mask, have been chosen by then.
TakeHeader(s, file) ==
  [s EXCEPT !.num_bits = file.num_bits, !.thread_bits = file.thread_bits,
            !.partition_bits = file.thread_bits, !.pairs = file.pairs,
            !.ngram = file.ngram, !.skips = file.skips]
Begin(s) ==
  [s |-> s, weights |-> InitializeRegressor(s), initialized |-> TRUE, refused |-> FALSE]

Agrees(r, file) ==
  /\ file.num_bits = r.s.num_bits /\ file.thread_bits = r.s.thread_bits
  /\ file.pairs = r.s.pairs /\ file.ngram = r.s.ngram /\ file.skips = r.s.skips

\* A file that cannot be used ends the program.
Load(r, file) ==
  IF r.refused \/ file.version # Current \/ (r.initialized /\ ~Agrees(r, file))
    THEN [r EXCEPT !.refused = TRUE]
    ELSE LET q == IF r.initialized THEN r ELSE Begin(TakeHeader(r.s, file))
         IN  [q EXCEPT !.weights = AddEntries(q.s, @, file)]

\* With no file, noop and the sender have no weights at all.
ParseRegressorArgs(s, files, weightless) ==
  LET none   == [s |-> s, weights |-> NoWeights, initialized |-> FALSE, refused |-> FALSE]
      loaded == FoldLeft(Load, none, files)
  IN  IF files # <<>> \/ weightless THEN loaded
      ELSE [loaded EXCEPT !.weights = InitializeRegressor(s)]

\* The first characters of a readable model, if it is the first file that cannot
\* be used, are taken for the length of its version: the program dies of an array
\* of that many characters, before it has compared the versions.
ReadsTextAsLength(s, files, weightless) ==
  \E i \in DOMAIN files :
    /\ files[i].version = "text"
    /\ ~ParseRegressorArgs(s, SubSeq(files, 1, i - 1), weightless).refused

-----------------------------------------------------------------------------
(* What files say of an index (for the property LoadedWeights).            *)

ValueIn(file, h) ==
  LET found == {i \in DOMAIN file.entries : file.entries[i][1] = h}
  IN  IF found = {} THEN 0 ELSE file.entries[Max(found)][2]
SumOf(files, h) == FoldLeft(LAMBDA sum, file : sum + ValueIn(file, h), 0, files)
=============================================================================
