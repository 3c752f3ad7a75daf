------------------------------ MODULE Options ------------------------------
(***************************************************************************)
(* parse_args: from the command line to the settings of a run.  A command  *)
(* line o has `names`, the options given, and a field per option that has  *)
(* a value.  What the options mean for the input is in InputPath and       *)
(* ExampleRing, for the learners in GdPipeline; here are the sizes the     *)
(* threads and the weights share, and the choice of the driver.            *)
(***************************************************************************)
EXTENDS Integers, FiniteSetsExt, Bits

CONSTANTS
  DefaultRing,   \* ring_size when no minibatch needs more (1 << 8)
  DefaultBits,   \* num_bits when nothing says otherwise (18)
  MaxBits        \* the most bits --bit_precision may ask for (29)

ASSUME SizeAssumption == {DefaultRing, DefaultBits, MaxBits} \subseteq Nat

Given(o, name) == name \in o.names

-----------------------------------------------------------------------------
(* Sizes.                                                                  *)

NextPow2(x) == Pow2[Min({i \in 0 .. x : Pow2[i] >= x})]
LargestPow2(x) == Pow2[Max({i \in 0 .. x : Pow2[i] <= x})]

\* A whole minibatch is kept out of the ring.
RingOfDefault(o) == DefaultRing
Ring(o) == Max({DefaultRing, NextPow2(o.minibatch)})

\* What is kept per feature: topics, their exponentials and a time for LDA;
\* weight, derivative, direction and preconditioner for conjugate gradient;
\* weight and sum of squares for adaptive.  The last one asked for wins.
Stride(o) ==
  CASE Given(o, "lda") -> NextPow2(2 * o.lda + 1)
    [] ~Given(o, "lda") /\ Given(o, "conjugate_gradient") -> 4
    [] OTHER -> IF Given(o, "adaptive") THEN 2 ELSE 1

-----------------------------------------------------------------------------
(* find_split: the hosts of --sendto as a grid of d_1 by d_2, one row per  *)
(* part of the first features, one column per part of the second ones.     *)

FindSplit(number, pairs_exist) ==
  LET size  == LargestPow2(number)
      bits  == CHOOSE b \in 0 .. number : Pow2[b] = size
      other == IF pairs_exist THEN bits \div 2 ELSE 0
  IN  IF number <= 1 THEN [d_1 |-> 1, d_2 |-> 1, partition_bits |-> 0]
      ELSE [d_1 |-> Pow2[bits - other], d_2 |-> Pow2[other], partition_bits |-> bits]

-----------------------------------------------------------------------------

\* The options that end the program before it has touched a file.
Refused(o) ==
  \/ o.names = {} \/ Given(o, "help") \/ Given(o, "version")
  \/ Given(o, "conjugate_gradient") /\ o.passes < 2
  \/ Given(o, "ngram") /\ Given(o, "sort_features")
  \/ Given(o, "skips") /\ ~Given(o, "ngram")
  \/ Given(o, "bit_precision") /\ o.bits > MaxBits
  \* set_compressed deletes the buffers, whose lists of files are empty.
  \/ Given(o, "compressed")
  \* "quadratic features must involve two sets", but only if it is printed.
  \/ ~Given(o, "quiet") /\ \E i \in DOMAIN o.pairs : o.pairs[i] = "short"

\* parse_source_args: what it needs is in InputPath.  An existing cache that
\* was made with fewer bits than asked for is made again, from the text.
RebuildsCache(o) ==
  o.source = "cache" /\ Given(o, "bit_precision") /\ o.cache_bits < o.bits
Source(o) == IF RebuildsCache(o) THEN "text_to_cache" ELSE o.source
BitsOfSource(o) ==
  IF Given(o, "bit_precision") THEN o.bits
  ELSE IF o.source = "cache" THEN o.cache_bits ELSE DefaultBits
NeedsCache(o) == o.passes > 1 /\ o.source = "text"

\* The settings before the regressors are read.
Settings(o) ==
  [num_bits       |-> BitsOfSource(o),
   mask           |-> Pow2[BitsOfSource(o)] - 1,
   thread_bits    |-> o.thread_bits,
   partition_bits |-> o.thread_bits,
   stride         |-> Stride(o),
   ring_size      |-> Ring(o),
   source         |-> Source(o),
   lda            |-> IF Given(o, "lda") THEN o.lda ELSE 0,
   adaptive       |-> Given(o, "adaptive"),
   random_weights |-> Given(o, "random_weights") \/ Given(o, "lda"),
   initial_weight |-> o.initial_weight,
   pairs          |-> o.pairs,
   ngram          |-> IF Given(o, "ngram") THEN o.ngram ELSE 0,
   skips          |-> IF Given(o, "skips") THEN o.skips ELSE 0,
   training       |-> ~Given(o, "testonly"),
   regularized    |-> o.regularization > 0]

\* parse_send_args, after the regressors.
SplitForHosts(o, s) ==
  IF Given(o, "sendto")
    THEN [s EXCEPT !.partition_bits = FindSplit(o.hosts, s.pairs # <<>>).partition_bits]
    ELSE s

\* The driver vw() and vw_nb() call, the first of those asked for.
DriverOf(o, s) ==
  CASE Given(o, "sendto") -> "sender"
    [] ~Given(o, "sendto") /\ Given(o, "noop") -> "noop"
    [] OTHER -> IF Given(o, "naive_bayes") THEN "nb"
                ELSE IF Given(o, "conjugate_gradient") THEN "cg"
                ELSE IF s.lda > 0 THEN "lda" ELSE "gd"
=============================================================================
