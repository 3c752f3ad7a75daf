------------------------------ MODULE MCInput ------------------------------
(* Lines, texts and sessions for the input path.                           *)
EXTENDS InputPath

Hashes == [ns \in Namespaces |-> ns + 1]

F(name, x) == [name |-> name, x |-> x]
In(ns, scale, words) == [ns |-> ns, scale |-> scale, words |-> words]

\* 1: tagged and weighted, from the last index back to the first.  2: all that
\* a label can have, a namespace twice, a feature twice with different values,
\* the anonymous namespace.  3: no label and no tag.  4: a value that is no
\* number.  5: one feature.  6: no tag; five words.  7: in order, but not once
\* a bit is masked.
TheLines ==
  <<[bar |-> FALSE, words |-> <<2, 3, 7>>, touching |-> TRUE,
     channels |-> <<In(2, 2, <<F(4, 1), F(5, 1)>>)>>],
    [bar |-> FALSE, words |-> <<-1, 1, 5, 6>>, touching |-> TRUE,
     channels |-> <<In(2, 1, <<F(3, -1)>>), In(1, 1, <<F(5, 1)>>),
                    In(2, -1, <<F(4, 1), F(3, -1)>>)>>],
    [bar |-> TRUE, words |-> <<>>, touching |-> FALSE,
     channels |-> <<In(2, 1, <<F(1, 1)>>)>>],
    [bar |-> FALSE, words |-> <<1, 6>>, touching |-> TRUE,
     channels |-> <<In(2, 1, <<F(1, NaN)>>)>>],
    [bar |-> FALSE, words |-> <<1, 8>>, touching |-> TRUE,
     channels |-> <<In(1, 1, <<F(2, 1)>>)>>],
    [bar |-> FALSE, words |-> <<1>>, touching |-> FALSE,
     channels |-> <<In(2, 1, <<F(1, 1), F(2, 1), F(3, 1), F(4, 1), F(7, 1)>>),
                    In(1, 1, <<F(2, 1)>>)>>],
    [bar |-> FALSE, words |-> <<2, 9>>, touching |-> TRUE,
     channels |-> <<In(2, 1, <<F(0, 1), F(1, 1)>>), In(1, 3, <<F(1, 2)>>)>>]>>

\* global.add_constant is set nowhere.
Plain == [caches |-> <<"a">>, bits |-> 3, sort |-> FALSE, ngram |-> 1, skips |-> 0,
          ignore |-> {}, add_constant |-> FALSE, stride |-> 1, partition_bits |-> 0,
          passes |-> 1, writable |-> TRUE]

\* A cache is written and read, by the same session and by one that takes its
\* bits from the cache.
WriteRead == <<[Plain EXCEPT !.passes = 2], [Plain EXCEPT !.bits = 0]>>
\* A cache of fewer bits is rebuilt, one of more is masked.
OtherBitsEach == <<[Plain EXCEPT !.bits = 2], Plain, [Plain EXCEPT !.bits = 2]>>
\* Sorted features for two threads, with room for per-feature state.
SortThreads == <<[Plain EXCEPT !.sort = TRUE, !.stride = 2, !.partition_bits = 2,
                               !.passes = 2]>>
\* The cache holds what is ignored, and no n-grams.
GramsCached == <<[Plain EXCEPT !.ngram = 2, !.skips = 2, !.ignore = {1}, !.passes = 2],
                 Plain>>
\* Two caches.
TwoCaches == <<Plain, [Plain EXCEPT !.caches = <<"a", "b">>], 
               [Plain EXCEPT !.caches = <<"a", "b">>, !.passes = 2]>>
\* Text only, with n-grams and an ignored namespace.
GramsOnly == <<[Plain EXCEPT !.caches = <<>>, !.ngram = 3, !.skips = 1, !.ignore = {1}]>>
\* The directory cannot be written: one pass works, two do not.
ReadOnly == <<[Plain EXCEPT !.writable = FALSE, !.passes = 2], 
              [Plain EXCEPT !.writable = FALSE]>>

Scenario(text, sessions, old) == [text |-> text, sessions |-> sessions, old |-> old]

AllScenarios ==
  {Scenario(<<1, 0, 2, 0, 7>>, WriteRead, {}),
   Scenario(<<7, 0, 1, 0>>, OtherBitsEach, {}),
   Scenario(<<2, 0, 5, 0>>, GramsCached, {}),
   Scenario(<<5, 0, 1, 0, 0, 2, 0>>, OtherBitsEach, {"a"}),
   Scenario(<<2, 0, 1>>, SortThreads, {}),
   Scenario(<<1, 0, 2, 0>>, SortThreads, {"a"}),
   Scenario(<<7, 0>>, TwoCaches, {}),
   Scenario(<<6, 0, 3, 0>>, GramsOnly, {}),
   Scenario(<<3, 0>>, WriteRead, {}),
   Scenario(<<5, 0, 4, 0>>, GramsOnly, {}),
   Scenario(<<5, 0, 5, 0>>, ReadOnly, {})}
=============================================================================
