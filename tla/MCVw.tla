-------------------------------- MODULE MCVw --------------------------------
(* Command lines for the life of the program.                              *)
EXTENDS Vw

\* -d text -f m, two examples.
Plain ==
  [names |-> {"data"}, passes |-> 1, rounds |-> 1, items |-> 2, minibatch |-> 1, lda |-> 0,
   bits |-> 1, thread_bits |-> 0, ngram |-> 0, skips |-> 0, pairs |-> <<>>, hosts |-> 1,
   final |-> <<"m">>, readable |-> <<>>, initial |-> <<>>, source |-> "text",
   cache_bits |-> 1, initial_weight |-> 0, regularization |-> 1,
   arfx |-> <<>>, nb_model |-> ""]
With(o, more) == [o EXCEPT !.names = @ \cup more]
Then(o, name) == [o EXCEPT !.initial = <<name>>]

\* Trained by two threads with a sum of squares each, tested without, then two
\* copies added up; a readable model.
Threads == [With(Plain, {"adaptive"}) EXCEPT !.thread_bits = 1, !.items = 3]
ManyThreads ==
  <<Threads, Then(With(Plain, {"testonly"}), "m"),
    [Plain EXCEPT !.initial = <<"m", "m">>, !.final = <<"n">>, !.readable = <<"t">>]>>
\* One thread goes on training from its weights, then from others that disagree,
\* from a text and from nothing.
Adaptive == [With(Plain, {"adaptive", "bit_precision"}) EXCEPT !.bits = 2]
GoOn ==
  <<Adaptive, Then([Adaptive EXCEPT !.final = <<"n">>, !.readable = <<"t">>], "m"),
    [Plain EXCEPT !.final = <<"m">>],
    [Plain EXCEPT !.initial = <<"m", "n">>], Then(Plain, "t"), Then(Plain, "x")>>

Cg(passes) ==
  [With(Plain, {"conjugate_gradient"}) EXCEPT !.passes = passes,
                                              !.source = "text_to_cache"]
\* A second round begins when the first passes ended at --initial_pass_length.
CgRounds == [Cg(3) EXCEPT !.rounds = 2, !.regularization = 0]
CgOnce == [Cg(2) EXCEPT !.items = 1]

Lda(minibatch) ==
  [With(Plain, {"lda"}) EXCEPT !.lda = 1, !.minibatch = minibatch, !.items = 3,
                               !.passes = 2, !.source = "text_to_cache"]
LdaTwice == <<Lda(4), Then(Lda(3), "m")>>

NoLearning == [With(Plain, {"noop"}) EXCEPT !.final = <<>>]

\* A header with a feature that the input has under another key, one it has,
\* and two classes; the model of an earlier build.
Feature(key, type) == [kind |-> "feature", key |-> key, type |-> type]
Class == [kind |-> "class"]
Arfx == <<Feature(7, "nominal"), Feature(2, "nominal"), Class, Class>>
Nb == [With(Plain, {"naive_bayes", "arfx_path", "bit_precision"}) EXCEPT
         !.bits = 3, !.arfx = Arfx, !.nb_model = "nb", !.final = <<>>]
NbThreads == [Nb EXCEPT !.thread_bits = 1]
NoHeader == [NbThreads EXCEPT !.arfx = <<>>]
OldModel == ("nb" :> ModelFile(<<[att |-> 0, type |-> "numeric"], [att |-> 1, type |-> "nominal"],
                                 [att |-> 2, type |-> "numeric"]>>)) @@
            ("nominal" :> ModelFile(<<[att |-> 2, type |-> "nominal"]>>))
NaiveBayesRuns ==
  {<<Nb, Nb>>, <<NbThreads>>, <<NoHeader, NoHeader, NoHeader>>,
   <<[NbThreads EXCEPT !.items = 0], Nb>>, <<[NbThreads EXCEPT !.items = 0, !.nb_model = ""]>>,
   <<[Nb EXCEPT !.arfx = <<Feature(2, "time"), Class>>, !.nb_model = ""]>>,
   <<[Nb EXCEPT !.arfx = <<Feature(3, "nominal"), Class>>, !.nb_model = ""]>>,
   <<With(Nb, {"testonly"})>>, <<With([Nb EXCEPT !.nb_model = "nominal"], {"testonly"})>>,
   <<With([Nb EXCEPT !.arfx = <<>>], {"testonly"})>>}

Alternatives ==
  {ManyThreads, GoOn, LdaTwice, <<Cg(5)>>, <<[Cg(6) EXCEPT !.items = 3]>>, <<CgRounds>>, <<CgOnce>>,
   <<Lda(1)>>, <<[Lda(1) EXCEPT !.items = 4]>>, <<[Lda(3) EXCEPT !.items = 4]>>,
   <<NoLearning>>, <<[NoLearning EXCEPT !.final = <<"m">>]>>} \cup NaiveBayesRuns \cup
  {<<[o EXCEPT !.thread_bits = 1]>> : o \in {NoLearning, Cg(2), Lda(2)}} \cup
  {<<[o EXCEPT !.items = 0]>> : o \in {Plain, NoLearning, Cg(2), Lda(2), With(NoLearning, {"sendto"})}} \cup
  {<<[With(Plain, {"sendto"}) EXCEPT !.hosts = 5, !.pairs = <<"ab">>]>>,
   <<[Plain EXCEPT !.source = "cache"]>>,
   <<[With(Plain, {"bit_precision"}) EXCEPT !.source = "cache", !.bits = 2]>>,
   <<With(Plain, {"naive_bayes"})>>,
   <<With(Plain, {"skips"})>>, <<[Plain EXCEPT !.passes = 2]>>}

\* One example, two slots.
Short == {<<[Plain EXCEPT !.items = 1]>>}

\* Sorted indices by namespace; the last item is an empty line.
TheFeatures == <<<<<<1, 3, 3>>, <<2>>>>, <<<<0, 4>>, <<1, 5>>, <<2>>>>, <<<<2>>>>, <<>>>>
=============================================================================
