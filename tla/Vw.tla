--------------------------------- MODULE Vw ---------------------------------
(***************************************************************************)
(* The life of the program, main and vw(): options, input, regressors, the *)
(* driver that uses up the examples, the shutdown and the saving of the    *)
(* model, for several runs of the program ("sessions") on one disk.  The   *)
(* program may be killed at any step, and ends itself where c_free or      *)
(* c_memcpy meets a null pointer.                                          *)
(*                                                                         *)
(* The ring of examples is the bounded queue that ExampleRing was shown to *)
(* implement; of the drivers, gradient descent and the threads of naive     *)
(* Bayes are in GdPipeline and NbThreads and only take examples here, the  *)
(* others do so as thread 0 alone.                                         *)
(***************************************************************************)
EXTENDS Options, Regressor, ConjugateGradient, LdaBatch, NaiveBayes

CONSTANTS
  Scenarios,    \* sequences of command lines, one per session
  Features,     \* of each item of the input: the sorted indices per namespace
  Models,       \* names of model files
  Earlier       \* the model files of naive Bayes there are, by name

\* What a command line may hold.  The elements of a header are features with a
\* key and a type, and classes.
Elements == [kind : {"feature"}, key : Nat, type : STRING] \cup [kind : {"class"}]
Commands ==
  [names : SUBSET STRING, source : {"text", "text_to_cache", "cache"},
   passes : Nat \ {0}, rounds : Nat \ {0}, items : Nat, minibatch : Nat,
   lda : Nat, bits : Nat, cache_bits : Nat, thread_bits : Nat, ngram : Nat,
   skips : Nat, hosts : Nat, initial_weight : Nat, regularization : Nat,
   pairs : Seq(STRING), arfx : Seq(Elements), initial : Seq(Models),
   final : Seq(Models), readable : Seq(Models),
   nb_model : DOMAIN Earlier \cup {""}]

ASSUME ScenarioAssumption == Scenarios \subseteq Seq(Commands)

\* --lda has the features of each namespace sorted.  A session reads no more
\* items than there are.
ASSUME FeatureAssumption ==
  /\ Features \in Seq(Seq(Seq(Nat)))
  /\ \A n \in DOMAIN Features : \A m \in DOMAIN Features[n] :
       \A i, j \in DOMAIN Features[n][m] :
         i <= j => Features[n][m][i] <= Features[n][m][j]
  /\ \A s \in Scenarios : \A i \in DOMAIN s : s[i].items <= Len(Features)

VARIABLES
  disk,              \* the model files
  scenario, session, \* the command lines and whose turn it is
  pc,                \* where the main thread (or the driver's thread) is
  global, weights,        \* the settings and the weights
  parsed_examples, done, parser_ended,  \* of the parser thread
  used_index,        \* examples thread 0 has taken
  freed,             \* examples given back to the parser
  cg,                 \* conjugate gradient
  examples, batch_size,   \* LDA; merge_set is what MergeSet makes of examples
  nb, buffered,      \* naive Bayes; its model file, written but not yet on disk
  dumps              \* the files that are still to be written

queueVars == <<parsed_examples, done, parser_ended, used_index, freed>>
ldaVars == <<examples, batch_size>>
nbVars == <<nb, buffered>>
driverVars == <<cg, ldaVars, nbVars>>
files == <<disk, scenario, session>>
vars == <<files, pc, global, weights, queueVars, driverVars, dumps>>

opt == scenario[session]

Final(name) == [name |-> name, writing |-> FALSE]
Temp(name) == [name |-> name, writing |-> TRUE]

NoSettings == [ring_size |-> DefaultRing, thread_bits |-> 0, source |-> "text"]

NoStatistics == NbVars(ParseArfHeader(<<>>), 0)

\* c_free and c_memcpy end the program when they are given a null pointer.
CFree(allocated, next) == IF allocated THEN next ELSE "exited"
CMemcpy(allocated, next) == IF allocated THEN next ELSE "exited"

Init ==
  /\ scenario \in Scenarios
  /\ disk = [f \in [name : Models \cup DOMAIN Earlier, writing : BOOLEAN] |->
              IF f \in {Final(name) : name \in DOMAIN Earlier} THEN Earlier[f.name] ELSE NoFile]
  /\ session = 0 /\ pc = "over"
  /\ global = NoSettings /\ weights = NoWeights
  /\ parsed_examples = 0 /\ done = FALSE /\ parser_ended = FALSE
  /\ used_index = 0 /\ freed = 0
  /\ cg = CgStart(0)
  /\ examples = <<>> /\ batch_size = 0
  /\ nb = NoStatistics /\ buffered = {}
  /\ dumps = <<>>

Over == pc \in {"over", "exited", "crashed", "killed"}

\* No example is in memory.
FreshMemory(minibatch) ==
  /\ parsed_examples' = 0 /\ done' = FALSE /\ parser_ended' = FALSE
  /\ used_index' = 0 /\ freed' = 0
  /\ cg' = CgStart(0)
  /\ examples' = <<>> /\ batch_size' = minibatch
  /\ dumps' = <<>> /\ buffered' = {}

Launch ==
  /\ Over /\ session < Len(scenario)
  /\ session' = session + 1 /\ pc' = "start"
  /\ UNCHANGED <<disk, scenario, global, weights, queueVars, driverVars, dumps>>

\* vw_nb: what the threads start from, if there are any.
Statistics(driver) ==
  IF driver # "nb" THEN {NoStatistics}
  ELSE UNION {SetupNb(NbVars(ParseArfHeader(opt.arfx), garbage),
                      IF opt.nb_model = "" THEN NoFile ELSE disk[Final(opt.nb_model)])
                : garbage \in {0, 1}}

\* The regressors of -i.
InitialFiles == [i \in DOMAIN opt.initial |-> disk[Final(opt.initial[i])]]

\* parse_args, start_parser, and the start of the driver.
Start ==
  /\ pc = "start"
  /\ LET weightless == Given(opt, "noop") \/ Given(opt, "sendto")
         r == ParseRegressorArgs(Settings(opt), InitialFiles, weightless)
     IN  IF Refused(opt) \/ NeedsCache(opt) \/ r.refused
           THEN /\ pc' = IF /\ ~Refused(opt) /\ ~NeedsCache(opt)
                            /\ ReadsTextAsLength(Settings(opt), InitialFiles, weightless)
                           THEN "crashed" ELSE "exited"
                /\ UNCHANGED <<global, weights>>
           ELSE /\ global' = SplitForHosts(opt, r.s) /\ weights' = r.weights
                /\ pc' = IF Given(opt, "naive_bayes") /\ ~Given(opt, "arfx_path")
                           THEN "exited" ELSE DriverOf(opt, global')
  /\ FreshMemory(opt.minibatch) /\ nb' \in Statistics(pc')
  /\ UNCHANGED files

-----------------------------------------------------------------------------
(* The parser thread, and the queue as thread 0 sees it.                   *)

Running == ~Over /\ pc # "start"

Total == opt.rounds * opt.passes * opt.items
Item(n) == ((n - 1) % opt.items) + 1
Pass(n) == ((n - 1) \div opt.items) % opt.passes

SlotIsFree == parsed_examples - freed < global.ring_size

Parser == UNCHANGED <<files, pc, global, weights, used_index, freed, driverVars, dumps>>

Publish ==
  /\ Running /\ SlotIsFree /\ parsed_examples < Total
  /\ parsed_examples' = parsed_examples + 1
  /\ UNCHANGED <<done, parser_ended>> /\ Parser

\* The end of the input is found with a slot in hand.
SetDone ==
  /\ Running /\ SlotIsFree /\ parsed_examples = Total /\ ~done
  /\ done' = TRUE
  /\ UNCHANGED <<parsed_examples, parser_ended>> /\ Parser

\* main_parse_loop frees the words of the text, if there were any.
ReadsText == global.source # "cache" /\ parsed_examples > 0
ParserExits ==
  /\ Running /\ done /\ ~parser_ended
  /\ parser_ended' = TRUE
  /\ pc' = CFree(ReadsText, pc)
  /\ UNCHANGED <<files, global, weights, parsed_examples, done, used_index, freed,
                 driverVars, dumps>>

Available == used_index < parsed_examples

\* Every thread has to be through with an example, and to have used them all,
\* but thread 0 is the only one that takes any.
Alone == global.thread_bits = 0
ThreadDone == done /\ ~Available /\ (Alone \/ parsed_examples = 0)

Taken(n) == used_index' = used_index + n
Finished(n) == freed' = IF Alone THEN freed + n ELSE freed
ParserRuns == UNCHANGED <<parsed_examples, done, parser_ended>>

-----------------------------------------------------------------------------
(* The drivers.                                                            *)

Drives(driver) == pc = driver /\ UNCHANGED <<files, global, dumps>>

\* What training does to the weights is not modelled: each has its own value.
\* Only gradient descent asks whether it is to train at all.
Trained(i) == 10 + i
TrainedWeights ==
  [t \in DOMAIN weights |-> [j \in DOMAIN weights[t] |->
     Trained(t + ThreadCount(global) * j)]]

\* The learners, all threads of them.
Learn ==
  /\ Drives("gd") /\ Available /\ Taken(1) /\ freed' = freed + 1
  /\ ParserRuns /\ UNCHANGED <<pc, weights, driverVars>>

Learned ==
  /\ Drives("gd") /\ ~Available /\ done
  /\ weights' = IF global.training THEN TrainedWeights ELSE weights
  /\ pc' = "end_parser"
  /\ UNCHANGED <<queueVars, driverVars>>

\* The naive Bayes workers, one after the other.  (Two that make an observer at
\* once, of different types, crash the run later if they do not here.)
WorkerThreads == 0 .. ThreadCount(global) - 1
Share == (global.stride * (global.mask + 1)) \div Pow2[global.partition_bits]
TrainedInSomeOrder(item) ==
  LET train(r, thread) == TrainOnExample(r, Features[item], thread, Share)
  IN  {FoldLeft(train, [vars |-> nb, pc |-> pc], order) : order \in SetToSeqs(WorkerThreads)}

NbTrain ==
  /\ Drives("nb") /\ global.training /\ Available /\ Taken(1)
  /\ \E r \in TrainedInSomeOrder(Item(used_index + 1)) :
       nb' = r.vars /\ pc' = IF r.pc \in {"exited", "crashed"} THEN r.pc ELSE pc
  /\ freed' = freed + 1
  /\ ParserRuns /\ UNCHANGED <<weights, cg, ldaVars, buffered>>

\* With -t the example is never given back: see NbThreads.
NbPredict ==
  /\ Drives("nb") /\ ~global.training /\ Available /\ Taken(1)
  /\ pc' = Predict(nb, Features[Item(used_index + 1)], WorkerThreads, Share, pc)
  /\ ParserRuns /\ UNCHANGED <<weights, freed, driverVars>>

\* destroy_nb: one thread alone has nothing to join, and its statistics are not
\* written; those of several are, with those of the first.
NbJoin ==
  /\ Drives("nb") /\ ~Available /\ done
  /\ pc' = IF Alone THEN "end_parser"
           ELSE IF JoinCrashes(nb) THEN "crashed"
           ELSE IF opt.nb_model = "" THEN "end_parser" ELSE "nb_backup"
  /\ UNCHANGED <<weights, queueVars, driverVars>>

\* The slip: the old file is written over.
WrittenOver(name) == disk

\* writeModelFile: the old file becomes name.tmp, if there is one.
BackedUp(name) ==
  IF disk[Final(name)] = NoFile THEN disk
  ELSE [disk EXCEPT ![Temp(name)] = disk[Final(name)], ![Final(name)] = NoFile]

NbBackup ==
  /\ pc = "nb_backup"
  /\ disk' = BackedUp(opt.nb_model)
  /\ pc' = IF WriteCrashes(nb) THEN "crashed" ELSE "nb_write"
  /\ UNCHANGED <<scenario, session, global, weights, queueVars, driverVars, dumps>>

\* c_write_file never closes the file: its content is there when the program
\* exits, and not before.
NbWrite ==
  /\ pc = "nb_write"
  /\ disk' = [disk EXCEPT ![Final(opt.nb_model)] =
                ModelFile(CreateModelFileContent(nb.header, Merged(nb)))]
  /\ buffered' = {Final(opt.nb_model)}
  /\ pc' = "end_parser"
  /\ UNCHANGED <<scenario, session, global, weights, queueVars, cg, ldaVars, nb, dumps>>

\* start_noop
Noop ==
  /\ Drives("noop") /\ Available /\ Taken(1) /\ Finished(1)
  /\ ParserRuns /\ UNCHANGED <<pc, weights, driverVars>>

NoopEnds ==
  /\ Drives("noop") /\ ThreadDone
  /\ pc' = "end_parser" /\ UNCHANGED <<weights, queueVars, driverVars>>

\* send_thread gives each host an empty tag, a null pointer to cache_tag.
Send ==
  /\ Drives("sender") /\ Available /\ Taken(1)
  /\ pc' = CMemcpy(FALSE, pc)
  /\ ParserRuns /\ UNCHANGED <<weights, freed, driverVars>>

SenderEnds ==
  /\ Drives("sender") /\ ThreadDone
  /\ pc' = "end_parser" /\ UNCHANGED <<weights, queueVars, driverVars>>

\* setup_cg: an example, with what the change of the pass asks for before it.
CgExample ==
  /\ Drives("cg") /\ Available /\ Taken(1) /\ Finished(1)
  /\ LET n    == used_index + 1
         pass == Pass(n)
     IN  \E worse, flat \in BOOLEAN :
           IF pass = cg.current_pass
             THEN cg' = UseExample(cg, Item(n)) /\ UNCHANGED pc
             ELSE IF ~cg.gradient_pass /\ NoCurvature(flat, global.regularized)
               THEN pc' = "exited" /\ UNCHANGED cg
               ELSE cg' = UseExample(ChangePass(cg, pass, worse), Item(n)) /\ UNCHANGED pc
  /\ ParserRuns /\ UNCHANGED <<weights, ldaVars, nbVars>>

CgEnds ==
  /\ Drives("cg") /\ ThreadDone
  /\ \E flat \in BOOLEAN :
       IF DoesLastUpdate(cg) /\ Total > 0 /\ NoCurvature(flat, global.regularized)
         THEN pc' = "exited" /\ UNCHANGED <<cg, weights>>
         ELSE /\ cg' = IF DoesLastUpdate(cg) THEN UpdateWeight(cg) ELSE cg
              /\ weights' = TrainedWeights
              /\ pc' = CFree(Total > 0, "end_parser")    \* the predictions
  /\ UNCHANGED <<queueVars, ldaVars, nbVars>>

\* start_lda: the batch is filled, or ends with the input.  Each example is
\* merged into the set as it comes.
MergeSet ==
  FoldLeft(LAMBDA merge_set, d : MergeIn(merge_set, d - 1, Features[examples[d]]),
           <<>>, [d \in DOMAIN examples |-> d])

\* No run is in the set: merge and merge_all take index() - 1, an unsigned number,
\* for the last one and run wild.
NothingMerged == \A d \in DOMAIN examples : Features[examples[d]] = <<>>

\* Before the set there is nothing to read, until an item has made it grow; what
\* is read there then may as well make merge stop at once.
LdaTake ==
  /\ Drives("lda") /\ Len(examples) < batch_size /\ Available /\ Taken(1)
  /\ examples' = Append(examples, Item(used_index + 1))
  /\ \/ ~NothingMerged' /\ UNCHANGED pc
     \/ NothingMerged' /\ pc' = "crashed"
     \/ /\ NothingMerged' /\ UNCHANGED pc
        /\ \E n \in 1 .. used_index : Features[Item(n)] # <<>>
  /\ ParserRuns /\ UNCHANGED <<weights, freed, cg, batch_size, nbVars>>

LdaCut ==
  /\ Drives("lda") /\ Len(examples) < batch_size /\ ThreadDone
  /\ batch_size' = Len(examples)
  /\ UNCHANGED <<pc, weights, queueVars, cg, examples, nbVars>>

LdaProcess ==
  /\ Drives("lda") /\ Len(examples) = batch_size
  /\ IF NothingMerged THEN pc' = "crashed" /\ UNCHANGED freed
                      ELSE pc' = "lda_check" /\ Finished(batch_size)
  /\ ParserRuns /\ UNCHANGED <<weights, used_index, driverVars>>

LdaCheck ==
  /\ Drives("lda_check")
  /\ pc' = IF ThreadDone THEN "end_parser" ELSE "lda"
  /\ weights' = IF ThreadDone THEN TrainedWeights ELSE weights
  /\ examples' = <<>> /\ batch_size' = opt.minibatch
  /\ UNCHANGED <<queueVars, cg, nbVars>>

-----------------------------------------------------------------------------
(* end_parser, finalize_regressor, finalize_source.                        *)

\* The indices of a slot that no example with features was ever in were never
\* allocated.
EverySlotUsed ==
  \A slot \in 0 .. global.ring_size - 1 :
    \E n \in 1 .. parsed_examples :
      (n - 1) % global.ring_size = slot /\ Features[Item(n)] # <<>>

EndParser ==
  /\ pc = "end_parser" /\ parser_ended
  /\ pc' = CFree(EverySlotUsed, "dump")
  /\ dumps' = opt.final \o opt.readable
  /\ UNCHANGED <<files, global, weights, queueVars, driverVars>>

IsReadable == Len(dumps) <= Len(opt.readable)
Written(model) == IF IsReadable THEN Readable(model) ELSE model

\* dump_regressor: the header, the weights (if there are any), the new name.
DumpHeader ==
  /\ pc = "dump" /\ dumps # <<>>
  /\ disk' = [disk EXCEPT ![Temp(Head(dumps))] = Written(Header(global))]
  /\ pc' = IF weights = NoWeights THEN "crashed" ELSE "dump_weights"
  /\ UNCHANGED <<scenario, session, global, weights, queueVars, driverVars, dumps>>

DumpWeights ==
  /\ pc = "dump_weights"
  /\ disk' = [disk EXCEPT ![Temp(Head(dumps))] = Written(Dump(global, weights))]
  /\ pc' = "rename"
  /\ UNCHANGED <<scenario, session, global, weights, queueVars, driverVars, dumps>>

Rename ==
  /\ pc = "rename"
  /\ disk' = [disk EXCEPT ![Final(Head(dumps))] = disk[Temp(Head(dumps))],
                          ![Temp(Head(dumps))] = NoFile]
  /\ dumps' = Tail(dumps) /\ pc' = "dump"
  /\ UNCHANGED <<scenario, session, global, weights, queueVars, driverVars>>

\* finalize_source deletes the buffers; the one for output never had a file
\* unless a cache was written.
FinalizeSource ==
  /\ pc = "dump" /\ dumps = <<>>
  /\ pc' = CFree(global.source = "text_to_cache", "over")
  /\ UNCHANGED <<files, global, weights, queueVars, driverVars, dumps>>

\* From outside, or by the C library, when it finds the heap as parse_cache left
\* it (without a cache, reserve(space, 0) uses what realloc has just freed) or
\* destroy_nb (which frees passers twice).  What is buffered is lost.
Kill ==
  /\ Running /\ pc' = "killed"
  /\ global' = NoSettings /\ weights' = NoWeights /\ FreshMemory(0) /\ nb' = NoStatistics
  /\ disk' = [f \in DOMAIN disk |-> IF f \in buffered THEN EmptyFile ELSE disk[f]]
  /\ UNCHANGED <<scenario, session>>

ParserStep == Publish \/ SetDone \/ ParserExits

MainStep ==
  \/ Launch \/ Start
  \/ Learn \/ Learned \/ NbTrain \/ NbPredict \/ NbJoin \/ NbBackup \/ NbWrite
  \/ Noop \/ NoopEnds \/ Send \/ SenderEnds
  \/ CgExample \/ CgEnds \/ LdaTake \/ LdaCut \/ LdaProcess \/ LdaCheck
  \/ EndParser \/ DumpHeader \/ DumpWeights \/ Rename \/ FinalizeSource

Next == ParserStep \/ MainStep \/ Kill

Spec == Init /\ [][Next]_vars
FairSpec == Spec /\ WF_vars(ParserStep) /\ WF_vars(MainStep)
-----------------------------------------------------------------------------
(* What is expected of all this.                                           *)

\* The curvature of an example is computed at its own prediction, and at the one
\* the direction was found with.  (After a step back, it is the one from before
\* it: the predictions are not erased then.)
OwnPrediction ==
  pc = "cg" /\ cg.read # NothingRead =>
    /\ cg.read.prediction # <<>>
    /\ cg.read.prediction[1] = cg.read.item
    /\ ~cg.stepped_back => cg.read.prediction[2] = cg.weights

\* A new direction comes from the derivative of each example of one pass, none
\* missing or left over from a rejected step, all at the same weights; so does
\* the preconditioner from the first pass.
DirectionFromWholePass ==
  pc = "cg" /\ cg.direction # <<>> =>
    /\ cg.direction = [i \in 1 .. opt.items |-> <<i, cg.direction[1][2]>>]
    /\ cg.preconditioner = [i \in 1 .. opt.items |-> i]

\* "Now merge_set[0] contains everything", and in order: equal indices are
\* neighbours, so no weight is decayed or counted twice for a batch.
Occurrences(run, e) == Cardinality({i \in DOMAIN run : run[i] = e})
Everything ==
  FlattenSeq([d \in DOMAIN examples |->
    LET features == FlattenSeq(Features[examples[d]])
    IN  [i \in DOMAIN features |-> Triple(d - 1, features[i])]])
BatchMerged ==
  pc = "lda_check" =>
    LET merged == MergeAll(MergeSet)
    IN  /\ \A i \in 1 .. Len(merged) - 1 :
             merged[i].weight_index <= merged[i + 1].weight_index
        /\ Len(merged) = Len(Everything)
        /\ \A e \in ToSet(Everything) : Occurrences(merged, e) = Occurrences(Everything, e)

\* The weights a run starts from are those its files were written from, each
\* where the learner looks for it, added up.  (Not so with several threads and
\* a stride, which dump_regressor and parse_regressor_args divide differently.)
LoadedWeights ==
  /\ Running /\ pc \notin {"end_parser", "dump", "dump_weights", "rename"}
  /\ ~done /\ opt.initial # <<>> /\ (Alone \/ global.stride = 1)
  => \A i \in 0 .. Length(global) - 1 :
       IF global.lda = 0
         THEN WeightOf(global, weights, i) =
                InitialValue(global, global.stride * (i \div ThreadCount(global)))
                  + SumOf(InitialFiles, i)
         ELSE \A k \in 0 .. global.lda - 1 :
                TopicOf(global, weights, i, k) =
                  InitialValue(global, global.stride * i + k)
                    + SumOf(InitialFiles, global.stride * i + k)

\* Whatever has the name of a model is a whole one: it is written under another
\* name, and a run that is killed leaves the model it started from.
ModelReplacedWhole ==
  [][\A name \in Models :
       disk'[Final(name)] # disk[Final(name)] =>
         disk'[Final(name)] \in {Dump(global, weights), Readable(Dump(global, weights))}]_vars

\* There is a naive Bayes model on the disk, under its name or that of the old
\* one.  Every step of a run leaves it so, wherever the run is killed, but for one:
\* a run that is killed when it has written its model leaves an empty file, and the
\* next run that writes one moves the empty file over the only model there is.
OnDisk(f) == disk[f] \notin {NoFile, EmptyFile} /\ f \notin buffered
HasModel(name) == OnDisk(Final(name)) \/ OnDisk(Temp(name))
BacksUpEmptyFile(name) ==
  pc = "nb_backup" /\ opt.nb_model = name /\ disk[Final(name)] = EmptyFile
NbModelKept ==
  [][\A name \in DOMAIN Earlier :
       HasModel(name) /\ ~BacksUpEmptyFile(name) => HasModel(name)']_vars

\* Every run ends, unless it waits for threads that never take an example
\* (thread_bits without gradient descent) or never give one back (naive Bayes
\* with -t).
WaitsForOthers ==
  \/ pc \in {"noop", "sender", "cg", "lda"} /\ ~Alone
  \/ pc = "nb" /\ ~global.training
EveryRunEnds == <>(WaitsForOthers \/ (Over /\ session = Len(scenario)))

\* A run that has used all its input and ends by itself has saved the model it
\* was asked for.  (It has not, if a slot of the ring never held an example that
\* has features.)
SavesModel ==
  pc \in {"over", "exited"} /\ session > 0 /\ done /\ used_index = Total /\ Total > 0 =>
    \A i \in DOMAIN opt.final : disk[Final(opt.final[i])] # NoFile
=============================================================================
