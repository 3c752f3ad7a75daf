# A TLA+ model of denetX

denetX is a fork of an early Vowpal Wabbit: an online learner in C++ that reads
examples from a text, a cache file or a socket, and trains linear models
(gradient descent, conjugate gradient, LDA) or a naive Bayes classifier on
them. One thread parses; one or several threads learn; in a cluster, further
nodes exchange partial predictions. Caches, models and statistics are files that
later runs read again. What is hard about the program is how the threads and
nodes share examples, how one buffer serves every reader, and what is left on
the disk when a run ends too early; that is what is modelled.

Paths below are relative to the root of the repository (`src/parser.cc` is
`src/src/parser.cc` in `PROJECT.json`, where the path of the checkout comes
first). Configurations are run with

    tlc -config GdLocal.cfg MCGdPipeline.tla
    tlapm NbThreadsProofs.tla     (and the other modules named ...Proofs)

## 1. Inventory

| Component | Source | State | Operations | Talks to |
|---|---|---|---|---|
| Example ring and parser thread | `parser.cc`, `parser.h`, `example.h` | the array `examples`, `parsed_examples`, `used_index` per thread, `done`, `pass_length`, the open input and cache files | `main_parse_loop`, `get_unused_example`, `setup_example`, `get_example`, `free_example`, `parser_done`, `reset_source` | all learners (mutex `examples_lock`, conditions `example_available`, `example_unused`) |
| Naive Bayes workers | `multiclass/nb.cc` | one `nb_vars` for all threads: observers, class distribution | `nb_thread`, `finish_example`, `nb_train_on_example`, `naive_bayes_predict`, `joinThreadData`, `destroy_nb` | example ring, model file |
| Delay ring | `delay_ring.cc` | `delay_ring`, `threads_to_use`, `delay_indices` per user, `local_index`, `global_index` | `delay_example`, `return_example`, `get_delay_example`, `blocking_get_delay_example`, `delay_global_example`, `thread_done` | learners and relay (mutex `delay`, `ex->lock`, three conditions) |
| Gradient descent learners | `gd.cc` | weights, `global.eta`, `sd` statistics, `finished_sum` | `gd_thread`, `predict`, `local_predict`, `train`, `finish_example`, `output_and_account_example` | both rings, the master's socket |
| Message relay | `message_relay.cc` | none but its place in the delay ring | `mesg_relay`, `send_prediction` / `get_prediction` over a socket | delay ring, master node |
| Buffers | `io.cc`, `io.h` | `io_buf`: space, position, files | `buf_read`, `readto`, `fill`, `buf_write`, `flush`, `reset_file` | readers, caches |
| Codecs | `cache.cc`, `simple_label.cc`, `parse_example.cc`, `parse_primitives.cc` | the example slot | cache format, text format | buffers, parser |
| Feature preparation | `parser.cc`, `unique_sort.cc` | the example slot | sorting, n-grams, ignoring, striding, cutting for threads | parser, learners |
| Options | `parse_args.cc`, `global_data.cc` | `global` | `parse_args` | everything |
| Regressor files | `parse_regressor.cc` | weights, model files | `initialize_regressor`, `parse_regressor_args`, `dump_regressor` | `vw` |
| Life of the program | `main.cc`, `vw.cc` | which stage | `vw`, `vw_nb`, `end_parser`, `finalize_source` | everything |
| Conjugate gradient | `cg.cc` | pass kind, predictions, step, derivative, direction | `setup_cg` | example ring |
| LDA | `lda.cc` | minibatch, merge set | `start_lda`, `merge_in`, `merge_all` | example ring |
| Noop, sender | `noop.cc`, `sender.cc` | send buffers | `start_noop`, `send_thread`, `find_split` | example ring, other nodes |
| Naive Bayes model file, header | `multiclass/parse_nbmodel.cc`, `parse_arfheader.cc` | observers per attribute | `readModelFile`, `writeModelFile`, `parseARFXFile` | naive Bayes |
| Multisource predictions | `multisource.cc`, `network.cc` | per source a partial prediction and an example count | `receive_features`, `getpred` | slaves, parser |
| Daemon mode | `parser.cc`, `global_data.cc` | current client | `reset_source` | `local_example_number` |
| Hashing, products | `hash.cc`, `sparse_dense.cc` | none | hashing, products | parser, learners |
| Losses, floating point helpers | `loss_functions.cc`, `float_cmp.cc` | none | arithmetic | learners |
| Multiclass statistics | `multiclass/*.cc` | observers, estimators | floating-point statistics | naive Bayes, unfinished Hoeffding trees |
| Reporting | `multiclass/scheduler.cc`, `rrd_wrapper.cc` | counters | interval timer, RRD file | learners |
| Stand-alone clients, scripts | `offset_tree.cc`, `active_interactor.cc`, `flows/`, `scripts/` | | | none |

What makes each of the parts correct:

- *Example ring.* Every worker sees every example, in order, once; a slot is
  refilled only when all are through with it; parser and workers never wait for
  each other for ever; a worker exits only when nothing is left.
- *Delay ring and learners.* An example that left `predict` is trained on by
  each learner, in order and before the next prediction unless updates are
  delayed; an index never points to an empty slot when it is used; whoever ends
  an example accounts for it exactly once; waiting for space in the delay ring
  (which would happen with `ex->lock` held) never happens.
- *Relay.* Answers are matched with examples by position alone, so both sides
  have to keep the same order; the socket is not used after it was shut down.
- *Passes.* The number of passes, their lengths and the switch from the text to
  the cache together have to cover the input.
- *Input path.* The learner gets the same examples from a cache as from the
  text, whatever was in the slot before and wherever the buffer was cut; a file
  that has the name of a cache is a whole one; a feature belongs to one thread.
- *Conjugate gradient, LDA.* A direction comes from one whole pass; a curvature
  from the predictions of the pass before it; a minibatch is merged in order and
  fits the ring.
- *Files of models.* What is loaded is what was saved, at the place the learner
  looks for it; a run that is killed leaves the model it started from.

The hazards, each at its line and with the property that watches it, are in
`PROJECT.json`.

## 2. Modules

| Module | Models | Uses |
|---|---|---|
| `BroadcastQueue` | abstract specification: a bounded queue every reader reads completely | |
| `ExampleRing` | `parser.cc`: parser thread, ring, passes, inputs; operators for the workers | |
| `NbThreads` | `multiclass/nb.cc`: the naive Bayes workers; the refinement to `BroadcastQueue` | `ExampleRing`, `BroadcastQueue` |
| `ExampleRingProofs` | lemmas on the ring: its arithmetic, counting threads, what the parser keeps true | `ExampleRing` |
| `NbThreadsProofs` | inductive invariant and theorems for `NbThreads` | `NbThreads`, `ExampleRingProofs` |
| `DelayRing` | `delay_ring.cc`, the end of an example in `gd.cc`, `message_relay.cc` | `ExampleRing` |
| `GdPipeline` | `gd.cc`: the learners; the composition parser + learners + relay | `DelayRing`, `BroadcastQueue` |
| `GdPipelineProofs` | inductive invariant of `GdPipeline` without a relay, and what follows from it | `GdPipeline`, `ExampleRingProofs` |
| `GdResultProofs` | what the learners achieve: the refinement, accounting, order of training, shutdown | `GdPipelineProofs` |
| `ByteStream` | abstract specification: a sequence of cells, read in requests | |
| `IoBuf` | `io.cc`, `io.h`: the buffer, for reading and for writing | |
| `Bits` | how many numbers `n` bits hold: sizes of arrays, masks, threads | |
| `CacheFormat` | `cache.cc`, `simple_label.cc`: how an example becomes cells and back | `Bits` |
| `TextExample` | `parse_example.cc`, `simple_label.cc`: what a line says | |
| `ExampleSetup` | `parser.cc`, `unique_sort.cc`: sorting, n-grams, constant, shares of the threads | `Bits` |
| `InputPath` | `parser.cc`, `cache.cc`: from files to prepared examples, over several runs | `ByteStream`, `IoBuf`, `CacheFormat`, `TextExample`, `ExampleSetup` |
| `Options` | `parse_args.cc`, `sender.cc`, `vw.cc`: settings and the choice of the driver | `Bits` |
| `Regressor` | `parse_regressor.cc`: weights and model files | `Bits` |
| `ConjugateGradient` | `cg.cc`: the automaton of the passes | |
| `LdaBatch` | `lda.cc`: the merge of a minibatch | |
| `NaiveBayes` | `multiclass/nb.cc`, `parse_nbmodel.cc`, `parse_arfheader.cc`: observers and the model file | |
| `Vw` | `vw.cc`, the drivers, `end_parser`, `finalize_*`: runs of the program on one disk | the five above |
| `VwProofs` | theorems on model files and the weights loaded from them, on conjugate gradient and on LDA | `Vw`, `SequenceProofs` |
| `SequenceProofs` | lemmas on sequences, recursive functions and powers of two, by induction | `Bits` |
| `ExampleProofs` | theorems on the codec, the n-grams and the shares of the threads; lemmas on lines, slots and the cells of an example | `InputPath`, `SequenceProofs` |
| `InputProofs` | theorems on the buffer, its readers, the caches and what the learner gets | `ExampleProofs` |
| `MCNbThreads`, `MCGdPipeline`, `MCInput`, `MCVw` | instances for TLC | |

The three groups meet at an abstract queue. `NbThreads` and `GdPipeline` look at
the ring step by step and show that it is a bounded queue; `Vw` uses that queue
and looks at what comes before and after; `InputPath` looks at what one slot of
the ring is filled with.

### From the code to actions

A critical section of a mutex is one action. So is the code between two
critical sections that touches only state of its own thread. Where code reads
or writes *shared* state outside the lock, that access is an action of its own
(`ReturnExample`, `Peek`, `DelayExample`, `AccountBegin`/`AccountEnd`,
`CheckDone`/`Scan`), because the interleavings there are what is in question.
A lock that is held across several such steps is a variable (`ex_lock`,
`delay_lock`); one held within a step is not. A condition variable is the set
of threads waiting on it: a broadcast empties it, a signal removes one member.

`ExampleRing` keeps of an example its number, its pass, its kind (labelled,
unlabelled, tagged `save`) and `done`; features and predictions are not
represented. The input is a sequence of kinds that `Init` leaves open
(`stream`), so every mix of a given length is checked. `reading`,
`write_cache`, `cached` and `position` stand for the open files: the parser
reads either the text, writing a cache or not, or the cache. The values of
`Source` are what `parse_source_args` leaves behind. `main_parse_loop` becomes:

| `main_parse_loop` | action |
|---|---|
| `get_unused_example`: slot free / not | `GetUnusedExample` / `WaitForUnused` |
| `parse_atomic_example` and `setup_example` | `ParseExample` |
| `parsed_examples++; broadcast` | `Publish` |
| end of pass: `reset_source`, counters, `pass_length * 2 + 1` | `EndPass` |
| `done = true` under the lock | `SetDone` |
| `in_use = false; broadcast` | `ReleaseSlot` |

In `NbThreads` and `GdPipeline` a variable `pc` tells where each thread is, and
`held` which example its `ec` points to. Each alternative of the loop of
`nb_thread` or `gd_thread` is an action. In `GdPipeline` the routines of
`DelayRing` are shared by the learners and the relay, which is one more actor.
`eta_decays` counts how often `global.eta` was multiplied by its decay rate;
`trained[t]` is a history variable, the last example thread `t` trained on. The
master node is outside of this program as far as a learner is concerned: it is
modelled by `sent` and `answered`, an answer for every prediction sent, in
order.

A failed `C_ASSERT` sets `aborted`, and the use of a null pointer sets
`crashed`; both stop the model as they stop the process. (Assertions are
compiled out by the `-DNDEBUG` of `src/Makefile.am:8`; they say what the authors
expected.)

`InputPath` is sequential: `pc` names the place in the reader, and a call of
`buf_read` or `readto` is a request (`call`) that `IoBuf` works on step by step,
so that every refill is a step and a `Kill` may come between any two. A cell is
a byte of the text, or a field of the cache (a number that is written with a
variable length takes several). The code corresponds like this:

| code | action |
|---|---|
| `parse_source_args`, `parse_cache` | `Start` |
| `parse_atomic_example`: clear the slot, call the reader | `Fetch` |
| `buf_read`, `readto`, `fill` | `Serve`, `Short`, `Fill`, `EndOfFile`, ... (all in `InCall`) |
| `read_features` | `GotLine` |
| `read_cached_features` | `GotLabel`, `GotTagSize`, `GotTag`, `GotNumIndices`, `GotIndex`, `GotFeatures`, `Decode` |
| rest of `parse_atomic_example`, `setup_example` | `Prepare` |
| `reset_source` | `EndPass` |

`Vw` runs a scenario, a sequence of command lines ("sessions") on one disk:
`Launch`, `Start` (`parse_args` up to the driver), then the steps of the driver
on the queue, then `EndParser`, `DumpHeader`, `DumpWeights`, `Rename`,
`FinalizeSource`. The parser thread is `Publish`, `SetDone`, `ParserExits`. The
drivers are `Learn`/`Learned`, `Noop`, `Send`, `CgExample`/`CgEnds`,
`LdaTake`/`LdaCut`/`LdaProcess`/`LdaCheck`, and `NbTrain`/`NbPredict`/`NbJoin`/
`NbBackup`/`NbWrite`. `pc` is `exited` where the program calls `exit`, `crashed`
where it uses a null pointer, `killed` after `Kill`. `Kill` is the operating
system, but it also stands for aborts of the C library where the code has
undefined behaviour that it may or may not notice: `reserve(space, 0)` in
`parse_cache` (`parser.cc:264`: `realloc` to no bytes frees, then the pointer is
used again), the second free of `passers` (`nb.cc:361`), the observers' writes
behind empty arrays (`numattrobs.h`).

Data is kept only as far as something depends on it. A weight is a small
number; a trained weight has a value of its own, so that a misplaced one shows.
The derivative of conjugate gradient is the list of examples and weights it
was added up from. Of a naive Bayes observer only its kind is kept, which
decides whether the next example crashes the program.

## 3. What is checked

Passing runs (deadlock is checked in all of them but `Vw`, whose scenarios end,
some of them with threads that wait for ever: `WaitsForOthers`):

| Run | Instance | Shows |
|---|---|---|
| `NbTrain` | 2 workers, ring of 2, 4 examples of a text, first pass length 1 | safety of the ring, refinement of `BroadcastQueue`, whole input read, termination |
| `GdLocal` | 2 learners, no relay, labelled and unlabelled examples in every order | both rings, sequential training, exclusive accounting, refinement of `BroadcastQueue`, termination |
| `GdCluster` | 2 learners, labelled examples: with the relay as node 0, with `--backprop` and with `--delayed_global`; without it as a node that only sends its predictions | the relay as third user of each example; nothing sent after the shutdown; the global index, `signal` in place of `broadcast`, `DelayNeverBlocks` |
| `GdSolo` | 1 learner, 2 passes (a text, then the cache made of it), alone with `save` examples anywhere, or with the relay | passes, `save`, examples that only the relay takes |
| `Input` | 11 scenarios of up to 3 sessions over texts of up to 7 cells, 7 kinds of lines, a buffer of 2 cells that doubles | what the learner gets, caches, shares of the threads, the buffer, every session ends |
| `Vw` | 36 scenarios of up to 6 command lines: every driver, options that are refused, models saved, read, added up | files of models, conjugate gradient, LDA, every run ends |

Properties worth naming:

- `NoEarlyReuse` (action property): the parser overwrites a slot only when no
  thread has it in hand or still has to take it and it is not in the delay
  ring. `NextIsReady`, `HeldIsStable` are its counterparts for the workers.
- `ImplementsQueue`: the ring refines `BroadcastQueue`, in `GdPipeline` also
  with the delay ring between prediction and release.
- `NoExampleSkipped`, `AllAccounted`: nothing is left when threads exit,
  although `parser_done` reads `done` and the indices without a lock.
- `DelayNeverBlocks`: the wait loop in `delay_example` is never entered. It
  would be entered with `ex->lock` held.
- `SequentialTraining`, `TrainedInOrder`: the comment "keep example processing
  sequential" in `predict`.
- `AccountingExclusive`: the statistics in `*global.sd`, updated without a lock,
  are never updated by two threads at once.
- `NoNullDereference`, `NoSendAfterShutdown`: the indices of the delay ring never
  lead to an empty slot, and no prediction is sent once the socket is shut down.
- `Termination`: no lost wake-up, no deadlock of the three kinds of threads.
- `Transparent`: what is delivered is what the line says, whether it was read
  from the text or from a cache made in this session or an earlier one, of the
  same or of more bits. It catches state of the last example left in a slot, a
  codec that loses something, a line skipped at a refill. The property compares
  with `FromText`, which is the text reader on an empty slot.
- `CacheWhole`, `WholePass`: a session may be killed at any step, and the next
  one finds a whole cache or none.
- `SortedWhenClaimed`: `sorted`, on which the binary search for the threads'
  shares depends, is kept true through caches of other bits and masks.
- `ThreadsShareOut`: the threads' shares of a namespace make up the whole of it;
  `GramsWithinSkips`: what is delivered of a namespace is its words, and behind
  them one feature for each choice of n words with at most `skips` skipped in
  all, which is how `addgrams` counts. The comment at `parser.cc:564` counts
  otherwise (see "Where code and documentation disagree").
- `ReadsOpenFile`, `OutFits`: a reader that needs more has an open file to read, and
  a cached example fits in what was asked for with `buf_write`.
- `ImplementsStream`: the buffer refines `ByteStream`, however it is cut.
- `OwnPrediction`, `DirectionFromWholePass`: which example's data enters which
  derivative and curvature over passes, step backs and rounds.
- `BatchMerged`: the incremental merge of LDA ends in one sorted run that lost
  nothing.
- `LoadedWeights`: striping over threads and strides is undone by loading.
- `ModelReplacedWhole`, `NbModelKept`: what a killed run leaves on the disk. A
  regressor is always kept. Of naive Bayes, `NbModelKept` says that there is a
  model under the name or that of the backup, after every step but one, which it
  names: when a killed run has left an empty file, the next run's backup moves
  that over the only model (`BacksUpEmptyFile`). If this run is killed too, there
  is none left.
- `SessionsEnd`, `EveryRunEnds`: every run ends, in whatever way; `EveryRunEnds`
  names the combinations of options with which it does not.

Each of these is violated when a plausible slip is put into the code's
operators; the slips (`TakeAnySlot`, `OneThreadLess`, `SignalNobody`, ...) are
defined next to the operators they replace and listed in `PROJECT.json`.

### Bounds

Two workers are needed for every interleaving between workers, and each pair
behaves like every other since threads differ only in their index; two slots
are the smallest ring in which the parser can be ahead of one worker and behind
another, and three examples make it wrap around. `FileLen` and `NumPasses`
bound the run, so no counter needs a bound in a guard. Passes are bounded by
the doubling: an initial length of 1 over 4 examples gives passes of 1, 3 and
7. That the results on the naive Bayes ring, and those on the learners without a
relay, do not depend on these numbers is proved, see below.

In `Input`, a buffer of two cells makes almost every request cross its end, and
grow it (that the size of the buffer does not matter is proved); three
namespaces are the fewest with one from a line, the anonymous one and that of the
constant (which nothing in the code asks for: the run has `add_constant` FALSE, as
every program has, and the theorems hold either way); a word of 6 bits in digits of 2 gives numbers of one to three digits, as 7-bit digits
do for words of 32. In `Vw`, a ring of two slots (the
default of 256) is passed by minibatches of 3 and 4, and indices of 1 to 3 bits
are striped over one or two threads. Both walk through scenarios that are
chosen, each for the case named beside it in the MC module; within a scenario
every interleaving of parser, driver and `Kill` is explored. Nothing but the
scenarios bounds these runs.

### Fairness and liveness

`FairSpec` asks weak fairness of each thread as a whole: the operating system
keeps scheduling a thread that can run. A thread waiting for a mutex that
others take again and again would need strong fairness in general; here weak
fairness is enough because locks held across steps are released
unconditionally, and in the model a waiter is disabled only while the lock is
held. Waiting on a condition has no fairness of its own: a thread stays in the
waiting set until somebody wakes it, which is what makes `Termination`
sensitive to a lost wake-up. Spurious wake-ups are not modelled; all waits but
the one in `get_example` are in loops, and that one returns NULL, after which
the caller comes back.

`InputPath` and `Vw` ask weak fairness of the parser's and of the main thread's
steps, and none of `Kill`: a session is one process that the system keeps
running until it ends.

### Where code and documentation disagree

The violation runs each show one disagreement; `PROJECT.json` quotes the lines.

| Run | What happens |
|---|---|
| `NbPredict` | naive Bayes with `-t` never gives an example back; the parser blocks once the ring is full |
| `GdSave` | two threads each free an example tagged `save`; the second free fails its assertion |
| `GdEta` | `DecaysOncePerPass`: each thread decays the shared learning rate, not only one per pass |
| `GdRelayUnlabelled` | `delay_indices` of a thread is changed by others between its unlocked test and use |
| `GdActive` | simulated active learning drops a label after other threads went to wait by it |
| `VwSave` | `SavesModel`: a run of fewer examples than the ring has slots exits in `end_parser`, before its model is saved |

More were met on the way and have no run of their own. Where the model has the
step, its name is given.

Threads and ring:

- With a new cache and an initial pass length shorter than the text,
  `reset_source` makes the truncated cache the input and the rest of the text is
  never read (`Source = "text_to_cache"` violates `WholeInputRead`).
- In `--backprop` mode with unlabelled examples, the relay hands on examples that
  have left the delay ring; with `save` examples it waits for answers to
  predictions that were never sent.
- `output_and_account_example` increments `sd->example_number` twice per example,
  which `AllAccounted` states as it is.
- noop, the sender, conjugate gradient and LDA with `--thread_bits` wait for ever:
  they take examples as thread 0, and every thread counts (`WaitsForOthers`).

Input:

- An untagged example cannot be cached: `c_memcpy` ends the program on the null
  pointer (`CannotCache`). The sender ends at its first example for the same
  reason (`Send`). A run over caches alone ends in `main_parse_loop`, which frees
  words that were never read (`ParserExits`). A run over a text alone saves its
  model and then fails in `finalize_source` (`FinalizeSource`). `--compressed`
  always ends the program (`Refused`).
- A line of no characters ends the pass, and a last line without a terminator is
  lost (`IsLine`, `LineCount`, `Lines`).
- `initial` is not restored from a cache: `bufread_simple_label` reads it from
  behind the two floats that were cached (`GotLabel`).
- Of several caches the last one decides `sorted_cache` and the bits; caches of
  different bits, or one of an older version with the default bits, end in
  "argh, a bug in caching of some sort!" (`EndPass`).
- The comment on `generateGrams` counts skips in each gap of a gram: its example of
  1-skip-3-grams (`parser.cc:564`) has ace and bdf. `addgrams` passes on what is
  left of `skip_gram` (`parser.cc:552`), so `--skips` bounds the skips of the whole
  gram and neither is ever made. `GramsWithinSkips` and `MasksOnce` state what the
  code does; with the comment's reading in their place, a line of five words with
  `--ngram 3 --skips 1` violates the property.
- Duplicate features stay in a cache that is made without `--sort_features`, and
  `sum_feat_sq` is not computed anew when duplicates are dropped.

Models:

- A regressor's `num_bits` does not change the mask of the features, which was
  made from the bits of the input (`global_data.h:96` calls it that of
  `num_bits`). Several regressors are added up, where `parse_regressor.cc:80`
  speaks of a weighted average (`AddEntry`).
- With several threads and a stride, `dump_regressor` and `parse_regressor_args`
  divide differently, and weights come back elsewhere (`WeightOf`, `Place`;
  `LoadedWeights` excludes the case). The first bytes of a file that is no model,
  a text say, are taken for the length of its version, and the program crashes
  (`ReadsTextAsLength`). A model of LDA read without `--lda` is
  written out of bounds. noop with `-f` uses null weights (`DumpHeader`).

Drivers:

- Conjugate gradient does not erase the predictions at a step back, so later
  curvatures are computed at older predictions (`OwnPrediction` excludes the
  case), and with an odd number of passes the last update is made twice.
- LDA with an empty last minibatch, or one whose first example or all of whose
  examples have no features, takes the last of no sets by an unsigned `index() - 1`:
  `merge_all` crashes (`LdaProcess`), and so does `merge`, unless what lies before the
  set happens to stop it (`LdaTake`). An empty line is such an example, as
  `global.add_constant` is set nowhere; `num_bits` 29 times its stride overflows.
- Naive Bayes: with one thread the statistics are never written; with several,
  `joinThreadData` adds to observers that do not exist and crashes unless the
  header has no attributes or nothing was trained (`JoinCrashes`), and with
  nothing trained and a model file `createModelFileContent` crashes after the
  old file was moved away (`WriteCrashes`). What is written stays in an
  unclosed stream until the program exits: a run that is killed before leaves an
  empty file, the next one moves that over the backup, and if it is killed too,
  the model and its backup are lost (`BacksUpEmptyFile`). Reading gives all attributes the
  observer of the last line, and how many of them depends on the order the
  compiler evaluates arguments in (`AttNos`). Nominal lines are never entered
  (`Hollow`), and such an observer crashes the run where it is asked for a
  probability (`Predict`). Attributes are found by the hash of their name without its last
  character, and by place (`ParseArfHeader`, `Met`).

The passing runs are chosen so that the disagreements shown by violation runs do
not occur in them: for instance labelled examples only where the relay and two
threads are involved (`GdCluster`), and `save` only with one thread and no relay
(`GdSolo`), at least two items where a model is saved (`Vw`).

## 4. What is proved

TLAPS checks what follows for every value of the constants: any number of
threads, size of the ring, number of passes, length of input and source, any
command lines, any size of the buffer. The assumptions on constants are
`RingAssumption`, `TrainingAssumption`, `DelayAssumption`, the two
`ScenarioAssumption`s (of `Vw` and of `InputPath`, where it gives a text and the
options their types), `SizeAssumption` (the default sizes of `Options` are numbers),
`LineAssumption` (see below) and `FeatureAssumption` of `Vw`: no
session reads more items than there are, and the features of a namespace are sorted, as
`--lda` sets `sort_features` (`parse_args.cc:323`). What a theorem assumes beyond them is a hypothesis in its
statement.

### The ring of examples

`ExampleRingProofs` has the facts that do not depend on who takes the examples:
the arithmetic of the ring (`SlotRange`, `SlotsDiffer`, `SlotAgain`), counting
the threads (`ThreadCount`, `FewerThreads`, `OneThreadLeaves`, `OnlyThread`),
what the parser keeps true (`RingInv`) and what of the input it has read
(`ReadInv`).

`NbThreadsProofs`, for an input without an example tagged `save`
(`"save" \notin Kinds`: with such an example and two threads the assertion of
`free_example` does fail, see `GdSave` for the same code in `gd.cc`):

| Theorem | Statement |
|---|---|
| `TypeCorrect` | `Spec => []TypeOK`, including `threads_to_finish \in 0..NumThreads` |
| `AssertionsHold` | `Spec => []NoAssertFailure` |
| `ReadyCorrect` | `Spec => []NextIsReady` |
| `HeldCorrect` | `Spec => []HeldIsStable` |
| `ReuseCorrect` | `Spec => NoEarlyReuse` |
| `NothingSkipped` | `Spec => []NoExampleSkipped` |
| `InputRead` | `Spec => []WholeInputRead`, if the first pass is not cut short while a cache is written (`LongFirstPass`): each item was read in some pass, not in every one |
| `RingIsQueue` | `Spec => ImplementsQueue` |

None of the properties is inductive. That a slot is not reused early depends on
`in_use` being cleared only by the last thread, which depends on
`threads_to_finish`, which is a count and does not say *who* is left. The
inductive invariant `IInv` relates the count to the set of threads:

- `LiveInv`, its heart: while some thread is not through with the published
  example `k`, the slot of `k` is in use, holds `k`, and counts at least the
  threads that are not through (`Unreleased(k)`). It is "at least", not
  "exactly", since a predicted example is never counted down.
- `FreeInv`, `FreeAlone`: a thread about to free a slot is alone in doing so,
  and the count is zero. The count being positive for live examples, it frees
  none of those.
- `ParserInv`, `PublishInv`, `RoomInv`: while the parser has a slot, all threads
  are less than a ring behind, so by the arithmetic of `SlotsDiffer` no live
  example shares the slot; what is about to be published is complete.
- `HeldInv`, `UsedInv`, `DoneInv`, `CounterInv`, `InputInv`, `KindInv`,
  `BoundInv`: where slots, indices and the parser stand to each other.

There is one lemma per action; steps that touch nothing of this share
`CalmStep` and `CalmWorker`. `NothingSkipped` needs one more invariant
(`ExitInv`), and `RingIsQueue` shows that each step is a step of the queue or
invisible in it.

### The learners and the delay ring

`GdPipelineProofs` and `GdResultProofs` do the same for `gd.cc`, where an example
goes through two rings. Their hypotheses are those under which the code keeps
its promises:

- no relay (`NoRelay(g)`: no cluster, or a node that only sends). With the relay
  and unlabelled examples the promises are broken (`GdRelayUnlabelled`); with it
  and labelled ones alone they are checked by `GdCluster`, not proved;
- no example tagged `save` (`GdSave` shows what happens with one);
- no simulated active learning (`GdActive`).

| Theorem | Statement |
|---|---|
| `TypeCorrect`, `AssertionsHold` | `Spec => []TypeOK`, `Spec => []NoAssertFailure` |
| `NeverEmpty` | `Spec => []NoNullDereference` |
| `DelayIsImmediate` | `Spec => []DelayNeverBlocks` |
| `AccountsAlone` | `Spec => []AccountingExclusive` |
| `SlotsReusedInTime` | `Spec => NoEarlyReuse` |
| `RingIsQueue` | `Spec => ImplementsQueue` |
| `NothingIsLost` | `Spec => []AllAccounted`: the totals and the empty slots at the end |
| `TrainsInOrder` | `Spec => TrainedInOrder` |
| `TrainsSequentially` | `Spec => []SequentialTraining`, with `LongFirstPass` |
| `NothingSentLate` | `Spec => NoSendAfterShutdown`, with labelled examples only |

The argument turns on one fact that no line of the code states: *at most one
example is in the delay ring, and then every thread is done with predicting
it*. A thread that has predicted a labelled example waits (`wait_sum`) until the
last one has, and only then do all of them fetch it from the delay ring
(`get_delay`, `return`, `advance`) before they take another. The parts of `IInv`:

- `LiveInv` and `PredictInv` say of an example that somebody has yet to predict
  that its slot is in use, holds it, and counts exactly those threads
  (`Unpredicted`); and that all who have predicted it, if it is trained on, wait
  by it. `WaitInv` is the other side: who waits by an example that is done is
  owed it, or some thread is just about to put it into the delay ring.
- `CompleteInv`: the thread between `done = true` and the end of `delay_example`
  holds `ex_lock`, and everybody else waits by the same example (or, if it
  is not trained on, has left it behind). This is why `delay_example` finds the
  delay ring empty, and never waits there while it holds the lock.
- `TrainInv`, `FetchInv`, `DelayRingInv`: all threads that owe a training step owe
  it for the same example (`Owing`), which is in the slot before `local_index`;
  `threads_to_finish` counts those that owe it, `threads_to_use` those
  that have still to fetch it, and their delay indices point to it.
- `CloseInv`, `ClearInv`: whoever ends an example, or takes it out of the delay
  ring, is the last one to have to do with it.
- `ParserInv`, `PublishInv`, `RingInv` are as for naive Bayes.

What the learners achieve needs more than that, in a second layer on top of
`IInv`: `CountInv` (examples are accounted for one after the other), `InUseInv`
(a slot is in use for a reason) and `ExitInv` for `NothingIsLost`; `OrderInv`
for `TrainsInOrder`; `ItemInv` (the `k`-th example is the one of the input at
that place) and `SequenceInv` for `TrainsSequentially`; `ShutInv` and
`LabelInv` for `NothingSentLate`. The last one really needs its hypothesis. On
a node that only sends, with an unlabelled example, a thread that is not the
last to predict it does not wait; it may find the input at its end, leave and
shut the socket down (`gd.cc:61`), and the last one then sends its prediction
into the closed socket. Among the passing runs, unlabelled examples are only in
those without a cluster.

### Runs of the program

`VwProofs` proves about `Vw`, for every sequence of command lines and whatever
is killed:

| Theorem | Statement |
|---|---|
| `ModelsReplacedWhole` | `Spec => ModelReplacedWhole` |
| `NbModelsKept` | `Spec => NbModelKept`, that is, but for `BacksUpEmptyFile` |
| `CurvatureAtOwnPrediction` | `Spec => []OwnPrediction` |
| `DirectionIsWhole` | `Spec => []DirectionFromWholePass` |
| `BatchesMerged` | `Spec => []BatchMerged` |
| `ModelsAddUp` | `Spec => []LoadedWeights` |

The first two and the last assume that no regressor has the name of a naive Bayes model
(`NamesApart`); nothing in the code looks at both names, and a user who gives
the same to `-f` and `--nb_model` gets what was written last. Their invariant is
`FilesInv`: from `DumpWeights` to `Rename` the file under the temporary name is
a whole dump of the settings and weights in memory, and from `NbBackup` to
`NbWrite` the name is free, so what `NbWrite` writes replaces nothing. `ModelNamed`: a
model changes in `Rename` alone, and is one of these dumps then.

The two on conjugate gradient rest on `CgInv`, which says what conjugate gradient holds after
`k` examples of a pass (`Progress`): the derivative of exactly those, or, in a
pass for the curvature, the predictions of a whole pass with the reading place
at `k`. `ExampleUsed` shows that an example takes this from `k` to `k + 1` and
`PassChanged` that a change of the pass, in each of its ways (step, step back,
new direction, next round), takes a complete pass to the start of one.
`ItemsAndPasses` shows that the program notices the change of the pass exactly
where the input begins again; it needs the two passes that `parse_args` insists
on for `--conjugate_gradient`.

`BatchesMerged` is about the operators of `LdaBatch`, for any number of examples in a
minibatch, of namespaces in an example and of features in a namespace. `TakenOne` is
one round of the loop of `merge_pair`: what is merged so far is below the next feature
of the source, what is left of the destination is not, and together they hold what they
held and that feature. From it come `MergedPair` (two runs in order become one that
holds both), `MergedLast` and `MergedSet` (the loop of `merge`, wherever it stops),
`MergedAll` (`merge_all`), `MergedIn` (`merge_in` adds the features of one example, each
marked with it) and `SetMerged` (all examples of the batch). "Holds" (`Holds`, `Joins`)
compares how often each feature occurs, so equal features of several documents are
counted, not just found. The invariant `LdaInv` is small: the examples are items of the
input, and `LdaProcess` lets no batch pass that has no features.

`ModelsAddUp` is about what goes round the disk: a run dumps its weights, and a later
one, which may have other options, starts from them. It assumes `EnoughWeights`: no
command line asks for more threads than there are weights, as `stride * length /
num_threads` would give each thread an array of no weights then (nothing in the code
refuses it). The command lines of `MCVw` satisfy both hypotheses. Its argument has three parts.

- What a file holds: `DumpEntries` shows that the indices `dump_regressor` writes only
  rise (`Rises`; for topics, each index has `stride` numbers of its own and `lda` is
  less), so none is twice in a file and what the file says of an index is unique
  (`ValueIn`). `Place` undoes the division `WeightOf` or `TopicOf` made when there is
  one thread or a stride of one (`PlacedBack`, `TopicPlacedBack`), and no other index
  of the same thread goes there (`OwnPlace`).
- What loading does: `EntriesAdded` is one file, by induction on its entries, and
  `FilesLoaded` all files of `-i`, by induction on the files: the first sets the header
  and begins with `InitializeRegressor`, the others agree with it or end the program.
- The runs: the invariant `LoadInv` says that the settings fit together (`SettingsFit`:
  the threads divide the weights, the stride has room for the topics), that the weights
  are arrays of that size, and that each file with the name of a model has whole numbers
  and no index twice. The last holds of what `Rename` makes a model since it is a dump
  of such arrays (`DumpGood`), and of what a killed run leaves since that is what was
  there. `AsLoaded` says that until the input ends the weights are what was loaded
  (in the model, training shows at the end of the input).

### The buffer and the readers

`InputProofs` proves about `InputPath`, for every size of the buffer, text,
sequence of sessions with their options, whatever read(2) returns and wherever
the program is killed:

| Theorem | Statement |
|---|---|
| `ReadsLikeStream` | `Spec /\ [](Cells /\ Sizes) => ImplementsStream` |
| `OpenFileRead` | `Spec /\ [](Cells /\ Sizes) => []ReadsOpenFile` |
| `CachesReadLikeStream` | `Spec /\ []OneCache => ImplementsStream /\ []ReadsOpenFile` |
| `NoPartialCache` | `Spec /\ []OneCache => []CacheWhole` |
| `GramsComplete` | `Spec /\ []OneCache => GramsWithinSkips` |
| `PassesComplete` | `Spec /\ [](OneCache /\ OldRebuilt) => []WholePass` |
| `PiecesFit` | `Spec /\ []OneCache => []OutFits` |
| `ClaimsHold` | `Spec /\ []OneCache => []SortedWhenClaimed` |
| `CacheTransparent` | `Spec /\ [](OneCache /\ SameSort) => []Transparent` |
| `ExamplesSharedOut` | `Spec /\ [](OneCache /\ EnoughWeights) => []ThreadsShareOut` |

`Cells` says that a file holds cells, and `Sizes` that what is asked of `buf_read`
is a number of them. In the code both are types: a file holds bytes, and the
argument is a `size_t`. In the model a size that is read from a cache is a cell
like any other, so both are hypotheses of the first two theorems, which say
nothing of which cells a file holds; `CachesReadLikeStream` does without.

The buffer (`loaded`, `end`), the files and `current` determine what is still to
be read, `Rest`: what is in the buffer and was not handed out, then the rest of the
current file, then the later files. `BufferInv` says that the three fit together.
Each round of a call has a lemma. `ServeCells` and `ServeLine` take the answer
from the front of `Rest`; `MovedUp` says that moving what is unread to the front
loses none of it, so `FillStep` and `NextFileStep` leave `Rest` alone although
all its parts change; `NoMoreStep` is the end of the last file, where `buf_read` hands
out the rest and `readto` leaves a line that no terminal ends.

`ReadsOpenFile` is about what is around the buffer, and is not inductive. After
the last file `current` is behind all of them, and `fill` would index
`files[current]` there (`io.cc:27,75`). `CallInv` says that this is so only when the last
answer was short: fewer cells than asked for, or no line. Every reader compares, gives
up, and `reset_source` comes next. That it sets `current` to a file again needs
`SourceInv`: there is at least one file, since several passes are refused without
something to rewind, and what can be rewound is an open cache or the one being
written. `parse_cache` goes through any number of caches, so its result
(`AfterCaches`) is a fold, and `CachesOpened` an induction.

### What the learner gets

The other theorems are about what is in the cells, and need all of the session:
a cache is right because a pass over the text wrote it, possibly two sessions
ago, and a pass over the cache is right because the cache is. The inductive
invariant is `WholeInv`, the above (`IInv`) and `PassInv`:

- `CachesKept`: what has the name of a cache is *complete* (a header, and the
  cells of one example for each line of the text, as one session may read it) or
  what an older version left, and there is nothing else to find, even after
  a kill. `KeptWhole` compares this with `CacheWhole`, which collects the caches by
  recursion.
- `TextInv`: where the reader of the text is. After `k` examples `Rest` is what is
  behind `k` lines (`TextPlace`), and if a cache is written, what was put into it so
  far is the header and the cells of `k` examples of these lines (`Writes`). So
  when the last line is read and the file gets its name, it is complete.
- `CacheInv`: where the reader of a cache is. The cache holds the examples `es`, `k` of
  them were read (`CachePlace`), and within the next one the reader is at one of nine
  places (`ExamplePlace`: the label, the size of the tag, the tag, ..., feature
  `i` of namespace `j`); at each, `Rest` is the cells of that example from
  there on and then those of the later ones, and the slot holds what came before.
- `ModeInv`: how the reader, the open caches, `write_cache` and `resettable` go together.

A step has a lemma per reader and place. For the reader of a cache they end in
`FeatureTaken`, where the decoder meets what the encoder has written: the value
and the distance from the last index, with a run length code of as many digits as it
takes. `NamespaceDecoded` (`ExampleProofs`) is the fact about the codec: for every
sequence of features and all widths with `WidthAssumption`, decoding the cells of a
namespace step by step gives back each feature, its index, and whether the
index steps back. The last is what decides whether a slot may say that it is
sorted (`ClaimsHold`).

`CacheTransparent` compares what is delivered with what the line says on an empty
slot. Four things may be different, and have a lemma each: a reader of a cache has
more bits than it was asked for and masks them, after the sorting rather than before it
(`Narrower`, and the section on what sorting leaves with more and with fewer bits);
namespaces that occur twice; `setup_example`, which has to do the same to slots that
agree (`Agree`); and what the learner leaves behind in a slot (`Tidy`).
`Grammed` and the lemmas about it carry the n-grams through.

The hypotheses are about the options, and each excludes something that goes wrong
without it:

- `OneCache`: no session uses more than one `--cache_file`. `parse_cache` looks at each
  cache on its own. If the first is missing, the header of the new one has the
  default bits; if the second exists and no bits are asked for, its bits are used from then on, so
  what is written has other bits than its header says. The run `Input` has a
  scenario with two caches for which the properties hold.
- `OldRebuilt`: if there is a cache of an older version, the sessions say how many bits
  they want. Such a file is taken for a cache of no bits and rebuilt, unless no
  bits are asked for: then it is read, as an empty one.
- `SameSort`: the sessions of a scenario agree on `--sort_features`. A cache does
  not say whether it was written sorted, so the learner gets the order of the session that wrote it.
- `EnoughWeights`: no session asks for more threads than weights. `expert_size` is 0
  otherwise, and the loop of `setup_example` does not end.

All scenarios of the run `Input` satisfy the last three, and all but one the first.
As the scenario never changes in a behaviour, `[]OneCache` only picks scenarios.
One assumption on constants limits more: no line uses the namespace of the constant
(`LineAssumption`), which `setup_example` would list twice.

### The shares of the threads

`setup_example` cuts the features of each namespace into one piece per thread, by a
binary search for each limit that starts at the cut before it. `ExampleProofs` states
of this as a fact about the operator `Cut`: `FeaturesSharedOut`, for every sequence of
features and every stride. It assumes that there are `2 ^ partition_bits` threads and
that they divide the weights evenly. The number of weights is a power of two, so this
only excludes more threads than weights. `ExamplesSharedOut` is the same of the
examples that the program delivers.

`SearchBoundary` does not assume that the features are sorted: what the search returns
is not below the value and what is before it is. So the cuts never step back, and every feature
has exactly one thread, even for features that were left unsorted. `CutsAtLimits`
adds the order: then all features before a cut are below the limit of the cut, and
all behind it are not. `CutByCut` takes the fold apart.

### The n-grams

`addgrams` calls itself: it either takes the next feature or skips one, as long as
there are skips left. `MasksOnce` says that the masks it makes are the choices of `n`
offsets, beginning with 0 and rising, that leave out at most `skips` in all
(`Offsets`), and each once. The invariant of the recursion is `Extensions`: the
choices that begin with the mask so far, step over at least the skips already taken,
and have so many features and skips left.

`GramsComplete` takes this to the learner. `MasksForListed` puts the masks of 2 to
`ngram` words together, and `GramListMade` numbers what `generateGrams` adds: mask by
mask one feature for each choice that ends within the namespace, none twice. Two
choices may have the same index, so `Counted` goes from this numbering to how many
features have an index. `GramsDelivered` follows the features through the rest of
`setup_example`: ignored namespaces are dropped whole, the constant has a namespace of
its own, and the stride is a factor of every index. `GramsPrepared` says it of the
step `Prepare`, where the invariant of the caches gives the options and the words.

### Induction over data

The induction rules of the library take an operator as a parameter, which no
prover here can instantiate. Two of its facts need none: proper inclusion is well
founded on the subsets of a finite set, and a relation is well founded if every
nonempty set has a minimal element. `SequenceProofs` gets from them induction on
a set of numbers (`SetInduction`), the existence of recursive functions (`NatRecursion` for
a number, `Recursion` for the steps of a sequence, `SetRecursion` in the form that
`FoldLeft` uses), and with these what `FlattenSeq` returns (`FlattenType`,
`FlattenFirst`), on which `Rest` rests. What a recursive function computes is then an
induction like any other: the digits of a number, the halving of a search, the masks
of an n-gram, the words of a line.

### Only model-checked

- Liveness (`Termination`, `SessionsEnd`, `EveryRunEnds`): out of reach of the prover.
- `GdPipeline` with the relay.
- `InputPath` with several caches in a session, and where the other hypotheses
  above do not hold.

## 5. Not modelled

- Values: weights, predictions, losses, class distributions and moments. They are
  floating-point numbers; where control depends on them (a loss that got worse, a
  curvature that vanished, a label), the model chooses freely or keeps just that.
- Memory-model effects below program order. Unlocked accesses to shared
  variables (`done`, `used_index`, `delay_indices`, `*global.sd`) are data races;
  the model interleaves them in program order. The unlocked counts of naive
  Bayes (`nb.cc:198`) are not represented.
- `offset_predict` and `offset_train`, used by the stand-alone `offset_tree`.
- The master of a cluster (`multisource.cc`) and the socket branch of
  `parse_source_args`. At this commit the master cannot run: `parse_source_args`
  accepts one connection, and `receive_features` indexes `p->ids`, which nothing
  fills (`reset_source` notes that the support for ids was dropped). The relay is
  modelled with the master as its environment.
- Daemon mode: `--daemon` is declared (`parse_args.cc:75`), but nothing sets
  `global.daemon`.
- A full disk or a failing `write`: `flush` only logs it. Network input.
- The branches of `cache_numbits` for a version of 30 characters or more and for a
  file that ends within its header: no program writes such a cache under its name
  (`CacheNumbits`).
- Hashing (a constant function of the models), feature products, losses, the
  inference of LDA, Hoeffding trees (no driver calls them), RRD reporting,
  `timsort.h` (used by nothing), scripts: `PROJECT.json` gives the reason for
  each.

## 6. Plan

What is left is proofs, in this order:

1. `GdPipeline` with the relay as one more actor, labelled examples only: the
   invariant of `GdPipelineProofs` with several examples in the delay ring, one
   delay index per actor between the slowest and `local_index`.
2. `PassInv` for several caches in a session, with the condition on their bits under
   which `Transparent` holds.
