---------------------------- MODULE ExampleRing ----------------------------
(***************************************************************************)
(* The ring of examples of parser.cc: one parser thread                    *)
(* (main_parse_loop) fills the slots of a fixed array, and every worker    *)
(* thread takes every example, in order, through get_example.  A slot goes *)
(* back to the parser through free_example once the workers are through.   *)
(*                                                                         *)
(* Every critical section of examples_lock is one action, as is every      *)
(* stretch of code between two of them that touches only state of its own  *)
(* thread.  A condition variable is the set of the threads that wait on    *)
(* it; a thread that is no longer in the set may run on.                   *)
(*                                                                         *)
(* The workers are not in this module: it offers them get_example,         *)
(* free_example and parser_done as the operators of the last section.      *)
(***************************************************************************)
EXTENDS Integers

CONSTANTS
  NumThreads,         \* global.num_threads(): worker threads
  RingSize,           \* global.ring_size
  NumPasses,          \* global.numpasses (--passes)
  InitialPassLength,  \* global.pass_length (--initial_pass_length)
  FileLen,            \* number of examples in the input
  Source,             \* where examples are read from, see Sources
  Kinds               \* the kinds of examples the input may hold

\* "text": a text file or stdin, no cache; "text_to_cache": a text input while
\* a cache is written (parse_source_args).  A program that only reads a cache is
\* not modelled here: main_parse_loop ends the process when it is through, by
\* c_free of the channels nobody has used (see ParserExits in Vw).
Sources == {"text", "text_to_cache"}

\* A labelled example, one whose label is FLT_MAX, one whose tag is "save".
AllKinds == {"labelled", "unlabelled", "save"}

ASSUME RingAssumption ==
  /\ NumThreads \in Nat \ {0}
  /\ RingSize \in Nat \ {0}
  /\ NumPasses \in Nat \ {0}
  /\ InitialPassLength \in Nat
  /\ FileLen \in Nat
  /\ Source \in Sources
  /\ Kinds \subseteq AllKinds
  /\ NumPasses > 1 => Source # "text"   \* "need a cache file for multiple passes"

Threads == 0 .. NumThreads - 1
Slots == 0 .. RingSize - 1
Items == 1 .. FileLen

VARIABLES
  \* examples[]: shared with the workers
  in_use, contents, threads_to_finish,
  \* the indices of the ring and the end-of-input flag
  parsed_examples, used_index, done,
  \* threads waiting on the condition variable example_available
  example_available,
  \* a C_ASSERT failed: the process has exited
  aborted,
  \* where main_parse_loop is
  parser_pc,
  \* locals of main_parse_loop, and the globals only it writes
  example_number, passes_complete, pass_length,
  \* the input: items read so far, which file, whether a cache is being
  \* written and how many items it holds
  position, reading, write_cache, cached,
  \* the input itself (never changes), and a history variable: the items that
  \* were ever parsed
  stream, seen

shared == <<in_use, contents, threads_to_finish, parsed_examples, used_index,
            done, example_available, aborted>>
source == <<example_number, passes_complete, pass_length, position, reading,
            write_cache, cached, stream, seen>>
ringVars == <<shared, parser_pc, source>>

ParserPcs == {"get_unused", "wait_unused", "parse", "publish", "set_done",
              "release", "exit"}

\* The fields of an example the workers look at.
Example == [counter : Nat, pass : Nat, kind : AllKinds, done : BOOLEAN]

SlotOf(n) == n % RingSize        \* examples + n % ring_size
ParserSlot == SlotOf(parsed_examples)

\* start_parser, on the state that parse_source_args leaves.
RingInit ==
  /\ in_use = [s \in Slots |-> FALSE]
  /\ contents = [s \in Slots |->
       [counter |-> 0, pass |-> 0, kind |-> "labelled", done |-> FALSE]]
  /\ threads_to_finish = [s \in Slots |-> 0]
  /\ parsed_examples = 0
  /\ used_index = [t \in Threads |-> 0]
  /\ done = FALSE
  /\ example_available = {}
  /\ aborted = FALSE
  /\ parser_pc = "get_unused"
  /\ example_number = 0
  /\ passes_complete = 0
  /\ pass_length = InitialPassLength
  /\ position = 0
  /\ reading = "text"
  /\ write_cache = (Source = "text_to_cache")
  /\ cached = 0
  /\ stream \in [Items -> Kinds]
  /\ seen = {}

-----------------------------------------------------------------------------
(* Slips one could make in the operators below.  Nothing refers to them:   *)
(* they are put in place of the operator they follow in spirit, to see     *)
(* that the properties notice.                                             *)

TakeAnySlot == TRUE                       \* SlotIsFree, not waiting
OneThreadLess == NumThreads - 1           \* ThreadsPerExample
WakeNobody == example_available           \* WakeWorkers, broadcast forgotten
NeverLonger == FALSE                      \* NeedsLongerPass
LeaveParser == parser_pc                  \* WakeParser, signal forgotten
SomeUsed == \E t \in Threads : used_index[t] = parsed_examples    \* AllUsed

-----------------------------------------------------------------------------
(* The parser thread                                                       *)

\* The test of get_unused_example: the slot after the last published example.
SlotIsFree == ~in_use[ParserSlot]

\* get_unused_example, the slot is free: take it.
GetUnusedExample ==
  /\ parser_pc = "get_unused"
  /\ SlotIsFree
  /\ in_use' = [in_use EXCEPT ![ParserSlot] = TRUE]
  /\ parser_pc' = "parse"
  /\ UNCHANGED <<contents, threads_to_finish, parsed_examples, used_index,
                 done, example_available, aborted, source>>

\* get_unused_example: otherwise wait on example_unused.
WaitForUnused ==
  /\ parser_pc = "get_unused"
  /\ ~SlotIsFree
  /\ parser_pc' = "wait_unused"
  /\ UNCHANGED <<shared, source>>

InputLen == IF reading = "cache" THEN cached ELSE FileLen

\* example_number != pass_length, and the reader finds another example.
Readable == example_number # pass_length /\ position < InputLen

\* setup_example: every thread has to be through with the example.
ThreadsPerExample == NumThreads

\* parse_atomic_example and setup_example, on a slot no other thread sees yet.
ParseExample ==
  /\ parser_pc = "parse"
  /\ Readable
  /\ contents' = [contents EXCEPT ![ParserSlot] =
       [counter |-> parsed_examples + 1,
        pass    |-> passes_complete,
        kind    |-> stream[position + 1],
        done    |-> FALSE]]
  /\ threads_to_finish' = [threads_to_finish EXCEPT ![ParserSlot] = ThreadsPerExample]
  /\ position' = position + 1
  /\ cached' = IF write_cache THEN cached + 1 ELSE cached
  /\ seen' = seen \cup {position + 1}
  /\ example_number' = example_number + 1
  /\ parser_pc' = "publish"
  /\ UNCHANGED <<in_use, parsed_examples, used_index, done, example_available,
                 aborted, passes_complete, pass_length, reading, write_cache,
                 stream>>

\* pthread_cond_broadcast(&example_available): nobody waits any more.
WakeWorkers == {}

\* parsed_examples++ and broadcast, under examples_lock.
Publish ==
  /\ parser_pc = "publish"
  /\ parsed_examples' = parsed_examples + 1
  /\ example_available' = WakeWorkers
  /\ parser_pc' = "get_unused"
  /\ UNCHANGED <<in_use, contents, threads_to_finish, used_index, done,
                 aborted, source>>

\* par->resettable, as parse_cache and parse_source_args set it.
Resettable == Source # "text"

\* reset_source: the cache being written becomes the input; a resettable
\* input starts over, any other one stays where it is.
ResetSource ==
  /\ reading' = IF write_cache THEN "cache" ELSE reading
  /\ write_cache' = FALSE
  /\ position' = IF Resettable THEN 0 ELSE position

\* The last pass was as long as it was allowed to be: a new round of longer
\* passes starts instead of the end of the input.
NeedsLongerPass ==
  passes_complete + 1 = NumPasses /\ example_number = pass_length

\* The pass is over.  (The doubling never overflows: the default pass length
\* is the largest one, and any other stops growing beyond the input.)
EndPass ==
  /\ parser_pc = "parse"
  /\ ~Readable
  /\ ResetSource
  /\ passes_complete' = IF NeedsLongerPass THEN 0 ELSE passes_complete + 1
  /\ pass_length' = IF NeedsLongerPass THEN 2 * pass_length + 1 ELSE pass_length
  /\ example_number' = 0
  /\ parser_pc' = IF ~NeedsLongerPass /\ passes_complete + 1 >= NumPasses
                    THEN "set_done" ELSE "release"
  /\ UNCHANGED <<shared, cached, stream, seen>>

\* done = true, in a critical section of its own.
SetDone ==
  /\ parser_pc = "set_done"
  /\ done' = TRUE
  /\ parser_pc' = "release"
  /\ UNCHANGED <<in_use, contents, threads_to_finish, parsed_examples,
                 used_index, example_available, aborted, source>>

\* The unfilled slot goes back, and whoever waits for an example is woken.
ReleaseSlot ==
  /\ parser_pc = "release"
  /\ in_use' = [in_use EXCEPT ![ParserSlot] = FALSE]
  /\ example_available' = WakeWorkers
  /\ parser_pc' = IF done THEN "exit" ELSE "get_unused"
  /\ UNCHANGED <<contents, threads_to_finish, parsed_examples, used_index,
                 done, aborted, source>>

ParserStep ==
  \/ GetUnusedExample
  \/ WaitForUnused
  \/ ParseExample
  \/ Publish
  \/ EndPass
  \/ SetDone
  \/ ReleaseSlot

-----------------------------------------------------------------------------
(* What the workers call                                                   *)

\* get_example, an example is there: take it.  The code asserts that the slot
\* is in use.
TakeExample(t) ==
  /\ used_index[t] # parsed_examples
  /\ used_index' = [used_index EXCEPT ![t] = @ + 1]
  /\ aborted' = ~in_use[SlotOf(used_index[t])]
  /\ UNCHANGED <<in_use, contents, threads_to_finish, parsed_examples, done,
                 example_available, parser_pc, source>>

\* get_example, nothing to take and more may come: wait.  The wait is not in
\* a loop: the thread returns NULL as soon as it is woken.
AwaitExample(t) ==
  /\ used_index[t] = parsed_examples
  /\ ~done
  /\ example_available' = example_available \cup {t}
  /\ UNCHANGED <<in_use, contents, threads_to_finish, parsed_examples,
                 used_index, done, aborted, parser_pc, source>>

\* get_example, nothing to take and nothing to come: NULL at once.
NoExample(t) ==
  /\ used_index[t] = parsed_examples
  /\ done
  /\ UNCHANGED ringVars

\* pthread_cond_signal(&example_unused): only the parser ever waits on it.
WakeParser ==
  IF parser_pc = "wait_unused" THEN "get_unused" ELSE parser_pc

\* free_example: asserts that the slot is in use, gives it back, wakes the
\* parser, and after the end of the input the waiting workers too.
FreeExample(s) ==
  /\ aborted' = ~in_use[s]
  /\ in_use' = [in_use EXCEPT ![s] = FALSE]
  /\ parser_pc' = WakeParser
  /\ example_available' = IF done THEN WakeWorkers ELSE example_available
  /\ UNCHANGED <<contents, threads_to_finish, parsed_examples, used_index,
                 done, source>>

\* parser_done reads done and then compares the indices, with no lock.  Once
\* done holds parsed_examples is fixed and each used_index only grows towards
\* it, so comparing them one by one and all at once come to the same.
AllUsed == \A t \in Threads : used_index[t] = parsed_examples

-----------------------------------------------------------------------------
RingTypeOK ==
  /\ in_use \in [Slots -> BOOLEAN]
  /\ contents \in [Slots -> Example]
  /\ threads_to_finish \in [Slots -> Int]
  /\ parsed_examples \in Nat
  /\ used_index \in [Threads -> Nat]
  /\ done \in BOOLEAN
  /\ example_available \subseteq Threads
  /\ aborted \in BOOLEAN
  /\ parser_pc \in ParserPcs
  /\ example_number \in Nat
  /\ passes_complete \in Nat
  /\ pass_length \in Nat
  /\ position \in Nat
  /\ reading \in {"text", "cache"}
  /\ write_cache \in BOOLEAN
  /\ cached \in Nat
  /\ stream \in [Items -> Kinds]
  /\ seen \subseteq Nat
=============================================================================
