----------------------------- MODULE NbThreads -----------------------------
(***************************************************************************)
(* The worker threads of the naive Bayes learner (multiclass/nb.cc) on the *)
(* ring of examples.  The delay ring is never filled here                  *)
(* (delay_example(ec, 0) without a message relay frees the example at      *)
(* once), so get_delay_example returns NULL and the delay indices of       *)
(* thread_done are equal: both are left out.  What training does to the    *)
(* class distributions is data of the model and is left out as well.       *)
(***************************************************************************)
EXTENDS ExampleRing

CONSTANT Training   \* global.training: FALSE with -t / --testonly

ASSUME TrainingAssumption == Training \in BOOLEAN

VARIABLES
  pc,    \* where each nb_thread is
  held   \* the slot of the example ec points to

workerVars == <<pc, held>>
vars == <<ringVars, workerVars>>

NbPcs == {"get_example", "wait", "dispatch", "finish", "free",
          "check_done", "scan", "exit"}

Init ==
  /\ RingInit
  /\ pc = [t \in Threads |-> "get_example"]
  /\ held = [t \in Threads |-> 0]

Goto(t, label) == pc' = [pc EXCEPT ![t] = label]

\* (ec = get_example(thread_num)) != NULL
Take(t) ==
  /\ pc[t] = "get_example"
  /\ TakeExample(t)
  /\ held' = [held EXCEPT ![t] = SlotOf(used_index[t])]
  /\ Goto(t, "dispatch")

\* get_example has nothing to return yet and waits ...
Await(t) ==
  /\ pc[t] = "get_example"
  /\ AwaitExample(t)
  /\ Goto(t, "wait")
  /\ UNCHANGED held

\* ... and returns NULL when it is woken.
Woken(t) ==
  /\ pc[t] = "wait"
  /\ t \notin example_available
  /\ Goto(t, "check_done")
  /\ UNCHANGED <<ringVars, held>>

NothingLeft(t) ==
  /\ pc[t] = "get_example"
  /\ NoExample(t)
  /\ Goto(t, "check_done")
  /\ UNCHANGED held

\* C_ASSERT(ec->in_use), then the tag and the label decide: a "save" example
\* is accounted for and freed by every thread that sees it; a labelled one is
\* trained on and finished; any other is predicted, and never finished.
Dispatch(t) ==
  LET ec == contents[held[t]]
  IN  /\ pc[t] = "dispatch"
      /\ aborted' = ~in_use[held[t]]
      /\ Goto(t, CASE ec.kind = "save"                  -> "free"
                   [] ec.kind = "labelled" /\ Training  -> "finish"
                   [] OTHER                             -> "get_example")
      /\ UNCHANGED <<in_use, contents, threads_to_finish, parsed_examples,
                     used_index, done, example_available, parser_pc, source,
                     held>>

\* finish_example (nb.cc): the thread that brings the count to zero frees.
Finish(t) ==
  LET s == held[t]
  IN  /\ pc[t] = "finish"
      /\ threads_to_finish' = [threads_to_finish EXCEPT ![s] = @ - 1]
      /\ Goto(t, IF threads_to_finish[s] = 1 THEN "free" ELSE "get_example")
      /\ UNCHANGED <<in_use, contents, parsed_examples, used_index, done,
                     example_available, aborted, parser_pc, source, held>>

Free(t) ==
  /\ pc[t] = "free"
  /\ FreeExample(held[t])
  /\ Goto(t, "get_example")
  /\ UNCHANGED held

\* thread_done: parser_done reads done first ...
CheckDone(t) ==
  /\ pc[t] = "check_done"
  /\ Goto(t, IF done THEN "scan" ELSE "get_example")
  /\ UNCHANGED <<ringVars, held>>

\* ... and then the indices of all threads.
Scan(t) ==
  /\ pc[t] = "scan"
  /\ Goto(t, IF AllUsed THEN "exit" ELSE "get_example")
  /\ UNCHANGED <<ringVars, held>>

Worker(t) ==
  \/ Take(t)
  \/ Await(t)
  \/ Woken(t)
  \/ NothingLeft(t)
  \/ Dispatch(t)
  \/ Finish(t)
  \/ Free(t)
  \/ CheckDone(t)
  \/ Scan(t)

Parser == ParserStep /\ UNCHANGED workerVars

AllExited == parser_pc = "exit" /\ \A t \in Threads : pc[t] = "exit"

\* end_parser joins the parser thread after destroy_nb has joined the workers.
Joined == AllExited /\ UNCHANGED vars

Next ==
  \/ ~aborted /\ Parser
  \/ ~aborted /\ \E t \in Threads : Worker(t)
  \/ Joined

\* Every thread keeps being scheduled.
Fairness ==
  /\ WF_vars(~aborted /\ Parser)
  /\ \A t \in Threads : WF_vars(~aborted /\ Worker(t))

Spec == Init /\ [][Next]_vars
FairSpec == Spec /\ Fairness

-----------------------------------------------------------------------------
\* Every variable keeps to the values the code can give it; a count of
\* threads never runs below zero (it is unsigned in the code).
TypeOK ==
  /\ RingTypeOK
  /\ threads_to_finish \in [Slots -> 0 .. NumThreads]
  /\ pc \in [Threads -> NbPcs]
  /\ held \in [Threads -> Slots]

\* No C_ASSERT of get_example, free_example or nb_thread ever fails: a slot
\* is in use whenever a worker takes, uses or frees it.
NoAssertFailure == ~aborted

\* What a thread will take next is there: the slot of example n + 1, for a
\* thread that has taken n of those published, is in use and holds that very
\* example.  A parser that reused a slot one step early would break it.
NextIsReady ==
  \A t \in Threads :
    used_index[t] < parsed_examples =>
      /\ in_use[SlotOf(used_index[t])]
      /\ contents[SlotOf(used_index[t])].counter = used_index[t] + 1

\* The example a thread works on does not change under its hands: its slot is
\* in use and holds the example the thread took, until the thread is through
\* with it.
HeldIsStable ==
  \A t \in Threads :
    pc[t] \in {"dispatch", "finish", "free"} =>
      /\ in_use[held[t]]
      /\ contents[held[t]].counter = used_index[t]

\* The number of examples thread t is through with.
Released(t) ==
  IF pc[t] \in {"dispatch", "finish"} THEN used_index[t] - 1 ELSE used_index[t]

\* setup_example overwrites a slot only when every thread is through with the
\* example it held.
NoEarlyReuse ==
  [][\A s \in Slots :
       contents'[s].counter # contents[s].counter =>
         \A t \in Threads : Released(t) >= contents[s].counter]_vars

\* A worker exits only when the input has ended and no thread has an example
\* left to take: nothing published is skipped at the end.
NoExampleSkipped ==
  \A t \in Threads :
    pc[t] = "exit" => done /\ \A u \in Threads : used_index[u] = parsed_examples

\* With no cache to write, the end of the input means that every example of
\* the file was parsed in some pass, whatever the initial pass length: passes
\* that were cut short are followed by longer ones.
WholeInputRead == done => seen = Items

\* The ring implements the bounded queue its users rely on.
Queue == INSTANCE BroadcastQueue WITH
  Readers <- Threads, Capacity <- RingSize,
  written <- parsed_examples, taken <- used_index,
  released <- [t \in Threads |-> Released(t)], closed <- done

ImplementsQueue == Queue!Spec

\* The run ends: every worker exits once the parser has reached the end of its
\* last pass, however the threads interleave; no wake-up is lost.
Termination == <>AllExited
=============================================================================
