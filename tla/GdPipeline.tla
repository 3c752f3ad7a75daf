----------------------------- MODULE GdPipeline -----------------------------
(***************************************************************************)
(* The learner threads of gd.cc (gd_thread and predict) on the ring of     *)
(* examples and the delay ring, with the message relay when there is one.  *)
(* Every thread predicts with its own share of the features; the last one  *)
(* completes the prediction and enters the example into the delay ring,    *)
(* from where every thread trains on it before it predicts the next.       *)
(*                                                                         *)
(* Weights, predictions and losses are left out; `trained` remembers which *)
(* examples a thread has trained on, `eta_decays` how often the learning   *)
(* rate was multiplied by its decay.                                       *)
(***************************************************************************)
EXTENDS DelayRing

CONSTANT ActiveSimulation   \* global.active_simulation

ASSUME ActiveAssumption == ActiveSimulation \in BOOLEAN

VARIABLES
  finished_sum,   \* threads that wait on finished_sum of the example they hold
  mine,           \* the thread's delay index, as get_delay_example read it
  current_pass,   \* the pass gd_thread believes to be in
  eta_decays,     \* global.eta = initial eta * decay ^ eta_decays
  trained         \* history: number of the last example trained on locally

gdVars == <<finished_sum, mine, current_pass, eta_decays, trained>>
vars == <<ringVars, delayVars, ex_lock, countVars, crashed, netVars, locals,
          pc, gdVars, global>>

RoutinePcs == {"return", "advance", "use", "clear", "delay", "insert", "skip",
               "finish", "account", "account_end", "free"}
GdPcs == RoutinePcs \cup
  {"peek", "get_delay", "global", "await_global", "train", "decay",
   "get_example", "wait", "dispatch", "predict", "wait_sum", "unlock",
   "check_done", "scan", "drained", "exit"}
RelayPcs == RoutinePcs \cup {"relay", "blocking_get", "hand_on", "exit"}

Init ==
  /\ RingInit
  /\ DelayInit
  /\ pc = [a \in Actors |-> Top(a)]
  /\ finished_sum = {}
  /\ mine = [t \in Threads |-> 0]
  /\ current_pass = [t \in Threads |-> 0]
  /\ eta_decays = 0
  /\ trained = [t \in Threads |-> 0]

-----------------------------------------------------------------------------
(* get_delay_example                                                       *)

\* The unlocked read of the thread's own delay index.
Peek(t) ==
  /\ pc[t] = "peek"
  /\ mine' = [mine EXCEPT ![t] = delay_indices[t]]
  /\ Goto(t, "get_delay")
  /\ UNCHANGED <<ringVars, delayVars, ex_lock, countVars, crashed, netVars,
                 locals, finished_sum, current_pass, eta_decays, trained>>

ParserDone == done /\ AllUsed

\* "we must do global training sometimes"
WantsGlobal(t) ==
  /\ GlobalTraining
  /\ \/ local_index > delay_indices[GlobalTaker(t)] + RingSize \div 2
     \/ ParserDone /\ (local_index = mine[t] \/ GlobalUpdate = "delayed_global")

\* An example waits for this thread, and it trains on local predictions.
HasLocal(t) ==
  /\ mine[t] # local_index
  /\ GlobalUpdate = "delayed_global" => ~LocalPrediction

GetDelayExample(t) ==
  /\ pc[t] = "get_delay"
  /\ taker' = [taker EXCEPT ![t] = t]
  /\ Goto(t, CASE WantsGlobal(t) -> "global"
               [] ~WantsGlobal(t) /\ HasLocal(t) -> "return"
               [] OTHER -> "get_example")
  /\ UNCHANGED <<ringVars, delayVars, ex_lock, countVars, crashed, netVars,
                 held, index, count, reg, gdVars>>

\* No global update is available; more may come.
NoGlobalYet(t) == delay_indices[GlobalTaker(t)] = global_index

GetGlobalExample(t) ==
  /\ pc[t] = "global"
  /\ taker' = [taker EXCEPT ![t] = GlobalTaker(t)]
  /\ Goto(t, CASE NoGlobalYet(t) /\ ~ParserDone -> "await_global"
               [] NoGlobalYet(t) /\ ParserDone  -> "get_example"
               [] OTHER -> "return")
  /\ UNCHANGED <<ringVars, delayVars, ex_lock, countVars, crashed, netVars,
                 held, index, count, reg, gdVars>>

\* while (no global update) wait on global_delay_nonempty.
AwaitGlobal(t) ==
  /\ pc[t] = "await_global"
  /\ DelayFree
  /\ t \notin global_delay_nonempty
  /\ IF NoGlobalYet(t)
       THEN /\ global_delay_nonempty' = global_delay_nonempty \cup {t}
            /\ UNCHANGED pc
       ELSE /\ Goto(t, "return")
            /\ UNCHANGED global_delay_nonempty
  /\ UNCHANGED <<ringVars, delay_indices, delay_ring, threads_to_use,
                 local_index, global_index, delay_empty, delay_nonempty,
                 delay_lock, ex_lock, countVars, crashed, netVars, locals,
                 gdVars>>

-----------------------------------------------------------------------------
(* Training                                                                *)

\* inline_train.  The first example of a later pass decays global.eta first,
\* which takes an unlocked read and a write.
Train(t) ==
  LET ec == contents[held[t]]
  IN  /\ pc[t] = "train"
      /\ trained' = IF taker[t] = t
                      THEN [trained EXCEPT ![t] = ec.counter] ELSE trained
      /\ IF ec.pass # current_pass[t]
           THEN /\ reg' = [reg EXCEPT ![t] = eta_decays]
                /\ Goto(t, "decay")
           ELSE /\ UNCHANGED reg
                /\ Goto(t, "finish")
      /\ UNCHANGED <<ringVars, delayVars, ex_lock, countVars, crashed,
                     netVars, held, index, taker, count, finished_sum, mine,
                     current_pass, eta_decays>>

Decay(t) ==
  /\ pc[t] = "decay"
  /\ eta_decays' = reg[t] + 1
  /\ current_pass' = [current_pass EXCEPT ![t] = contents[held[t]].pass]
  /\ reg' = [reg EXCEPT ![t] = 0]
  /\ Goto(t, "finish")
  /\ UNCHANGED <<ringVars, delayVars, ex_lock, countVars, crashed, netVars,
                 held, index, taker, count, finished_sum, mine, trained>>

-----------------------------------------------------------------------------
(* Taking an example, and predicting on it                                 *)

restVars == <<delayVars, ex_lock, countVars, crashed, netVars, gdVars>>

Take(t) ==
  /\ pc[t] = "get_example"
  /\ TakeExample(t)
  /\ held' = [held EXCEPT ![t] = SlotOf(used_index[t])]
  /\ Goto(t, "dispatch")
  /\ UNCHANGED <<restVars, index, taker, count, reg>>

Await(t) ==
  /\ pc[t] = "get_example"
  /\ AwaitExample(t)
  /\ Goto(t, "wait")
  /\ UNCHANGED <<restVars, locals>>

Woken(t) ==
  /\ pc[t] = "wait"
  /\ t \notin example_available
  /\ Goto(t, "check_done")
  /\ UNCHANGED <<ringVars, restVars, locals>>

NothingLeft(t) ==
  /\ pc[t] = "get_example"
  /\ NoExample(t)
  /\ Goto(t, "check_done")
  /\ UNCHANGED <<restVars, locals>>

\* C_ASSERT(ec->in_use); a "save" example goes to delay_example(ec, 0) with
\* every thread that takes it, any other is predicted.
Dispatch(t) ==
  /\ pc[t] = "dispatch"
  /\ aborted' = ~in_use[held[t]]
  /\ IF contents[held[t]].kind = "save"
       THEN Goto(t, "delay") /\ count' = [count EXCEPT ![t] = 0]
       ELSE Goto(t, "predict") /\ UNCHANGED count
  /\ UNCHANGED <<in_use, contents, threads_to_finish, parsed_examples,
                 used_index, done, example_available, parser_pc, source,
                 restVars, held, index, taker, reg>>

\* global.training && label != FLT_MAX
TrainsOn(kind) == Training /\ kind = "labelled"

\* The label after local_predict: a simulated active learner may drop it.
LabelAfter(kind) ==
  IF ActiveSimulation /\ kind = "labelled" THEN {"labelled", "unlabelled"}
                                           ELSE {kind}

\* predict, the last thread on the example: complete the prediction, send it,
\* wake the others, and go on to delay_example with ex->lock held.
PredictLast(t) ==
  LET s == held[t]
  IN  /\ pc[t] = "predict"
      /\ ~Locked(s)
      /\ LastToFinish(s)
      /\ threads_to_finish' = [threads_to_finish EXCEPT ![s] = @ - 1]
      /\ \E kind \in LabelAfter(contents[s].kind) :
           /\ contents' = [contents EXCEPT ![s].kind = kind, ![s].done = TRUE]
           /\ count' = [count EXCEPT ![t] =
                          IF TrainsOn(kind) THEN NumThreads ELSE 0]
      /\ sent' = IF LocalPrediction THEN sent + 1 ELSE sent
      /\ finished_sum' = {u \in finished_sum : held[u] # s}
      /\ ex_lock' = [ex_lock EXCEPT ![s] = t]
      /\ Goto(t, "delay")
      /\ UNCHANGED <<in_use, parsed_examples, used_index, done,
                     example_available, aborted, parser_pc, source, delayVars,
                     countVars, crashed, answered, shut, held, index, taker,
                     reg, mine, current_pass, eta_decays, trained>>

\* A slip in MustWait, to be put in its place.
NeverWait(s) == FALSE

\* "need to wait if there is training to do"
MustWait(s) == TrainsOn(contents[s].kind) /\ ~contents[s].done

\* Any other thread waits for the last one if there is training to do.
PredictMore(t) ==
  LET s == held[t]
  IN  /\ pc[t] = "predict"
      /\ ~Locked(s)
      /\ ~LastToFinish(s)
      /\ threads_to_finish' = [threads_to_finish EXCEPT ![s] = @ - 1]
      /\ IF MustWait(s)
           THEN finished_sum' = finished_sum \cup {t} /\ Goto(t, "wait_sum")
           ELSE UNCHANGED finished_sum /\ Goto(t, "peek")
      /\ UNCHANGED <<in_use, contents, parsed_examples, used_index, done,
                     example_available, aborted, parser_pc, source, delayVars,
                     ex_lock, countVars, crashed, netVars, locals, mine,
                     current_pass, eta_decays, trained>>

\* The wait on finished_sum is over, once ex->lock can be had again.
Summed(t) ==
  LET s == held[t]
  IN  /\ pc[t] = "wait_sum"
      /\ t \notin finished_sum
      /\ ~Locked(s)
      /\ IF contents[s].done
           THEN Goto(t, "peek") /\ UNCHANGED finished_sum
           ELSE finished_sum' = finished_sum \cup {t} /\ UNCHANGED pc
      /\ UNCHANGED <<ringVars, delayVars, ex_lock, countVars, crashed,
                     netVars, locals, mine, current_pass, eta_decays, trained>>

\* pthread_mutex_unlock(&ex->lock) at the end of predict.
Unlock(t) ==
  /\ pc[t] = "unlock"
  /\ ex_lock' = [ex_lock EXCEPT ![held[t]] = Null]
  /\ Goto(t, "peek")
  /\ UNCHANGED <<ringVars, delayVars, countVars, crashed, netVars, locals,
                 gdVars>>

-----------------------------------------------------------------------------
(* thread_done, and the end of gd_thread                                   *)

CheckDone(t) ==
  /\ pc[t] = "check_done"
  /\ Goto(t, IF done THEN "scan" ELSE "peek")
  /\ UNCHANGED <<ringVars, restVars, locals>>

Scan(t) ==
  /\ pc[t] = "scan"
  /\ Goto(t, IF AllUsed THEN "drained" ELSE "peek")
  /\ UNCHANGED <<ringVars, restVars, locals>>

\* shutdown(global.local_prediction, SHUT_WR) and return, or once more round.
Leave(t) ==
  /\ pc[t] = "drained"
  /\ DelayFree
  /\ Goto(t, IF Drained(t) THEN "exit" ELSE "peek")
  /\ shut' = (shut \/ (Drained(t) /\ LocalPrediction))
  /\ UNCHANGED <<ringVars, delayVars, ex_lock, countVars, crashed, sent,
                 answered, locals, gdVars>>

-----------------------------------------------------------------------------
LearnerStep(t) ==
  \/ RoutineStep(t) /\ UNCHANGED gdVars
  \/ Peek(t)
  \/ GetDelayExample(t)
  \/ GetGlobalExample(t)
  \/ AwaitGlobal(t)
  \/ Train(t)
  \/ Decay(t)
  \/ Take(t)
  \/ Await(t)
  \/ Woken(t)
  \/ NothingLeft(t)
  \/ Dispatch(t)
  \/ PredictLast(t)
  \/ PredictMore(t)
  \/ Summed(t)
  \/ Unlock(t)
  \/ CheckDone(t)
  \/ Scan(t)
  \/ Leave(t)

Learner(t) == LearnerStep(t) /\ UNCHANGED global

RelayThread ==
  /\ Mesg = 1
  /\ RelayStep \/ RoutineStep(Relay)
  /\ UNCHANGED <<gdVars, global>>

Parser ==
  /\ ParserStep
  /\ UNCHANGED <<delayVars, ex_lock, countVars, crashed, netVars, locals, pc,
                 gdVars, global>>

AllExited == parser_pc = "exit" /\ \A a \in Actors : pc[a] = "exit"

\* destroy_gd, destroy_relay and end_parser join them all.
Joined == AllExited /\ UNCHANGED vars

Running == ~aborted /\ ~crashed

Next ==
  \/ Running /\ Parser
  \/ Running /\ \E t \in Threads : Learner(t)
  \/ Running /\ RelayThread
  \/ Joined

\* Every thread keeps being scheduled.  A lock is never held for ever, and
\* whoever waits for one gets it in the end.
Fairness ==
  /\ WF_vars(Running /\ Parser)
  /\ \A t \in Threads : WF_vars(Running /\ Learner(t))
  /\ WF_vars(Running /\ RelayThread)

Spec == Init /\ [][Next]_vars
FairSpec == Spec /\ Fairness

-----------------------------------------------------------------------------
\* Every variable keeps to the values the code can give it; the counts of
\* threads, unsigned in the code, never run below zero, and none of them
\* exceeds the number of those who may hold the example.
TypeOK ==
  /\ RingTypeOK
  /\ threads_to_finish \in [Slots -> 0 .. 2 * NumThreads + 1]
  /\ threads_to_use \in [Slots -> 0 .. 2 * NumThreads + 1]
  /\ delay_indices \in [Takers -> Nat]
  /\ delay_ring \in [Slots -> Slots \cup {Null}]
  /\ local_index \in Nat /\ global_index \in Nat
  /\ delay_empty \subseteq Threads
  /\ delay_nonempty \subseteq Actors
  /\ global_delay_nonempty \subseteq Threads
  /\ ex_lock \in [Slots -> Actors \cup {Null}]
  /\ delay_lock \in Actors \cup {Null}
  /\ sd_example_number \in Nat /\ local_example_number \in Nat
  /\ crashed \in BOOLEAN
  /\ pc \in [Actors -> GdPcs \cup RelayPcs]
  /\ Mesg = 1 => pc[Relay] \in RelayPcs
  /\ held \in [Actors -> Slots \cup {Null}]
  /\ index \in [Actors -> Slots]
  /\ taker \in [Actors -> Takers]
  /\ count \in [Actors -> {0, NumThreads}]
  /\ reg \in [Actors -> Nat]
  /\ sent \in Nat /\ answered \in 0 .. sent /\ shut \in BOOLEAN
  /\ finished_sum \subseteq Threads
  /\ mine \in [Threads -> Nat]
  /\ current_pass \in [Threads -> Nat]
  /\ eta_decays \in Nat
  /\ trained \in [Threads -> Nat]

\* No C_ASSERT of get_example, free_example or gd_thread ever fails: a slot
\* is in use whenever a thread takes, uses or frees it.
NoAssertFailure == ~aborted

\* return_example never finds the slot empty that the indices sent it to.
NoNullDereference == ~crashed

\* Where an actor works on the example it holds, or waits for others to.
InHand == {"advance", "use", "clear", "train", "decay", "hand_on", "finish",
           "account", "account_end", "free", "dispatch", "predict",
           "wait_sum", "delay", "insert", "skip"}

\* Nobody's example changes under its hands: setup_example overwrites a slot
\* only when no thread and not the relay works on the example it held, none
\* still has to take it, and it is not in the delay ring.
NoEarlyReuse ==
  [][\A s \in Slots :
       contents'[s].counter # contents[s].counter =>
         /\ \A a \in Actors : pc[a] \in InHand => held[a] # s
         /\ \A t \in Threads : used_index[t] >= contents[s].counter
         /\ \A i \in Slots : delay_ring[i] # s]_vars

\* delay_example never has to wait for a slot of the delay ring: predict
\* calls it with ex->lock held, and those who would empty the slot may need
\* that lock first.
DelayNeverBlocks ==
  \A t \in Threads : pc[t] = "insert" => delay_ring[index[t]] = Null

\* The number of the last example before the n-th that is trained on, in a
\* run whose passes are never cut short.
LastTrainable(n) ==
  LET before == {i \in 1 .. n - 1 : TrainsOn(stream[((i - 1) % FileLen) + 1])}
  IN  IF before = {} THEN 0
      ELSE CHOOSE i \in before : \A j \in before : j <= i

\* "keep example processing sequential" (predict): without delayed updates, a
\* thread that predicts on an example has trained on all earlier ones.
SequentialTraining ==
  \A t \in Threads :
    pc[t] = "predict" => trained[t] = LastTrainable(used_index[t])

\* Every thread trains on the examples in their order, on none of them twice.
TrainedInOrder ==
  [][\A t \in Threads : pc[t] = "train" /\ taker[t] = t /\ pc'[t] # "train"
       => contents[held[t]].counter > trained[t]]_vars

\* The statistics in *global.sd are written without a lock: at most one actor
\* is ever in output_and_account_example.
AccountingExclusive ==
  Cardinality({a \in Actors : pc[a] \in {"account", "account_end"}}) <= 1

\* When the run is over the totals are those of all examples: each entered
\* local_example_number once and sd->example_number twice (gd.cc:132 and 163).
\* Each was given back to the ring, and the delay ring is empty.
AllAccounted ==
  AllExited =>
    /\ local_example_number = parsed_examples
    /\ sd_example_number = 2 * parsed_examples
    /\ \A s \in Slots : ~in_use[s] /\ delay_ring[s] = Null

\* Nothing is sent to the master once some thread has shut the socket down.
NoSendAfterShutdown == [][sent' # sent => ~shut]_vars

\* global.eta decays once between two passes, however many threads there are.
DecaysOncePerPass == eta_decays <= passes_complete

\* How many examples thread t is through with: not the one in its hands, nor
\* the one that waits for it in the delay ring.
Released(t) ==
  IF pc[t] \in InHand \/ delay_indices[t] # local_index
    THEN used_index[t] - 1 ELSE used_index[t]

\* With the delay ring in between, the ring still is the bounded queue.
Queue == INSTANCE BroadcastQueue WITH
  Readers <- Threads, Capacity <- RingSize,
  written <- parsed_examples, taken <- used_index,
  released <- [t \in Threads |-> Released(t)], closed <- done

ImplementsQueue == Queue!Spec

\* The run ends: every thread exits once the input has ended, with no wake-up
\* lost and no two threads waiting for each other.
Termination == <>AllExited
=============================================================================
