--------------------------- MODULE GdResultProofs ---------------------------
(***************************************************************************)
(* What the invariant of GdPipelineProofs leads to: with the delay ring in *)
(* between, the ring of examples still is a bounded queue; every example   *)
(* is accounted for once, and is back in the ring at the end; the threads  *)
(* train on the examples in their order, and the prediction on an example  *)
(* uses the training on all earlier ones.                                  *)
(***************************************************************************)
EXTENDS GdPipelineProofs

-----------------------------------------------------------------------------
(* What the steps of a learner move                                        *)

\* What a learner never touches, or touches in one place only.
LEMMA LearnerFrame ==
  ASSUME NEW t \in Threads, Learner(t)
  PROVE  /\ UNCHANGED <<parsed_examples, done, source, global>>
         /\ Take(t) \/ used_index' = used_index
         /\ AccountEnd(t) \/ UNCHANGED countVars
         /\ Train(t) \/ trained' = trained
         /\ PredictLast(t) \/ sent' = sent
         /\ Leave(t) \/ shut' = shut
  <1> USE DEF ringVars, shared, restVars, countVars, netVars, gdVars
  <1>1. CASE RoutineStep(t) /\ UNCHANGED gdVars
    BY <1>1 DEF Learner, RoutineStep, ReturnExample, Advance, UseReturned,
         ClearSlot, DelayExample, InsertExample, SkipForAll, FinishExample,
         AccountBegin, AccountEnd, Free, FreeExample
  <1>2. CASE Peek(t) \/ GetDelayExample(t) \/ GetGlobalExample(t)
             \/ AwaitGlobal(t) \/ Train(t) \/ Decay(t)
    BY <1>2 DEF Learner, Peek, GetDelayExample, GetGlobalExample, AwaitGlobal,
         Train, Decay
  <1>3. CASE Take(t) \/ Await(t) \/ Woken(t) \/ NothingLeft(t) \/ Dispatch(t)
    BY <1>3 DEF Learner, Take, TakeExample, Await, AwaitExample, Woken,
         NothingLeft, NoExample, Dispatch
  <1>4. CASE PredictLast(t) \/ PredictMore(t) \/ Summed(t) \/ Unlock(t)
             \/ CheckDone(t) \/ Scan(t) \/ Leave(t)
    BY <1>4 DEF Learner, PredictLast, PredictMore, Summed, Unlock, CheckDone,
         Scan, Leave
  <1> QED BY <1>1, <1>2, <1>3, <1>4 DEF Learner, LearnerStep

\* Where a thread goes when it counts an example down, or hands it on.
Turns == {<<"use", "clear">>, <<"use", "train">>, <<"clear", "train">>,
          <<"predict", "delay">>, <<"predict", "wait_sum">>,
          <<"predict", "peek">>, <<"finish", "account">>, <<"finish", "peek">>,
          <<"free", "unlock">>, <<"free", "peek">>}

Turn(t, l) ==
  /\ <<pc[t], l>> \in Turns
  /\ pc' = [pc EXCEPT ![t] = l]
  /\ UNCHANGED <<used_index, delay_indices, local_index, held, taker, reg,
                 done>>

HandsOn(t) ==
  \/ UseReturned(t) \/ ClearSlot(t) \/ PredictLast(t) \/ PredictMore(t)
  \/ FinishExample(t) \/ Free(t)

LEMMA LearnerTurns ==
  ASSUME IInv, NEW t \in Threads, HandsOn(t)
  PROVE  \E l \in LearnerPcs : Turn(t, l)
  <1> USE DEF Goto, LearnerPcs, GdPcs, RoutinePcs, Turns, delayVars, locals
  <1>1. Top(t) = "peek" /\ AfterReturn(t) = "train"
    BY NoRelaySetting DEF IInv
  <1>2. CASE UseReturned(t)
    <2>1. held[t] # Null
      <3>1. pc[t] = "use"
        BY <1>2 DEF UseReturned
      <3>2. held[t] \in Slots
        BY <3>1, HeldSlot DEF InHand
      <3> QED BY <3>2, NoNull
    <2>2. Turn(t, "clear") \/ Turn(t, "train")
      BY <1>1, <1>2, <2>1 DEF UseReturned, Turn, ringVars, shared
    <2> QED BY <2>2
  <1>3. CASE ClearSlot(t)
    <2>1. Turn(t, "train")
      BY <1>1, <1>3 DEF ClearSlot, Turn, ringVars, shared
    <2> QED BY <2>1
  <1>4. CASE PredictLast(t)
    <2>1. Turn(t, "delay")
      BY <1>4 DEF PredictLast, Turn
    <2> QED BY <2>1
  <1>5. CASE PredictMore(t)
    <2>1. Turn(t, "wait_sum") \/ Turn(t, "peek")
      BY <1>5 DEF PredictMore, Turn
    <2> QED BY <2>1
  <1>6. CASE FinishExample(t)
    <2>1. Turn(t, "account") \/ Turn(t, "peek")
      BY <1>1, <1>6 DEF FinishExample, Turn
    <2> QED BY <2>1
  <1>7. CASE Free(t)
    <2>1. AfterDelay(t) \in {"unlock", "peek"}
      BY <1>1 DEF AfterDelay
    <2>2. Turn(t, "unlock") \/ Turn(t, "peek")
      BY <1>7, <2>1 DEF Free, FreeExample, Turn
    <2> QED BY <2>2
  <1> QED BY <1>2, <1>3, <1>4, <1>5, <1>6, <1>7 DEF HandsOn

\* All other steps of a learner are calm.
LEMMA LearnerCalm ==
  ASSUME IInv, NEW t \in Threads, Learner(t), ~HandsOn(t), ~InsertExample(t)
  PROVE  Calm(t)
  <1>1. UNCHANGED global /\ LearnerStep(t)
    BY DEF Learner
  <1>2. CASE RoutineStep(t) /\ UNCHANGED gdVars
    <2>1. CASE ReturnExample(t)
      BY <1>1, <1>2, <2>1, ReturnStep
    <2>2. CASE Advance(t)
      BY <1>1, <1>2, <2>2, AdvanceStep
    <2>3. CASE UseReturned(t) \/ ClearSlot(t) \/ FinishExample(t) \/ Free(t)
      BY <2>3 DEF HandsOn
    <2>4. CASE DelayExample(t)
      BY <1>1, <1>2, <2>4, DelayStep
    <2>6. CASE SkipForAll(t)
      BY <2>6 DEF SkipForAll, IInv, TypeInv, LearnerPcs
    <2>7. CASE AccountBegin(t) \/ AccountEnd(t)
      BY <1>1, <1>2, <2>7, AccountStep
    <2> QED BY <1>2, <2>1, <2>2, <2>3, <2>4, <2>6, <2>7 DEF RoutineStep
  <1>3. CASE Peek(t)
    BY <1>1, <1>3, PeekStep
  <1>4. CASE GetDelayExample(t)
    BY <1>1, <1>4, GetDelayStep
  <1>5. CASE GetGlobalExample(t) \/ AwaitGlobal(t)
    BY <1>5 DEF GetGlobalExample, AwaitGlobal, IInv, TypeInv, LearnerPcs
  <1>6. CASE Train(t)
    BY <1>1, <1>6, TrainStep
  <1>7. CASE Decay(t)
    BY <1>1, <1>7, DecayStep
  <1>8. CASE Take(t)
    BY <1>1, <1>8, TakeStep
  <1>9. CASE Await(t) \/ Woken(t) \/ NothingLeft(t)
    BY <1>1, <1>9, WaitingStep
  <1>10. CASE Dispatch(t)
    BY <1>1, <1>10, DispatchStep
  <1>11. CASE PredictLast(t) \/ PredictMore(t)
    BY <1>11 DEF HandsOn
  <1>12. CASE Summed(t)
    BY <1>1, <1>12, SummedStep
  <1>13. CASE Unlock(t)
    BY <1>1, <1>13, UnlockStep
  <1>14. CASE CheckDone(t) \/ Scan(t) \/ Leave(t)
    BY <1>1, <1>14, DoneStep
  <1> QED BY <1>1, <1>2, <1>3, <1>4, <1>5, <1>6, <1>7, <1>8, <1>9, <1>10,
             <1>11, <1>12, <1>13, <1>14 DEF LearnerStep

\* An example is entered into the delay ring.
LEMMA LearnerInserts ==
  ASSUME IInv, NEW t \in Threads, Learner(t), InsertExample(t)
  PROVE  Inserted(t)
  <1>1. pc[t] = "insert"
    BY DEF InsertExample
  <1>2. UNCHANGED gdVars /\ UNCHANGED global
    BY <1>1 DEF Learner, LearnerStep, Peek, GetDelayExample, GetGlobalExample,
       AwaitGlobal, Train, Decay, Take, Await, Woken, NothingLeft, Dispatch,
       PredictLast, PredictMore, Summed, Unlock, CheckDone, Scan, Leave
  <1> QED BY <1>2, InsertStep

\* Every step of a learner is calm, hands an example on, or enters it into the
\* delay ring.
LEMMA LearnerKinds ==
  ASSUME IInv, NEW t \in Threads, Learner(t)
  PROVE  \/ Calm(t)
         \/ \E l \in LearnerPcs : Turn(t, l)
         \/ InsertExample(t) /\ Inserted(t)
  BY LearnerTurns, LearnerCalm, LearnerInserts

-----------------------------------------------------------------------------
(* The queue                                                               *)

\* What a turn does to the example in the thread's hands: it keeps it, or lets
\* go of it.
LEMMA TurnReleases ==
  ASSUME IInv, NEW t \in Threads, NEW l \in LearnerPcs, Turn(t, l)
  PROVE  /\ \A u \in Threads : u # t => Released(u)' = Released(u)
         /\ Released(t) = used_index[t] - 1
         /\ Released(t)' = IF l \in InHand THEN used_index[t] - 1
                                           ELSE used_index[t]
  <1>1. ~Behind(t) /\ pc[t] \in InHand
    BY DEF Turn, Turns, InHand, IInv, PlaceInv
  <1> QED BY <1>1, GoesOn, ReleasedInHand DEF Turn

LEMMA QueueStutter ==
  ASSUME UNCHANGED <<parsed_examples, used_index, done>>,
         \A t \in Threads : Released(t)' = Released(t)
  PROVE  UNCHANGED Queue!queue
  BY DEF Queue!queue

\* A thread lets go of the example it is at.
LEMMA QueueRelease ==
  ASSUME IInv, NEW t \in Threads,
         UNCHANGED <<parsed_examples, used_index, done>>,
         \A u \in Threads : u # t => Released(u)' = Released(u),
         Released(t) = used_index[t] - 1, Released(t)' = used_index[t]
  PROVE  Queue!Next
  <1> DEFINE r == [u \in Threads |-> Released(u)]
  <1>1. used_index[t] \in Nat /\ Released(t)' = Released(t) + 1
    BY Ranges
  <1>2. [u \in Threads |-> Released(u)'] = [r EXCEPT ![t] = @ + 1]
    BY <1>1, Zenon
  <1>3. Released(t) < used_index[t]
    BY <1>1
  <1>4. Queue!Release(t)
    BY <1>2, <1>3 DEF Queue!Release
  <1> QED BY <1>4 DEF Queue!Next

LEMMA QueueTake ==
  ASSUME IInv, NEW t \in Threads, Take(t), Calm(t),
         UNCHANGED <<parsed_examples, done>>
  PROVE  Queue!Next
  <1>1. /\ pc[t] = "get_example" /\ used_index[t] # parsed_examples
        /\ used_index' = [used_index EXCEPT ![t] = @ + 1]
    BY DEF Take, TakeExample
  <1>2. used_index[t] < parsed_examples
    BY <1>1, Ranges
  <1>3. Released(t) = used_index[t]
    BY <1>1 DEF Released, InHand, IInv, PlaceInv, Behind
  <1>4. \A u \in Threads : Released(u)' = Released(u)
    BY DEF Calm, Released
  <1>5. [u \in Threads |-> Released(u)'] = [u \in Threads |-> Released(u)]
    BY <1>4
  <1>6. Queue!Take(t)
    BY <1>1, <1>2, <1>3, <1>5 DEF Queue!Take
  <1> QED BY <1>6 DEF Queue!Next

LEMMA QueueLearner ==
  ASSUME IInv, NEW t \in Threads, Learner(t)
  PROVE  [Queue!Next]_Queue!queue
  <1>1. /\ UNCHANGED <<parsed_examples, done>>
        /\ Take(t) \/ used_index' = used_index
    BY LearnerFrame
  <1>2. CASE Calm(t)
    <2>1. \A u \in Threads : Released(u)' = Released(u)
      BY <1>2 DEF Calm, Released
    <2>2. CASE Take(t)
      BY <1>1, <1>2, <2>2, QueueTake
    <2>3. CASE used_index' = used_index
      BY <1>1, <2>1, <2>3, QueueStutter
    <2> QED BY <1>1, <2>2, <2>3
  <1>3. ASSUME NEW l \in LearnerPcs, Turn(t, l) PROVE [Queue!Next]_Queue!queue
    <2>1. used_index' = used_index
      BY <1>3 DEF Turn
    <2>2. /\ \A u \in Threads : u # t => Released(u)' = Released(u)
          /\ Released(t) = used_index[t] - 1
          /\ Released(t)' = IF l \in InHand THEN used_index[t] - 1
                                            ELSE used_index[t]
      BY <1>3, TurnReleases
    <2>3. CASE l \in InHand
      BY <1>1, <2>1, <2>2, <2>3, QueueStutter
    <2>4. CASE l \notin InHand
      BY <1>1, <2>1, <2>2, <2>4, QueueRelease
    <2> QED BY <2>3, <2>4
  <1>4. CASE Inserted(t)
    BY <1>1, <1>4, QueueStutter DEF Inserted
  <1> QED BY <1>2, <1>3, <1>4, LearnerKinds

\* The parser writes, or closes the queue, or does nothing the queue can see.
LEMMA QueueParser ==
  ASSUME IInv, Parser
  PROVE  [Queue!Next]_Queue!queue
  <1>1. UNCHANGED <<pc, delay_indices, local_index>>
    BY DEF Parser, delayVars
  <1>2. ASSUME UNCHANGED used_index
        PROVE  /\ \A t \in Threads : Released(t)' = Released(t)
               /\ [t \in Threads |-> Released(t)'] = [t \in Threads |-> Released(t)]
    BY <1>1, <1>2 DEF Released
  <1>3. CASE Publish
    <2> USE <1>3 DEF Publish
    <2>1. ~done /\ \A t \in Threads : parsed_examples - Released(t) < RingSize
      BY DEF IInv, RingInv, DoneInv, ParserInv, RingTypeOK
    <2>2. Queue!Write
      BY <1>2, <2>1 DEF Queue!Write
    <2> QED BY <2>2 DEF Queue!Next
  <1>4. CASE SetDone
    <2> USE <1>4 DEF SetDone
    <2>1. ~done
      BY DEF IInv, RingInv, DoneInv, RingTypeOK
    <2>2. Queue!Close
      BY <1>2, <2>1 DEF Queue!Close
    <2> QED BY <2>2 DEF Queue!Next
  <1>5. CASE GetUnusedExample \/ WaitForUnused \/ ParseExample \/ EndPass
             \/ ReleaseSlot
    <2>1. UNCHANGED <<parsed_examples, used_index, done>>
      BY <1>5
      DEF GetUnusedExample, WaitForUnused, ParseExample, EndPass, ReleaseSlot,
          shared
    <2> QED BY <1>2, <2>1, QueueStutter
  <1> QED BY <1>3, <1>4, <1>5 DEF Parser, ParserStep

\* With the delay ring in between, where an example waits for the threads that
\* have predicted on it, the ring of examples still behaves like a queue that
\* every learner reads completely and in order and that never holds more than
\* RingSize examples.
THEOREM RingIsQueue ==
  ASSUME \A g \in Globals : NoRelay(g), "save" \notin Kinds, ~ActiveSimulation
  PROVE  Spec => ImplementsQueue
  <1>1. Init => Queue!Init
    <2> SUFFICES ASSUME Init PROVE Queue!Init
      OBVIOUS
    <2>1. \A t \in Threads : t \in Actors /\ t \in Takers
      BY InitIInv, NoRelaySetting DEF IInv
    <2>2. \A t \in Threads : pc[t] \notin InHand
      BY <2>1 DEF Init, Top, InHand
    <2>3. \A t \in Threads : Released(t) = 0
      BY <2>1, <2>2 DEF Init, DelayInit, RingInit, Released
    <2> QED BY <2>3 DEF Init, RingInit, Queue!Init
  <1>2. IInv /\ [Next]_vars => [Queue!Next]_Queue!queue
    <2> SUFFICES ASSUME IInv, [Next]_vars PROVE [Queue!Next]_Queue!queue
      OBVIOUS
    <2>1. CASE Parser
      BY <2>1, QueueParser
    <2>2. ASSUME NEW t \in Threads, Learner(t) PROVE [Queue!Next]_Queue!queue
      BY <2>2, QueueLearner
    <2>3. CASE RelayThread
      BY <2>3 DEF RelayThread, IInv, SettingInv
    <2>4. CASE UNCHANGED vars
      <3>1. \A t \in Threads : Released(t)' = Released(t)
        BY <2>4 DEF vars, ringVars, shared, delayVars, Released
      <3> QED BY <2>4, <3>1, QueueStutter DEF vars, ringVars, shared
    <2> QED BY <2>1, <2>2, <2>3, <2>4 DEF Next, Joined
  <1>3. Spec => []IInv
    BY Invariance
  <1> QED BY <1>1, <1>2, <1>3, PTL DEF Spec, ImplementsQueue, Queue!Spec

-----------------------------------------------------------------------------
(* Every example is accounted for                                          *)

\* Thread t has an example in hand, or owes one, that is predicted but not yet
\* accounted for.
Open(t) == Completes(t) \/ pc[t] \in {"account", "account_end"} \/ Owes(t)

\* Examples are accounted for one after the other: everybody has predicted those
\* that are, and the next one is open, or somebody has yet to predict it.
CountInv ==
  /\ \A t \in Threads : Predicted(t) >= local_example_number
  /\ \A t \in Threads : Open(t) => used_index[t] = local_example_number + 1
  /\ \E t \in Threads : Open(t) \/ Predicted(t) = local_example_number
  /\ sd_example_number = 2 * local_example_number
  /\ \A t \in Threads : pc[t] = "account_end" => reg[t] = sd_example_number

\* A slot is in use for a reason: the parser works on it, or it holds an example
\* that is not accounted for yet, or that is being freed.
InUseInv ==
  \A s \in Slots : in_use[s] =>
    \/ parser_pc \in {"parse", "publish", "set_done", "release"} /\ s = ParserSlot
    \/ \E k \in 1 .. parsed_examples :
         /\ s = SlotFor(k)
         /\ \/ k > local_example_number
            \/ \E t \in Threads : pc[t] = "free" /\ used_index[t] = k

\* Once a thread has seen that nothing is left, nothing is.
ExitInv ==
  \A t \in Threads :
    /\ pc[t] \in {"scan", "drained", "exit"} => done
    /\ pc[t] \in {"drained", "exit"} => AllUsed

LEMMA SameCount ==
  ASSUME CountInv, UNCHANGED countVars,
         \A u \in Threads : /\ Predicted(u)' = Predicted(u)
                            /\ Open(u)' <=> Open(u)
                            /\ Open(u) => used_index'[u] = used_index[u]
                            /\ pc'[u] = "account_end" => reg'[u] = sd_example_number
  PROVE  CountInv'
  BY DEF CountInv, countVars

\* A calm step leaves an open example open, or accounts for it.
LEMMA CalmOpen ==
  ASSUME IInv, NEW t \in Threads, Learner(t), ~HandsOn(t), ~InsertExample(t),
         ~AccountEnd(t)
  PROVE  /\ \A u \in Threads : Open(u)' <=> Open(u)
         /\ pc'[t] = "account_end" => reg'[t] = sd_example_number
         /\ \A u \in Threads : u # t => reg'[u] = reg[u] /\ pc'[u] = pc[u]
         /\ pc'[t] = "free" <=> pc[t] = "free"
  <1> USE DEF Goto, ringVars, shared, restVars, countVars, netVars, gdVars,
              locals, Learner
  <1>1. /\ pc \in [Threads -> LearnerPcs] /\ reg \in [Threads -> Nat]
        /\ \A n \in Nat : DelayCount(n) = n
        /\ ~WantsGlobal(t) /\ AfterReturn(t) = "train"
    BY NoRelaySetting DEF IInv, TypeInv
  <1>2. Calm(t) /\ \A u \in Threads : u # t => pc'[u] = pc[u]
    BY LearnerCalm DEF Calm
  <1>3. (Owes(t)' <=> Owes(t)) /\ \A u \in Threads : u # t => (Open(u)' <=> Open(u))
    <2>1. local_index' = local_index
          /\ \A u \in Threads : u # t => delay_indices'[u] = delay_indices[u]
      BY <1>2 DEF Calm
    <2> QED BY <1>2, <2>1 DEF Calm, Open, Completes, Owes, Behind
  <1>4. CASE DelayExample(t)
    <2>1. pc[t] = "delay" /\ pc'[t] \in {"account", "insert"} /\ reg' = reg
      BY <1>1, <1>4 DEF DelayExample
    <2> QED BY <1>2, <1>3, <2>1 DEF Open, Completes
  <1>5. CASE AccountBegin(t)
    <2>1. pc[t] = "account" /\ pc'[t] = "account_end"
          /\ reg'[t] = sd_example_number
          /\ \A u \in Threads : u # t => reg'[u] = reg[u]
      BY <1>1, <1>5 DEF AccountBegin
    <2> QED BY <1>2, <1>3, <2>1 DEF Open, Completes
  <1>6. CASE ~DelayExample(t) /\ ~AccountBegin(t)
    <2>1. /\ pc[t] \notin {"delay", "insert", "account", "account_end", "free"}
          /\ pc'[t] \notin {"delay", "insert", "account", "account_end", "free"}
          /\ \A u \in Threads : u # t => reg'[u] = reg[u]
      <3>1. CASE ReturnExample(t) \/ Advance(t) \/ SkipForAll(t)
        BY <1>1, <3>1 DEF ReturnExample, Advance, SkipForAll, IInv, TypeInv,
           LearnerPcs
      <3>3. CASE Peek(t) \/ GetDelayExample(t) \/ Train(t) \/ Decay(t)
        BY <1>1, <3>3 DEF Peek, GetDelayExample, Train, Decay
      <3>4. CASE GetGlobalExample(t) \/ AwaitGlobal(t)
        BY <1>1, <3>4 DEF GetGlobalExample, AwaitGlobal, LearnerPcs
      <3>5. CASE Take(t) \/ Await(t) \/ Woken(t) \/ NothingLeft(t)
        BY <1>1, <3>5 DEF Take, Await, Woken, NothingLeft
      <3>6. CASE Dispatch(t)
        <4>1. in_use[held[t]] /\ held[t] \in Slots /\ pc[t] = "dispatch"
          BY <3>6, OwnExample DEF InHand, Dispatch
        <4>2. contents[held[t]].kind # "save"
          BY <4>1 DEF IInv, RingInv, KindInv
        <4> QED BY <1>1, <3>6, <4>2 DEF Dispatch
      <3>7. CASE Summed(t) \/ Unlock(t) \/ CheckDone(t) \/ Scan(t) \/ Leave(t)
        BY <1>1, <3>7 DEF Summed, Unlock, CheckDone, Scan, Leave
      <3> QED BY <1>6, <3>1, <3>3, <3>4, <3>5, <3>6, <3>7
          DEF LearnerStep, RoutineStep, HandsOn
    <2> QED BY <1>2, <1>3, <2>1 DEF Open, Completes
  <1> QED BY <1>4, <1>5, <1>6

\* Somebody else's example stays open when thread t hands its example on.
LEMMA TurnOpens ==
  ASSUME IInv, NEW t \in Threads, NEW l \in LearnerPcs, Turn(t, l)
  PROVE  /\ pc'[t] = l /\ used_index' = used_index /\ reg' = reg
         /\ \A u \in Threads : u # t =>
              /\ pc'[u] = pc[u]
              /\ Predicted(u)' = Predicted(u)
              /\ Open(u)' <=> Open(u)
         /\ Predicted(t)' = used_index[t]
         /\ Predicted(t) = IF pc[t] = "predict" THEN used_index[t] - 1
                                                ELSE used_index[t]
         /\ Open(t)' <=> l \in {"clear", "train", "delay", "account"}
         /\ Open(t) <=> pc[t] \in {"use", "clear", "finish"}
  <1>1. ~Behind(t)
    BY DEF Turn, Turns, IInv, PlaceInv
  <1>2. /\ pc'[t] = l /\ pc' \in [Threads -> LearnerPcs]
        /\ \A u \in Threads : u # t =>
             /\ pc'[u] = pc[u] /\ Predicted(u)' = Predicted(u)
             /\ (Owes(u)' <=> Owes(u)) /\ (Completes(u)' <=> Completes(u))
        /\ Predicted(t)' = IF l \in {"dispatch", "predict"}
                             THEN used_index[t] - 1 ELSE used_index[t]
        /\ Owes(t)' <=> Behind(t) \/ l \in {"use", "clear", "train", "decay", "finish"}
    BY GoesOn DEF Turn
  <1>3. \A u \in Threads : u # t => (Open(u)' <=> Open(u))
    BY <1>2 DEF Open
  <1>4. Open(t)' <=> l \in {"clear", "train", "delay", "account"}
    BY <1>1, <1>2 DEF Open, Completes, Turn, Turns
  <1>5. Open(t) <=> pc[t] \in {"use", "clear", "finish"}
    BY <1>1 DEF Open, Owes, Completes, Turn, Turns
  <1> QED BY <1>2, <1>3, <1>4, <1>5 DEF Turn, Turns, Predicted, Predicting

\* The last one to predict: all earlier examples are accounted for.
LEMMA CountPredictLast ==
  ASSUME IInv, CountInv, NEW t \in Threads, PredictLast(t)
  PROVE  CountInv'
  <1> DEFINE n == used_index[t]
  <1>1. pc[t] = "predict" /\ UNCHANGED countVars
        /\ threads_to_finish[held[t]] = 1
    BY DEF PredictLast, LastToFinish
  <1>2. PICK l \in LearnerPcs : Turn(t, l)
    BY LearnerTurns DEF HandsOn
  <1>3. l = "delay"
    BY <1>2 DEF PredictLast, Goto, Turn, IInv, TypeInv
  <1>4. /\ used_index' = used_index /\ reg' = reg /\ pc'[t] = "delay"
        /\ \A u \in Threads : u # t =>
             /\ pc'[u] = pc[u]
             /\ Predicted(u)' = Predicted(u)
             /\ Open(u)' <=> Open(u)
        /\ Predicted(t)' = n
        /\ Predicted(t) = n - 1
        /\ Open(t)' /\ ~Open(t)
    BY <1>1, <1>2, <1>3, TurnOpens
  <1>5. n \in Nat /\ local_example_number \in Nat
        /\ \A u \in Threads : Predicted(u) \in Nat /\ used_index[u] \in Nat
                              /\ Predicted(u) <= used_index[u]
    BY Ranges DEF IInv, TypeInv
  <1>6. \A u \in Threads : u # t => Predicted(u) >= n
    <2>1. Unpredicted(n) = {t}
      <3>1. t \in Unpredicted(n) /\ Cardinality(Unpredicted(n)) = 1
        BY <1>1, PredictingOn
      <3>2. Unpredicted(n) \subseteq Threads
        BY DEF Unpredicted
      <3>3. Cardinality(Unpredicted(n)) <= 1
        BY <3>1
      <3> QED BY <3>1, <3>2, <3>3, OnlyThread
    <2> QED BY <1>5, <2>1 DEF Unpredicted
  <1> HIDE DEF n
  <1>7. n >= local_example_number + 1
    <2>1. Predicted(t) >= local_example_number
      BY DEF CountInv
    <2> QED BY <1>4, <1>5, <2>1
  <1>8. n = local_example_number + 1
    <2>1. PICK v \in Threads : Open(v) \/ Predicted(v) = local_example_number
      BY DEF CountInv
    <2>2. CASE v = t
      BY <1>4, <1>5, <2>1, <2>2
    <2>3. CASE v # t
      <3>1. Predicted(v) >= n /\ used_index[v] >= n
        BY <1>5, <1>6, <2>3
      <3>2. Predicted(v) # local_example_number
        BY <1>5, <1>7, <3>1
      <3>3. used_index[v] = local_example_number + 1
        BY <2>1, <3>2 DEF CountInv
      <3> QED BY <1>5, <1>7, <3>1, <3>3
    <2> QED BY <2>2, <2>3
  <1>9. ASSUME NEW u \in Threads
        PROVE  /\ Predicted(u)' >= local_example_number
               /\ Open(u)' => used_index[u] = local_example_number + 1
               /\ pc'[u] = "account_end" => reg[u] = sd_example_number
    <2>1. CASE u = t
      BY <1>4, <1>5, <1>8, <2>1 DEF n
    <2>2. CASE u # t
      BY <1>4, <2>2 DEF CountInv
    <2> QED BY <2>1, <2>2
  <1> QED BY <1>1, <1>4, <1>9 DEF CountInv, countVars

\* Not the last one: somebody else has not predicted the example either.
LEMMA CountPredictMore ==
  ASSUME IInv, CountInv, NEW t \in Threads, PredictMore(t)
  PROVE  CountInv'
  <1> DEFINE n == used_index[t]
  <1>1. pc[t] = "predict" /\ UNCHANGED countVars
        /\ threads_to_finish[held[t]] # 1
    BY DEF PredictMore, LastToFinish
  <1>2. PICK l \in LearnerPcs : Turn(t, l)
    BY LearnerTurns DEF HandsOn
  <1>3. l \in {"wait_sum", "peek"}
    BY <1>2 DEF PredictMore, Goto, Turn, IInv, TypeInv
  <1>4. /\ used_index' = used_index /\ reg' = reg /\ pc'[t] = l
        /\ \A u \in Threads : u # t =>
             /\ pc'[u] = pc[u]
             /\ Predicted(u)' = Predicted(u)
             /\ Open(u)' <=> Open(u)
        /\ Predicted(t)' = n
        /\ Predicted(t) = n - 1
        /\ ~Open(t)' /\ ~Open(t)
    BY <1>1, <1>2, <1>3, TurnOpens
  <1>5. n \in Nat /\ local_example_number \in Nat
        /\ \A u \in Threads : Predicted(u) \in Nat
    BY Ranges DEF IInv, TypeInv
  <1>6. PICK v \in Threads : v # t /\ Predicted(v) < n
    <2>1. t \in Unpredicted(n) /\ Cardinality(Unpredicted(n)) # 1
      BY <1>1, PredictingOn
    <2>2. Unpredicted(n) # {t}
      BY <2>1, FS_Singleton
    <2> QED BY <2>1, <2>2 DEF Unpredicted
  <1> HIDE DEF n
  <1>7. \A u \in Threads : Predicted(u) >= local_example_number
    BY DEF CountInv
  <1>8. \E u \in Threads : Open(u)' \/ Predicted(u)' = local_example_number
    <2>1. PICK u \in Threads : Open(u) \/ Predicted(u) = local_example_number
      BY DEF CountInv
    <2>2. CASE u = t
      <3>1. Predicted(t) = local_example_number
        BY <1>4, <2>1, <2>2
      <3>2. Predicted(v) = local_example_number
        BY <1>4, <1>5, <1>6, <1>7, <3>1
      <3> QED BY <1>4, <1>6, <3>2
    <2>3. CASE u # t
      BY <1>4, <2>1, <2>3
    <2> QED BY <2>2, <2>3
  <1>9. ASSUME NEW u \in Threads
        PROVE  /\ Predicted(u)' >= local_example_number
               /\ Open(u)' => used_index[u] = local_example_number + 1
               /\ pc'[u] = "account_end" => reg[u] = sd_example_number
    <2>1. CASE u = t
      BY <1>3, <1>4, <1>5, <1>7, <2>1
    <2>2. CASE u # t
      BY <1>4, <2>2 DEF CountInv
    <2> QED BY <2>1, <2>2
  <1> QED BY <1>1, <1>4, <1>8, <1>9 DEF CountInv, countVars

\* One of those that owe an example has finished it: the last one goes on to
\* account for it.
LEMMA CountFinish ==
  ASSUME IInv, CountInv, NEW t \in Threads, FinishExample(t)
  PROVE  CountInv'
  <1>1. pc[t] = "finish" /\ UNCHANGED countVars /\ Owes(t)
    BY DEF FinishExample, Owes
  <1>2. PICK l \in LearnerPcs : Turn(t, l)
    BY LearnerTurns DEF HandsOn
  <1>3. l = IF threads_to_finish[held[t]] = 1 THEN "account" ELSE "peek"
    BY <1>2, NoRelaySetting
    DEF FinishExample, Goto, LastToFinish, Turn, IInv, TypeInv
  <1>4. /\ used_index' = used_index /\ reg' = reg /\ pc'[t] = l
        /\ \A u \in Threads : u # t =>
             /\ pc'[u] = pc[u]
             /\ Predicted(u)' = Predicted(u)
             /\ Open(u)' <=> Open(u)
        /\ Predicted(t)' = Predicted(t)
        /\ Open(t)' <=> l = "account"
        /\ Open(t)
    BY <1>1, <1>2, <1>3, TurnOpens
  <1>5. l = "peek" => \E u \in Threads : u # t /\ Open(u)
    <2>1. SUFFICES ASSUME l = "peek" PROVE \E u \in Threads : u # t /\ Open(u)
      OBVIOUS
    <2>2. held[t] = SlotFor(used_index[t])
      BY <1>1, HeldSlot DEF InHand
    <2>3. threads_to_finish[held[t]] = Cardinality(Owing)
      BY <1>1, <2>2 DEF IInv, TrainInv
    <2>4. Owing # {t} /\ t \in Owing
      BY <1>1, <1>3, <2>1, <2>3, FS_Singleton DEF Owing
    <2> QED BY <2>4 DEF Owing, Open
  <1>6. \E u \in Threads : Open(u)'
    BY <1>3, <1>4, <1>5
  <1>7. ASSUME NEW u \in Threads
        PROVE  /\ Predicted(u)' >= local_example_number
               /\ Open(u)' => used_index[u] = local_example_number + 1
               /\ pc'[u] = "account_end" => reg[u] = sd_example_number
    <2>1. CASE u = t
      BY <1>3, <1>4, <2>1 DEF CountInv
    <2>2. CASE u # t
      BY <1>4, <2>2 DEF CountInv
    <2> QED BY <2>1, <2>2
  <1> QED BY <1>1, <1>4, <1>6, <1>7 DEF CountInv, countVars

\* The last one has accounted for the example: everybody has predicted it, and
\* no other one is open.
LEMMA CountAccountEnd ==
  ASSUME IInv, CountInv, NEW t \in Threads, AccountEnd(t)
  PROVE  /\ CountInv'
         /\ local_example_number' = local_example_number + 1
         /\ used_index[t] = local_example_number + 1
         /\ pc'[t] = "free" /\ \A u \in Threads : u # t => pc'[u] = pc[u]
  <1> USE DEF AccountEnd, Goto
  <1> DEFINE L == local_example_number
  <1>1. /\ pc[t] = "account_end" /\ Closes(t) /\ Open(t) /\ ~Behind(t)
        /\ pc' = [pc EXCEPT ![t] = "free"] /\ "free" \in LearnerPcs
        /\ sd_example_number' = reg[t] + 2
        /\ local_example_number' = L + 1
        /\ \A u \in Threads : u # t => reg'[u] = reg[u]
        /\ UNCHANGED <<used_index, delay_indices, local_index>>
    BY DEF Closes, Open, LearnerPcs, GdPcs, RoutinePcs, delayVars, ringVars,
       shared, IInv, PlaceInv, TypeInv
  <1>2. /\ L \in Nat /\ sd_example_number = 2 * L /\ reg[t] = sd_example_number
        /\ used_index[t] = L + 1
    BY <1>1 DEF CountInv, IInv, TypeInv
  <1>3. /\ pc'[t] = "free"
        /\ \A u \in Threads : u # t =>
             /\ pc'[u] = pc[u] /\ Predicted(u)' = Predicted(u)
             /\ (Owes(u)' <=> Owes(u)) /\ (Completes(u)' <=> Completes(u))
        /\ Predicted(t)' = used_index[t] /\ ~Owes(t)'
    BY <1>1, GoesOn
  <1>4. \A u \in Threads : u # t => (Open(u)' <=> Open(u))
    BY <1>3 DEF Open
  <1>5. ~Open(t)'
    BY <1>3 DEF Open, Completes
  <1>6. ASSUME NEW u \in Threads, u # t
        PROVE  Predicted(u) >= L + 1 /\ ~Open(u) /\ pc[u] # "account_end"
    <2>1. /\ Released(u) >= L + 1 /\ Released(u) \in Nat /\ Predicted(u) \in Nat
          /\ Released(u) <= Predicted(u)
      BY <1>1, <1>2, <1>6, Ranges DEF IInv, CloseInv
    <2>2. ~Open(u)
      <3>1. SUFFICES ASSUME Open(u) PROVE FALSE
        OBVIOUS
      <3>2. Released(u) = used_index[u] - 1
        BY <3>1, OwnExample DEF Open, Completes, InHand
      <3>3. used_index[u] = L + 1
        BY <3>1 DEF CountInv
      <3> QED BY <1>2, <2>1, <3>2, <3>3
    <2> QED BY <1>2, <2>1, <2>2 DEF Open
  <1>7. \A u \in Threads : Predicted(u)' >= L + 1 /\ ~Open(u)'
                           /\ pc'[u] # "account_end"
    <2> SUFFICES ASSUME NEW u \in Threads
                 PROVE  Predicted(u)' >= L + 1 /\ ~Open(u)' /\ pc'[u] # "account_end"
      OBVIOUS
    <2>1. CASE u = t
      BY <1>2, <1>3, <1>5, <2>1
    <2>2. CASE u # t
      BY <1>3, <1>4, <1>6, <2>2
    <2> QED BY <2>1, <2>2
  <1>8. Predicted(t)' = L + 1
    BY <1>2, <1>3
  <1>9. sd_example_number' = 2 * (L + 1)
    BY <1>1, <1>2
  <1> QED BY <1>1, <1>2, <1>3, <1>7, <1>8, <1>9 DEF CountInv

LEMMA CountLearner ==
  ASSUME IInv, CountInv, NEW t \in Threads, Learner(t)
  PROVE  CountInv'
  <1>1. CASE PredictLast(t)
    BY <1>1, CountPredictLast
  <1>2. CASE PredictMore(t)
    BY <1>2, CountPredictMore
  <1>3. CASE FinishExample(t)
    BY <1>3, CountFinish
  <1>4. CASE UseReturned(t) \/ ClearSlot(t) \/ Free(t)
    <2>1. PICK l \in LearnerPcs : Turn(t, l)
      BY <1>4, LearnerTurns DEF HandsOn
    <2>2. UNCHANGED countVars
      BY <1>4 DEF UseReturned, ClearSlot, Free
    <2>3. <<pc[t], l>> \in {<<"use", "clear">>, <<"use", "train">>,
            <<"clear", "train">>, <<"free", "unlock">>, <<"free", "peek">>}
      BY <1>4, <2>1 DEF UseReturned, ClearSlot, Free, Turn, Turns
    <2>4. \A u \in Threads : /\ Predicted(u)' = Predicted(u)
                             /\ Open(u)' <=> Open(u)
                             /\ used_index'[u] = used_index[u]
                             /\ pc'[u] = "account_end" => u # t
                             /\ u # t => pc'[u] = pc[u]
                             /\ reg'[u] = reg[u]
      BY <2>1, <2>3, TurnOpens
    <2> QED BY <2>2, <2>4, SameCount DEF CountInv
  <1>5. CASE InsertExample(t)
    <2>1. Inserted(t) /\ UNCHANGED countVars
      BY <1>5, LearnerInserts DEF InsertExample
    <2>2. /\ pc[t] = "insert" /\ pc'[t] = "unlock"
          /\ \A u \in Threads : u # t => pc[u] = "wait_sum" /\ pc'[u] = "wait_sum"
          /\ \A u \in Threads : /\ used_index[u] = used_index[t]
                                /\ Owes(u)' /\ Predicted(u)' = Predicted(u)
          /\ used_index' = used_index
      BY <2>1 DEF Inserted, IInv, TypeInv
    <2>3. used_index[t] = local_example_number + 1
      BY <2>2 DEF CountInv, Open, Completes
    <2>4. \A u \in Threads : /\ Open(u)'
                             /\ used_index'[u] = local_example_number + 1
                             /\ pc'[u] # "account_end"
      BY <2>2, <2>3 DEF Open
    <2> QED BY <2>1, <2>2, <2>4 DEF CountInv, countVars
  <1>6. CASE AccountEnd(t)
    BY <1>6, CountAccountEnd
  <1>7. CASE ~HandsOn(t) /\ ~InsertExample(t) /\ ~AccountEnd(t)
    <2>1. /\ \A u \in Threads : Open(u)' <=> Open(u)
          /\ pc'[t] = "account_end" => reg'[t] = sd_example_number
          /\ \A u \in Threads : u # t => reg'[u] = reg[u] /\ pc'[u] = pc[u]
      BY <1>7, CalmOpen
    <2>2. UNCHANGED countVars /\ Calm(t)
      BY <1>7, LearnerFrame, LearnerCalm
    <2>3. \A u \in Threads : Predicted(u)' = Predicted(u)
      BY <2>2 DEF Calm, Predicted, Predicting
    <2>4. \A u \in Threads : Open(u) => used_index'[u] = used_index[u]
      <3>1. pc[t] = "get_example" => ~Open(t)
        BY DEF Open, Completes, Owes, IInv, PlaceInv
      <3> QED BY <2>2, <3>1 DEF Calm
    <2>5. \A u \in Threads : pc'[u] = "account_end" => reg'[u] = sd_example_number
      BY <2>1 DEF CountInv
    <2> QED BY <2>1, <2>2, <2>3, <2>4, <2>5, SameCount
  <1> QED BY <1>1, <1>2, <1>3, <1>4, <1>5, <1>6, <1>7 DEF HandsOn

LEMMA CountStart ==
  ASSUME Init, IInv
  PROVE  CountInv /\ InUseInv /\ ExitInv
  <1>1. \A t \in Threads : t \in Actors /\ t \in Takers /\ Top(t) = "peek"
    BY NoRelaySetting DEF IInv
  <1>2. \A t \in Threads : /\ pc[t] = "peek" /\ used_index[t] = 0
                           /\ delay_indices[t] = local_index
    BY <1>1 DEF Init, DelayInit, RingInit
  <1>3. \A t \in Threads : Predicted(t) = 0 /\ ~Open(t)
    BY <1>2 DEF Predicted, Predicting, Open, Completes, Owes, Behind
  <1>4. 0 \in Threads
    BY RingAssumption DEF Threads
  <1>5. CountInv
    BY <1>2, <1>3, <1>4 DEF CountInv, Init, DelayInit
  <1> QED BY <1>2, <1>5 DEF InUseInv, ExitInv, Init, RingInit

\* What the parser leaves alone.
LEMMA ParserLeaves ==
  ASSUME IInv, Parser
  PROVE  /\ UNCHANGED <<used_index, pc, reg, sd_example_number,
                        local_example_number, trained, shut, sent>>
         /\ \A u \in Threads : /\ Predicted(u)' = Predicted(u)
                               /\ Released(u)' = Released(u)
                               /\ Open(u)' <=> Open(u)
                               /\ Behind(u)' <=> Behind(u)
  <1>1. Idle
    <2>1. UNCHANGED <<aborted, used_index>>
      BY DEF Parser, ParserStep, GetUnusedExample, WaitForUnused, ParseExample,
         Publish, EndPass, SetDone, ReleaseSlot, shared
    <2> QED BY <2>1, ParserIdle
  <1>2. UNCHANGED <<used_index, pc, reg, sd_example_number,
                    local_example_number, trained, shut, sent>>
    BY <1>1 DEF Idle, locals, countVars, gdVars, netVars
  <1> QED BY <1>1, <1>2, NobodyMoves DEF Open

LEMMA CountParser ==
  ASSUME IInv, CountInv, Parser
  PROVE  CountInv'
  <1>1. UNCHANGED countVars
    BY ParserLeaves DEF countVars
  <1> QED BY <1>1, ParserLeaves, SameCount DEF CountInv

\* No more examples are accounted for than there are.
LEMMA CountBound ==
  ASSUME IInv, CountInv
  PROVE  local_example_number \in Nat /\ local_example_number <= parsed_examples
  <1>1. 0 \in Threads
    BY RingAssumption DEF Threads
  <1>2. /\ Predicted(0) >= local_example_number /\ Predicted(0) \in Nat
        /\ used_index[0] \in Nat /\ parsed_examples \in Nat
        /\ Predicted(0) <= used_index[0] /\ used_index[0] <= parsed_examples
    BY <1>1, Ranges DEF CountInv
  <1> QED BY <1>2 DEF IInv, TypeInv

LEMMA InUseParser ==
  ASSUME IInv, CountInv, InUseInv, Parser
  PROVE  InUseInv'
  <1> DEFINE Working == parser_pc \in {"parse", "publish", "set_done", "release"}
  <1>1. UNCHANGED <<pc, used_index, local_example_number>>
    BY ParserLeaves
  <1>2. ParserSlot \in Slots /\ in_use \in [Slots -> BOOLEAN]
    BY ParserSlotIn DEF IInv, RingInv, RingTypeOK
  <1>3. CASE UNCHANGED <<in_use, parsed_examples>> /\ (Working => Working')
    BY <1>1, <1>3 DEF InUseInv, ParserSlot
  <1>4. CASE GetUnusedExample
    <2>1. /\ \A s \in Slots : in_use'[s] => in_use[s] \/ s = ParserSlot
          /\ parser_pc' = "parse" /\ ~Working
          /\ parsed_examples' = parsed_examples
      BY <1>2, <1>4 DEF GetUnusedExample
    <2> QED BY <1>1, <2>1 DEF InUseInv, ParserSlot
  <1>5. CASE Publish
    <2>1. /\ in_use' = in_use /\ parsed_examples' = parsed_examples + 1
          /\ parser_pc = "publish" /\ parser_pc' = "get_unused"
      BY <1>5 DEF Publish
    <2>2. /\ parsed_examples \in Nat /\ local_example_number \in Nat
          /\ local_example_number <= parsed_examples
      BY CountBound DEF IInv, RingInv, RingTypeOK
    <2>3. ASSUME NEW s \in Slots, in_use[s]
          PROVE  \E k \in 1 .. parsed_examples + 1 :
                   /\ s = SlotFor(k)
                   /\ \/ k > local_example_number
                      \/ \E t \in Threads : pc[t] = "free" /\ used_index[t] = k
      <3>1. CASE s = ParserSlot
        <4>1. s = SlotFor(parsed_examples + 1)
          BY <2>2, <3>1 DEF SlotFor, ParserSlot
        <4>2. parsed_examples + 1 > local_example_number
              /\ parsed_examples + 1 \in 1 .. parsed_examples + 1
          BY <2>2
        <4> QED BY <4>1, <4>2
      <3>2. CASE s # ParserSlot
        <4>1. PICK k \in 1 .. parsed_examples :
                 /\ s = SlotFor(k)
                 /\ \/ k > local_example_number
                    \/ \E t \in Threads : pc[t] = "free" /\ used_index[t] = k
          BY <2>3, <3>2 DEF InUseInv
        <4>2. k \in 1 .. parsed_examples + 1
          BY <2>2
        <4> QED BY <4>1, <4>2
      <3> QED BY <3>1, <3>2
    <2> QED BY <1>1, <2>1, <2>3 DEF InUseInv
  <1>6. CASE ReleaseSlot
    <2>1. /\ \A s \in Slots : in_use'[s] => in_use[s] /\ s # ParserSlot
          /\ parsed_examples' = parsed_examples
      BY <1>2, <1>6 DEF ReleaseSlot
    <2> QED BY <1>1, <2>1 DEF InUseInv
  <1>7. CASE WaitForUnused \/ ParseExample \/ EndPass \/ SetDone
    BY <1>3, <1>7 DEF WaitForUnused, ParseExample, EndPass, SetDone, shared
  <1> QED BY <1>4, <1>5, <1>6, <1>7 DEF Parser, ParserStep

LEMMA ExitParser ==
  ASSUME IInv, ExitInv, Parser
  PROVE  ExitInv'
  <1>1. UNCHANGED <<pc, used_index>>
    BY ParserLeaves
  <1>2. CASE Publish
    <2>1. ~done
      BY <1>2 DEF Publish, IInv, RingInv, DoneInv
    <2> QED BY <1>1, <1>2, <2>1 DEF ExitInv, Publish
  <1>3. CASE ~Publish
    <2>1. parsed_examples' = parsed_examples /\ (done => done')
      BY <1>3 DEF Parser, ParserStep, GetUnusedExample, WaitForUnused,
         ParseExample, EndPass, SetDone, ReleaseSlot, shared
    <2> QED BY <1>1, <2>1 DEF ExitInv, AllUsed
  <1> QED BY <1>2, <1>3

\* The slot that is freed is the one of the example in hand.
LEMMA InUseLearner ==
  ASSUME IInv, CountInv, InUseInv, NEW t \in Threads, Learner(t)
  PROVE  InUseInv'
  <1>1. UNCHANGED parsed_examples
    BY LearnerFrame
  <1>2. CASE Free(t)
    <2>1. PICK l \in LearnerPcs : Turn(t, l)
      BY <1>2, LearnerTurns DEF HandsOn
    <2>2. /\ pc[t] = "free" /\ used_index' = used_index
          /\ in_use' = [in_use EXCEPT ![held[t]] = FALSE]
          /\ parser_pc' = WakeParser /\ UNCHANGED countVars
      BY <1>2, <2>1 DEF Free, FreeExample, Turn
    <2>3. held[t] \in Slots /\ held[t] = SlotFor(used_index[t])
      BY <2>2, HeldSlot DEF InHand
    <2>4. \A u \in Threads : u # t => pc'[u] = pc[u]
      BY <2>1, TurnOpens
    <2>5. \A s \in Slots : in_use'[s] => in_use[s] /\ s # held[t]
      BY <2>2, <2>3 DEF IInv, RingInv, RingTypeOK
    <2>6. ASSUME NEW s \in Slots, in_use'[s]
          PROVE  \/ /\ parser_pc' \in {"parse", "publish", "set_done", "release"}
                    /\ s = ParserSlot
                 \/ \E k \in 1 .. parsed_examples :
                      /\ s = SlotFor(k)
                      /\ \/ k > local_example_number
                         \/ \E u \in Threads : pc'[u] = "free" /\ used_index[u] = k
      <3>1. in_use[s] /\ s # SlotFor(used_index[t])
        BY <2>3, <2>5, <2>6
      <3>2. CASE parser_pc \in {"parse", "publish", "set_done", "release"}
                 /\ s = ParserSlot
        BY <2>2, <3>2 DEF WakeParser
      <3>3. ASSUME NEW k \in 1 .. parsed_examples, s = SlotFor(k),
                   \/ k > local_example_number
                   \/ \E u \in Threads : pc[u] = "free" /\ used_index[u] = k
            PROVE  \/ k > local_example_number
                   \/ \E u \in Threads : pc'[u] = "free" /\ used_index[u] = k
        BY <2>4, <3>1, <3>3
      <3> QED BY <3>1, <3>2, <3>3 DEF InUseInv
    <2> QED BY <1>1, <2>2, <2>6 DEF InUseInv, ParserSlot, countVars
  <1>3. CASE AccountEnd(t)
    <2>1. /\ local_example_number' = local_example_number + 1
          /\ used_index[t] = local_example_number + 1
          /\ pc'[t] = "free" /\ \A u \in Threads : u # t => pc'[u] = pc[u]
          /\ pc[t] = "account_end"
          /\ UNCHANGED <<in_use, parser_pc, used_index>>
      BY <1>3, CountAccountEnd DEF AccountEnd, ringVars, shared
    <2>2. local_example_number \in Nat /\ parsed_examples \in Nat
      BY CountBound DEF IInv, RingInv, RingTypeOK
    <2>3. ASSUME NEW k \in 1 .. parsed_examples,
                 \/ k > local_example_number
                 \/ \E u \in Threads : pc[u] = "free" /\ used_index[u] = k
          PROVE  \/ k > local_example_number + 1
                 \/ \E u \in Threads : pc'[u] = "free" /\ used_index[u] = k
      <3>1. CASE k > local_example_number
        <4>1. k > local_example_number + 1 \/ k = used_index[t]
          BY <2>1, <2>2, <3>1
        <4> QED BY <2>1, <4>1
      <3>2. CASE \E u \in Threads : pc[u] = "free" /\ used_index[u] = k
        BY <2>1, <3>2
      <3> QED BY <2>3, <3>1, <3>2
    <2> QED BY <1>1, <2>1, <2>3 DEF InUseInv, ParserSlot
  <1>4. CASE ~Free(t) /\ ~AccountEnd(t)
    <2>1. UNCHANGED countVars
      BY <1>4, LearnerFrame
    <2>2. UNCHANGED <<in_use, parser_pc>>
      <3>1. CASE HandsOn(t)
        BY <1>4, <3>1 DEF HandsOn, UseReturned, ClearSlot, PredictLast,
           PredictMore, FinishExample, ringVars, shared
      <3>2. CASE InsertExample(t)
        BY <3>2 DEF InsertExample
      <3>3. CASE ~HandsOn(t) /\ ~InsertExample(t)
        BY <3>3, LearnerCalm DEF Calm
      <3> QED BY <3>1, <3>2, <3>3
    <2>3. \A u \in Threads : pc[u] = "free" => pc'[u] = "free"
      <3>1. CASE HandsOn(t)
        <4>1. PICK l \in LearnerPcs : Turn(t, l)
          BY <3>1, LearnerTurns
        <4>2. pc[t] # "free"
          BY <1>4, <3>1 DEF HandsOn, UseReturned, ClearSlot, PredictLast,
             PredictMore, FinishExample
        <4> QED BY <4>1, <4>2, TurnOpens
      <3>2. CASE InsertExample(t)
        BY <3>2, LearnerInserts DEF Inserted
      <3>3. CASE ~HandsOn(t) /\ ~InsertExample(t)
        BY <1>4, <3>3, CalmOpen
      <3> QED BY <3>1, <3>2, <3>3
    <2>4. \A u \in Threads : pc[u] = "free" => used_index'[u] = used_index[u]
      <3>1. Take(t) => /\ pc[t] = "get_example"
                       /\ used_index' = [used_index EXCEPT ![t] = @ + 1]
        BY DEF Take, TakeExample
      <3>2. used_index \in [Threads -> Nat]
        BY DEF IInv, RingInv, RingTypeOK
      <3>3. CASE Take(t)
        <4>1. \A u \in Threads : pc[u] = "free" => u # t
          BY <3>1, <3>3
        <4> QED BY <3>1, <3>2, <3>3, <4>1
      <3>4. CASE ~Take(t)
        BY <3>4, LearnerFrame
      <3> QED BY <3>3, <3>4
    <2> QED BY <1>1, <2>1, <2>2, <2>3, <2>4 DEF InUseInv, ParserSlot, countVars
  <1> QED BY <1>2, <1>3, <1>4

\* Where a thread looks whether it may leave.
LEMMA ExitLearner ==
  ASSUME IInv, ExitInv, NEW t \in Threads, Learner(t)
  PROVE  ExitInv'
  <1>1. UNCHANGED <<parsed_examples, done>>
    BY LearnerFrame
  <1>2. AllUsed => used_index' = used_index
    <2>1. Take(t) => ~AllUsed
      BY DEF Take, TakeExample, AllUsed
    <2> QED BY <2>1, LearnerFrame
  <1>3. CASE CheckDone(t) \/ Scan(t) \/ Leave(t)
    <2>1. \/ /\ pc[t] = "check_done"
             /\ pc' = [pc EXCEPT ![t] = IF done THEN "scan" ELSE "peek"]
          \/ /\ pc[t] = "scan"
             /\ pc' = [pc EXCEPT ![t] = IF AllUsed THEN "drained" ELSE "peek"]
          \/ /\ pc[t] = "drained"
             /\ pc' = [pc EXCEPT ![t] = IF Drained(t) THEN "exit" ELSE "peek"]
      BY <1>3 DEF CheckDone, Scan, Leave, Goto
    <2>2. pc \in [Threads -> LearnerPcs] /\ used_index' = used_index
      BY <1>3 DEF IInv, TypeInv, CheckDone, Scan, Leave, ringVars, shared
    <2> QED BY <1>1, <2>1, <2>2 DEF ExitInv, AllUsed
  <1>4. CASE ~CheckDone(t) /\ ~Scan(t) /\ ~Leave(t)
    <2>1. /\ pc'[t] \notin {"scan", "drained", "exit"}
          /\ \A u \in Threads : u # t => pc'[u] = pc[u]
      <3>1. CASE HandsOn(t)
        <4>1. PICK l \in LearnerPcs : Turn(t, l)
          BY <3>1, LearnerTurns
        <4>2. l \notin {"scan", "drained", "exit"}
          BY <4>1 DEF Turn, Turns
        <4> QED BY <4>1, <4>2, TurnOpens
      <3>2. CASE InsertExample(t)
        BY <3>2, LearnerInserts DEF Inserted, IInv, TypeInv
      <3>3. CASE ~HandsOn(t) /\ ~InsertExample(t)
        <4> USE DEF Goto
        <4>1. pc \in [Threads -> LearnerPcs] /\ AfterReturn(t) = "train"
          BY NoRelaySetting DEF IInv, TypeInv
        <4>2. \A u \in Threads : u # t => pc'[u] = pc[u]
          BY <3>3, LearnerCalm DEF Calm
        <4>3. CASE ReturnExample(t) \/ Advance(t) \/ SkipForAll(t)
                   \/ DelayExample(t) \/ AccountBegin(t) \/ AccountEnd(t)
          BY <4>1, <4>2, <4>3 DEF ReturnExample, Advance, SkipForAll,
             DelayExample, AccountBegin, AccountEnd, IInv, TypeInv, LearnerPcs
        <4>4. CASE Peek(t) \/ GetDelayExample(t) \/ Train(t) \/ Decay(t)
                   \/ GetGlobalExample(t) \/ AwaitGlobal(t)
          BY <4>1, <4>2, <4>4 DEF Peek, GetDelayExample, Train, Decay,
             GetGlobalExample, AwaitGlobal, LearnerPcs
        <4>5. CASE Take(t) \/ Await(t) \/ Woken(t) \/ NothingLeft(t)
                   \/ Dispatch(t) \/ Summed(t) \/ Unlock(t)
          BY <4>1, <4>2, <4>5 DEF Take, Await, Woken, NothingLeft, Dispatch,
             Summed, Unlock
        <4> QED BY <1>4, <3>3, <4>3, <4>4, <4>5
            DEF Learner, LearnerStep, RoutineStep, HandsOn
      <3> QED BY <3>1, <3>2, <3>3
    <2> QED BY <1>1, <1>2, <2>1 DEF ExitInv, AllUsed
  <1> QED BY <1>3, <1>4

\* All three are invariants.
LEMMA Counted ==
  ASSUME \A g \in Globals : NoRelay(g), "save" \notin Kinds, ~ActiveSimulation
  PROVE  Spec => [](CountInv /\ InUseInv /\ ExitInv)
  <1> DEFINE Inv == CountInv /\ InUseInv /\ ExitInv
  <1>1. Init => Inv
    BY InitIInv, CountStart
  <1>2. IInv /\ Inv /\ [Next]_vars => Inv'
    <2> SUFFICES ASSUME IInv, Inv, [Next]_vars PROVE Inv'
      OBVIOUS
    <2>1. CASE Parser
      BY <2>1, CountParser, InUseParser, ExitParser
    <2>2. ASSUME NEW t \in Threads, Learner(t) PROVE Inv'
      BY <2>2, CountLearner, InUseLearner, ExitLearner
    <2>3. CASE RelayThread
      BY <2>3 DEF RelayThread, IInv, SettingInv
    <2>4. CASE UNCHANGED vars
      BY <2>4 DEF vars, ringVars, shared, delayVars, countVars, locals,
         CountInv, InUseInv, ExitInv, Open, Completes, Owes, Behind, Predicted,
         Predicting, AllUsed, ParserSlot
    <2> QED BY <2>1, <2>2, <2>3, <2>4 DEF Next, Joined
  <1> HIDE DEF Inv
  <1>3. Spec => []Inv
    BY <1>1, <1>2, Invariance, PTL DEF Spec
  <1> QED BY <1>3, PTL DEF Inv

LEMMA NothingLost ==
  ASSUME IInv, CountInv, InUseInv, ExitInv
  PROVE  AllAccounted
  <1> SUFFICES ASSUME AllExited
               PROVE  /\ local_example_number = parsed_examples
                      /\ sd_example_number = 2 * parsed_examples
                      /\ \A s \in Slots : ~in_use[s] /\ delay_ring[s] = Null
    BY DEF AllAccounted
  <1>1. parser_pc = "exit" /\ \A t \in Threads : pc[t] = "exit"
    BY NoRelaySetting DEF IInv, AllExited
  <1>2. \A t \in Threads : ~Behind(t)
    BY <1>1 DEF IInv, PlaceInv
  <1>3. \A t \in Threads : ~Open(t) /\ Predicted(t) = parsed_examples
    BY <1>1, <1>2
    DEF Open, Completes, Owes, Predicted, Predicting, ExitInv, AllUsed
  <1>4. local_example_number = parsed_examples
    BY <1>3 DEF CountInv
  <1>5. sd_example_number = 2 * parsed_examples
    BY <1>4 DEF CountInv
  <1>6. \A s \in Slots : ~in_use[s]
    <2>1. \A k \in 1 .. parsed_examples : ~(k > local_example_number)
      BY <1>4 DEF IInv, RingInv, RingTypeOK
    <2> QED BY <1>1, <2>1 DEF InUseInv
  <1>7. \A s \in Slots : delay_ring[s] = Null
    BY <1>1, <1>2 DEF IInv, DelayRingInv, Fetches
  <1> QED BY <1>4, <1>5, <1>6, <1>7

\* When all threads have ended, the totals in *global.sd, which are updated without
\* a lock, are those of all examples that were parsed, each of which entered
\* them the same number of times, and no slot of either ring is still taken.
\* (Who predicted an example, and with what, is not part of it: see RingIsQueue,
\* by which every thread takes every example.)
THEOREM NothingIsLost ==
  ASSUME \A g \in Globals : NoRelay(g), "save" \notin Kinds, ~ActiveSimulation
  PROVE  Spec => []AllAccounted
  BY Invariance, Counted, NothingLost, PTL

-----------------------------------------------------------------------------
(* The order of training                                                   *)

\* Thread t is at an example that it has yet to train on, if anybody does.
Due(t) ==
  \/ Behind(t)
  \/ pc[t] \in {"dispatch", "predict", "wait_sum", "delay", "insert", "use",
                "clear", "train"}

\* A thread is never ahead of the examples it has taken.
OrderInv ==
  \A t \in Threads :
    trained[t] <= IF Due(t) THEN used_index[t] - 1 ELSE used_index[t]

Trainable(k) == TrainsOn(contents[SlotFor(k)].kind)

\* The three ways a step can bear on what thread t has to train on: it takes an
\* example, it is through with one, or it changes neither.
Begins(t) ==
  /\ ~Due(t) /\ Due(t)'
  /\ used_index'[t] = used_index[t] + 1 /\ trained'[t] = trained[t]

Ends(t) ==
  /\ Due(t) /\ ~Due(t)'
  /\ used_index[t] \in 1 .. parsed_examples /\ Released(t) < used_index[t]
  /\ used_index'[t] = used_index[t]
  /\ trained'[t] = IF Trainable(used_index[t]) THEN used_index[t] ELSE trained[t]

Goes(t) ==
  /\ Due(t)' <=> Due(t)
  /\ used_index'[t] = used_index[t] /\ trained'[t] = trained[t]

\* A thread that hands an example on has trained on it, or will not.
LEMMA DueTurn ==
  ASSUME IInv, NEW t \in Threads, Learner(t), NEW l \in LearnerPcs, Turn(t, l)
  PROVE  Goes(t) \/ Ends(t)
  <1>1. /\ <<pc[t], l>> \in Turns /\ pc'[t] = l /\ ~Behind(t)
        /\ used_index' = used_index /\ (Behind(t)' <=> Behind(t))
    BY GoesOn DEF Turn, Turns, IInv, PlaceInv
  <1>2. trained' = trained
    BY <1>1, LearnerFrame DEF Train, Turns
  <1>3. CASE <<pc[t], l>> = <<"predict", "peek">>
    <2>1. pc[t] = "predict" /\ pc'[t] = "peek"
      BY <1>1, <1>3
    <2>2. Due(t) /\ ~Due(t)'
      BY <1>1, <2>1 DEF Due
    <2>3. /\ used_index[t] \in 1 .. parsed_examples /\ Released(t) < used_index[t]
          /\ held[t] = SlotFor(used_index[t])
      BY <2>1, OwnExample DEF InHand
    <2>4. ~contents[SlotFor(used_index[t])].done
      <3>1. Predicted(t) < used_index[t]
        BY <2>1, <2>3, Ranges DEF Predicted, Predicting
      <3> QED BY <2>3, <3>1 DEF IInv, PredictInv
    <2>5. PredictMore(t)
      <3>1. \A m : pc' = [pc EXCEPT ![t] = m] => m = "peek"
        BY <2>1 DEF IInv, TypeInv
      <3> QED BY <2>1, <3>1 DEF Learner, LearnerStep, RoutineStep, ReturnExample,
            Advance, UseReturned, ClearSlot, DelayExample, InsertExample,
            SkipForAll, FinishExample, AccountBegin, AccountEnd, Free, Peek,
            GetDelayExample, GetGlobalExample, AwaitGlobal, Train, Decay, Take,
            Await, Woken, NothingLeft, Dispatch, PredictLast, Summed, Unlock,
            CheckDone, Scan, Leave, Goto
    <2>6. ~Trainable(used_index[t])
      <3>1. ~MustWait(held[t])
        BY <2>1, <2>5 DEF PredictMore, Goto, IInv, TypeInv
      <3> QED BY <2>3, <2>4, <3>1 DEF MustWait, Trainable
    <2> QED BY <1>1, <1>2, <2>2, <2>3, <2>6 DEF Ends
  <1>4. CASE <<pc[t], l>> # <<"predict", "peek">>
    BY <1>1, <1>2, <1>4 DEF Goes, Due, Turns
  <1> QED BY <1>3, <1>4

LEMMA DueLearner ==
  ASSUME IInv, NEW t \in Threads, Learner(t)
  PROVE  /\ \A u \in Threads : u # t => Goes(u)
         /\ Goes(t) \/ Begins(t) \/ Ends(t)
  <1> USE DEF Goto, ringVars, shared, delayVars, locals
  <1>1. /\ pc \in [Threads -> LearnerPcs] /\ used_index \in [Threads -> Nat]
        /\ \A n \in Nat : DelayCount(n) = n
        /\ ~WantsGlobal(t) /\ AfterReturn(t) = "train"
        /\ trained \in [Threads -> Nat] /\ count \in [Threads -> {0, NumThreads}]
        /\ taker[t] = t /\ NumThreads \in Nat \ {0}
    BY NoRelaySetting, RingAssumption DEF IInv, TypeInv, RingInv, RingTypeOK
  <1>2. Train(t) \/ trained' = trained
    BY LearnerFrame
  <1>3. \A u \in Threads : u # t => trained'[u] = trained[u]
    BY <1>1, <1>2 DEF Train
  <1>4. CASE HandsOn(t)
    <2>1. PICK l \in LearnerPcs : Turn(t, l)
      BY <1>4, LearnerTurns
    <2>2. /\ \A u \in Threads : u # t => pc'[u] = pc[u]
          /\ \A u \in Threads : Behind(u)' <=> Behind(u)
          /\ used_index' = used_index
      BY <2>1, GoesOn DEF Turn
    <2>3. \A u \in Threads : u # t => Goes(u)
      BY <1>3, <2>2 DEF Goes, Due
    <2> QED BY <2>1, <2>3, DueTurn
  <1>5. CASE InsertExample(t)
    <2>1. Inserted(t) /\ trained' = trained
      BY <1>2, <1>5, LearnerInserts DEF InsertExample, Train
    <2> QED BY <2>1 DEF Inserted, Goes, Due
  <1>6. CASE ~HandsOn(t) /\ ~InsertExample(t)
    <2>1. Calm(t)
      BY <1>6, LearnerCalm
    <2>2. ASSUME NEW u \in Threads, u # t PROVE Goes(u)
      BY <1>3, <2>1, <2>2 DEF Calm, Goes, Due, Behind
    <2>3. CASE ReturnExample(t) \/ Advance(t)
      <3>1. used_index' = used_index /\ trained' = trained
        BY <1>2, <2>3 DEF ReturnExample, Advance, Train
      <3>2. Due(t)
        BY <2>3 DEF ReturnExample, Advance, Due, IInv, PlaceInv
      <3>3. Due(t)'
        BY <1>1, <2>3, <3>2 DEF ReturnExample, Advance, Due, Behind
      <3> QED BY <2>2, <3>1, <3>2, <3>3 DEF Goes
    <2>4. CASE DelayExample(t)
      <3>1. /\ pc[t] = "delay" /\ Due(t) /\ ~Behind(t) /\ ~Behind(t)'
            /\ used_index' = used_index /\ trained' = trained
        BY <1>2, <2>4 DEF DelayExample, Train, Due, Behind, IInv, PlaceInv
      <3>2. CASE count[t] = 0
        <4>1. ~Due(t)'
          BY <1>1, <2>4, <3>1, <3>2 DEF DelayExample, Due
        <4>2. /\ used_index[t] \in 1 .. parsed_examples
              /\ Released(t) < used_index[t] /\ held[t] = SlotFor(used_index[t])
          BY <3>1, OwnExample DEF InHand
        <4>3. ~Trainable(used_index[t])
          BY <1>1, <3>1, <3>2, <4>2 DEF IInv, CompleteInv, Completes, Trainable
        <4> QED BY <2>2, <3>1, <4>1, <4>2, <4>3 DEF Ends
      <3>3. CASE count[t] # 0
        <4>1. Due(t)'
          BY <1>1, <2>4, <3>1, <3>3 DEF DelayExample, Due
        <4> QED BY <2>2, <3>1, <4>1 DEF Goes
      <3> QED BY <3>2, <3>3
    <2>5. CASE Train(t)
      <3>1. /\ pc[t] = "train" /\ Owes(t) /\ Due(t) /\ ~Behind(t)
            /\ UNCHANGED <<used_index, delay_indices, local_index>>
            /\ trained' = [trained EXCEPT ![t] = contents[held[t]].counter]
        BY <1>1, <2>5 DEF Train, Owes, Due, IInv, PlaceInv
      <3>2. /\ used_index[t] \in 1 .. parsed_examples
            /\ Released(t) < used_index[t] /\ held[t] = SlotFor(used_index[t])
            /\ contents[held[t]].counter = used_index[t]
        BY <3>1, OwnExample DEF InHand
      <3>3. Trainable(used_index[t])
        BY <3>1 DEF IInv, TrainInv, Trainable
      <3>4. ~Due(t)'
        BY <1>1, <2>5, <3>1 DEF Train, Due, Behind
      <3> QED BY <1>1, <2>2, <3>1, <3>2, <3>3, <3>4 DEF Ends
    <2>6. CASE Take(t)
      <3>1. /\ pc[t] = "get_example" /\ ~Behind(t) /\ ~Due(t) /\ trained' = trained
            /\ used_index'[t] = used_index[t] + 1 /\ pc'[t] = "dispatch"
        BY <1>1, <1>2, <2>6 DEF Take, TakeExample, Train, Due, IInv, PlaceInv
      <3>2. Due(t)'
        BY <3>1 DEF Due
      <3> QED BY <2>2, <3>1, <3>2 DEF Begins
    <2>7. CASE Summed(t)
      <3>1. /\ pc[t] = "wait_sum" /\ used_index' = used_index /\ trained' = trained
            /\ UNCHANGED <<delay_indices, local_index>> /\ Due(t)
        BY <1>2, <2>7 DEF Summed, Train, Due
      <3>2. contents[held[t]].done => Behind(t)
        <4> SUFFICES ASSUME contents[held[t]].done, ~Behind(t) PROVE FALSE
          OBVIOUS
        <4>1. PICK u \in Threads : Completes(u) /\ count[u] # 0
          BY <3>1 DEF IInv, WaitInv
        <4>2. u # t
          BY <3>1, <4>1 DEF Completes
        <4>3. ex_lock[held[u]] = u /\ used_index[t] = used_index[u]
          BY <4>1, <4>2 DEF IInv, CompleteInv
        <4>4. held[u] = held[t]
          BY <3>1, <4>1, <4>3, HeldSlot DEF Completes, InHand
        <4> QED BY <2>7, <4>3, <4>4, NoNull DEF Summed, Locked
      <3>3. Due(t)'
        BY <1>1, <2>7, <3>1, <3>2 DEF Summed, Due, Behind
      <3> QED BY <2>2, <3>1, <3>3 DEF Goes
    <2>8. CASE Dispatch(t)
      <3>1. /\ used_index' = used_index /\ trained' = trained /\ Due(t)
            /\ pc'[t] \in {"delay", "predict"}
        BY <1>1, <1>2, <2>8 DEF Dispatch, Train, Due
      <3> QED BY <2>2, <3>1 DEF Goes, Due
    <2>9. CASE /\ ~ReturnExample(t) /\ ~Advance(t) /\ ~DelayExample(t)
               /\ ~Train(t) /\ ~Take(t) /\ ~Summed(t) /\ ~Dispatch(t)
      <3> DEFINE Apart == LearnerPcs \ {"dispatch", "predict", "wait_sum",
                              "delay", "insert", "use", "clear", "train"}
      <3>1. pc[t] \in Apart /\ pc'[t] \in Apart
            /\ UNCHANGED <<delay_indices, local_index>>
        <4> USE DEF restVars
        <4>1. CASE SkipForAll(t) \/ AccountBegin(t) \/ AccountEnd(t)
          BY <1>1, <4>1 DEF SkipForAll, AccountBegin, AccountEnd, LearnerPcs,
             GdPcs, RoutinePcs
        <4>2. CASE Peek(t) \/ GetDelayExample(t) \/ GetGlobalExample(t)
                   \/ AwaitGlobal(t) \/ Decay(t)
          BY <1>1, <4>2 DEF Peek, GetDelayExample, GetGlobalExample,
             AwaitGlobal, Decay, LearnerPcs, GdPcs, RoutinePcs
        <4>3. CASE Await(t) \/ Woken(t) \/ NothingLeft(t) \/ Unlock(t)
          BY <1>1, <4>3 DEF Await, Woken, NothingLeft, NoExample, Unlock,
             LearnerPcs, GdPcs, RoutinePcs
        <4>4. CASE CheckDone(t) \/ Scan(t) \/ Leave(t)
          BY <1>1, <4>4 DEF CheckDone, Scan, Leave, LearnerPcs, GdPcs, RoutinePcs
        <4> QED BY <1>6, <2>9, <4>1, <4>2, <4>3, <4>4
            DEF Learner, LearnerStep, RoutineStep, HandsOn
      <3>2. used_index' = used_index /\ trained' = trained
        BY <1>2, <2>9, LearnerFrame
      <3>3. Due(t)' <=> Due(t)
        BY <3>1 DEF Due, Behind
      <3> QED BY <2>2, <3>2, <3>3 DEF Goes
    <2> QED BY <2>3, <2>4, <2>5, <2>6, <2>7, <2>8, <2>9
  <1> QED BY <1>4, <1>5, <1>6

\* No other step bears on it.
LEMMA DueParser ==
  ASSUME IInv, Parser
  PROVE  \A u \in Threads : Goes(u)
  BY ParserLeaves DEF Goes, Due

LEMMA DueStutter ==
  ASSUME UNCHANGED vars
  PROVE  \A u \in Threads : Goes(u)
  BY DEF vars, ringVars, shared, delayVars, gdVars, Goes, Due, Behind

\* A step keeps the trained examples behind the one in hand.
LEMMA OrderStep ==
  ASSUME IInv, OrderInv,
         \A t \in Threads : Goes(t) \/ Begins(t) \/ Ends(t)
  PROVE  OrderInv'
  <1> SUFFICES ASSUME NEW t \in Threads
               PROVE  (trained[t] <= IF Due(t) THEN used_index[t] - 1
                                               ELSE used_index[t])'
    BY DEF OrderInv
  <1>1. trained[t] \in Nat /\ used_index[t] \in Nat
    BY Ranges DEF IInv, TypeInv
  <1>2. CASE Goes(t)
    BY <1>2 DEF Goes, OrderInv
  <1>3. CASE Begins(t)
    BY <1>1, <1>3 DEF Begins, OrderInv
  <1>4. CASE Ends(t)
    BY <1>1, <1>4 DEF Ends, OrderInv
  <1> QED BY <1>2, <1>3, <1>4

\* How every step bears on what the threads have to train on.
LEMMA DueNext ==
  ASSUME IInv, [Next]_vars
  PROVE  \A t \in Threads : Goes(t) \/ Begins(t) \/ Ends(t)
  <1>1. CASE Parser
    BY <1>1, DueParser
  <1>2. ASSUME NEW t \in Threads, Learner(t)
        PROVE  \A u \in Threads : Goes(u) \/ Begins(u) \/ Ends(u)
    BY <1>2, DueLearner
  <1>3. CASE RelayThread
    BY <1>3 DEF RelayThread, IInv, SettingInv
  <1>4. CASE UNCHANGED vars
    BY <1>4, DueStutter
  <1> QED BY <1>1, <1>2, <1>3, <1>4 DEF Next, Joined

LEMMA DueStart ==
  ASSUME Init, IInv
  PROVE  \A t \in Threads : ~Due(t) /\ used_index[t] = 0 /\ trained[t] = 0
  <1>1. \A t \in Threads : t \in Actors /\ t \in Takers /\ Top(t) = "peek"
    BY NoRelaySetting DEF IInv
  <1> QED BY <1>1 DEF Init, DelayInit, RingInit, Due, Behind

LEMMA Ordered ==
  ASSUME \A g \in Globals : NoRelay(g), "save" \notin Kinds, ~ActiveSimulation
  PROVE  Spec => []OrderInv
  <1>1. Init => OrderInv
    BY InitIInv, DueStart DEF OrderInv
  <1>2. IInv /\ OrderInv /\ [Next]_vars => OrderInv'
    BY DueNext, OrderStep
  <1> QED BY <1>1, <1>2, Invariance, PTL DEF Spec

\* Every thread trains on the examples in the order they were read in, and on
\* none of them twice: what return_example takes out of the delay ring is newer
\* than anything inline_train has seen in this thread.
THEOREM TrainsInOrder ==
  ASSUME \A g \in Globals : NoRelay(g), "save" \notin Kinds, ~ActiveSimulation
  PROVE  Spec => TrainedInOrder
  <1>1. ASSUME IInv, OrderInv
        PROVE  \A t \in Threads : pc[t] = "train" =>
                 contents[held[t]].counter > trained[t]
    <2> SUFFICES ASSUME NEW t \in Threads, pc[t] = "train"
                 PROVE  contents[held[t]].counter > trained[t]
      OBVIOUS
    <2>1. contents[held[t]].counter = used_index[t]
      BY <1>1, OwnExample DEF InHand
    <2>2. trained[t] <= used_index[t] - 1
      BY <1>1 DEF OrderInv, Due
    <2>3. trained[t] \in Nat /\ used_index[t] \in Nat
      BY <1>1, Ranges DEF IInv, TypeInv
    <2> QED BY <2>1, <2>2, <2>3
  <1>2. IInv /\ OrderInv =>
          [\A t \in Threads : pc[t] = "train" /\ taker[t] = t /\ pc'[t] # "train"
             => contents[held[t]].counter > trained[t]]_vars
    BY <1>1
  <1> QED BY <1>2, Invariance, Ordered, PTL DEF TrainedInOrder

-----------------------------------------------------------------------------
(* Which example of the input is where                                     *)

\* The k-th example that is read, passes that are cut short apart.
InputItem(k) == stream[((k - 1) % FileLen) + 1]

\* The examples read so far are some whole passes and a part of one.
PlaceInInput ==
  \E q \in Nat : parsed_examples + (IF parser_pc = "publish" THEN 1 ELSE 0)
                   = q * FileLen + position

\* A slot holds the kind of example that was read into it as long as anybody
\* still needs it.
ItemInv ==
  /\ parser_pc = "publish" =>
       contents[ParserSlot].kind = InputItem(parsed_examples + 1)
  /\ \A k \in 1 .. parsed_examples : \A t \in Threads : Released(t) < k =>
       contents[SlotFor(k)].kind = InputItem(k)

\* Division with remainder has one outcome.
LEMMA Remainder ==
  ASSUME NEW d \in Nat \ {0}, NEW q \in Nat, NEW r \in 0 .. d - 1
  PROVE  (q * d + r) % d = r
  <1> DEFINE n == q * d + r
  <1>1. n \in Int
    BY Z3
  <1> DEFINE p == n \div d
             s == n % d
  <1>2. s \in 0 .. d - 1 /\ p \in Int /\ n = d * p + s
    BY <1>1, DivMod
  <1> HIDE DEF p, s
  <1>3. s - r = d * (q - p) /\ r - s = d * (p - q)
    BY <1>2, Z3
  <1>4. s \in Int /\ r \in Int /\ q - p \in Int /\ p - q \in Int
        /\ s - r < d /\ r - s < d
    BY <1>2
  <1>5. s >= r => s = r
    BY <1>3, <1>4, SmallMultiple
  <1>6. r >= s => r = s
    BY <1>3, <1>4, SmallMultiple
  <1> QED BY <1>4, <1>5, <1>6 DEF s

\* The parser goes through the input, and from its end to its start.
LEMMA PlaceParser ==
  ASSUME RingInv, ReadInv, LongFirstPass, PlaceInInput, ParserStep
  PROVE  PlaceInInput'
  <1>1. PICK q \in Nat :
          parsed_examples + (IF parser_pc = "publish" THEN 1 ELSE 0)
            = q * FileLen + position
    BY DEF PlaceInInput
  <1>2. /\ parsed_examples \in Nat /\ position \in Nat /\ FileLen \in Nat
        /\ example_number \in Nat /\ pass_length \in Nat /\ cached \in Nat
        /\ Source \in {"text", "text_to_cache"}
    BY RingAssumption DEF RingInv, RingTypeOK, Sources
  <1>3. CASE ParseExample
    BY <1>1, <1>2, <1>3 DEF ParseExample, PlaceInInput
  <1>4. CASE Publish
    BY <1>1, <1>2, <1>4 DEF Publish, PlaceInInput, source
  <1>5. CASE EndPass
    <2> USE <1>5 DEF EndPass, ResetSource, shared, Resettable
    <2>1. CASE Source = "text"
      <3>1. position' = position /\ parser_pc' # "publish" /\ parser_pc = "parse"
            /\ parsed_examples' = parsed_examples
        BY <2>1
      <3> QED BY <1>1, <3>1 DEF PlaceInInput
    <2>2. CASE Source = "text_to_cache"
      <3>1. position = FileLen
        BY <1>2, <2>2 DEF ReadInv, Readable, InputLen, RingInv, RingTypeOK
      <3>2. position' = 0 /\ parser_pc' # "publish" /\ parser_pc = "parse"
            /\ parsed_examples' = parsed_examples
        BY <2>2
      <3>3. q * FileLen + position = (q + 1) * FileLen + 0
        BY <1>2, <3>1, Z3
      <3>4. parsed_examples' + 0 = (q + 1) * FileLen + 0 /\ q + 1 \in Nat
        BY <1>1, <1>2, <3>2, <3>3
      <3> QED BY <3>2, <3>4 DEF PlaceInInput
    <2> QED BY <1>2, <2>1, <2>2
  <1>6. CASE GetUnusedExample \/ WaitForUnused \/ SetDone \/ ReleaseSlot
    <2>1. UNCHANGED <<parsed_examples, position>>
          /\ parser_pc # "publish" /\ parser_pc' # "publish"
      BY <1>6 DEF GetUnusedExample, WaitForUnused, SetDone, ReleaseSlot, shared,
         source
    <2> QED BY <1>1, <2>1 DEF PlaceInInput
  <1> QED BY <1>3, <1>4, <1>5, <1>6 DEF ParserStep

\* What the parser reads is the next example of the input.
LEMMA NextItem ==
  ASSUME RingInv, ReadInv, PlaceInInput, ParseExample, "save" \notin Kinds
  PROVE  contents'[ParserSlot].kind = InputItem(parsed_examples + 1)
  <1>1. PICK q \in Nat : parsed_examples = q * FileLen + position
    <2>1. parser_pc # "publish" /\ parsed_examples \in Nat
      BY DEF ParseExample, RingInv, RingTypeOK
    <2> QED BY <2>1 DEF PlaceInInput
  <1>2. /\ position \in Nat /\ FileLen \in Nat /\ position < FileLen
        /\ parsed_examples \in Nat
    BY RingAssumption DEF RingInv, RingTypeOK, InputInv, ParseExample, Readable,
       InputLen
  <1>3. parsed_examples % FileLen = position
    BY <1>1, <1>2, Remainder
  <1>4. InputItem(parsed_examples + 1) = stream[position + 1]
    BY <1>2, <1>3 DEF InputItem
  <1>5. ParserSlot \in Slots /\ contents \in [Slots -> Example]
    BY SlotRange DEF ParserSlot, RingInv, RingTypeOK
  <1>6. contents'[ParserSlot].kind = stream[position + 1]
    BY <1>5 DEF ParseExample
  <1> QED BY <1>4, <1>6

LEMMA ItemParser ==
  ASSUME IInv, ReadInv, PlaceInInput, ItemInv, Parser, "save" \notin Kinds
  PROVE  ItemInv'
  <1>1. \A t \in Threads : Released(t)' = Released(t)
    BY ParserLeaves
  <1>2. \A k : InputItem(k)' = InputItem(k)
    BY DEF InputItem, Parser, ParserStep, GetUnusedExample, WaitForUnused,
       ParseExample, Publish, EndPass, SetDone, ReleaseSlot, source
  <1>3. CASE ParseExample
    <2>1. parser_pc = "parse" /\ parsed_examples' = parsed_examples
      BY <1>3 DEF ParseExample
    <2>2. ParserSlot' = ParserSlot
      BY <2>1 DEF ParserSlot
    <2>3. contents'[ParserSlot].kind = InputItem(parsed_examples + 1)
      BY <1>3, NextItem DEF IInv
    <2>4. ASSUME NEW k \in 1 .. parsed_examples, NEW t \in Threads,
                 Released(t) < k
          PROVE  contents'[SlotFor(k)].kind = InputItem(k)
      <3>1. SlotFor(k) \in Slots /\ SlotFor(k) # ParserSlot
        BY <2>1, <2>4, ParserAlone
      <3>2. contents' = [contents EXCEPT ![ParserSlot] = contents'[ParserSlot]]
        BY <1>3, ParsedExample DEF IInv
      <3>3. contents \in [Slots -> Example]
        BY DEF IInv, RingInv, RingTypeOK
      <3>4. contents'[SlotFor(k)] = contents[SlotFor(k)]
        BY <3>1, <3>2, <3>3
      <3> QED BY <2>4, <3>4 DEF ItemInv
    <2> QED BY <1>1, <1>2, <2>1, <2>2, <2>3, <2>4 DEF ItemInv, SlotFor
  <1>4. CASE Publish
    <2>1. /\ parser_pc = "publish" /\ parser_pc' = "get_unused"
          /\ parsed_examples' = parsed_examples + 1 /\ contents' = contents
          /\ parsed_examples \in Nat
      BY <1>4 DEF Publish, IInv, RingInv, RingTypeOK
    <2>2. contents[SlotFor(parsed_examples + 1)].kind
            = InputItem(parsed_examples + 1)
      BY <2>1 DEF ItemInv, SlotFor, ParserSlot
    <2>3. ASSUME NEW k \in 1 .. parsed_examples + 1, NEW t \in Threads,
                 Released(t) < k
          PROVE  contents[SlotFor(k)].kind = InputItem(k)
      <3>1. k \in 1 .. parsed_examples \/ k = parsed_examples + 1
        BY <2>1
      <3> QED BY <2>2, <2>3, <3>1 DEF ItemInv
    <2> QED BY <1>1, <1>2, <2>1, <2>3 DEF ItemInv, SlotFor
  <1>5. CASE GetUnusedExample \/ WaitForUnused \/ EndPass \/ SetDone
             \/ ReleaseSlot
    <2>1. UNCHANGED <<contents, parsed_examples>> /\ parser_pc' # "publish"
      BY <1>5 DEF GetUnusedExample, WaitForUnused, EndPass, SetDone,
         ReleaseSlot, shared
    <2> QED BY <1>1, <1>2, <2>1 DEF ItemInv, SlotFor
  <1> QED BY <1>3, <1>4, <1>5 DEF Parser, ParserStep

LEMMA ItemLearner ==
  ASSUME IInv, ItemInv, NEW t \in Threads, Learner(t), ~ActiveSimulation
  PROVE  ItemInv'
  <1>1. \A s \in Slots : contents'[s].kind = contents[s].kind
    BY LearnerKeepsExamples
  <1>2. parsed_examples' = parsed_examples /\ \A k : InputItem(k)' = InputItem(k)
    BY LearnerFrame DEF InputItem, source
  <1>3. parser_pc' = "publish" => parser_pc = "publish"
    <2>1. parser_pc' \in {parser_pc, WakeParser}
      <3>1. CASE Calm(t)
        BY <3>1 DEF Calm
      <3>2. CASE HandsOn(t)
        BY <3>2 DEF HandsOn, UseReturned, ClearSlot, PredictLast, PredictMore,
           FinishExample, Free, FreeExample, ringVars, shared
      <3>3. CASE InsertExample(t)
        BY <3>3 DEF InsertExample
      <3> QED BY <3>1, <3>2, <3>3, LearnerCalm
    <2> QED BY <2>1 DEF WakeParser
  <1>4. \A u \in Threads : \A k \in Nat : Released(u)' < k => Released(u) < k
    <2>1. CASE Calm(t)
      BY <2>1 DEF Calm, Released
    <2>2. ASSUME NEW l \in LearnerPcs, Turn(t, l)
          PROVE  \A u \in Threads : \A k \in Nat :
                   Released(u)' < k => Released(u) < k
      BY <2>2, TurnReleases, Ranges
    <2>3. CASE Inserted(t)
      BY <2>3 DEF Inserted
    <2> QED BY <2>1, <2>2, <2>3, LearnerKinds
  <1>5. ParserSlot' = ParserSlot /\ ParserSlot \in Slots
    BY <1>2, ParserSlotIn DEF ParserSlot
  <1>6. ASSUME NEW k \in 1 .. parsed_examples, NEW u \in Threads,
               Released(u)' < k
        PROVE  contents'[SlotFor(k)].kind = InputItem(k)
    <2>1. Released(u) < k
      BY <1>4, <1>6
    <2> QED BY <1>1, <2>1, LiveSlots DEF ItemInv
  <1> QED BY <1>1, <1>2, <1>3, <1>5, <1>6 DEF ItemInv, SlotFor

\* Both, and what has been read, are invariants.
LEMMA Itemized ==
  ASSUME \A g \in Globals : NoRelay(g), "save" \notin Kinds, ~ActiveSimulation,
         LongFirstPass
  PROVE  Spec => [](ReadInv /\ PlaceInInput /\ ItemInv)
  <1> DEFINE Inv == ReadInv /\ PlaceInInput /\ ItemInv
  <1>1. Init => Inv
    <2> SUFFICES ASSUME Init PROVE Inv
      OBVIOUS
    <2>1. ReadInv
      BY ReadStart DEF Init
    <2>2. PlaceInInput
      <3>1. /\ parsed_examples = 0 /\ position = 0 /\ parser_pc # "publish"
            /\ 0 + 0 = 0 * FileLen + 0
        BY RingAssumption DEF Init, RingInit
      <3> QED BY <3>1 DEF PlaceInInput
    <2>3. ItemInv
      BY DEF Init, RingInit, ItemInv
    <2> QED BY <2>1, <2>2, <2>3
  <1>2. IInv /\ IInv' /\ Inv /\ [Next]_vars => Inv'
    <2> SUFFICES ASSUME IInv, IInv', Inv, [Next]_vars PROVE Inv'
      OBVIOUS
    <2>1. CASE Parser
      BY <2>1, ReadParser, PlaceParser, ItemParser DEF IInv, Parser
    <2>2. ASSUME NEW t \in Threads, Learner(t) PROVE Inv'
      <3>1. /\ UNCHANGED <<parsed_examples, done, source>>
            /\ parser_pc' \in {parser_pc, WakeParser}
        <4>1. CASE Calm(t)
          BY <2>2, <4>1, LearnerFrame DEF Calm
        <4>2. CASE HandsOn(t)
          BY <2>2, <4>2, LearnerFrame
          DEF HandsOn, UseReturned, ClearSlot, PredictLast, PredictMore,
              FinishExample, Free, FreeExample, ringVars, shared
        <4>3. CASE InsertExample(t)
          BY <2>2, <4>3, LearnerFrame DEF InsertExample
        <4> QED BY <2>2, <4>1, <4>2, <4>3, LearnerCalm
      <3>2. ReadInv' /\ PlaceInInput'
        BY <3>1 DEF ReadInv, PlaceInInput, WakeParser, source
      <3> QED BY <2>2, <3>2, ItemLearner
    <2>3. CASE RelayThread
      BY <2>3 DEF RelayThread, IInv, SettingInv
    <2>4. CASE UNCHANGED vars
      BY <2>4 DEF vars, ringVars, shared, source, delayVars, ReadInv,
         PlaceInInput, ItemInv, InputItem, ParserSlot, Released
    <2> QED BY <2>1, <2>2, <2>3, <2>4 DEF Next, Joined
  <1> HIDE DEF Inv
  <1>3. Spec => []Inv
    BY <1>1, <1>2, Invariance, PTL DEF Spec
  <1> QED BY <1>3, PTL DEF Inv

\* The examples before the n-th to train on.
Earlier(n) == {i \in 1 .. n - 1 : TrainsOn(InputItem(i))}

\* The last one of them, or 0.
Latest(S) == IF S = {} THEN 0 ELSE CHOOSE i \in S : \A j \in S : j <= i

\* LastTrainable, one example at a time.
LEMMA LastTrainableStep ==
  /\ LastTrainable(1) = 0
  /\ \A n \in Nat \ {0} :
       LastTrainable(n + 1) = IF TrainsOn(InputItem(n)) THEN n
                                                        ELSE LastTrainable(n)
  <1>1. \A n : LastTrainable(n) = Latest(Earlier(n))
    BY DEF LastTrainable, Latest, Earlier, InputItem
  <1>2. LastTrainable(1) = 0
    <2>1. Earlier(1) = {}
      BY DEF Earlier
    <2> QED BY <1>1, <2>1 DEF Latest
  <1>3. ASSUME NEW n \in Nat \ {0}
        PROVE  LastTrainable(n + 1) = IF TrainsOn(InputItem(n)) THEN n
                                                         ELSE LastTrainable(n)
    <2>1. (n + 1) - 1 = n /\ 1 .. n = (1 .. n - 1) \cup {n}
      OBVIOUS
    <2>2. CASE TrainsOn(InputItem(n))
      <3>1. n \in Earlier(n + 1) /\ \A j \in Earlier(n + 1) : j <= n
        BY <2>1, <2>2 DEF Earlier
      <3>2. \A i \in Earlier(n + 1) : i \in Nat
        BY DEF Earlier
      <3> DEFINE m == CHOOSE i \in Earlier(n + 1) :
                        \A j \in Earlier(n + 1) : j <= i
      <3>3. m \in Earlier(n + 1) /\ \A j \in Earlier(n + 1) : j <= m
        BY <3>1
      <3>4. LastTrainable(n + 1) = m
        BY <1>1, <3>1 DEF Latest
      <3> HIDE DEF m
      <3>5. m = n
        BY <3>1, <3>2, <3>3
      <3> QED BY <2>2, <3>4, <3>5
    <2>3. CASE ~TrainsOn(InputItem(n))
      <3>1. Earlier(n + 1) = Earlier(n)
        BY <2>1, <2>3 DEF Earlier
      <3>2. LastTrainable(n + 1) = LastTrainable(n)
        BY <1>1, <3>1
      <3> QED BY <2>3, <3>2
    <2> QED BY <2>2, <2>3
  <1> QED BY <1>2, <1>3

\* A thread has trained on the last example before the one it is due to train
\* on, or, when it is not, on the last one up to the one it took last.
SequenceInv ==
  \A t \in Threads :
    trained[t] = LastTrainable(IF Due(t) THEN used_index[t] ELSE used_index[t] + 1)

LEMMA SequenceStep ==
  ASSUME IInv, ItemInv, SequenceInv, UNCHANGED stream,
         \A t \in Threads : Goes(t) \/ Begins(t) \/ Ends(t)
  PROVE  SequenceInv'
  <1>1. \A n : LastTrainable(n)' = LastTrainable(n)
    BY DEF LastTrainable
  <1> SUFFICES ASSUME NEW t \in Threads
               PROVE  trained'[t] = LastTrainable(IF Due(t)' THEN used_index'[t]
                                                             ELSE used_index'[t] + 1)
    BY <1>1 DEF SequenceInv
  <1>2. CASE Goes(t)
    BY <1>2 DEF Goes, SequenceInv
  <1>3. CASE Begins(t)
    BY <1>3 DEF Begins, SequenceInv
  <1>4. CASE Ends(t)
    <2>1. /\ trained[t] = LastTrainable(used_index[t])
          /\ used_index'[t] = used_index[t] /\ ~Due(t)'
          /\ trained'[t] = IF Trainable(used_index[t]) THEN used_index[t]
                                                       ELSE trained[t]
          /\ used_index[t] \in 1 .. parsed_examples /\ Released(t) < used_index[t]
      BY <1>4 DEF Ends, SequenceInv
    <2>2. Trainable(used_index[t]) = TrainsOn(InputItem(used_index[t]))
      BY <2>1 DEF ItemInv, Trainable
    <2>3. used_index[t] \in Nat \ {0}
      BY <2>1
    <2> QED BY <2>1, <2>2, <2>3, LastTrainableStep
  <1> QED BY <1>2, <1>3, <1>4

\* "keep example processing sequential": in a run whose passes are not cut
\* short, a thread that predicts on an example has trained on all examples
\* before it that are trained on.
THEOREM TrainsSequentially ==
  ASSUME \A g \in Globals : NoRelay(g), "save" \notin Kinds, ~ActiveSimulation,
         LongFirstPass
  PROVE  Spec => []SequentialTraining
  <1>1. Init => SequenceInv
    <2> SUFFICES ASSUME Init PROVE SequenceInv
      OBVIOUS
    <2>1. \A t \in Threads : ~Due(t) /\ used_index[t] = 0 /\ trained[t] = 0
      BY InitIInv, DueStart
    <2>2. 0 + 1 = 1
      OBVIOUS
    <2> QED BY <2>1, <2>2, LastTrainableStep DEF SequenceInv
  <1>2. IInv /\ ItemInv /\ SequenceInv /\ [Next]_vars => SequenceInv'
    <2> SUFFICES ASSUME IInv, ItemInv, SequenceInv, [Next]_vars
                 PROVE  SequenceInv'
      OBVIOUS
    <2>1. UNCHANGED stream
      <3>1. CASE Parser
        BY <3>1 DEF Parser, ParserStep, GetUnusedExample, WaitForUnused,
           ParseExample, Publish, EndPass, SetDone, ReleaseSlot, source
      <3>2. ASSUME NEW t \in Threads, Learner(t) PROVE UNCHANGED stream
        BY <3>2, LearnerFrame DEF source
      <3>3. CASE RelayThread
        BY <3>3 DEF RelayThread, IInv, SettingInv
      <3>4. CASE UNCHANGED vars
        BY <3>4 DEF vars, ringVars, source
      <3> QED BY <3>1, <3>2, <3>3, <3>4 DEF Next, Joined
    <2> QED BY <2>1, DueNext, SequenceStep
  <1>3. SequenceInv => SequentialTraining
    BY DEF SequenceInv, SequentialTraining, Due
  <1> QED BY <1>1, <1>2, <1>3, Invariance, Itemized, PTL DEF Spec

-----------------------------------------------------------------------------
(* The end of the connection                                               *)

\* The socket is shut down by a thread that leaves.
ShutInv == shut => \E t \in Threads : pc[t] = "exit"

\* Nobody comes back from where a thread leaves.
LEMMA ExitFinal ==
  ASSUME IInv, NEW t \in Threads, Learner(t), NEW u \in Threads, pc[u] = "exit"
  PROVE  pc'[u] = "exit"
  <1>1. pc[t] # "exit"
    BY DEF Learner, LearnerStep, RoutineStep, ReturnExample, Advance,
       UseReturned, ClearSlot, DelayExample, InsertExample, SkipForAll,
       FinishExample, AccountBegin, AccountEnd, Free, Peek, GetDelayExample,
       GetGlobalExample, AwaitGlobal, Train, Decay, Take, Await, Woken,
       NothingLeft, Dispatch, PredictLast, PredictMore, Summed, Unlock,
       CheckDone, Scan, Leave
  <1>2. CASE Calm(t)
    BY <1>1, <1>2 DEF Calm
  <1>3. ASSUME NEW l \in LearnerPcs, Turn(t, l) PROVE pc'[u] = "exit"
    BY <1>1, <1>3 DEF Turn
  <1>4. CASE Inserted(t)
    BY <1>1, <1>4 DEF Inserted
  <1> QED BY <1>2, <1>3, <1>4, LearnerKinds

LEMMA ShutStep ==
  ASSUME IInv, ShutInv, [Next]_vars
  PROVE  ShutInv'
  <1>1. CASE Parser
    BY <1>1, ParserLeaves DEF ShutInv
  <1>2. ASSUME NEW t \in Threads, Learner(t) PROVE ShutInv'
    <2>1. CASE Leave(t)
      <3>1. /\ pc' = [pc EXCEPT ![t] = IF Drained(t) THEN "exit" ELSE "peek"]
            /\ shut' => shut \/ Drained(t)
            /\ pc \in [Threads -> LearnerPcs]
        BY <2>1 DEF Leave, Goto, IInv, TypeInv
      <3>2. CASE shut
        BY <1>2, <3>2, ExitFinal DEF ShutInv
      <3>3. CASE ~shut
        BY <3>1, <3>3 DEF ShutInv
      <3> QED BY <3>2, <3>3
    <2>2. CASE ~Leave(t)
      BY <1>2, <2>2, LearnerFrame, ExitFinal DEF ShutInv
    <2> QED BY <2>1, <2>2
  <1>3. CASE RelayThread
    BY <1>3 DEF RelayThread, IInv, SettingInv
  <1>4. CASE UNCHANGED vars
    BY <1>4 DEF vars, netVars, ShutInv
  <1> QED BY <1>1, <1>2, <1>3, <1>4 DEF Next, Joined

\* While a thread completes a prediction that is trained on nobody has left.
LEMMA NobodyLeft ==
  ASSUME IInv, ExitInv, NEW t \in Threads, pc[t] = "predict",
         TrainsOn(contents[held[t]].kind), NEW u \in Threads
  PROVE  pc[u] # "exit"
  <1> SUFFICES ASSUME pc[u] = "exit" PROVE FALSE
    OBVIOUS
  <1> DEFINE n == used_index[t]
  <1>1. n \in 1 .. parsed_examples /\ held[t] = SlotFor(n)
    BY OwnExample DEF InHand
  <1>2. Predicted(t) = n - 1 /\ Predicted(t) < n
    BY <1>1 DEF Predicted, Predicting
  <1>3. used_index[u] = parsed_examples /\ used_index[t] = parsed_examples
    BY DEF ExitInv, AllUsed
  <1>4. Predicted(u) = n
    BY <1>3 DEF Predicted, Predicting
  <1>5. pc[u] = "wait_sum"
    <2>1. Predicted(u) >= n
      BY <1>1, <1>4
    <2> QED BY <1>1, <1>2, <2>1 DEF IInv, PredictInv
  <1> QED BY <1>5

\* Every example is labelled.
LabelInv == \A s \in Slots : contents[s].kind = "labelled"

LEMMA LabelStep ==
  ASSUME IInv, LabelInv, [Next]_vars, Kinds \subseteq {"labelled"},
         ~ActiveSimulation
  PROVE  LabelInv'
  <1>1. CASE Parser
    <2>1. CASE ParseExample
      <3>1. /\ contents' = [contents EXCEPT ![ParserSlot] = contents'[ParserSlot]]
            /\ position + 1 \in Items /\ ParserSlot \in Slots
        BY <2>1, ParsedExample DEF IInv
      <3>2. contents \in [Slots -> Example] /\ stream \in [Items -> Kinds]
        BY DEF IInv, RingInv, RingTypeOK
      <3>3. contents'[ParserSlot].kind = stream[position + 1]
        BY <2>1, <3>1, <3>2 DEF ParseExample
      <3>4. contents'[ParserSlot].kind = "labelled"
        BY <3>1, <3>2, <3>3
      <3> QED BY <3>1, <3>2, <3>4 DEF LabelInv
    <2>2. CASE ~ParseExample
      <3>1. contents' = contents
        BY <1>1, <2>2 DEF Parser, ParserStep, GetUnusedExample, WaitForUnused,
           Publish, EndPass, SetDone, ReleaseSlot, shared
      <3> QED BY <3>1 DEF LabelInv
    <2> QED BY <2>1, <2>2
  <1>2. ASSUME NEW t \in Threads, Learner(t) PROVE LabelInv'
    BY <1>2, LearnerKeepsExamples DEF LabelInv
  <1>3. CASE RelayThread
    BY <1>3 DEF RelayThread, IInv, SettingInv
  <1>4. CASE UNCHANGED vars
    BY <1>4 DEF vars, ringVars, shared, LabelInv
  <1> QED BY <1>1, <1>2, <1>3, <1>4 DEF Next, Joined

\* When all examples are trained on, nothing is sent to the master once a thread
\* has shut the socket down: the others are then past their last prediction.
\* (A thread that does not wait for the others may find the input at its end
\* while the last of them still predicts.)
THEOREM NothingSentLate ==
  ASSUME \A g \in Globals : NoRelay(g), ~ActiveSimulation, Training,
         Kinds \subseteq {"labelled"}
  PROVE  Spec => NoSendAfterShutdown
  <1>1. "save" \notin Kinds
    OBVIOUS
  <1>2. Spec => []ShutInv
    <2>1. Init => ShutInv
      BY DEF Init, DelayInit, ShutInv
    <2>2. IInv /\ ShutInv /\ [Next]_vars => ShutInv'
      BY ShutStep
    <2> QED BY <1>1, <2>1, <2>2, Invariance, PTL DEF Spec
  <1>3. Spec => []LabelInv
    <2>1. Init => LabelInv
      BY DEF Init, RingInit, LabelInv
    <2>2. IInv /\ LabelInv /\ [Next]_vars => LabelInv'
      BY LabelStep
    <2> QED BY <1>1, <2>1, <2>2, Invariance, PTL DEF Spec
  <1>4. Spec => [](CountInv /\ InUseInv /\ ExitInv)
    BY <1>1, Counted
  <1>5. IInv /\ ShutInv /\ LabelInv /\ CountInv /\ InUseInv /\ ExitInv
          /\ [Next]_vars => [sent' # sent => ~shut]_vars
    <2> SUFFICES ASSUME IInv, ShutInv, LabelInv, ExitInv, [Next]_vars,
                        sent' # sent, shut
                 PROVE  FALSE
      OBVIOUS
    <2>1. CASE Parser
      BY <2>1, ParserLeaves
    <2>2. ASSUME NEW t \in Threads, Learner(t) PROVE FALSE
      <3>1. PredictLast(t)
        BY <2>2, LearnerFrame
      <3>2. pc[t] = "predict" /\ held[t] \in Slots
        BY <3>1, HeldSlot DEF PredictLast, InHand
      <3>3. TrainsOn(contents[held[t]].kind)
        BY <3>2 DEF LabelInv, TrainsOn
      <3>4. PICK u \in Threads : pc[u] = "exit"
        BY DEF ShutInv
      <3> QED BY <3>2, <3>3, <3>4, NobodyLeft
    <2>3. CASE RelayThread
      BY <2>3 DEF RelayThread, IInv, SettingInv
    <2>4. CASE UNCHANGED vars
      BY <2>4 DEF vars, netVars
    <2> QED BY <2>1, <2>2, <2>3, <2>4 DEF Next, Joined
  <1> QED BY <1>1, <1>2, <1>3, <1>4, <1>5, Invariance, PTL
          DEF Spec, NoSendAfterShutdown
=============================================================================
