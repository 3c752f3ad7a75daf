-------------------------- MODULE GdPipelineProofs --------------------------
(***************************************************************************)
(* Proofs about GdPipeline, for every number of threads, every size of the *)
(* ring and every input, in the runs without a message relay: learning on  *)
(* this node alone (no --predictto), or without a socket.                  *)
(*                                                                         *)
(* An example goes through three hands, and each of them counts the        *)
(* threads it still expects: the ring counts those that have not predicted *)
(* (threads_to_finish, PredictInv), the delay ring those that have not     *)
(* taken the example out (threads_to_use, FetchInv), and then again        *)
(* threads_to_finish those that have not finished it (TrainInv).  The      *)
(* thread that passes it on from one to the next is alone with it          *)
(* (CompleteInv, ClearInv, CloseInv).  All the while the slot is in use    *)
(* and holds the example (LiveInv).                                        *)
(***************************************************************************)
EXTENDS GdPipeline, ExampleRingProofs

\* The slot of the k-th example.
SlotFor(k) == SlotOf(k - 1)

\* How far thread t is: the last example it has predicted, and the threads that
\* have not predicted example k.
Predicting(t) == pc[t] \in {"dispatch", "predict"}
Predicted(t) == IF Predicting(t) THEN used_index[t] - 1 ELSE used_index[t]
Unpredicted(k) == {t \in Threads : Predicted(t) < k}

\* An example in the delay ring waits for thread t; t still has to take it out;
\* t still has to finish it.
Behind(t) == delay_indices[t] # local_index
Fetches(t) == Behind(t) \/ pc[t] = "use"
Owes(t) == Behind(t) \/ pc[t] \in {"use", "clear", "train", "decay", "finish"}
Fetching == {t \in Threads : Fetches(t)}
Owing == {t \in Threads : Owes(t)}

\* t is the last to predict its example, or the one that ends it.
Completes(t) == pc[t] \in {"delay", "insert"}
Closes(t) == pc[t] \in {"account", "account_end", "free"}

\* Learning on this node alone: there is no relay, and no label is dropped.
NoRelay(g) ==
  ~g.local_prediction \/ (~g.unique_id_zero /\ g.global_update = "none")

SettingInv == global \in Settings /\ Mesg = 0

LearnerPcs == GdPcs \ {"global", "await_global", "skip"}

TypeInv ==
  /\ delay_indices \in [Takers -> Nat]
  /\ delay_ring \in [Slots -> Slots \cup {Null}]
  /\ threads_to_use \in [Slots -> Int]
  /\ local_index \in Nat /\ global_index \in Nat
  /\ delay_empty \subseteq Threads
  /\ delay_nonempty \subseteq Threads
  /\ global_delay_nonempty \subseteq Threads
  /\ ex_lock \in [Slots -> Threads \cup {Null}]
  /\ delay_lock = Null
  /\ sd_example_number \in Nat /\ local_example_number \in Nat
  /\ crashed \in BOOLEAN
  /\ pc \in [Threads -> LearnerPcs]
  /\ held \in [Threads -> Slots \cup {Null}]
  /\ index \in [Threads -> Slots]
  /\ taker = [t \in Threads |-> t]
  /\ count \in [Threads -> {0, NumThreads}]
  /\ reg \in [Threads -> Nat]
  /\ sent \in Nat /\ answered = 0 /\ shut \in BOOLEAN
  /\ finished_sum \subseteq Threads
  /\ mine \in [Threads -> Nat]
  /\ current_pass \in [Threads -> Nat]
  /\ eta_decays \in Nat
  /\ trained \in [Threads -> Nat]

HeldInv ==
  \A t \in Threads : pc[t] \in InHand \cup {"unlock"} =>
    used_index[t] >= 1 /\ held[t] = SlotFor(used_index[t])

\* Where a thread may be while an example waits for it.
PlaceInv ==
  \A t \in Threads :
    /\ Behind(t) => pc[t] \in {"wait_sum", "unlock", "peek", "get_delay",
                               "return", "advance"}
    /\ pc[t] \in {"return", "advance"} => Behind(t)
    /\ pc[t] = "get_delay" => mine[t] = delay_indices[t]

LiveInv ==
  \A k \in 1 .. parsed_examples : \A t \in Threads : Released(t) < k =>
    in_use[SlotFor(k)] /\ contents[SlotFor(k)].counter = k

\* An example some thread has not predicted counts those threads; those that
\* have predicted one that is trained on wait for the others.
PredictInv ==
  \A k \in 1 .. parsed_examples : \A t \in Threads : Predicted(t) < k =>
    /\ threads_to_finish[SlotFor(k)] = Cardinality(Unpredicted(k))
    /\ ~contents[SlotFor(k)].done
    /\ TrainsOn(contents[SlotFor(k)].kind) =>
         \A u \in Threads : Predicted(u) >= k =>
           used_index[u] = k /\ pc[u] = "wait_sum"

WaitInv ==
  \A t \in Threads : pc[t] = "wait_sum" =>
    /\ TrainsOn(contents[held[t]].kind)
    /\ ~contents[held[t]].done => ~Behind(t)
    /\ contents[held[t]].done =>
         Behind(t) \/ \E u \in Threads : Completes(u) /\ count[u] # 0

\* The thread that completes a prediction holds the lock of the example, and
\* all others wait for it, or are through with the example.
CompleteInv ==
  \A t \in Threads : Completes(t) =>
    /\ ex_lock[held[t]] = t
    /\ contents[held[t]].done
    /\ count[t] = IF TrainsOn(contents[held[t]].kind) THEN NumThreads ELSE 0
    /\ \A u \in Threads : Predicted(u) >= used_index[t]
    /\ count[t] # 0 =>
         /\ \A u \in Threads : u # t =>
              pc[u] = "wait_sum" /\ used_index[u] = used_index[t]
         /\ \A u \in Threads : ~Owes(u)
    /\ count[t] = 0 =>
         /\ pc[t] = "delay"
         /\ \A u \in Threads : u # t => Released(u) >= used_index[t]
    /\ pc[t] = "insert" => index[t] = SlotOf(local_index)

\* The thread that accounts for an example and frees it is the last one.
CloseInv ==
  \A t \in Threads : Closes(t) =>
    \A u \in Threads : u # t => Released(u) >= used_index[t]

\* All threads that owe anything owe the same example.
TrainInv ==
  \A t \in Threads : Owes(t) =>
    /\ used_index[t] >= 1
    /\ TrainsOn(contents[SlotFor(used_index[t])].kind)
    /\ contents[SlotFor(used_index[t])].done
    /\ threads_to_finish[SlotFor(used_index[t])] = Cardinality(Owing)
    /\ \A u \in Threads : Predicted(u) >= used_index[t]
    /\ \A u \in Threads : Owes(u) => used_index[u] = used_index[t]
    /\ local_index >= 1

\* It is in the slot of the delay ring before local_index.
FetchInv ==
  \A t \in Threads :
    /\ Behind(t) => delay_indices[t] = local_index - 1
    /\ Fetches(t) =>
         /\ delay_ring[SlotOf(local_index - 1)] = SlotFor(used_index[t])
         /\ threads_to_use[SlotOf(local_index - 1)] = Cardinality(Fetching)
    /\ pc[t] \in {"advance", "use", "clear"} =>
         index[t] = SlotOf(local_index - 1)

ClearInv ==
  \A t \in Threads : pc[t] = "clear" =>
    /\ ex_lock[held[t]] = t
    /\ delay_ring[index[t]] = held[t]
    /\ \A u \in Threads : ~Fetches(u)

UnlockInv == \A t \in Threads : pc[t] = "unlock" => ex_lock[held[t]] = t

\* At most one example is in the delay ring.
DelayRingInv ==
  \A i \in Slots : delay_ring[i] # Null =>
    /\ i = SlotOf(local_index - 1)
    /\ \E t \in Threads : Fetches(t) \/ pc[t] = "clear"

\* The slot the parser works on is out of everybody's reach.
ParserInv ==
  parser_pc \in {"parse", "publish", "set_done", "release"} =>
    /\ in_use[ParserSlot]
    /\ \A t \in Threads : parsed_examples - Released(t) < RingSize

PublishInv ==
  parser_pc = "publish" =>
    /\ contents[ParserSlot].counter = parsed_examples + 1
    /\ ~contents[ParserSlot].done
    /\ threads_to_finish[ParserSlot] = NumThreads

BoundInv ==
  /\ threads_to_finish \in [Slots -> 0 .. NumThreads]
  /\ threads_to_use \in [Slots -> 0 .. NumThreads]

IInv ==
  /\ SettingInv
  /\ RingInv
  /\ TypeInv
  /\ HeldInv
  /\ PlaceInv
  /\ LiveInv
  /\ PredictInv
  /\ WaitInv
  /\ CompleteInv
  /\ CloseInv
  /\ TrainInv
  /\ FetchInv
  /\ ClearInv
  /\ UnlockInv
  /\ DelayRingInv
  /\ ParserInv
  /\ PublishInv
  /\ BoundInv
  /\ NoAssertFailure
  /\ NoNullDereference

-----------------------------------------------------------------------------
(* What follows from there being no relay                                  *)

LEMMA NoRelaySetting ==
  ASSUME SettingInv
  PROVE  /\ Actors = Threads
         /\ Threads \subseteq Takers
         /\ ~GlobalTraining
         /\ \A n \in Nat : DelayCount(n) = n
         /\ \A t \in Threads : /\ Top(t) = "peek"
                               /\ AfterReturn(t) = "train"
                               /\ ~WantsGlobal(t)
  <1>1. NumThreads \in Nat \ {0} /\ Mesg = 0
    BY RingAssumption DEF SettingInv
  <1>2. Actors = Threads
    BY <1>1 DEF Actors
  <1>3. ~(LocalPrediction /\ (UniqueIdZero \/ GlobalUpdate # "none"))
    BY <1>1 DEF Mesg
  <1>4. ~GlobalTraining
    BY <1>3 DEF GlobalTraining
  <1>5. ~(GlobalUpdate = "backprop" /\ LocalPrediction)
    BY <1>3
  <1>6. \A n \in Nat : DelayCount(n) = n
    BY <1>1, <1>5 DEF DelayCount
  <1>7. Threads \subseteq Takers
    <2>1. CASE GlobalUpdate # "none"
      BY <1>1, <2>1 DEF Threads, Takers, NumTakers
    <2>2. CASE GlobalUpdate = "none"
      BY <1>1, <2>2 DEF Threads, Takers, NumTakers
    <2> QED BY <2>1, <2>2
  <1>8. \A t \in Threads : t # Relay
    BY <1>1 DEF Threads, Relay
  <1> QED BY <1>2, <1>4, <1>6, <1>7, <1>8 DEF Top, AfterReturn, WantsGlobal

\* The setting never changes.
LEMMA SameSetting ==
  ASSUME UNCHANGED global
  PROVE  Takers' = Takers /\ (SettingInv => SettingInv')
  BY DEF Takers, NumTakers, Mesg, LocalPrediction, UniqueIdZero, GlobalUpdate,
         SettingInv

\* A thread is no null pointer, and neither is a slot.
LEMMA NoNull == Null \notin Threads /\ Null \notin Slots
  BY RingAssumption DEF Null, Threads, Slots

-----------------------------------------------------------------------------
(* How far the threads are                                                 *)

LEMMA Ranges ==
  ASSUME IInv, NEW t \in Threads
  PROVE  /\ parsed_examples \in Nat
         /\ used_index[t] \in Nat
         /\ Predicted(t) \in Nat
         /\ Released(t) \in Nat
         /\ Released(t) <= Predicted(t)
         /\ Predicted(t) <= used_index[t]
         /\ used_index[t] <= Released(t) + 1
         /\ used_index[t] <= parsed_examples
  <1>1. parsed_examples \in Nat /\ used_index[t] \in Nat
        /\ used_index[t] <= parsed_examples
    BY DEF IInv, RingInv, RingTypeOK, UsedInv
  <1>2. pc[t] \in InHand => used_index[t] >= 1
    BY DEF IInv, HeldInv
  <1>3. Behind(t) => used_index[t] >= 1
    BY DEF IInv, TrainInv, Owes
  <1>4. Predicting(t) => pc[t] \in InHand
    BY DEF Predicting, InHand
  <1>5. Released(t) = IF pc[t] \in InHand \/ Behind(t)
                        THEN used_index[t] - 1 ELSE used_index[t]
    BY DEF Released, Behind
  <1> QED BY <1>1, <1>2, <1>3, <1>4, <1>5 DEF Predicted

\* The same for the state a step leads to, before its invariant is known.
LEMMA ReleasedInHand ==
  ASSUME NEW t \in Threads
  PROVE  /\ pc[t] \in InHand \/ Behind(t) => Released(t) = used_index[t] - 1
         /\ ~(pc[t] \in InHand \/ Behind(t)) => Released(t) = used_index[t]
  BY DEF Released, Behind

\* Examples that are still needed are in different slots.
LEMMA LiveSlots ==
  ASSUME IInv, NEW k \in 1 .. parsed_examples, NEW t \in Threads,
         Released(t) < k
  PROVE  /\ SlotFor(k) \in Slots
         /\ in_use[SlotFor(k)]
         /\ contents[SlotFor(k)].counter = k
  <1>1. k - 1 \in Nat
    BY DEF IInv, RingInv, RingTypeOK
  <1> QED BY <1>1, SlotRange DEF IInv, LiveInv, SlotFor

\* The example a thread works on, or owes, is one of them.
LEMMA OwnExample ==
  ASSUME IInv, NEW t \in Threads,
         pc[t] \in InHand \/ Owes(t)
  PROVE  /\ used_index[t] \in 1 .. parsed_examples
         /\ Released(t) < used_index[t]
         /\ Released(t) = used_index[t] - 1
         /\ pc[t] \in InHand => held[t] = SlotFor(used_index[t])
         /\ SlotFor(used_index[t]) \in Slots
         /\ in_use[SlotFor(used_index[t])]
         /\ contents[SlotFor(used_index[t])].counter = used_index[t]
  <1>1. pc[t] \in InHand \/ Behind(t)
    BY DEF Owes, InHand
  <1>2. /\ used_index[t] >= 1
        /\ pc[t] \in InHand => held[t] = SlotFor(used_index[t])
    BY DEF IInv, HeldInv, TrainInv
  <1>3. Released(t) = used_index[t] - 1
    BY <1>1, ReleasedInHand
  <1>4. used_index[t] \in 1 .. parsed_examples /\ Released(t) < used_index[t]
    BY <1>2, <1>3, Ranges
  <1> QED BY <1>2, <1>3, <1>4, LiveSlots

\* Where an example is held, or its lock.
LEMMA HeldSlot ==
  ASSUME IInv, NEW t \in Threads, pc[t] \in InHand \cup {"unlock"}
  PROVE  held[t] = SlotFor(used_index[t]) /\ held[t] \in Slots
  <1>1. used_index[t] >= 1 /\ held[t] = SlotFor(used_index[t])
    BY DEF IInv, HeldInv
  <1>2. used_index[t] - 1 \in Nat
    BY <1>1, Ranges
  <1> QED BY <1>1, <1>2, SlotRange DEF SlotFor

-----------------------------------------------------------------------------
(* The initial states                                                      *)

LEMMA InitIInv ==
  ASSUME Init, \A g \in Globals : NoRelay(g)
  PROVE  IInv
  <1> USE DEF Init, DelayInit
  <1>1. RingInv
    BY RingStart
  <1>2. SettingInv
    <2>1. global \in Settings
      BY DelayAssumption
    <2>2. NoRelay(global)
      OBVIOUS
    <2> QED BY <2>1, <2>2 DEF SettingInv, NoRelay, Mesg, LocalPrediction,
               UniqueIdZero, GlobalUpdate
  <1>3. /\ Actors = Threads /\ Threads \subseteq Takers
        /\ \A t \in Threads : Top(t) = "peek"
    BY <1>2, NoRelaySetting
  <1>4. NumThreads \in Nat \ {0} /\ RingSize \in Nat \ {0} /\ 0 \in Slots
    BY RingAssumption DEF Slots
  <1>5. \A t \in Threads : /\ pc[t] = "peek" /\ used_index[t] = 0
                           /\ delay_indices[t] = 0 /\ local_index = 0
    BY <1>3 DEF RingInit
  <1>6. /\ in_use = [s \in Slots |-> FALSE] /\ parsed_examples = 0
        /\ threads_to_finish = [s \in Slots |-> 0]
        /\ parser_pc = "get_unused" /\ ~aborted
    BY DEF RingInit
  <1>7. TypeInv
    <2>1. pc \in [Threads -> LearnerPcs]
      BY <1>3 DEF LearnerPcs, GdPcs
    <2>2. held \in [Threads -> Slots \cup {Null}] /\ index \in [Threads -> Slots]
      BY <1>3, <1>4
    <2>3. /\ taker = [t \in Threads |-> t]
          /\ count \in [Threads -> {0, NumThreads}]
          /\ reg \in [Threads -> Nat]
      BY <1>3
    <2>4. /\ delay_indices \in [Takers -> Nat]
          /\ delay_ring \in [Slots -> Slots \cup {Null}]
          /\ threads_to_use \in [Slots -> Int]
          /\ ex_lock \in [Slots -> Threads \cup {Null}]
      OBVIOUS
    <2> QED BY <2>1, <2>2, <2>3, <2>4 DEF TypeInv
  <1>8. \A t \in Threads : ~Behind(t)
    BY <1>5 DEF Behind
  <1>9. HeldInv /\ PlaceInv /\ WaitInv /\ CompleteInv /\ CloseInv /\ UnlockInv
    BY <1>5, <1>8
    DEF HeldInv, PlaceInv, WaitInv, CompleteInv, CloseInv, UnlockInv, InHand,
        Completes, Closes
  <1>10. LiveInv /\ PredictInv
    BY <1>6 DEF LiveInv, PredictInv
  <1>11. TrainInv /\ FetchInv /\ ClearInv
    BY <1>5, <1>8 DEF TrainInv, FetchInv, ClearInv, Owes, Fetches
  <1>12. DelayRingInv /\ ParserInv /\ PublishInv
    BY <1>6 DEF DelayRingInv, ParserInv, PublishInv
  <1>13. BoundInv
    <2>1. 0 \in 0 .. NumThreads
      BY <1>4
    <2> QED BY <1>6, <2>1 DEF BoundInv
  <1>14. NoAssertFailure /\ NoNullDereference
    BY <1>6 DEF NoAssertFailure, NoNullDereference
  <1> QED BY <1>1, <1>2, <1>7, <1>9, <1>10, <1>11, <1>12, <1>13, <1>14 DEF IInv

-----------------------------------------------------------------------------
(* The calm steps of a learner                                             *)

\* A step of thread t after which every example is where it was, and everyone
\* owes what it owed.
Calm(t) ==
  /\ UNCHANGED <<in_use, contents, threads_to_finish, parsed_examples,
                 parser_pc, delay_ring, threads_to_use, local_index, crashed,
                 global>>
  /\ \A u \in Threads : u # t =>
       /\ pc'[u] = pc[u] /\ held'[u] = held[u]
       /\ index'[u] = index[u] /\ count'[u] = count[u]
       /\ used_index'[u] = used_index[u] /\ delay_indices'[u] = delay_indices[u]
       /\ \A s \in Slots : ex_lock[s] = u => ex_lock'[s] = u
  /\ used_index'[t] # used_index[t] => pc[t] = "get_example"
  /\ Released(t)' = Released(t) /\ Predicted(t)' = Predicted(t)
  /\ Owes(t)' <=> Owes(t)
  /\ Fetches(t)' <=> Fetches(t)
  /\ Behind(t)' => Behind(t) /\ delay_indices'[t] = delay_indices[t]
  /\ pc'[t] = "wait_sum" =>
       /\ pc[t] = "wait_sum" /\ held'[t] = held[t]
       /\ delay_indices'[t] = delay_indices[t]
  /\ pc[t] = "wait_sum" /\ pc'[t] # "wait_sum" =>
       contents[held[t]].done /\ ex_lock[held[t]] = Null
  /\ Completes(t)' =>
       /\ Completes(t) /\ held'[t] = held[t] /\ count'[t] = count[t]
       /\ ex_lock' = ex_lock
  /\ Completes(t) /\ ~Completes(t)' => count[t] = 0
  /\ pc'[t] = "insert" => index'[t] = SlotOf(local_index) /\ count[t] # 0
  /\ Closes(t)' => Closes(t) \/ (Completes(t) /\ count[t] = 0)
  /\ pc[t] # "clear" /\ pc'[t] \notin {"clear", "unlock"}
  /\ pc'[t] \in {"advance", "use"} => index'[t] = SlotOf(local_index - 1)

LEMMA CalmStep ==
  ASSUME IInv, NEW t \in Threads, Calm(t),
         RingInv', TypeInv', HeldInv', PlaceInv', NoAssertFailure'
  PROVE  IInv'
  <1>1. /\ in_use' = in_use /\ contents' = contents
        /\ threads_to_finish' = threads_to_finish
        /\ parsed_examples' = parsed_examples /\ parser_pc' = parser_pc
        /\ delay_ring' = delay_ring /\ threads_to_use' = threads_to_use
        /\ local_index' = local_index /\ crashed' = crashed /\ global' = global
    BY DEF Calm
  <1>2. \A u \in Threads : u # t =>
          /\ pc'[u] = pc[u] /\ held'[u] = held[u]
          /\ index'[u] = index[u] /\ count'[u] = count[u]
          /\ used_index'[u] = used_index[u]
          /\ delay_indices'[u] = delay_indices[u]
          /\ \A s \in Slots : ex_lock[s] = u => ex_lock'[s] = u
    BY DEF Calm
  <1>3. \A u \in Threads : /\ Released(u)' = Released(u)
                           /\ Predicted(u)' = Predicted(u)
                           /\ Owes(u)' <=> Owes(u)
                           /\ Fetches(u)' <=> Fetches(u)
    <2>1. CASE TRUE
      <3> SUFFICES ASSUME NEW u \in Threads, u # t
                   PROVE  /\ Released(u)' = Released(u)
                          /\ Predicted(u)' = Predicted(u)
                          /\ Owes(u)' <=> Owes(u)
                          /\ Fetches(u)' <=> Fetches(u)
        BY DEF Calm
      <3> QED BY <1>1, <1>2 DEF Released, Predicted, Predicting, Owes, Fetches,
                                Behind
    <2> QED BY <2>1
  <1>4. \A u \in Threads :
          /\ u # t => (Completes(u)' <=> Completes(u)) /\ (Closes(u)' <=> Closes(u))
          /\ u # t => (Behind(u)' <=> Behind(u))
    BY <1>1, <1>2 DEF Completes, Closes, Behind
  <1>5. /\ \A k : Unpredicted(k)' = Unpredicted(k)
        /\ Owing' = Owing
        /\ Fetching' = Fetching
    BY <1>3 DEF Unpredicted, Owing, Fetching
  <1>6. \A u \in Threads : Owes(u) \/ Completes(u) \/ Closes(u) \/ Predicted(u) # used_index[u]
                             \/ pc[u] = "wait_sum" \/ pc[u] = "clear" \/ pc[u] = "unlock"
          => used_index'[u] = used_index[u]
    <2>1. pc[t] = "get_example" =>
            ~Owes(t) /\ ~Completes(t) /\ ~Closes(t) /\ Predicted(t) = used_index[t]
      BY DEF Owes, Completes, Closes, Predicted, Predicting, IInv, PlaceInv
    <2> QED BY <1>2, <2>1 DEF Calm
  <1>7. \A u \in Threads : pc[u] \in {"wait_sum", "delay", "insert", "unlock", "clear"} =>
          held[u] = SlotFor(used_index[u]) /\ held[u] \in Slots
    BY HeldSlot DEF InHand
  <1>8. SettingInv'
    BY <1>1, SameSetting DEF IInv
  <1>9. LiveInv'
    BY <1>1, <1>3 DEF IInv, LiveInv
  <1>10. PredictInv'
    <2> SUFFICES ASSUME NEW k \in 1 .. parsed_examples, NEW v \in Threads,
                        Predicted(v) < k
                 PROVE  /\ threads_to_finish[SlotFor(k)] = Cardinality(Unpredicted(k))
                        /\ ~contents[SlotFor(k)].done
                        /\ TrainsOn(contents[SlotFor(k)].kind) =>
                             \A u \in Threads : Predicted(u) >= k =>
                               used_index'[u] = k /\ pc'[u] = "wait_sum"
      BY <1>1, <1>3, <1>5 DEF PredictInv
    <2>1. /\ threads_to_finish[SlotFor(k)] = Cardinality(Unpredicted(k))
          /\ ~contents[SlotFor(k)].done
          /\ TrainsOn(contents[SlotFor(k)].kind) =>
               \A u \in Threads : Predicted(u) >= k =>
                 used_index[u] = k /\ pc[u] = "wait_sum"
      BY DEF IInv, PredictInv
    <2>2. ASSUME NEW u \in Threads, used_index[u] = k, pc[u] = "wait_sum"
          PROVE  used_index'[u] = k /\ pc'[u] = "wait_sum"
      BY <1>2, <1>6, <1>7, <2>1, <2>2 DEF Calm
    <2> QED BY <2>1, <2>2
  <1>11. WaitInv'
    <2> SUFFICES ASSUME NEW u \in Threads, pc'[u] = "wait_sum"
                 PROVE  /\ TrainsOn(contents[held'[u]].kind)
                        /\ ~contents[held'[u]].done => ~Behind(u)'
                        /\ contents[held'[u]].done =>
                             Behind(u)' \/ \E v \in Threads :
                                             Completes(v)' /\ count'[v] # 0
      BY <1>1 DEF WaitInv
    <2>1. pc[u] = "wait_sum" /\ held'[u] = held[u] /\ (Behind(u)' <=> Behind(u))
      BY <1>1, <1>2, <1>4 DEF Calm, Behind
    <2>2. \A v \in Threads : Completes(v) /\ count[v] # 0 =>
                               Completes(v)' /\ count'[v] # 0
      BY <1>2, <1>4 DEF Calm
    <2> QED BY <2>1, <2>2 DEF IInv, WaitInv
  <1>12. CompleteInv'
    <2> SUFFICES ASSUME NEW v \in Threads, Completes(v)'
        PROVE  /\ ex_lock'[held'[v]] = v
               /\ contents[held'[v]].done
               /\ count'[v] = IF TrainsOn(contents[held'[v]].kind) THEN NumThreads ELSE 0
               /\ \A u \in Threads : Predicted(u) >= used_index'[v]
               /\ count'[v] # 0 =>
                    /\ \A u \in Threads : u # v =>
                         pc'[u] = "wait_sum" /\ used_index'[u] = used_index'[v]
                    /\ \A u \in Threads : ~Owes(u)
               /\ count'[v] = 0 =>
                    /\ pc'[v] = "delay"
                    /\ \A u \in Threads : u # v => Released(u) >= used_index'[v]
               /\ pc'[v] = "insert" => index'[v] = SlotOf(local_index)
      BY <1>1, <1>3 DEF CompleteInv
    <2>1. Completes(v) /\ held'[v] = held[v] /\ count'[v] = count[v]
      BY <1>2, <1>4 DEF Calm
    <2>2. used_index'[v] = used_index[v]
      BY <1>6, <2>1
    <2>3. pc[v] \in {"delay", "insert"}
      BY <2>1 DEF Completes
    <2>4. held[v] = SlotFor(used_index[v]) /\ held[v] \in Slots
      BY <1>7, <2>3
    <2>5. ex_lock[held[v]] = v
      BY <2>1 DEF IInv, CompleteInv
    <2>6. ex_lock'[held[v]] = v
      BY <1>2, <2>4, <2>5 DEF Calm
    <2>7. contents[held[v]].done
          /\ count[v] = (IF TrainsOn(contents[held[v]].kind) THEN NumThreads ELSE 0)
          /\ \A u \in Threads : Predicted(u) >= used_index[v]
      BY <2>1 DEF IInv, CompleteInv
    <2>8. ASSUME count[v] # 0, NEW u \in Threads, u # v
          PROVE  pc'[u] = "wait_sum" /\ used_index'[u] = used_index[v]
      <3>1. pc[u] = "wait_sum" /\ used_index[u] = used_index[v]
        BY <2>1, <2>8 DEF IInv, CompleteInv
      <3>2. ex_lock[held[u]] = v
        BY <1>7, <2>4, <2>5, <3>1
      <3>3. pc'[u] = "wait_sum"
        BY <1>2, <3>1, <3>2, NoNull DEF Calm
      <3> QED BY <1>6, <3>1, <3>3
    <2>9. count[v] # 0 => \A u \in Threads : ~Owes(u)
      BY <2>1 DEF IInv, CompleteInv
    <2>10. ASSUME count[v] = 0
           PROVE  /\ pc'[v] = "delay"
                  /\ \A u \in Threads : u # v => Released(u) >= used_index[v]
      <3>1. /\ pc[v] = "delay"
            /\ \A u \in Threads : u # v => Released(u) >= used_index[v]
        BY <2>1, <2>10 DEF IInv, CompleteInv
      <3>2. pc'[v] = "delay" \/ pc'[v] = "insert"
        BY DEF Completes
      <3>3. pc'[v] # "insert"
        <4>1. CASE v = t
          BY <2>10, <4>1 DEF Calm
        <4>2. CASE v # t
          BY <1>2, <3>1, <4>2
        <4> QED BY <4>1, <4>2
      <3> QED BY <3>1, <3>2, <3>3
    <2>11. pc'[v] = "insert" => index'[v] = SlotOf(local_index)
      <3>1. CASE v = t
        BY <3>1 DEF Calm
      <3>2. CASE v # t
        BY <1>2, <2>1, <3>2 DEF IInv, CompleteInv
      <3> QED BY <3>1, <3>2
    <2> QED BY <2>1, <2>2, <2>6, <2>7, <2>8, <2>9, <2>10, <2>11
  <1>13. CloseInv'
    <2> SUFFICES ASSUME NEW v \in Threads, Closes(v)', NEW u \in Threads, u # v
                 PROVE  Released(u) >= used_index'[v]
      BY <1>3 DEF CloseInv
    <2>1. Closes(v) \/ (Completes(v) /\ count[v] = 0)
      BY <1>4 DEF Calm
    <2>2. used_index'[v] = used_index[v]
      BY <1>6, <2>1
    <2> QED BY <2>1, <2>2 DEF IInv, CloseInv, CompleteInv
  <1>14. TrainInv'
    <2> SUFFICES ASSUME NEW v \in Threads, Owes(v)
        PROVE  /\ used_index'[v] >= 1
               /\ TrainsOn(contents[SlotFor(used_index'[v])].kind)
               /\ contents[SlotFor(used_index'[v])].done
               /\ threads_to_finish[SlotFor(used_index'[v])] = Cardinality(Owing)
               /\ \A u \in Threads : Predicted(u) >= used_index'[v]
               /\ \A u \in Threads : Owes(u) => used_index'[u] = used_index'[v]
               /\ local_index >= 1
      BY <1>1, <1>3, <1>5 DEF TrainInv
    <2>1. \A u \in Threads : Owes(u) => used_index'[u] = used_index[u]
      BY <1>6
    <2> QED BY <2>1 DEF IInv, TrainInv
  <1>15. FetchInv'
    <2> SUFFICES ASSUME NEW v \in Threads
        PROVE  /\ Behind(v)' => delay_indices'[v] = local_index - 1
               /\ Fetches(v) =>
                    /\ delay_ring[SlotOf(local_index - 1)] = SlotFor(used_index'[v])
                    /\ threads_to_use[SlotOf(local_index - 1)] = Cardinality(Fetching)
               /\ pc'[v] \in {"advance", "use", "clear"} =>
                    index'[v] = SlotOf(local_index - 1)
      BY <1>1, <1>3, <1>5 DEF FetchInv
    <2>1. Behind(v)' => delay_indices'[v] = local_index - 1
      BY <1>2, <1>4 DEF IInv, FetchInv, Calm
    <2>2. Fetches(v) => Owes(v)
      BY DEF Fetches, Owes
    <2>3. Fetches(v) => used_index'[v] = used_index[v]
      BY <1>6, <2>2
    <2>4. pc'[v] \in {"advance", "use", "clear"} => index'[v] = SlotOf(local_index - 1)
      BY <1>2 DEF IInv, FetchInv, Calm
    <2> QED BY <2>1, <2>3, <2>4 DEF IInv, FetchInv
  <1>16. ClearInv'
    <2> SUFFICES ASSUME NEW v \in Threads, pc'[v] = "clear"
                 PROVE  /\ ex_lock'[held'[v]] = v
                        /\ delay_ring[index'[v]] = held'[v]
                        /\ \A u \in Threads : ~Fetches(u)
      BY <1>1, <1>3 DEF ClearInv
    <2>1. v # t
      BY DEF Calm
    <2>2. pc[v] = "clear" /\ held'[v] = held[v] /\ index'[v] = index[v]
      BY <1>2, <2>1
    <2>3. held[v] \in Slots /\ ex_lock[held[v]] = v
      BY <1>7, <2>2 DEF IInv, ClearInv
    <2> QED BY <1>2, <2>1, <2>2, <2>3 DEF IInv, ClearInv
  <1>17. UnlockInv'
    <2> SUFFICES ASSUME NEW v \in Threads, pc'[v] = "unlock"
                 PROVE  ex_lock'[held'[v]] = v
      BY DEF UnlockInv
    <2>1. v # t
      BY DEF Calm
    <2>2. pc[v] = "unlock" /\ held'[v] = held[v]
      BY <1>2, <2>1
    <2>3. held[v] \in Slots /\ ex_lock[held[v]] = v
      BY <1>7, <2>2 DEF IInv, UnlockInv
    <2> QED BY <1>2, <2>1, <2>2, <2>3
  <1>18. DelayRingInv'
    <2>1. \A v \in Threads : pc[v] = "clear" => pc'[v] = "clear"
      BY <1>2 DEF Calm
    <2> QED BY <1>1, <1>3, <2>1 DEF IInv, DelayRingInv
  <1>19. ParserInv' /\ PublishInv'
    BY <1>1, <1>3 DEF IInv, ParserInv, PublishInv, ParserSlot
  <1>20. BoundInv' /\ NoNullDereference'
    BY <1>1 DEF IInv, BoundInv, NoNullDereference
  <1> QED BY <1>8, <1>9, <1>10, <1>11, <1>12, <1>13, <1>14, <1>15, <1>16,
             <1>17, <1>18, <1>19, <1>20 DEF IInv

\* Where a thread may go with nothing but its program counter changing hands.
Hops == {<<"peek", "get_delay">>, <<"get_delay", "return">>,
         <<"get_delay", "get_example">>, <<"get_example", "wait">>,
         <<"get_example", "check_done">>, <<"wait", "check_done">>,
         <<"check_done", "scan">>, <<"check_done", "peek">>,
         <<"scan", "drained">>, <<"scan", "peek">>,
         <<"drained", "exit">>, <<"drained", "peek">>,
         <<"dispatch", "predict">>, <<"train", "decay">>,
         <<"train", "finish">>, <<"decay", "finish">>,
         <<"account", "account_end">>, <<"account_end", "free">>,
         <<"wait_sum", "peek">>, <<"wait_sum", "wait_sum">>}

Hop(t, l) ==
  /\ <<pc[t], l>> \in Hops
  /\ pc' = [pc EXCEPT ![t] = l]
  /\ UNCHANGED <<in_use, contents, threads_to_finish, parsed_examples,
                 used_index, parser_pc, delay_indices, delay_ring,
                 threads_to_use, local_index, ex_lock, crashed, held, index,
                 count, global>>
  /\ \A u \in Threads : u # t => mine'[u] = mine[u]
  /\ l = "get_delay" => mine'[t] = delay_indices[t]
  /\ l = "return" => Behind(t)
  /\ l = "get_example" => ~Behind(t)
  /\ pc[t] = "wait_sum" /\ l = "peek" =>
       contents[held[t]].done /\ ex_lock[held[t]] = Null

LEMMA HopStep ==
  ASSUME IInv, NEW t \in Threads, NEW l, Hop(t, l),
         RingInv', TypeInv', NoAssertFailure'
  PROVE  IInv' /\ Calm(t)
  <1>1. /\ <<pc[t], l>> \in Hops
        /\ delay_indices' = delay_indices /\ local_index' = local_index
        /\ used_index' = used_index /\ held' = held
        /\ count' = count /\ index' = index /\ ex_lock' = ex_lock
    BY DEF Hop
  <1>2. pc'[t] = l /\ \A u \in Threads : u # t => pc'[u] = pc[u]
    <2>1. pc \in [Threads -> LearnerPcs]
      BY DEF IInv, TypeInv
    <2> QED BY <2>1 DEF Hop
  <1>3. \A u \in Threads : Behind(u)' <=> Behind(u)
    BY <1>1 DEF Behind
  <1>4. pc[t] = "wait_sum" /\ l = "peek" => Behind(t)
    <2> SUFFICES ASSUME pc[t] = "wait_sum", l = "peek", ~Behind(t) PROVE FALSE
      OBVIOUS
    <2>1. contents[held[t]].done /\ ex_lock[held[t]] = Null
      BY DEF Hop
    <2>2. PICK u \in Threads : Completes(u) /\ count[u] # 0
      BY <2>1 DEF IInv, WaitInv
    <2>3. u # t
      BY <2>2 DEF Completes
    <2>4. used_index[u] = used_index[t] /\ ex_lock[held[u]] = u
      BY <2>2, <2>3 DEF IInv, CompleteInv
    <2>5. held[u] = held[t]
      BY <2>2, <2>4 DEF IInv, HeldInv, InHand, Completes
    <2> QED BY <2>1, <2>4, <2>5, NoNull
  <1>5. HeldInv'
    <2>1. l \in InHand \cup {"unlock"} => pc[t] \in InHand \cup {"unlock"}
      BY <1>1 DEF Hops, InHand
    <2>2. \A u \in Threads : pc'[u] \in InHand \cup {"unlock"} =>
                               pc[u] \in InHand \cup {"unlock"}
      BY <1>2, <2>1
    <2> QED BY <1>1, <2>2 DEF IInv, HeldInv, SlotFor
  <1>6. PlaceInv'
    <2> SUFFICES ASSUME NEW u \in Threads
        PROVE  /\ Behind(u) => pc'[u] \in {"wait_sum", "unlock", "peek", "get_delay",
                                           "return", "advance"}
               /\ pc'[u] \in {"return", "advance"} => Behind(u)
               /\ pc'[u] = "get_delay" => mine'[u] = delay_indices[u]
      BY <1>1, <1>3 DEF PlaceInv
    <2>1. CASE u # t
      BY <1>2, <2>1 DEF IInv, PlaceInv, Hop
    <2>2. CASE u = t
      <3>1. Behind(t) => pc[t] \in {"wait_sum", "peek", "get_delay"}
        BY <1>1 DEF IInv, PlaceInv, Hops
      <3>2. Behind(t) => l \in {"wait_sum", "peek", "get_delay", "return"}
        BY <1>1, <3>1 DEF Hops, Hop
      <3>3. l \in {"return", "advance"} => Behind(t)
        BY <1>1 DEF Hops, Hop
      <3>4. l = "get_delay" => mine'[t] = delay_indices[t]
        BY DEF Hop
      <3> QED BY <1>2, <2>2, <3>2, <3>3, <3>4
    <2> QED BY <2>1, <2>2
  <1>7. Released(t)' = Released(t) /\ Predicted(t)' = Predicted(t)
    <2>1. (l \in InHand \/ Behind(t)) <=> (pc[t] \in InHand \/ Behind(t))
      <3>1. pc[t] = "wait_sum" => l = "wait_sum" \/ l = "peek"
        BY <1>1 DEF Hops
      <3>2. pc[t] # "wait_sum" => (l \in InHand <=> pc[t] \in InHand)
        BY <1>1 DEF Hops, InHand
      <3> QED BY <1>4, <3>1, <3>2
    <2>2. Released(t)' = IF l \in InHand \/ Behind(t)
                           THEN used_index[t] - 1 ELSE used_index[t]
      BY <1>1, <1>2 DEF Released, Behind
    <2>3. Released(t) = IF pc[t] \in InHand \/ Behind(t)
                          THEN used_index[t] - 1 ELSE used_index[t]
      BY DEF Released, Behind
    <2>4. l \in {"dispatch", "predict"} <=> pc[t] \in {"dispatch", "predict"}
      BY <1>1 DEF Hops
    <2>5. Predicted(t)' = Predicted(t)
      BY <1>1, <1>2, <2>4 DEF Predicted, Predicting
    <2> QED BY <2>1, <2>2, <2>3, <2>5
  <1>8. /\ Owes(t)' <=> Owes(t)
        /\ Fetches(t)' <=> Fetches(t)
    <2>1. l \in {"use", "clear", "train", "decay", "finish"}
            <=> pc[t] \in {"use", "clear", "train", "decay", "finish"}
      BY <1>1 DEF Hops
    <2>2. l # "use" /\ pc[t] # "use"
      BY <1>1 DEF Hops
    <2> QED BY <1>2, <1>3, <2>1, <2>2 DEF Owes, Fetches
  <1>9. ~Completes(t)' /\ ~Completes(t) /\ (Closes(t)' <=> Closes(t))
    BY <1>1, <1>2 DEF Hops, Completes, Closes
  <1>10. /\ l \notin {"advance", "use", "clear", "unlock", "insert"}
         /\ pc[t] # "clear"
         /\ l = "wait_sum" => pc[t] = "wait_sum"
         /\ pc[t] = "wait_sum" => l \in {"wait_sum", "peek"}
    BY <1>1 DEF Hops
  <1>11. Calm(t)
    <2>1. /\ UNCHANGED <<in_use, contents, threads_to_finish, parsed_examples,
                         parser_pc, delay_ring, threads_to_use, local_index,
                         crashed, global>>
          /\ pc[t] = "wait_sum" /\ l = "peek" =>
               contents[held[t]].done /\ ex_lock[held[t]] = Null
      BY DEF Hop
    <2> QED BY <1>1, <1>2, <1>3, <1>7, <1>8, <1>9, <1>10, <2>1 DEF Calm
  <1> QED BY <1>5, <1>6, <1>11, CalmStep

LEMMA PeekStep ==
  ASSUME IInv, NEW t \in Threads, Peek(t), UNCHANGED global PROVE IInv' /\ Calm(t)
  <1> USE DEF Peek, Goto, delayVars, countVars, locals, netVars
  <1>1. RingInv' /\ NoAssertFailure'
    BY RingStill DEF IInv, RingInv, RingTypeOK, ringVars, shared, NoAssertFailure
  <1>2. TypeInv'
    <2>1. t \in Takers
      BY NoRelaySetting DEF IInv
    <2>2. pc' \in [Threads -> LearnerPcs]
      BY DEF IInv, TypeInv, LearnerPcs, GdPcs
    <2>3. mine' \in [Threads -> Nat]
      BY <2>1 DEF IInv, TypeInv
    <2> QED BY SameSetting, <2>2, <2>3 DEF IInv, TypeInv
  <1>3. Hop(t, "get_delay")
    BY DEF Hop, Hops, ringVars, shared, IInv, TypeInv
  <1> QED BY <1>1, <1>2, <1>3, HopStep

LEMMA GetDelayStep ==
  ASSUME IInv, NEW t \in Threads, GetDelayExample(t), UNCHANGED global
  PROVE  IInv' /\ Calm(t)
  <1> DEFINE l == IF HasLocal(t) THEN "return" ELSE "get_example"
  <1>1. Goto(t, l)
    <2>1. ~WantsGlobal(t)
      BY NoRelaySetting DEF IInv
    <2>2. (CASE WantsGlobal(t) -> "global"
             [] ~WantsGlobal(t) /\ HasLocal(t) -> "return"
             [] OTHER -> "get_example") = l
      BY <2>1, Zenon
    <2> QED BY <2>2 DEF GetDelayExample
  <1>2. /\ pc[t] = "get_delay"
        /\ taker' = [taker EXCEPT ![t] = t]
        /\ UNCHANGED <<ringVars, delayVars, ex_lock, countVars, crashed, netVars,
                       held, index, count, reg, gdVars>>
    BY DEF GetDelayExample
  <1>3. HasLocal(t) <=> Behind(t)
    <2>1. GlobalUpdate = "delayed_global" => ~LocalPrediction
      BY DEF IInv, SettingInv, Mesg
    <2>2. mine[t] = delay_indices[t]
      BY <1>2 DEF IInv, PlaceInv
    <2> QED BY <2>1, <2>2 DEF HasLocal, Behind
  <1>4. <<pc[t], l>> \in Hops /\ l # "get_delay" /\ l \in LearnerPcs
        /\ (l = "return" => Behind(t)) /\ (l = "get_example" => ~Behind(t))
    BY <1>2, <1>3 DEF Hops, LearnerPcs, GdPcs, RoutinePcs
  <1> HIDE DEF l
  <1> USE DEF Goto, delayVars, countVars, gdVars, netVars
  <1>5. RingInv' /\ NoAssertFailure'
    BY <1>2, RingStill DEF IInv, RingInv, RingTypeOK, ringVars, shared, NoAssertFailure
  <1>6. TypeInv'
    <2>1. pc' \in [Threads -> LearnerPcs]
      BY <1>1, <1>4 DEF IInv, TypeInv
    <2>2. taker' = [u \in Threads |-> u]
      BY <1>2 DEF IInv, TypeInv
    <2> QED BY SameSetting, <1>2, <2>1, <2>2 DEF IInv, TypeInv
  <1>7. Hop(t, l)
    BY <1>1, <1>2, <1>4 DEF Hop, ringVars, shared
  <1> QED BY <1>5, <1>6, <1>7, HopStep

LEMMA TrainStep ==
  ASSUME IInv, NEW t \in Threads, Train(t), UNCHANGED global PROVE IInv' /\ Calm(t)
  <1> DEFINE l == IF contents[held[t]].pass # current_pass[t]
                    THEN "decay" ELSE "finish"
  <1> USE DEF Train, Goto, delayVars, countVars, netVars
  <1>1. RingInv' /\ NoAssertFailure'
    BY RingStill DEF IInv, RingInv, RingTypeOK, ringVars, shared, NoAssertFailure
  <1>2. pc' = [pc EXCEPT ![t] = l]
    OBVIOUS
  <1>3. TypeInv'
    <2>1. pc' \in [Threads -> LearnerPcs]
      BY DEF IInv, TypeInv, LearnerPcs, GdPcs, RoutinePcs
    <2>2. contents[held[t]].counter \in Nat
      <3>1. held[t] \in Slots
        BY OwnExample DEF InHand
      <3> QED BY <3>1 DEF IInv, RingInv, RingTypeOK, Example
    <2>3. trained' \in [Threads -> Nat]
      BY <2>2 DEF IInv, TypeInv
    <2>4. reg' \in [Threads -> Nat]
      BY DEF IInv, TypeInv
    <2> QED BY SameSetting, <2>1, <2>3, <2>4 DEF IInv, TypeInv
  <1>4. Hop(t, l)
    BY <1>2 DEF Hop, Hops, ringVars, shared
  <1> QED BY <1>1, <1>3, <1>4, HopStep

LEMMA DecayStep ==
  ASSUME IInv, NEW t \in Threads, Decay(t), UNCHANGED global PROVE IInv' /\ Calm(t)
  <1> USE DEF Decay, Goto, delayVars, countVars, netVars
  <1>1. RingInv' /\ NoAssertFailure'
    BY RingStill DEF IInv, RingInv, RingTypeOK, ringVars, shared, NoAssertFailure
  <1>2. TypeInv'
    <2>1. pc' \in [Threads -> LearnerPcs]
      BY DEF IInv, TypeInv, LearnerPcs, GdPcs, RoutinePcs
    <2>2. contents[held[t]].pass \in Nat
      <3>1. held[t] \in Slots
        BY OwnExample DEF InHand
      <3> QED BY <3>1 DEF IInv, RingInv, RingTypeOK, Example
    <2>3. current_pass' \in [Threads -> Nat]
      BY <2>2 DEF IInv, TypeInv
    <2>4. reg' \in [Threads -> Nat] /\ eta_decays' \in Nat
      BY DEF IInv, TypeInv
    <2> QED BY SameSetting, <2>1, <2>3, <2>4 DEF IInv, TypeInv
  <1>3. Hop(t, "finish")
    BY DEF Hop, Hops, ringVars, shared
  <1> QED BY <1>1, <1>2, <1>3, HopStep

\* The thread waits for an example, or gives up waiting.
LEMMA WaitingStep ==
  ASSUME IInv, NEW t \in Threads, Await(t) \/ Woken(t) \/ NothingLeft(t),
         UNCHANGED global
  PROVE  IInv' /\ Calm(t)
  <1> DEFINE l == IF Await(t) THEN "wait" ELSE "check_done"
  <1> USE DEF restVars, delayVars, countVars, netVars, gdVars, locals
  <1>1. /\ pc' = [pc EXCEPT ![t] = l] /\ <<pc[t], l>> \in Hops /\ l \in LearnerPcs
        /\ UNCHANGED <<in_use, contents, threads_to_finish, parsed_examples,
                       used_index, done, parser_pc, source, aborted,
                       restVars, locals>>
        /\ example_available' \in {example_available, example_available \cup {t}}
    <2>1. CASE Await(t)
      BY <2>1 DEF Await, AwaitExample, Goto, Hops, LearnerPcs, GdPcs, RoutinePcs
    <2>2. CASE ~Await(t) /\ (Woken(t) \/ NothingLeft(t))
      BY <2>2 DEF Woken, NothingLeft, NoExample, Goto, Hops, LearnerPcs, GdPcs,
                  RoutinePcs, ringVars, shared
    <2> QED BY <2>1, <2>2
  <1>2. l \notin {"get_delay", "return", "get_example", "peek"}
    OBVIOUS
  <1> HIDE DEF l
  <1>3. RingInv' /\ NoAssertFailure'
    BY <1>1, RingStill DEF IInv, RingInv, RingTypeOK, NoAssertFailure
  <1>4. TypeInv'
    <2>1. pc' \in [Threads -> LearnerPcs]
      BY <1>1 DEF IInv, TypeInv
    <2> QED BY SameSetting, <1>1, <2>1 DEF IInv, TypeInv
  <1>5. Hop(t, l)
    BY <1>1, <1>2 DEF Hop
  <1> QED BY <1>3, <1>4, <1>5, HopStep

\* thread_done: the thread looks whether anything is left.
LEMMA DoneStep ==
  ASSUME IInv, NEW t \in Threads, CheckDone(t) \/ Scan(t) \/ Leave(t),
         UNCHANGED global
  PROVE  IInv' /\ Calm(t)
  <1> DEFINE l == pc'[t]
  <1> USE DEF restVars, delayVars, countVars, netVars, gdVars, locals
  <1>1. /\ pc' = [pc EXCEPT ![t] = l] /\ <<pc[t], l>> \in Hops /\ l \in LearnerPcs
        /\ l \notin {"get_delay", "return", "get_example"} /\ pc[t] # "wait_sum"
        /\ UNCHANGED <<ringVars, delayVars, ex_lock, countVars, crashed, sent,
                       answered, locals, gdVars>>
        /\ shut' \in BOOLEAN
    <2>1. pc \in [Threads -> LearnerPcs] /\ shut \in BOOLEAN
      BY DEF IInv, TypeInv
    <2>2. CASE CheckDone(t)
      <3>1. PICK m \in {"scan", "peek"} : pc' = [pc EXCEPT ![t] = m]
        BY <2>2 DEF CheckDone, Goto
      <3>2. l = m
        BY <2>1, <3>1
      <3> HIDE DEF l
      <3> QED BY <2>1, <2>2, <3>1, <3>2
          DEF CheckDone, Hops, LearnerPcs, GdPcs, RoutinePcs
    <2>3. CASE Scan(t)
      <3>1. PICK m \in {"drained", "peek"} : pc' = [pc EXCEPT ![t] = m]
        BY <2>3 DEF Scan, Goto
      <3>2. l = m
        BY <2>1, <3>1
      <3> HIDE DEF l
      <3> QED BY <2>1, <2>3, <3>1, <3>2
          DEF Scan, Hops, LearnerPcs, GdPcs, RoutinePcs
    <2>4. CASE Leave(t)
      <3>1. PICK m \in {"exit", "peek"} : pc' = [pc EXCEPT ![t] = m]
        BY <2>4 DEF Leave, Goto
      <3>2. l = m
        BY <2>1, <3>1
      <3>3. shut' \in BOOLEAN
        BY <2>4 DEF Leave
      <3> HIDE DEF l
      <3> QED BY <2>1, <2>4, <3>1, <3>2, <3>3
          DEF Leave, Hops, LearnerPcs, GdPcs, RoutinePcs
    <2> QED BY <2>2, <2>3, <2>4
  <1> HIDE DEF l
  <1>2. RingInv' /\ NoAssertFailure'
    BY <1>1, RingStill
    DEF IInv, RingInv, RingTypeOK, ringVars, shared, NoAssertFailure
  <1>3. TypeInv'
    <2>1. pc' \in [Threads -> LearnerPcs]
      BY <1>1 DEF IInv, TypeInv
    <2> QED BY SameSetting, <1>1, <2>1 DEF IInv, TypeInv
  <1>4. Hop(t, l)
    BY <1>1 DEF Hop, ringVars, shared
  <1> QED BY <1>2, <1>3, <1>4, HopStep

\* The example a thread took is in use, and not tagged "save".
LEMMA DispatchStep ==
  ASSUME IInv, NEW t \in Threads, Dispatch(t), UNCHANGED global PROVE IInv' /\ Calm(t)
  <1> USE DEF restVars, delayVars, countVars, netVars, gdVars
  <1>1. held[t] \in Slots /\ in_use[held[t]]
    BY OwnExample DEF InHand, Dispatch
  <1>2. contents[held[t]].kind # "save"
    BY <1>1 DEF IInv, RingInv, KindInv
  <1>3. /\ pc[t] = "dispatch" /\ pc' = [pc EXCEPT ![t] = "predict"]
        /\ aborted' = FALSE
        /\ UNCHANGED <<in_use, contents, threads_to_finish, parsed_examples,
                       used_index, done, example_available, parser_pc, source,
                       restVars, held, index, taker, count, reg>>
    BY <1>1, <1>2 DEF Dispatch, Goto
  <1>4. RingInv' /\ NoAssertFailure'
    BY <1>3, RingStill DEF IInv, RingInv, RingTypeOK, NoAssertFailure
  <1>5. TypeInv'
    <2>1. pc' \in [Threads -> LearnerPcs]
      BY <1>3 DEF IInv, TypeInv, LearnerPcs, GdPcs
    <2> QED BY SameSetting, <1>3, <2>1 DEF IInv, TypeInv
  <1>6. Hop(t, "predict")
    BY <1>3 DEF Hop, Hops
  <1> QED BY <1>4, <1>5, <1>6, HopStep

LEMMA AccountStep ==
  ASSUME IInv, NEW t \in Threads, AccountBegin(t) \/ AccountEnd(t),
         UNCHANGED gdVars, UNCHANGED global
  PROVE  IInv' /\ Calm(t)
  <1> DEFINE l == IF pc[t] = "account" THEN "account_end" ELSE "free"
  <1> USE DEF delayVars, countVars, netVars, gdVars
  <1>1. /\ pc' = [pc EXCEPT ![t] = l] /\ <<pc[t], l>> \in Hops /\ l \in LearnerPcs
        /\ l \notin {"get_delay", "return", "get_example", "peek"}
        /\ UNCHANGED <<ringVars, delayVars, ex_lock, crashed, netVars, held,
                       index, taker, count, gdVars>>
        /\ reg' \in [Threads -> Nat]
        /\ sd_example_number' \in Nat /\ local_example_number' \in Nat
    <2>1. reg \in [Threads -> Nat] /\ sd_example_number \in Nat
          /\ local_example_number \in Nat
      BY DEF IInv, TypeInv
    <2>2. CASE AccountBegin(t)
      <3>1. reg' \in [Threads -> Nat]
        BY <2>1, <2>2 DEF AccountBegin
      <3> QED BY <2>1, <2>2, <3>1
          DEF AccountBegin, Goto, Hops, LearnerPcs, GdPcs, RoutinePcs
    <2>3. CASE AccountEnd(t)
      <3>1. reg' \in [Threads -> Nat] /\ sd_example_number' \in Nat
            /\ local_example_number' \in Nat
        BY <2>1, <2>3 DEF AccountEnd
      <3> QED BY <2>3, <3>1
          DEF AccountEnd, Goto, Hops, LearnerPcs, GdPcs, RoutinePcs
    <2> QED BY <2>2, <2>3
  <1> HIDE DEF l
  <1>2. RingInv' /\ NoAssertFailure'
    BY <1>1, RingStill
    DEF IInv, RingInv, RingTypeOK, ringVars, shared, NoAssertFailure
  <1>3. TypeInv'
    <2>1. pc' \in [Threads -> LearnerPcs]
      BY <1>1 DEF IInv, TypeInv
    <2> QED BY SameSetting, <1>1, <2>1 DEF IInv, TypeInv
  <1>4. Hop(t, l)
    BY <1>1 DEF Hop, ringVars, shared
  <1> QED BY <1>2, <1>3, <1>4, HopStep

LEMMA SummedStep ==
  ASSUME IInv, NEW t \in Threads, Summed(t), UNCHANGED global PROVE IInv' /\ Calm(t)
  <1> DEFINE l == IF contents[held[t]].done THEN "peek" ELSE "wait_sum"
  <1> USE DEF Summed, Goto, delayVars, countVars, netVars, locals
  <1>1. RingInv' /\ NoAssertFailure'
    BY RingStill DEF IInv, RingInv, RingTypeOK, ringVars, shared, NoAssertFailure
  <1>2. pc' = [pc EXCEPT ![t] = l]
    BY DEF IInv, TypeInv
  <1>3. TypeInv'
    <2>1. pc' \in [Threads -> LearnerPcs]
      BY DEF IInv, TypeInv, LearnerPcs, GdPcs, RoutinePcs
    <2>2. finished_sum' \subseteq Threads
      BY DEF IInv, TypeInv
    <2> QED BY SameSetting, <2>1, <2>2 DEF IInv, TypeInv
  <1>4. Hop(t, l)
    BY <1>2 DEF Hop, Hops, ringVars, shared, Locked
  <1> QED BY <1>1, <1>3, <1>4, HopStep

\* The program counter of one thread moves, and stays in range.
LEMMA PcMoves ==
  ASSUME TypeInv, NEW t \in Threads, NEW l \in LearnerPcs,
         pc' = [pc EXCEPT ![t] = l]
  PROVE  /\ pc' \in [Threads -> LearnerPcs]
         /\ pc'[t] = l
         /\ \A u \in Threads : u # t => pc'[u] = pc[u]
  BY DEF TypeInv

LEMMA TakeStep ==
  ASSUME IInv, NEW t \in Threads, Take(t), UNCHANGED global PROVE IInv' /\ Calm(t)
  <1> USE DEF restVars, delayVars, countVars, netVars, gdVars
  <1>1. /\ pc[t] = "get_example" /\ pc' = [pc EXCEPT ![t] = "dispatch"]
        /\ used_index[t] # parsed_examples
        /\ used_index' = [used_index EXCEPT ![t] = @ + 1]
        /\ held' = [held EXCEPT ![t] = SlotOf(used_index[t])]
        /\ aborted' = ~in_use[SlotOf(used_index[t])]
        /\ UNCHANGED <<in_use, contents, threads_to_finish, parsed_examples, done,
                       example_available, parser_pc, source,
                       restVars, index, taker, count, reg, global>>
    BY DEF Take, TakeExample, Goto
  <1>2. /\ used_index \in [Threads -> Nat] /\ parsed_examples \in Nat
        /\ used_index[t] \in Nat /\ used_index[t] < parsed_examples
        /\ held \in [Threads -> Slots \cup {Null}]
        /\ contents \in [Slots -> Example]
    BY <1>1 DEF IInv, RingInv, RingTypeOK, UsedInv, TypeInv
  <1>3. /\ used_index'[t] = used_index[t] + 1
        /\ SlotOf(used_index[t]) = SlotFor(used_index'[t])
        /\ SlotOf(used_index[t]) \in Slots
    BY <1>1, <1>2, SlotRange DEF SlotFor
  <1>4. /\ pc' \in [Threads -> LearnerPcs] /\ pc'[t] = "dispatch"
        /\ \A u \in Threads : u # t => pc'[u] = pc[u]
    BY <1>1, PcMoves DEF IInv, LearnerPcs, GdPcs
  <1>5. /\ held'[t] = SlotFor(used_index'[t])
        /\ \A u \in Threads : u # t => held'[u] = held[u] /\ used_index'[u] = used_index[u]
    BY <1>1, <1>2, <1>3
  <1>6. ~Behind(t) /\ (\A u \in Threads : Behind(u)' <=> Behind(u))
    BY <1>1 DEF IInv, PlaceInv, Behind
  <1>7. Released(t) = used_index[t] /\ Released(t)' = used_index[t]
    <2>1. Released(t) = used_index[t]
      BY <1>1, <1>6, ReleasedInHand DEF InHand
    <2>2. Released(t)' = used_index'[t] - 1
      BY <1>4 DEF Released, InHand
    <2> QED BY <1>2, <1>3, <2>1, <2>2
  <1>8. aborted' = FALSE
    <2>1. used_index'[t] \in 1 .. parsed_examples /\ Released(t) < used_index'[t]
      BY <1>2, <1>3, <1>7
    <2>2. in_use[SlotFor(used_index'[t])]
      BY <2>1, LiveSlots
    <2> QED BY <1>1, <1>3, <2>2
  <1>9. RingInv' /\ NoAssertFailure'
    <2>1. RingTypeOK'
      <3>1. used_index' \in [Threads -> Nat]
        BY <1>1, <1>2
      <3> QED BY <1>1, <1>8, <3>1 DEF IInv, RingInv, RingTypeOK, source
    <2>2. UsedInv'
      BY <1>1, <1>2, <1>3, <1>5 DEF IInv, RingInv, UsedInv
    <2>3. InputInv' /\ DoneInv' /\ CounterInv' /\ KindInv'
      BY <1>1 DEF IInv, RingInv, InputInv, DoneInv, CounterInv, KindInv, source
    <2> QED BY <1>8, <2>1, <2>2, <2>3 DEF RingInv, NoAssertFailure
  <1>10. TypeInv'
    <2>1. held' \in [Threads -> Slots \cup {Null}]
      BY <1>1, <1>2, <1>3
    <2> QED BY SameSetting, <1>1, <1>4, <2>1 DEF IInv, TypeInv
  <1>11. HeldInv'
    <2> SUFFICES ASSUME NEW u \in Threads, pc'[u] \in InHand \cup {"unlock"}
                 PROVE  used_index'[u] >= 1 /\ held'[u] = SlotFor(used_index'[u])
      BY DEF HeldInv, SlotFor
    <2>1. CASE u = t
      BY <1>2, <1>3, <1>5, <2>1
    <2>2. CASE u # t
      BY <1>4, <1>5, <2>2 DEF IInv, HeldInv
    <2> QED BY <2>1, <2>2
  <1>12. PlaceInv'
    <2> SUFFICES ASSUME NEW u \in Threads
        PROVE  /\ Behind(u) => pc'[u] \in {"wait_sum", "unlock", "peek", "get_delay",
                                           "return", "advance"}
               /\ pc'[u] \in {"return", "advance"} => Behind(u)
               /\ pc'[u] = "get_delay" => mine[u] = delay_indices[u]
      BY <1>1, <1>6 DEF PlaceInv
    <2>1. CASE u = t
      BY <1>4, <1>6, <2>1
    <2>2. CASE u # t
      BY <1>4, <2>2 DEF IInv, PlaceInv
    <2> QED BY <2>1, <2>2
  <1>13. Calm(t)
    <2>1. Predicted(t)' = used_index[t] /\ Predicted(t) = used_index[t]
      BY <1>1, <1>2, <1>3, <1>4 DEF Predicted, Predicting
    <2>2. /\ Owes(t)' <=> Owes(t)
          /\ Fetches(t)' <=> Fetches(t)
      BY <1>1, <1>4, <1>6 DEF Owes, Fetches
    <2>3. ~Completes(t)' /\ ~Completes(t) /\ ~Closes(t)'
      BY <1>1, <1>4 DEF Completes, Closes
    <2> QED BY <1>1, <1>4, <1>5, <1>6, <1>7, <2>1, <2>2, <2>3 DEF Calm
  <1> QED BY <1>9, <1>10, <1>11, <1>12, <1>13, CalmStep

\* The index a thread reads is that of the one example in the delay ring.
LEMMA ReturnStep ==
  ASSUME IInv, NEW t \in Threads, ReturnExample(t), UNCHANGED gdVars,
         UNCHANGED global
  PROVE  IInv' /\ Calm(t)
  <1> USE DEF delayVars, countVars, netVars, gdVars
  <1> DEFINE i == SlotOf(local_index - 1)
             s == SlotFor(used_index[t])
  <1>1. /\ pc[t] = "return" /\ pc' = [pc EXCEPT ![t] = "advance"]
        /\ index' = [index EXCEPT ![t] = SlotOf(delay_indices[taker[t]])]
        /\ held' = [held EXCEPT ![t] = delay_ring[SlotOf(delay_indices[taker[t]])]]
        /\ UNCHANGED <<ringVars, delayVars, ex_lock, countVars, crashed, netVars,
                       taker, count, reg, gdVars, global>>
    BY DEF ReturnExample, Goto
  <1>2. Behind(t) /\ Fetches(t) /\ Owes(t)
    BY <1>1 DEF IInv, PlaceInv, Fetches, Owes
  <1>3. taker[t] = t /\ delay_indices[t] = local_index - 1 /\ delay_ring[i] = s
    BY <1>2 DEF IInv, TypeInv, FetchInv
  <1>4. i \in Slots /\ s \in Slots /\ used_index[t] >= 1
    <2>1. local_index - 1 \in Nat
      BY <1>2 DEF IInv, TypeInv, TrainInv
    <2>2. s \in Slots /\ used_index[t] >= 1
      BY <1>2, OwnExample, Ranges
    <2> QED BY <2>1, <2>2, SlotRange
  <1> HIDE DEF i, s
  <1>5. index' = [index EXCEPT ![t] = i] /\ held' = [held EXCEPT ![t] = s]
    BY <1>1, <1>3 DEF i
  <1>6. /\ pc' \in [Threads -> LearnerPcs] /\ pc'[t] = "advance"
        /\ \A u \in Threads : u # t => pc'[u] = pc[u]
    BY <1>1, PcMoves DEF IInv, LearnerPcs, GdPcs, RoutinePcs
  <1>7. /\ index' \in [Threads -> Slots] /\ index'[t] = i
        /\ held' \in [Threads -> Slots \cup {Null}] /\ held'[t] = s
        /\ \A u \in Threads : u # t => index'[u] = index[u] /\ held'[u] = held[u]
    BY <1>4, <1>5 DEF IInv, TypeInv
  <1>8. RingInv' /\ NoAssertFailure'
    BY <1>1, RingStill
    DEF IInv, RingInv, RingTypeOK, ringVars, shared, NoAssertFailure
  <1>9. TypeInv'
    BY SameSetting, <1>1, <1>6, <1>7 DEF IInv, TypeInv
  <1>10. used_index' = used_index /\ \A u \in Threads : Behind(u)' <=> Behind(u)
    BY <1>1 DEF Behind, ringVars, shared
  <1>11. HeldInv'
    <2> SUFFICES ASSUME NEW u \in Threads, pc'[u] \in InHand \cup {"unlock"}
                 PROVE  used_index[u] >= 1 /\ held'[u] = SlotFor(used_index[u])
      BY <1>10 DEF HeldInv, SlotFor
    <2>1. CASE u = t
      BY <1>4, <1>7, <2>1 DEF s
    <2>2. CASE u # t
      BY <1>6, <1>7, <2>2 DEF IInv, HeldInv
    <2> QED BY <2>1, <2>2
  <1>12. PlaceInv'
    BY <1>1, <1>2, <1>6, <1>10 DEF IInv, PlaceInv
  <1>13. Calm(t)
    <2>1. Released(t)' = Released(t)
      BY <1>1, <1>2, <1>6, <1>10 DEF Released, Behind, ringVars, shared
    <2>2. Predicted(t)' = Predicted(t)
      BY <1>1, <1>6, <1>10 DEF Predicted, Predicting
    <2>3. /\ Owes(t)' <=> Owes(t)
          /\ Fetches(t)' <=> Fetches(t)
      BY <1>2, <1>10 DEF Owes, Fetches
    <2>4. ~Completes(t)' /\ ~Completes(t) /\ ~Closes(t)'
      BY <1>1, <1>6 DEF Completes, Closes
    <2> QED BY <1>1, <1>2, <1>6, <1>7, <1>10, <2>1, <2>2, <2>3, <2>4
        DEF Calm, ringVars, shared, i
  <1> QED BY <1>8, <1>9, <1>11, <1>12, <1>13, CalmStep

LEMMA AdvanceStep ==
  ASSUME IInv, NEW t \in Threads, Advance(t), UNCHANGED gdVars, UNCHANGED global
  PROVE  IInv' /\ Calm(t)
  <1> USE DEF countVars, netVars, gdVars, locals
  <1>1. /\ pc[t] = "advance" /\ pc' = [pc EXCEPT ![t] = "use"]
        /\ delay_indices' = [delay_indices EXCEPT ![taker[t]] = @ + 1]
        /\ UNCHANGED <<ringVars, delay_ring, threads_to_use, local_index,
                       global_index, delay_empty, delay_nonempty,
                       global_delay_nonempty, delay_lock, ex_lock, countVars,
                       crashed, netVars, locals, gdVars, global>>
    BY DEF Advance, Goto, NextIndex
  <1>2. Behind(t) /\ Fetches(t) /\ Owes(t)
    BY <1>1 DEF IInv, PlaceInv, Fetches, Owes
  <1>3. taker[t] = t /\ delay_indices[t] = local_index - 1 /\ local_index \in Nat
        /\ delay_indices \in [Takers -> Nat] /\ t \in Takers
    BY <1>2, NoRelaySetting DEF IInv, TypeInv, FetchInv
  <1>4. /\ delay_indices' \in [Takers -> Nat] /\ delay_indices'[t] = local_index
        /\ \A u \in Threads : u # t => delay_indices'[u] = delay_indices[u]
    BY <1>1, <1>3
  <1>5. /\ pc' \in [Threads -> LearnerPcs] /\ pc'[t] = "use"
        /\ \A u \in Threads : u # t => pc'[u] = pc[u]
    BY <1>1, PcMoves DEF IInv, LearnerPcs, GdPcs, RoutinePcs
  <1>6. RingInv' /\ NoAssertFailure'
    BY <1>1, RingStill
    DEF IInv, RingInv, RingTypeOK, ringVars, shared, NoAssertFailure
  <1>7. TypeInv'
    BY SameSetting, <1>1, <1>4, <1>5 DEF IInv, TypeInv
  <1>8. /\ used_index' = used_index /\ held' = held /\ index' = index /\ mine' = mine
        /\ ~Behind(t)' /\ \A u \in Threads : u # t => (Behind(u)' <=> Behind(u))
    BY <1>1, <1>4 DEF Behind, ringVars, shared
  <1>9. HeldInv'
    <2>1. \A u \in Threads : pc'[u] \in InHand \cup {"unlock"} =>
                               pc[u] \in InHand \cup {"unlock"}
      BY <1>1, <1>5 DEF InHand
    <2> QED BY <1>8, <2>1 DEF IInv, HeldInv, SlotFor
  <1>10. PlaceInv'
    <2> SUFFICES ASSUME NEW u \in Threads
        PROVE  /\ Behind(u)' => pc'[u] \in {"wait_sum", "unlock", "peek", "get_delay",
                                           "return", "advance"}
               /\ pc'[u] \in {"return", "advance"} => Behind(u)'
               /\ pc'[u] = "get_delay" => mine[u] = delay_indices'[u]
      BY <1>8 DEF PlaceInv
    <2>1. CASE u = t
      BY <1>5, <1>8, <2>1
    <2>2. CASE u # t
      BY <1>4, <1>5, <1>8, <2>2 DEF IInv, PlaceInv
    <2> QED BY <2>1, <2>2
  <1>11. Calm(t)
    <2>1. Released(t)' = Released(t)
      BY <1>1, <1>2, <1>5, <1>8 DEF Released, Behind, InHand
    <2>2. Predicted(t)' = Predicted(t)
      BY <1>1, <1>5, <1>8 DEF Predicted, Predicting
    <2>3. /\ Owes(t)' <=> Owes(t)
          /\ Fetches(t)' <=> Fetches(t)
      BY <1>2, <1>5 DEF Owes, Fetches
    <2>4. ~Completes(t)' /\ ~Completes(t) /\ ~Closes(t)'
      BY <1>1, <1>5 DEF Completes, Closes
    <2>5. index[t] = SlotOf(local_index - 1)
      BY <1>1 DEF IInv, FetchInv
    <2> QED BY <1>1, <1>4, <1>5, <1>8, <2>1, <2>2, <2>3, <2>4, <2>5
        DEF Calm, ringVars, shared
  <1> QED BY <1>6, <1>7, <1>9, <1>10, <1>11, CalmStep

LEMMA UnlockStep ==
  ASSUME IInv, NEW t \in Threads, Unlock(t), UNCHANGED global PROVE IInv' /\ Calm(t)
  <1> USE DEF delayVars, countVars, netVars, gdVars, locals
  <1>1. /\ pc[t] = "unlock" /\ pc' = [pc EXCEPT ![t] = "peek"]
        /\ ex_lock' = [ex_lock EXCEPT ![held[t]] = Null]
        /\ UNCHANGED <<ringVars, delayVars, countVars, crashed, netVars, locals,
                       gdVars, global>>
    BY DEF Unlock, Goto
  <1>2. ex_lock[held[t]] = t /\ ex_lock \in [Slots -> Threads \cup {Null}]
    BY <1>1 DEF IInv, UnlockInv, TypeInv
  <1>3. /\ ex_lock' \in [Slots -> Threads \cup {Null}]
        /\ \A u \in Threads : u # t => \A s \in Slots : ex_lock[s] = u => ex_lock'[s] = u
    BY <1>1, <1>2
  <1>4. /\ pc' \in [Threads -> LearnerPcs] /\ pc'[t] = "peek"
        /\ \A u \in Threads : u # t => pc'[u] = pc[u]
    BY <1>1, PcMoves DEF IInv, LearnerPcs, GdPcs, RoutinePcs
  <1>5. RingInv' /\ NoAssertFailure'
    BY <1>1, RingStill
    DEF IInv, RingInv, RingTypeOK, ringVars, shared, NoAssertFailure
  <1>6. TypeInv'
    BY SameSetting, <1>1, <1>3, <1>4 DEF IInv, TypeInv
  <1>7. /\ used_index' = used_index /\ \A u \in Threads : Behind(u)' <=> Behind(u)
    BY <1>1 DEF Behind, ringVars, shared
  <1>8. HeldInv'
    <2>1. \A u \in Threads : pc'[u] \in InHand \cup {"unlock"} =>
                               pc[u] \in InHand \cup {"unlock"}
      BY <1>1, <1>4
    <2> QED BY <1>1, <1>7, <2>1 DEF IInv, HeldInv, SlotFor
  <1>9. PlaceInv'
    BY <1>1, <1>4, <1>7 DEF IInv, PlaceInv
  <1>10. Calm(t)
    <2>1. Released(t)' = Released(t)
      BY <1>1, <1>4, <1>7 DEF Released, Behind, InHand
    <2>2. Predicted(t)' = Predicted(t)
      BY <1>1, <1>4, <1>7 DEF Predicted, Predicting
    <2>3. /\ Owes(t)' <=> Owes(t)
          /\ Fetches(t)' <=> Fetches(t)
      BY <1>1, <1>4, <1>7 DEF Owes, Fetches
    <2>4. ~Completes(t)' /\ ~Completes(t) /\ ~Closes(t)'
      BY <1>1, <1>4 DEF Completes, Closes
    <2> QED BY <1>1, <1>3, <1>4, <1>7, <2>1, <2>2, <2>3, <2>4
        DEF Calm, ringVars, shared
  <1> QED BY <1>5, <1>6, <1>8, <1>9, <1>10, CalmStep

\* Whoever completes a prediction enters it into the delay ring when there is
\* training to do, and ends the example at once when there is not.
LEMMA DelayStep ==
  ASSUME IInv, NEW t \in Threads, DelayExample(t), UNCHANGED gdVars,
         UNCHANGED global
  PROVE  IInv' /\ Calm(t)
  <1> USE DEF delayVars, countVars, netVars, gdVars
  <1> DEFINE l == IF count[t] = 0 THEN "account" ELSE "insert"
             i == SlotOf(local_index)
  <1>1. /\ pc[t] = "delay" /\ pc' = [pc EXCEPT ![t] = l]
        /\ index' = IF count[t] = 0 THEN index ELSE [index EXCEPT ![t] = i]
        /\ UNCHANGED <<ringVars, delayVars, ex_lock, countVars, crashed, netVars,
                       held, taker, count, reg, gdVars, global>>
    <2>1. count[t] \in Nat
      BY RingAssumption DEF IInv, TypeInv
    <2>2. DelayCount(count[t]) = count[t]
      BY <2>1, NoRelaySetting DEF IInv
    <2> QED BY <2>2 DEF DelayExample, Goto
  <1>2. i \in Slots
    BY SlotRange DEF IInv, TypeInv
  <1>3. l \in LearnerPcs /\ l \in {"account", "insert"} /\ (l = "insert" => count[t] # 0)
        /\ (count[t] # 0 => l = "insert")
    BY DEF LearnerPcs, GdPcs, RoutinePcs
  <1> HIDE DEF l, i
  <1>4. /\ pc' \in [Threads -> LearnerPcs] /\ pc'[t] = l
        /\ \A u \in Threads : u # t => pc'[u] = pc[u]
    BY <1>1, <1>3, PcMoves DEF IInv
  <1>5. /\ index' \in [Threads -> Slots]
        /\ count[t] # 0 => index'[t] = i
        /\ \A u \in Threads : u # t => index'[u] = index[u]
    BY <1>1, <1>2 DEF IInv, TypeInv
  <1>6. RingInv' /\ NoAssertFailure'
    BY <1>1, RingStill
    DEF IInv, RingInv, RingTypeOK, ringVars, shared, NoAssertFailure
  <1>7. TypeInv'
    BY SameSetting, <1>1, <1>4, <1>5 DEF IInv, TypeInv
  <1>8. /\ used_index' = used_index /\ \A u \in Threads : Behind(u)' <=> Behind(u)
    BY <1>1 DEF Behind, ringVars, shared
  <1>9. ~Behind(t)
    BY <1>1 DEF IInv, PlaceInv
  <1>10. HeldInv'
    <2>1. \A u \in Threads : pc'[u] \in InHand \cup {"unlock"} =>
                               pc[u] \in InHand \cup {"unlock"}
      BY <1>1, <1>4 DEF InHand
    <2> QED BY <1>1, <1>8, <2>1 DEF IInv, HeldInv, SlotFor
  <1>11. PlaceInv'
    BY <1>1, <1>3, <1>4, <1>8, <1>9 DEF IInv, PlaceInv
  <1>12. Calm(t)
    <2>1. Released(t)' = Released(t)
      BY <1>1, <1>3, <1>4, <1>8 DEF Released, Behind, InHand
    <2>2. Predicted(t)' = Predicted(t)
      BY <1>1, <1>3, <1>4, <1>8 DEF Predicted, Predicting
    <2>3. /\ Owes(t)' <=> Owes(t)
          /\ Fetches(t)' <=> Fetches(t)
      BY <1>1, <1>3, <1>4, <1>8 DEF Owes, Fetches
    <2>4. Completes(t) /\ (Completes(t)' => l = "insert") /\ (Closes(t)' => l = "account")
          /\ (~Completes(t)' => l = "account")
      BY <1>1, <1>3, <1>4 DEF Completes, Closes
    <2> QED BY <1>1, <1>3, <1>4, <1>5, <1>8, <2>1, <2>2, <2>3, <2>4
        DEF Calm, ringVars, shared, i
  <1> QED BY <1>6, <1>7, <1>10, <1>11, <1>12, CalmStep

-----------------------------------------------------------------------------
(* The steps of a learner that count an example down or pass it on         *)

\* What moves when thread t goes on to l, and what stays.
LEMMA GoesOn ==
  ASSUME IInv, NEW t \in Threads, NEW l \in LearnerPcs,
         pc' = [pc EXCEPT ![t] = l],
         UNCHANGED <<used_index, delay_indices, local_index>>
  PROVE  /\ pc' \in [Threads -> LearnerPcs] /\ pc'[t] = l
         /\ \A u \in Threads : Behind(u)' <=> Behind(u)
         /\ \A u \in Threads : u # t =>
              /\ pc'[u] = pc[u]
              /\ Released(u)' = Released(u)
              /\ Predicted(u)' = Predicted(u)
              /\ Owes(u)' <=> Owes(u)
              /\ Fetches(u)' <=> Fetches(u)
              /\ Completes(u)' <=> Completes(u)
              /\ Closes(u)' <=> Closes(u)
         /\ Released(t)' = IF l \in InHand \/ Behind(t)
                             THEN used_index[t] - 1 ELSE used_index[t]
         /\ Predicted(t)' = IF l \in {"dispatch", "predict"}
                              THEN used_index[t] - 1 ELSE used_index[t]
         /\ Owes(t)' <=> Behind(t) \/ l \in {"use", "clear", "train", "decay", "finish"}
         /\ Fetches(t)' <=> Behind(t) \/ l = "use"
         /\ Completes(t)' <=> l \in {"delay", "insert"}
         /\ Closes(t)' <=> l \in {"account", "account_end", "free"}
  <1>1. /\ pc' \in [Threads -> LearnerPcs] /\ pc'[t] = l
        /\ \A u \in Threads : u # t => pc'[u] = pc[u]
    BY PcMoves DEF IInv
  <1>2. \A u \in Threads : Behind(u)' <=> Behind(u)
    BY DEF Behind
  <1>3. \A u \in Threads : u # t =>
          /\ Released(u)' = Released(u)
          /\ Predicted(u)' = Predicted(u)
          /\ Owes(u)' <=> Owes(u)
          /\ Fetches(u)' <=> Fetches(u)
    BY <1>1 DEF Released, Predicted, Predicting, Owes, Fetches, Behind
  <1>4. \A u \in Threads : u # t =>
          /\ Completes(u)' <=> Completes(u)
          /\ Closes(u)' <=> Closes(u)
    BY <1>1 DEF Completes, Closes
  <1>5. Released(t)' = IF l \in InHand \/ Behind(t)
                         THEN used_index[t] - 1 ELSE used_index[t]
    BY <1>1 DEF Released, Behind
  <1>6. Predicted(t)' = IF l \in {"dispatch", "predict"}
                          THEN used_index[t] - 1 ELSE used_index[t]
    BY <1>1 DEF Predicted, Predicting
  <1>7. /\ Owes(t)' <=> Behind(t) \/ l \in {"use", "clear", "train", "decay", "finish"}
        /\ Fetches(t)' <=> Behind(t) \/ l = "use"
    BY <1>1, <1>2 DEF Owes, Fetches
  <1>8. /\ Completes(t)' <=> l \in {"delay", "insert"}
        /\ Closes(t)' <=> l \in {"account", "account_end", "free"}
    BY <1>1 DEF Completes, Closes
  <1> QED BY <1>1, <1>2, <1>3, <1>4, <1>5, <1>6, <1>7, <1>8

\* A thread with an example in hand goes on with it, or gives it away.
LEMMA GoesOnHeld ==
  ASSUME IInv, NEW t \in Threads, NEW l \in LearnerPcs,
         pc' = [pc EXCEPT ![t] = l],
         UNCHANGED <<used_index, delay_indices, local_index, held, mine>>,
         pc[t] \in InHand, ~Behind(t), l \notin {"return", "advance", "get_delay"}
  PROVE  HeldInv' /\ PlaceInv'
  <1>1. /\ pc'[t] = l /\ \A u \in Threads : u # t => pc'[u] = pc[u]
        /\ \A u \in Threads : Behind(u)' <=> Behind(u)
    BY GoesOn
  <1>2. HeldInv'
    BY <1>1 DEF IInv, HeldInv, SlotFor
  <1>3. PlaceInv'
    <2> SUFFICES ASSUME NEW u \in Threads
        PROVE  /\ Behind(u) => pc'[u] \in {"wait_sum", "unlock", "peek", "get_delay",
                                           "return", "advance"}
               /\ pc'[u] \in {"return", "advance"} => Behind(u)
               /\ pc'[u] = "get_delay" => mine[u] = delay_indices[u]
      BY <1>1 DEF PlaceInv
    <2> QED BY <1>1 DEF IInv, PlaceInv
  <1> QED BY <1>2, <1>3

\* Two examples that are still needed are in different slots.
LEMMA DistinctSlots ==
  ASSUME IInv,
         NEW k \in 1 .. parsed_examples, NEW t \in Threads, Released(t) < k,
         NEW n \in 1 .. parsed_examples, NEW u \in Threads, Released(u) < n,
         SlotFor(k) = SlotFor(n)
  PROVE  k = n
  <1>1. contents[SlotFor(k)].counter = k
    BY LiveSlots
  <1>2. contents[SlotFor(n)].counter = n
    BY LiveSlots
  <1> QED BY <1>1, <1>2

\* No example that is still needed is in the slot of the parser.
LEMMA ParserSlotClear ==
  ASSUME IInv, \A u \in Threads : parsed_examples - Released(u) < RingSize,
         NEW k \in 1 .. parsed_examples, NEW t \in Threads, Released(t) < k
  PROVE  SlotFor(k) # ParserSlot
  <1>1. Released(t) \in Nat /\ parsed_examples \in Nat
    BY Ranges
  <1>2. k - 1 \in Nat /\ k - 1 < parsed_examples
        /\ parsed_examples - (k - 1) < RingSize
    BY <1>1, RingAssumption
  <1> QED BY <1>1, <1>2, SlotsDiffer DEF ParserSlot, SlotFor

\* A slot that is counted down or given back holds an example that is done
\* with, as far as everyone else is concerned: the invariants of the parser
\* do not notice.
LEMMA ParserUnmoved ==
  ASSUME IInv, NEW t \in Threads, pc[t] \in InHand,
         UNCHANGED <<parsed_examples, used_index>>,
         parser_pc' \in {parser_pc, WakeParser},
         \A u \in Threads : Released(u)' >= Released(u),
         \A u \in Threads : Released(u)' \in Int,
         \A s \in Slots : s # held[t] =>
           /\ in_use'[s] = in_use[s]
           /\ contents'[s] = contents[s]
           /\ threads_to_finish'[s] = threads_to_finish[s]
  PROVE  ParserInv' /\ PublishInv'
  <1>1. parser_pc' \in {"parse", "publish", "set_done", "release"} =>
          parser_pc = parser_pc'
    BY DEF WakeParser
  <1>2. ParserSlot' = ParserSlot /\ ParserSlot \in Slots
    BY SlotRange DEF ParserSlot, IInv, RingInv, RingTypeOK
  <1>3. parser_pc \in {"parse", "publish", "set_done", "release"} =>
          held[t] # ParserSlot
    <2>1. /\ held[t] = SlotFor(used_index[t]) /\ used_index[t] \in 1 .. parsed_examples
          /\ Released(t) < used_index[t]
      BY OwnExample
    <2> QED BY <2>1, ParserSlotClear DEF IInv, ParserInv
  <1>4. ParserInv'
    <2> SUFFICES ASSUME parser_pc' \in {"parse", "publish", "set_done", "release"}
                 PROVE  /\ in_use'[ParserSlot]
                        /\ \A u \in Threads : parsed_examples - Released(u)' < RingSize
      BY <1>2 DEF ParserInv
    <2>1. in_use[ParserSlot] /\ \A u \in Threads : parsed_examples - Released(u) < RingSize
      BY <1>1 DEF IInv, ParserInv
    <2>2. ASSUME NEW u \in Threads PROVE parsed_examples - Released(u)' < RingSize
      <3>1. Released(u) \in Nat /\ parsed_examples \in Nat /\ RingSize \in Nat
        BY Ranges, RingAssumption
      <3> QED BY <2>1, <3>1
    <2> QED BY <1>1, <1>2, <1>3, <2>1, <2>2
  <1>5. PublishInv'
    BY <1>1, <1>2, <1>3 DEF IInv, PublishInv
  <1> QED BY <1>4, <1>5

\* The thread takes the example out of the delay ring.
LEMMA UseStep ==
  ASSUME IInv, NEW t \in Threads, UseReturned(t), UNCHANGED gdVars,
         UNCHANGED global
  PROVE  IInv'
  <1> USE DEF countVars, netVars, gdVars, locals
  <1> DEFINE s == held[t]
             i == index[t]
             last == threads_to_use[i] = 1
             l == IF last THEN "clear" ELSE "train"
  <1>1. pc[t] = "use" /\ Fetches(t) /\ Owes(t) /\ ~Behind(t) /\ pc[t] \in InHand
    BY DEF UseReturned, Fetches, Owes, IInv, PlaceInv, InHand
  <1>2. /\ s = SlotFor(used_index[t]) /\ s \in Slots
        /\ i = SlotOf(local_index - 1) /\ i \in Slots
        /\ delay_ring[i] = s
        /\ threads_to_use[i] = Cardinality(Fetching)
    <2>1. s = SlotFor(used_index[t]) /\ s \in Slots
      BY <1>1, OwnExample
    <2> QED BY <1>1, <2>1 DEF IInv, FetchInv, TypeInv
  <1>3. s # Null
    BY <1>2, NoNull
  <1> HIDE DEF s, i
  <1>4. /\ ex_lock[s] = Null
        /\ threads_to_use' = [threads_to_use EXCEPT ![i] = @ - 1]
        /\ ex_lock' = IF last THEN [ex_lock EXCEPT ![s] = t] ELSE ex_lock
        /\ pc' = [pc EXCEPT ![t] = l]
        /\ UNCHANGED <<ringVars, delay_indices, delay_ring, local_index,
                       global_index, delay_empty, delay_nonempty,
                       global_delay_nonempty, delay_lock, countVars, netVars,
                       locals, crashed, gdVars, global>>
    <2>1. AfterReturn(t) = "train"
      BY NoRelaySetting DEF IInv
    <2> QED BY <1>3, <2>1 DEF UseReturned, Goto, Locked, LastUser, s, i
  <1>5. l \in {"clear", "train"} /\ l \in LearnerPcs /\ (l = "clear" <=> last)
    BY DEF LearnerPcs, GdPcs, RoutinePcs
  <1>6. UNCHANGED <<used_index, delay_indices, local_index, held, index, count,
                    contents, threads_to_finish, in_use, parsed_examples, parser_pc,
                    delay_ring>>
    BY <1>4 DEF ringVars, shared
  <1> HIDE DEF l, last
  <1>7. /\ pc' \in [Threads -> LearnerPcs] /\ pc'[t] = l
        /\ \A u \in Threads : Behind(u)' <=> Behind(u)
        /\ \A u \in Threads : u # t => pc'[u] = pc[u]
        /\ \A u \in Threads : Released(u)' = Released(u) /\ Predicted(u)' = Predicted(u)
        /\ \A u \in Threads : Owes(u)' <=> Owes(u)
        /\ \A u \in Threads : Fetches(u)' <=> Fetches(u) /\ u # t
        /\ \A u \in Threads : Completes(u)' <=> Completes(u)
        /\ \A u \in Threads : Closes(u)' <=> Closes(u)
    <2>1. l \in InHand /\ l \notin {"use", "dispatch", "predict", "delay", "insert",
                                    "account", "account_end", "free"}
      BY <1>5 DEF InHand
    <2>2. Released(t) = used_index[t] - 1 /\ Predicted(t) = used_index[t]
          /\ ~Completes(t) /\ ~Closes(t)
      BY <1>1, ReleasedInHand DEF Predicted, Predicting, Completes, Closes
    <2> QED BY <1>1, <1>4, <1>5, <1>6, <2>1, <2>2, GoesOn
  <1>8. /\ \A k : Unpredicted(k)' = Unpredicted(k)
        /\ Owing' = Owing
        /\ Fetching' = Fetching \ {t}
    BY <1>7 DEF Unpredicted, Owing, Fetching
  <1>9. Fetching \subseteq Threads /\ t \in Fetching
    BY <1>1 DEF Fetching
  <1>10. /\ Cardinality(Fetching) >= 1
         /\ Cardinality(Fetching') = Cardinality(Fetching) - 1
         /\ Cardinality(Fetching) \in 0 .. NumThreads
    BY <1>8, <1>9, OneThreadLeaves, SomeThreads
  <1>11. /\ threads_to_use' \in [Slots -> 0 .. NumThreads]
         /\ threads_to_use'[i] = Cardinality(Fetching')
    <2>1. threads_to_use \in [Slots -> 0 .. NumThreads] /\ NumThreads \in Nat
      BY RingAssumption DEF IInv, BoundInv
    <2>2. threads_to_use[i] - 1 \in 0 .. NumThreads
      BY <1>2, <1>10, <2>1
    <2> HIDE DEF i
    <2> QED BY <1>2, <1>4, <1>10, <2>1, <2>2
  <1>12. /\ ex_lock' \in [Slots -> Threads \cup {Null}]
         /\ \A v \in Threads, x \in Slots : ex_lock[x] = v => ex_lock'[x] = v
         /\ last => ex_lock'[s] = t
    BY <1>2, <1>4, NoNull DEF IInv, TypeInv
  <1>13. RingInv' /\ NoAssertFailure'
    BY <1>4, RingStill
    DEF IInv, RingInv, RingTypeOK, ringVars, shared, NoAssertFailure
  <1>14. TypeInv' /\ SettingInv'
    <2>1. threads_to_use' \in [Slots -> Int]
      BY <1>11, RingAssumption
    <2> QED BY SameSetting, <1>4, <1>7, <1>12, <2>1 DEF IInv, TypeInv
  <1>15. HeldInv' /\ PlaceInv'
    BY <1>1, <1>4, <1>5, <1>6, GoesOnHeld
  <1>16. LiveInv'
    BY <1>6, <1>7 DEF IInv, LiveInv
  <1>17. PredictInv'
    <2>1. \A u \in Threads : pc[u] = "wait_sum" => pc'[u] = "wait_sum"
      BY <1>1, <1>7
    <2> QED BY <1>6, <1>7, <1>8, <2>1 DEF IInv, PredictInv
  <1>18. WaitInv'
    <2>1. \A u \in Threads : pc'[u] = "wait_sum" => pc[u] = "wait_sum"
      BY <1>5, <1>7
    <2> QED BY <1>6, <1>7, <2>1 DEF IInv, WaitInv
  <1>19. \A v \in Threads : pc[v] \in {"delay", "insert", "unlock", "clear"} =>
           held[v] \in Slots
    BY HeldSlot DEF InHand
  <1>20. CompleteInv'
    <2> SUFFICES ASSUME NEW v \in Threads, Completes(v)
        PROVE  /\ ex_lock'[held[v]] = v
               /\ contents[held[v]].done
               /\ count[v] = IF TrainsOn(contents[held[v]].kind) THEN NumThreads ELSE 0
               /\ \A u \in Threads : Predicted(u) >= used_index[v]
               /\ count[v] # 0 =>
                    /\ \A u \in Threads : u # v =>
                         pc'[u] = "wait_sum" /\ used_index[u] = used_index[v]
                    /\ \A u \in Threads : ~Owes(u)
               /\ count[v] = 0 =>
                    /\ pc'[v] = "delay"
                    /\ \A u \in Threads : u # v => Released(u) >= used_index[v]
               /\ pc'[v] = "insert" => index[v] = SlotOf(local_index)
      BY <1>6, <1>7 DEF CompleteInv
    <2>1. v # t /\ held[v] \in Slots
      BY <1>1, <1>19 DEF Completes
    <2>2. ex_lock[held[v]] = v /\ count[v] = 0
      BY <1>1 DEF IInv, CompleteInv
    <2> QED BY <1>7, <1>12, <2>1, <2>2 DEF IInv, CompleteInv
  <1>21. CloseInv'
    BY <1>6, <1>7 DEF IInv, CloseInv
  <1>22. TrainInv'
    BY <1>6, <1>7, <1>8 DEF IInv, TrainInv
  <1>23. FetchInv'
    <2> SUFFICES ASSUME NEW v \in Threads
        PROVE  /\ Behind(v) => delay_indices[v] = local_index - 1
               /\ Fetches(v) =>
                    /\ delay_ring[SlotOf(local_index - 1)] = SlotFor(used_index[v])
                    /\ threads_to_use'[SlotOf(local_index - 1)] = Cardinality(Fetching')
               /\ pc'[v] \in {"advance", "use", "clear"} =>
                    index[v] = SlotOf(local_index - 1)
      BY <1>6, <1>7 DEF FetchInv
    <2>1. pc'[v] \in {"advance", "use", "clear"} => index[v] = SlotOf(local_index - 1)
      BY <1>2, <1>7 DEF IInv, FetchInv, i
    <2> QED BY <1>2, <1>11, <2>1 DEF IInv, FetchInv
  <1>24. ClearInv'
    <2> SUFFICES ASSUME NEW v \in Threads, pc'[v] = "clear"
                 PROVE  /\ ex_lock'[held[v]] = v
                        /\ delay_ring[index[v]] = held[v]
                        /\ \A u \in Threads : ~(Fetches(u) /\ u # t)
      BY <1>6, <1>7 DEF ClearInv
    <2>1. v = t
      BY <1>1, <1>7 DEF IInv, ClearInv
    <2>2. Fetching = {t}
      BY <1>2, <1>5, <1>7, <1>9, <2>1, OnlyThread DEF last
    <2> QED BY <1>2, <1>5, <1>7, <1>12, <2>1, <2>2 DEF Fetching, s, i
  <1>25. UnlockInv'
    <2> SUFFICES ASSUME NEW v \in Threads, pc'[v] = "unlock"
                 PROVE  ex_lock'[held[v]] = v
      BY <1>6 DEF UnlockInv
    <2>1. pc[v] = "unlock"
      BY <1>5, <1>7
    <2> QED BY <1>12, <1>19, <2>1 DEF IInv, UnlockInv
  <1>26. DelayRingInv'
    <2> SUFFICES ASSUME NEW j \in Slots, delay_ring[j] # Null
                 PROVE  /\ j = SlotOf(local_index - 1)
                        /\ \E v \in Threads : Fetches(v)' \/ pc'[v] = "clear"
      BY <1>6 DEF DelayRingInv
    <2>1. j = SlotOf(local_index - 1)
      BY DEF IInv, DelayRingInv
    <2>2. CASE last
      BY <1>5, <1>7, <2>1, <2>2
    <2>3. CASE ~last
      <3>1. Fetching # {t}
        <4>1. Cardinality({t}) = 1
          BY FS_Singleton
        <4> QED BY <1>2, <2>3, <4>1 DEF last
      <3>2. PICK v \in Fetching : v # t
        BY <1>9, <3>1
      <3> QED BY <1>7, <2>1, <3>2 DEF Fetching
    <2> QED BY <2>2, <2>3
  <1>27. ParserInv' /\ PublishInv'
    BY <1>6, <1>7 DEF IInv, ParserInv, PublishInv, ParserSlot
  <1>28. BoundInv' /\ NoNullDereference'
    BY <1>4, <1>6, <1>11 DEF IInv, BoundInv, NoNullDereference
  <1> QED BY <1>13, <1>14, <1>15, <1>16, <1>17, <1>18, <1>20, <1>21, <1>22,
             <1>23, <1>24, <1>25, <1>26, <1>27, <1>28 DEF IInv

\* The last one empties the slot of the delay ring: nothing is left in it.
LEMMA ClearStep ==
  ASSUME IInv, NEW t \in Threads, ClearSlot(t), UNCHANGED gdVars,
         UNCHANGED global
  PROVE  IInv'
  <1> USE DEF countVars, netVars, gdVars, locals
  <1> DEFINE s == held[t]
             i == index[t]
  <1>1. pc[t] = "clear" /\ Owes(t) /\ ~Behind(t) /\ pc[t] \in InHand
    BY DEF ClearSlot, Owes, IInv, PlaceInv, InHand
  <1>2. /\ s \in Slots /\ s = SlotFor(used_index[t])
        /\ i = SlotOf(local_index - 1) /\ i \in Slots
        /\ ex_lock[s] = t /\ delay_ring[i] = s
        /\ \A u \in Threads : ~Fetches(u)
    BY <1>1, HeldSlot DEF IInv, FetchInv, TypeInv, ClearInv
  <1> HIDE DEF s, i
  <1>3. /\ delay_ring' = [delay_ring EXCEPT ![i] = Null]
        /\ ex_lock' = [ex_lock EXCEPT ![s] = Null]
        /\ pc' = [pc EXCEPT ![t] = "train"]
        /\ delay_empty' = {}
        /\ UNCHANGED <<ringVars, delay_indices, threads_to_use, local_index,
                       global_index, delay_nonempty, global_delay_nonempty,
                       delay_lock, countVars, crashed, netVars, locals, gdVars,
                       global>>
    <2>1. AfterReturn(t) = "train"
      BY NoRelaySetting DEF IInv
    <2> QED BY <2>1 DEF ClearSlot, Goto, s, i
  <1>4. "train" \in LearnerPcs
    BY DEF LearnerPcs, GdPcs
  <1>5. UNCHANGED <<used_index, delay_indices, local_index, held, index, count,
                    contents, threads_to_finish, in_use, parsed_examples, parser_pc,
                    threads_to_use, mine>>
    BY <1>3 DEF ringVars, shared
  <1>6. /\ pc' \in [Threads -> LearnerPcs] /\ pc'[t] = "train"
        /\ \A u \in Threads : Behind(u)' <=> Behind(u)
        /\ \A u \in Threads : u # t => pc'[u] = pc[u]
        /\ \A u \in Threads : Released(u)' = Released(u) /\ Predicted(u)' = Predicted(u)
        /\ \A u \in Threads : Owes(u)' <=> Owes(u)
        /\ \A u \in Threads : ~Fetches(u)'
        /\ \A u \in Threads : Completes(u)' <=> Completes(u)
        /\ \A u \in Threads : Closes(u)' <=> Closes(u)
    <2>1. "train" \in InHand
      BY DEF InHand
    <2>2. Released(t) = used_index[t] - 1 /\ Predicted(t) = used_index[t]
          /\ ~Completes(t) /\ ~Closes(t)
      BY <1>1, ReleasedInHand DEF Predicted, Predicting, Completes, Closes
    <2>3. /\ pc' \in [Threads -> LearnerPcs] /\ pc'[t] = "train"
          /\ \A u \in Threads : Behind(u)' <=> Behind(u)
          /\ \A u \in Threads : u # t =>
               /\ pc'[u] = pc[u]
               /\ Released(u)' = Released(u)
               /\ Predicted(u)' = Predicted(u)
               /\ Owes(u)' <=> Owes(u)
               /\ Fetches(u)' <=> Fetches(u)
               /\ Completes(u)' <=> Completes(u)
               /\ Closes(u)' <=> Closes(u)
      BY <1>3, <1>4, <1>5, GoesOn
    <2>4. /\ Released(t)' = Released(t) /\ Predicted(t)' = Predicted(t)
          /\ Owes(t)' /\ ~Fetches(t)' /\ ~Completes(t)' /\ ~Closes(t)'
      BY <1>1, <1>3, <1>4, <1>5, <2>1, <2>2, GoesOn
    <2> QED BY <1>1, <1>2, <2>2, <2>3, <2>4
  <1>7. /\ \A k : Unpredicted(k)' = Unpredicted(k)
        /\ Owing' = Owing
    BY <1>6 DEF Unpredicted, Owing
  <1>8. /\ delay_ring' \in [Slots -> Slots \cup {Null}]
        /\ ex_lock' \in [Slots -> Threads \cup {Null}]
        /\ \A v \in Threads : v # t => \A x \in Slots : ex_lock[x] = v => ex_lock'[x] = v
        /\ \A j \in Slots : delay_ring'[j] = Null
    <2>1. \A j \in Slots : j # i => delay_ring[j] = Null
      BY <1>2 DEF IInv, DelayRingInv
    <2>2. delay_ring \in [Slots -> Slots \cup {Null}]
          /\ ex_lock \in [Slots -> Threads \cup {Null}]
      BY DEF IInv, TypeInv
    <2> QED BY <1>2, <1>3, <2>1, <2>2
  <1>9. RingInv' /\ NoAssertFailure'
    BY <1>3, RingStill
    DEF IInv, RingInv, RingTypeOK, ringVars, shared, NoAssertFailure
  <1>10. TypeInv' /\ SettingInv'
    BY SameSetting, <1>3, <1>6, <1>8 DEF IInv, TypeInv
  <1>11. HeldInv' /\ PlaceInv'
    BY <1>1, <1>3, <1>4, <1>5, GoesOnHeld
  <1>12. LiveInv'
    BY <1>5, <1>6 DEF IInv, LiveInv
  <1>13. PredictInv'
    <2>1. \A u \in Threads : pc[u] = "wait_sum" => pc'[u] = "wait_sum"
      BY <1>1, <1>6
    <2> QED BY <1>5, <1>6, <1>7, <2>1 DEF IInv, PredictInv
  <1>14. WaitInv'
    <2>1. \A u \in Threads : pc'[u] = "wait_sum" => pc[u] = "wait_sum"
      BY <1>6
    <2> QED BY <1>5, <1>6, <2>1 DEF IInv, WaitInv
  <1>15. CompleteInv'
    <2> SUFFICES ASSUME NEW v \in Threads, Completes(v)
        PROVE  /\ ex_lock'[held[v]] = v
               /\ contents[held[v]].done
               /\ count[v] = IF TrainsOn(contents[held[v]].kind) THEN NumThreads ELSE 0
               /\ \A u \in Threads : Predicted(u) >= used_index[v]
               /\ count[v] # 0 =>
                    /\ \A u \in Threads : u # v =>
                         pc'[u] = "wait_sum" /\ used_index[u] = used_index[v]
                    /\ \A u \in Threads : ~Owes(u)
               /\ count[v] = 0 =>
                    /\ pc'[v] = "delay"
                    /\ \A u \in Threads : u # v => Released(u) >= used_index[v]
               /\ pc'[v] = "insert" => index[v] = SlotOf(local_index)
      BY <1>5, <1>6 DEF CompleteInv
    <2>1. v # t /\ held[v] \in Slots
      BY <1>1, HeldSlot DEF Completes, InHand
    <2>2. ex_lock[held[v]] = v /\ count[v] = 0
      BY <1>1 DEF IInv, CompleteInv
    <2> QED BY <1>6, <1>8, <2>1, <2>2 DEF IInv, CompleteInv
  <1>16. CloseInv'
    BY <1>5, <1>6 DEF IInv, CloseInv
  <1>17. TrainInv'
    BY <1>5, <1>6, <1>7 DEF IInv, TrainInv
  <1>18. FetchInv'
    <2>1. \A v \in Threads : ~Behind(v)'
      BY <1>6 DEF Fetches
    <2>2. \A v \in Threads : pc'[v] \in {"advance", "use", "clear"} => pc'[v] = pc[v]
      BY <1>6
    <2> QED BY <1>5, <1>6, <2>1, <2>2 DEF IInv, FetchInv
  <1>19. ClearInv'
    <2> SUFFICES ASSUME NEW v \in Threads, pc'[v] = "clear" PROVE FALSE
      BY DEF ClearInv
    <2>1. v # t /\ pc[v] = "clear"
      BY <1>6
    <2>2. Owes(v) /\ ex_lock[held[v]] = v /\ held[v] = SlotFor(used_index[v])
      BY <2>1, HeldSlot DEF Owes, IInv, ClearInv, InHand
    <2>3. used_index[v] = used_index[t]
      BY <1>1, <2>2 DEF IInv, TrainInv
    <2> QED BY <1>2, <2>1, <2>2, <2>3
  <1>20. UnlockInv'
    <2> SUFFICES ASSUME NEW v \in Threads, pc'[v] = "unlock"
                 PROVE  ex_lock'[held[v]] = v
      BY <1>5 DEF UnlockInv
    <2>1. v # t /\ pc[v] = "unlock"
      BY <1>6
    <2>2. held[v] \in Slots /\ ex_lock[held[v]] = v
      BY <2>1, HeldSlot DEF IInv, UnlockInv
    <2> QED BY <1>8, <2>1, <2>2
  <1>21. DelayRingInv'
    BY <1>8 DEF DelayRingInv
  <1>22. ParserInv' /\ PublishInv'
    BY <1>5, <1>6 DEF IInv, ParserInv, PublishInv, ParserSlot
  <1>23. BoundInv' /\ NoNullDereference'
    BY <1>3, <1>5 DEF IInv, BoundInv, NoNullDereference
  <1> QED BY <1>9, <1>10, <1>11, <1>12, <1>13, <1>14, <1>15, <1>16, <1>17,
             <1>18, <1>19, <1>20, <1>21, <1>22, <1>23 DEF IInv

\* All threads wait for the example that thread t enters into the delay ring,
\* and owe it from then on.
Inserted(t) ==
  /\ pc' = [pc EXCEPT ![t] = "unlock"]
  /\ pc[t] = "insert"
  /\ \A u \in Threads : u # t => pc[u] = "wait_sum"
  /\ \A u \in Threads :
       /\ used_index[u] = used_index[t]
       /\ Behind(u)' /\ Owes(u)' /\ ~Owes(u)
       /\ Released(u)' = Released(u) /\ Predicted(u)' = Predicted(u)
  /\ UNCHANGED <<parsed_examples, used_index, in_use, contents>>

\* The prediction is complete: the example enters the delay ring, for every
\* thread to train on it.
LEMMA InsertStep ==
  ASSUME IInv, NEW t \in Threads, InsertExample(t), UNCHANGED gdVars,
         UNCHANGED global
  PROVE  IInv' /\ Inserted(t)
  <1> USE DEF countVars, netVars, gdVars, locals
  <1> DEFINE s == held[t]
             i == SlotOf(local_index)
             n == used_index[t]
  <1>1. pc[t] = "insert" /\ Completes(t) /\ pc[t] \in InHand
    BY DEF InsertExample, Completes, InHand
  <1>2. /\ s \in Slots /\ s = SlotFor(n) /\ ex_lock[s] = t /\ contents[s].done
        /\ index[t] = i /\ count[t] = NumThreads /\ TrainsOn(contents[s].kind)
        /\ \A u \in Threads : ~Owes(u) /\ Predicted(u) >= n
        /\ \A u \in Threads : u # t => pc[u] = "wait_sum" /\ used_index[u] = n
    <2>1. count[t] # 0
      BY <1>1 DEF IInv, CompleteInv
    <2> QED BY <1>1, <2>1, HeldSlot DEF IInv, CompleteInv
  <1>3. \A u \in Threads : ~Behind(u) /\ ~Fetches(u) /\ pc[u] # "clear"
    BY <1>2 DEF Owes, Fetches
  <1>4. \A j \in Slots : delay_ring[j] = Null
    BY <1>3 DEF IInv, DelayRingInv
  <1>5. /\ i \in Slots /\ local_index \in Nat /\ NumThreads \in Nat \ {0}
        /\ n \in 1 .. parsed_examples /\ Released(t) = n - 1 /\ Released(t) < n
    BY <1>1, SlotRange, OwnExample, RingAssumption DEF IInv, TypeInv
  <1>6. DelayCount(count[t]) = NumThreads
    BY <1>2, <1>5, NoRelaySetting DEF IInv
  <1>7. /\ delay_ring' = [delay_ring EXCEPT ![i] = s]
        /\ threads_to_use' = [threads_to_use EXCEPT ![i] = NumThreads]
        /\ threads_to_finish' = [threads_to_finish EXCEPT ![s] = NumThreads]
        /\ local_index' = local_index + 1
        /\ pc' = [pc EXCEPT ![t] = "unlock"]
        /\ delay_nonempty' = {}
        /\ UNCHANGED <<in_use, contents, parsed_examples, used_index, done,
                       example_available, aborted, parser_pc, source,
                       delay_indices, global_index, global_delay_nonempty,
                       ex_lock, countVars, crashed, netVars, locals, delay_lock,
                       delay_empty, gdVars, global>>
    <2>1. ~SlotBusy(t)
      BY <1>2, <1>4, <1>5 DEF SlotBusy
    <2>2. AfterDelay(t) = "unlock"
      BY <1>2 DEF AfterDelay
    <2>3. count[t] # 0
      BY <1>2, <1>5
    <2>4. index[t] = i
      BY <1>2
    <2> QED BY <1>6, <2>1, <2>2, <2>3, <2>4 DEF InsertExample, Goto
  <1>8. s = held[t] /\ n = used_index[t]
    OBVIOUS
  <1> HIDE DEF s, i, n
  <1>9. UNCHANGED <<used_index, delay_indices, held, index, count,
                    contents, in_use, parsed_examples, parser_pc, mine, ex_lock>>
    BY <1>7
  <1>10. /\ pc' \in [Threads -> LearnerPcs] /\ pc'[t] = "unlock"
         /\ \A u \in Threads : u # t => pc'[u] = "wait_sum" /\ used_index[u] = n
    <2>1. "unlock" \in LearnerPcs
      BY DEF LearnerPcs, GdPcs
    <2> QED BY <1>2, <1>7, <2>1, PcMoves DEF IInv
  <1>11. /\ \A u \in Threads : Behind(u)' /\ Owes(u)' /\ Fetches(u)'
         /\ \A u \in Threads : used_index[u] = n /\ delay_indices[u] = local_index
         /\ \A u \in Threads : Released(u)' = n - 1 /\ Predicted(u)' = n
         /\ \A u \in Threads : Released(u) = n - 1 /\ Predicted(u) = n
         /\ \A u \in Threads : ~Completes(u)' /\ ~Closes(u)'
    <2>1. \A u \in Threads : used_index[u] = n /\ delay_indices[u] = local_index
      BY <1>2, <1>3, <1>8 DEF Behind
    <2>2. local_index # local_index'
      BY <1>5, <1>7
    <2>3. \A u \in Threads : Behind(u)' /\ Owes(u)' /\ Fetches(u)'
      BY <1>9, <2>1, <2>2 DEF Behind, Owes, Fetches
    <2>4. \A u \in Threads : pc[u] \in {"insert", "wait_sum"}
                             /\ pc'[u] \in {"unlock", "wait_sum"}
      BY <1>1, <1>2, <1>10
    <2>5. \A u \in Threads : Released(u)' = n - 1 /\ Released(u) = n - 1
      BY <1>9, <2>1, <2>3, <2>4 DEF Released, Behind, InHand
    <2>6. \A u \in Threads : Predicted(u)' = n /\ Predicted(u) = n
      BY <1>9, <2>1, <2>4 DEF Predicted, Predicting
    <2>7. \A u \in Threads : ~Completes(u)' /\ ~Closes(u)'
      BY <2>4 DEF Completes, Closes
    <2> QED BY <2>1, <2>3, <2>5, <2>6, <2>7
  <1>12. /\ \A k : Unpredicted(k)' = Unpredicted(k)
         /\ Owing' = Threads /\ Fetching' = Threads
         /\ Cardinality(Threads) = NumThreads
    BY <1>11, ThreadCount DEF Unpredicted, Owing, Fetching
  <1>13. /\ delay_ring' \in [Slots -> Slots \cup {Null}]
         /\ delay_ring'[i] = s
         /\ \A j \in Slots : j # i => delay_ring'[j] = Null
         /\ threads_to_use' \in [Slots -> 0 .. NumThreads]
         /\ threads_to_use'[i] = NumThreads
         /\ threads_to_finish' \in [Slots -> 0 .. NumThreads]
         /\ threads_to_finish'[s] = NumThreads
         /\ \A x \in Slots : x # s => threads_to_finish'[x] = threads_to_finish[x]
         /\ local_index' - 1 = local_index /\ local_index' \in Nat /\ local_index' >= 1
    <2>1. delay_ring \in [Slots -> Slots \cup {Null}]
      BY DEF IInv, TypeInv
    <2>2. /\ threads_to_use \in [Slots -> 0 .. NumThreads]
          /\ threads_to_finish \in [Slots -> 0 .. NumThreads]
      BY DEF IInv, BoundInv
    <2>3. NumThreads \in 0 .. NumThreads
      BY <1>5
    <2>4. /\ threads_to_use' \in [Slots -> 0 .. NumThreads]
          /\ threads_to_use'[i] = NumThreads
          /\ threads_to_finish' \in [Slots -> 0 .. NumThreads]
          /\ threads_to_finish'[s] = NumThreads
          /\ \A x \in Slots : x # s => threads_to_finish'[x] = threads_to_finish[x]
      BY <1>2, <1>5, <1>7, <2>2, <2>3
    <2> QED BY <1>2, <1>4, <1>5, <1>7, <2>1, <2>4
  <1>14. RingInv' /\ NoAssertFailure'
    <2>1. threads_to_finish' \in [Slots -> Int]
      BY <1>5, <1>13
    <2> QED BY <1>7, <2>1, RingWorker DEF IInv, RingInv, RingTypeOK, NoAssertFailure
  <1>15. TypeInv' /\ SettingInv'
    <2>1. threads_to_use' \in [Slots -> Int]
      BY <1>5, <1>13
    <2> QED BY SameSetting, <1>7, <1>10, <1>13, <2>1 DEF IInv, TypeInv
  <1>16. HeldInv'
    <2> SUFFICES ASSUME NEW u \in Threads
                 PROVE  used_index[u] >= 1 /\ held[u] = SlotFor(used_index[u])
      BY <1>9 DEF HeldInv, SlotFor
    <2>1. pc[u] \in InHand
      BY <1>1, <1>2 DEF InHand
    <2> QED BY <2>1 DEF IInv, HeldInv
  <1>17. PlaceInv'
    BY <1>10, <1>11 DEF PlaceInv
  <1>18. LiveInv'
    BY <1>9, <1>11 DEF IInv, LiveInv
  <1>19. PredictInv'
    <2> SUFFICES ASSUME NEW k \in 1 .. parsed_examples, NEW v \in Threads, n < k
                 PROVE  /\ threads_to_finish'[SlotFor(k)] = Cardinality(Unpredicted(k))
                        /\ ~contents[SlotFor(k)].done
      <3>1. n \in Int /\ parsed_examples \in Nat
        BY <1>5, Ranges
      <3> QED BY <1>9, <1>11, <1>12, <3>1 DEF PredictInv
    <2>1. /\ threads_to_finish[SlotFor(k)] = Cardinality(Unpredicted(k))
          /\ ~contents[SlotFor(k)].done
      BY <1>11 DEF IInv, PredictInv
    <2>2. Released(v) < k
      BY <1>5, <1>11
    <2>3. SlotFor(k) \in Slots /\ SlotFor(k) # s
      BY <1>2, <2>1, <2>2, LiveSlots
    <2> QED BY <1>13, <2>1, <2>3
  <1>20. WaitInv'
    <2> SUFFICES ASSUME NEW u \in Threads, pc'[u] = "wait_sum"
                 PROVE  TrainsOn(contents[held[u]].kind) /\ contents[held[u]].done
      BY <1>9, <1>11 DEF WaitInv
    <2>1. u # t /\ pc[u] = "wait_sum" /\ used_index[u] = n
      BY <1>2, <1>10
    <2>2. held[u] = s
      BY <1>2, <2>1, HeldSlot DEF InHand
    <2> QED BY <1>2, <2>2
  <1>21. CompleteInv' /\ CloseInv'
    BY <1>11 DEF CompleteInv, CloseInv
  <1>22. TrainInv'
    BY <1>2, <1>5, <1>9, <1>11, <1>12, <1>13 DEF TrainInv
  <1>23. FetchInv'
    BY <1>2, <1>9, <1>10, <1>11, <1>12, <1>13 DEF FetchInv, i
  <1>24. ClearInv' /\ UnlockInv'
    BY <1>2, <1>8, <1>9, <1>10 DEF ClearInv, UnlockInv
  <1>25. DelayRingInv'
    BY <1>11, <1>13 DEF DelayRingInv, i
  <1>26. ParserInv' /\ PublishInv'
    <2>1. \A u \in Threads : Released(u)' >= Released(u) /\ Released(u)' \in Int
      BY <1>5, <1>11
    <2> QED BY <1>1, <1>8, <1>9, <1>13, <2>1, ParserUnmoved
  <1>27. BoundInv' /\ NoNullDereference'
    BY <1>7, <1>13 DEF IInv, BoundInv, NoNullDereference
  <1>28. Inserted(t)
    BY <1>1, <1>2, <1>7, <1>8, <1>9, <1>11 DEF Inserted
  <1> QED BY <1>14, <1>15, <1>16, <1>17, <1>18, <1>19, <1>20, <1>21, <1>22,
             <1>23, <1>24, <1>25, <1>26, <1>27, <1>28 DEF IInv

\* Who else could still be at an example that is done with: nobody.
LEMMA LastOfAll ==
  ASSUME IInv, NEW t \in Threads, pc[t] = "finish", Owing = {t},
         NEW u \in Threads, u # t
  PROVE  Released(u) >= used_index[t]
  <1> DEFINE n == used_index[t]
  <1>1. Owes(t) /\ ~Behind(t) /\ pc[t] \in InHand
    BY DEF Owes, IInv, PlaceInv, InHand
  <1>2. /\ n \in 1 .. parsed_examples /\ Released(t) = n - 1
        /\ contents[SlotFor(n)].done
        /\ Predicted(u) >= n /\ ~Owes(u)
    BY <1>1, OwnExample DEF IInv, TrainInv, Owing
  <1> SUFFICES ASSUME ~(Released(u) >= n) PROVE FALSE
    OBVIOUS
  <1>3. n \in Int /\ used_index[u] \in Nat /\ Predicted(u) \in Nat
        /\ Predicted(u) <= used_index[u] /\ Released(u) \in Nat
    BY <1>2, Ranges
  <1>4. pc[u] \in InHand /\ ~Behind(u) /\ Released(u) = used_index[u] - 1
    <2>1. ~Behind(u)
      BY <1>2 DEF Owes
    <2> QED BY <1>2, <1>3, <2>1, ReleasedInHand
  <1>5. used_index[u] = n
    BY <1>2, <1>3, <1>4
  <1> HIDE DEF n
  <1>6. ~Predicting(u)
    BY <1>2, <1>3, <1>5 DEF Predicted
  <1>7. \A v \in Threads : Completes(v) => count[v] = 0
    BY <1>1 DEF IInv, CompleteInv
  <1>8. CASE pc[u] = "wait_sum"
    <2>1. held[u] = SlotFor(n)
      BY <1>5, <1>8, HeldSlot DEF InHand
    <2> QED BY <1>2, <1>4, <1>7, <1>8, <2>1 DEF IInv, WaitInv
  <1>9. CASE Completes(u)
    <2>1. Released(t) >= used_index[u]
      BY <1>7, <1>9 DEF IInv, CompleteInv
    <2> QED BY <1>2, <1>3, <1>5, <2>1
  <1>10. CASE Closes(u)
    <2>1. Released(t) >= used_index[u]
      BY <1>10 DEF IInv, CloseInv
    <2> QED BY <1>2, <1>3, <1>5, <2>1
  <1>11. pc[u] \in {"wait_sum", "delay", "insert", "account", "account_end", "free"}
    <2>1. pc[u] \in LearnerPcs
      BY DEF IInv, TypeInv
    <2>2. pc[u] \notin {"advance", "return"}
      BY <1>4 DEF IInv, PlaceInv
    <2>3. pc[u] \notin {"use", "clear", "train", "decay", "finish"}
      BY <1>2 DEF Owes
    <2>4. pc[u] \notin {"dispatch", "predict"}
      BY <1>6 DEF Predicting
    <2> QED BY <1>4, <2>1, <2>2, <2>3, <2>4
        DEF InHand, LearnerPcs, GdPcs, RoutinePcs
  <1> QED BY <1>8, <1>9, <1>10, <1>11 DEF Completes, Closes

LEMMA FinishStep ==
  ASSUME IInv, NEW t \in Threads, FinishExample(t), UNCHANGED gdVars,
         UNCHANGED global
  PROVE  IInv'
  <1> USE DEF delayVars, countVars, netVars, gdVars, locals
  <1> DEFINE s == held[t]
             n == used_index[t]
             last == threads_to_finish[s] = 1
             l == IF last THEN "account" ELSE "peek"
  <1>1. pc[t] = "finish" /\ Owes(t) /\ ~Behind(t) /\ pc[t] \in InHand
    BY DEF FinishExample, Owes, IInv, PlaceInv, InHand
  <1>2. /\ s \in Slots /\ s = SlotFor(n) /\ n \in 1 .. parsed_examples
        /\ Released(t) = n - 1 /\ n \in Nat
        /\ threads_to_finish[s] = Cardinality(Owing)
        /\ TrainsOn(contents[s].kind) /\ contents[s].done
        /\ \A u \in Threads : Predicted(u) >= n
        /\ \A u \in Threads : Owes(u) => used_index[u] = n
    BY <1>1, OwnExample, Ranges DEF IInv, TrainInv
  <1>3. Top(t) = "peek"
    BY NoRelaySetting DEF IInv
  <1>4. /\ threads_to_finish' = [threads_to_finish EXCEPT ![s] = @ - 1]
        /\ pc' = [pc EXCEPT ![t] = l]
        /\ UNCHANGED <<in_use, contents, parsed_examples, used_index, done,
                       example_available, aborted, parser_pc, source, delayVars,
                       ex_lock, countVars, crashed, netVars, locals, gdVars,
                       global>>
    BY <1>3 DEF FinishExample, Goto, LastToFinish
  <1>5. l \in {"account", "peek"} /\ l \in LearnerPcs /\ (l = "account" <=> last)
    BY DEF LearnerPcs, GdPcs, RoutinePcs
  <1>6. s = held[t] /\ n = used_index[t] /\ (last <=> threads_to_finish[s] = 1)
    OBVIOUS
  <1> HIDE DEF s, n, l, last
  <1>7. UNCHANGED <<used_index, delay_indices, local_index, held, index, count,
                    contents, in_use, parsed_examples, parser_pc, delay_ring,
                    threads_to_use, mine, ex_lock>>
    BY <1>4
  <1>8. /\ pc' \in [Threads -> LearnerPcs] /\ pc'[t] = l
        /\ \A u \in Threads : Behind(u)' <=> Behind(u)
        /\ \A u \in Threads : u # t =>
             pc'[u] = pc[u] /\ Released(u)' = Released(u) /\ (Closes(u)' <=> Closes(u))
        /\ \A u \in Threads : Released(u)' >= Released(u) /\ Released(u)' \in Nat
        /\ \A u \in Threads : Predicted(u)' = Predicted(u)
        /\ \A u \in Threads : Owes(u)' <=> Owes(u) /\ u # t
        /\ \A u \in Threads : Fetches(u)' <=> Fetches(u)
        /\ \A u \in Threads : Completes(u)' <=> Completes(u)
        /\ Closes(t)' <=> last
    <2>1. Released(t)' = (IF l = "account" THEN n - 1 ELSE n)
          /\ Predicted(t)' = n /\ ~Owes(t)' /\ ~Fetches(t)'
          /\ ~Completes(t)' /\ (Closes(t)' <=> last)
      BY <1>1, <1>4, <1>5, <1>6, <1>7, GoesOn DEF InHand
    <2>2. Predicted(t) = n /\ ~Completes(t) /\ ~Fetches(t)
      BY <1>1, <1>6 DEF Predicted, Predicting, Completes, Fetches
    <2>3. \A u \in Threads : Released(u) \in Nat
      BY Ranges
    <2>4. /\ pc' \in [Threads -> LearnerPcs] /\ pc'[t] = l
          /\ \A u \in Threads : Behind(u)' <=> Behind(u)
          /\ \A u \in Threads : u # t =>
               /\ pc'[u] = pc[u] /\ Released(u)' = Released(u)
               /\ Predicted(u)' = Predicted(u)
               /\ (Owes(u)' <=> Owes(u)) /\ (Fetches(u)' <=> Fetches(u))
               /\ (Completes(u)' <=> Completes(u)) /\ (Closes(u)' <=> Closes(u))
      BY <1>4, <1>5, <1>7, GoesOn
    <2>5. Released(t)' >= Released(t) /\ Released(t)' \in Nat
      BY <1>2, <2>1, <2>3
    <2> QED BY <2>1, <2>2, <2>3, <2>4, <2>5
  <1>9. /\ \A k : Unpredicted(k)' = Unpredicted(k)
        /\ Owing' = Owing \ {t} /\ Fetching' = Fetching
        /\ Owing \subseteq Threads /\ t \in Owing
    BY <1>1, <1>8 DEF Unpredicted, Owing, Fetching
  <1>10. /\ Cardinality(Owing) >= 1
         /\ Cardinality(Owing') = Cardinality(Owing) - 1
         /\ Cardinality(Owing) \in 0 .. NumThreads
    BY <1>9, OneThreadLeaves, SomeThreads
  <1>11. /\ threads_to_finish' \in [Slots -> 0 .. NumThreads]
         /\ threads_to_finish'[s] = Cardinality(Owing')
         /\ \A x \in Slots : x # s => threads_to_finish'[x] = threads_to_finish[x]
    <2>1. threads_to_finish \in [Slots -> 0 .. NumThreads] /\ NumThreads \in Nat
      BY RingAssumption DEF IInv, BoundInv
    <2>2. threads_to_finish[s] - 1 \in 0 .. NumThreads
      BY <1>2, <1>10, <2>1
    <2> QED BY <1>2, <1>4, <1>10, <2>1, <2>2
  <1>12. RingInv' /\ NoAssertFailure'
    <2>1. threads_to_finish' \in [Slots -> Int]
      BY <1>11, RingAssumption
    <2> QED BY <1>4, <2>1, RingWorker DEF IInv, RingInv, RingTypeOK, NoAssertFailure
  <1>13. TypeInv' /\ SettingInv'
    BY SameSetting, <1>4, <1>8 DEF IInv, TypeInv
  <1>14. HeldInv' /\ PlaceInv'
    BY <1>1, <1>4, <1>5, <1>7, GoesOnHeld
  <1>15. LiveInv'
    <2> SUFFICES ASSUME NEW k \in 1 .. parsed_examples, NEW v \in Threads,
                        Released(v)' < k
                 PROVE  in_use[SlotFor(k)] /\ contents[SlotFor(k)].counter = k
      BY <1>7 DEF LiveInv
    <2>1. Released(v) < k
      BY <1>8, Ranges
    <2> QED BY <2>1, LiveSlots
  <1>16. PredictInv'
    <2> SUFFICES ASSUME NEW k \in 1 .. parsed_examples, NEW v \in Threads,
                        Predicted(v) < k
                 PROVE  /\ threads_to_finish'[SlotFor(k)] = Cardinality(Unpredicted(k))
                        /\ ~contents[SlotFor(k)].done
                        /\ TrainsOn(contents[SlotFor(k)].kind) =>
                             \A u \in Threads : Predicted(u) >= k =>
                               used_index[u] = k /\ pc'[u] = "wait_sum"
      BY <1>7, <1>8, <1>9 DEF PredictInv
    <2>1. /\ threads_to_finish[SlotFor(k)] = Cardinality(Unpredicted(k))
          /\ ~contents[SlotFor(k)].done
          /\ TrainsOn(contents[SlotFor(k)].kind) =>
               \A u \in Threads : Predicted(u) >= k =>
                 used_index[u] = k /\ pc[u] = "wait_sum"
      BY DEF IInv, PredictInv
    <2>2. SlotFor(k) \in Slots /\ SlotFor(k) # s
      <3>1. Released(v) < k
        BY Ranges
      <3> QED BY <1>2, <2>1, <3>1, LiveSlots
    <2>3. \A u \in Threads : pc[u] = "wait_sum" => pc'[u] = "wait_sum"
      BY <1>1, <1>8
    <2> QED BY <1>11, <2>1, <2>2, <2>3
  <1>17. WaitInv'
    <2>1. \A u \in Threads : pc'[u] = "wait_sum" => pc[u] = "wait_sum"
      BY <1>5, <1>8
    <2> QED BY <1>7, <1>8, <2>1 DEF IInv, WaitInv
  <1>18. CompleteInv'
    <2> SUFFICES ASSUME NEW v \in Threads, Completes(v)
        PROVE  /\ ex_lock[held[v]] = v
               /\ contents[held[v]].done
               /\ count[v] = IF TrainsOn(contents[held[v]].kind) THEN NumThreads ELSE 0
               /\ \A u \in Threads : Predicted(u) >= used_index[v]
               /\ count[v] # 0 =>
                    /\ \A u \in Threads : u # v =>
                         pc'[u] = "wait_sum" /\ used_index[u] = used_index[v]
                    /\ \A u \in Threads : ~Owes(u)'
               /\ count[v] = 0 =>
                    /\ pc'[v] = "delay"
                    /\ \A u \in Threads : u # v => Released(u)' >= used_index[v]
               /\ pc'[v] = "insert" => index[v] = SlotOf(local_index)
      BY <1>7, <1>8 DEF CompleteInv
    <2>1. v # t
      BY <1>1 DEF Completes
    <2>2. count[v] = 0
      BY <1>1 DEF IInv, CompleteInv
    <2>3. ASSUME NEW u \in Threads, u # v PROVE Released(u)' >= used_index[v]
      <3>1. Released(u) >= used_index[v]
        BY <2>2, <2>3 DEF IInv, CompleteInv
      <3>2. Released(u) \in Nat /\ used_index[v] \in Nat
        BY Ranges
      <3> QED BY <1>8, <3>1, <3>2
    <2> QED BY <1>8, <2>1, <2>2, <2>3 DEF IInv, CompleteInv
  <1>19. CloseInv'
    <2> SUFFICES ASSUME NEW v \in Threads, Closes(v)', NEW u \in Threads, u # v
                 PROVE  Released(u)' >= used_index[v]
      BY <1>7 DEF CloseInv
    <2>1. Released(u) \in Nat /\ used_index[v] \in Nat
      BY Ranges
    <2>2. CASE v # t
      <3>1. Released(u) >= used_index[v]
        BY <1>8, <2>2 DEF IInv, CloseInv
      <3> QED BY <1>8, <2>1, <3>1
    <2>3. CASE v = t
      <3>1. Owing = {t}
        BY <1>2, <1>6, <1>8, <1>9, <2>3, OnlyThread
      <3>2. Released(u) >= used_index[v]
        BY <1>1, <2>3, <3>1, LastOfAll
      <3> QED BY <1>8, <2>1, <3>2
    <2> QED BY <2>2, <2>3
  <1>20. TrainInv'
    <2> SUFFICES ASSUME NEW v \in Threads, Owes(v), v # t
        PROVE  /\ used_index[v] >= 1
               /\ TrainsOn(contents[SlotFor(used_index[v])].kind)
               /\ contents[SlotFor(used_index[v])].done
               /\ threads_to_finish'[SlotFor(used_index[v])] = Cardinality(Owing')
               /\ \A u \in Threads : Predicted(u) >= used_index[v]
               /\ \A u \in Threads : Owes(u) => used_index[u] = used_index[v]
               /\ local_index >= 1
      BY <1>7, <1>8 DEF TrainInv
    <2>1. used_index[v] = n
      BY <1>2
    <2> QED BY <1>2, <1>11, <2>1 DEF IInv, TrainInv
  <1>21. FetchInv'
    <2>1. \A v \in Threads : pc'[v] \in {"advance", "use", "clear"} => pc'[v] = pc[v]
      BY <1>5, <1>8
    <2> QED BY <1>7, <1>8, <1>9, <2>1 DEF IInv, FetchInv
  <1>22. ClearInv' /\ UnlockInv'
    <2>1. \A v \in Threads : pc'[v] \in {"clear", "unlock"} => pc'[v] = pc[v]
      BY <1>5, <1>8
    <2> QED BY <1>7, <1>8, <2>1 DEF IInv, ClearInv, UnlockInv
  <1>23. DelayRingInv'
    <2>1. \A v \in Threads : pc[v] = "clear" => pc'[v] = "clear"
      BY <1>1, <1>8
    <2> QED BY <1>7, <1>8, <2>1 DEF IInv, DelayRingInv
  <1>24. ParserInv' /\ PublishInv'
    BY <1>1, <1>6, <1>7, <1>8, <1>11, ParserUnmoved
  <1>25. BoundInv' /\ NoNullDereference'
    BY <1>4, <1>11 DEF IInv, BoundInv, NoNullDereference
  <1> QED BY <1>12, <1>13, <1>14, <1>15, <1>16, <1>17, <1>18, <1>19, <1>20,
             <1>21, <1>22, <1>23, <1>24, <1>25 DEF IInv

\* The slot goes back to the parser: everyone is through with it.
LEMMA FreeStep ==
  ASSUME IInv, NEW t \in Threads, Free(t), UNCHANGED gdVars, UNCHANGED global
  PROVE  IInv'
  <1> USE DEF delayVars, countVars, netVars, gdVars, locals
  <1> DEFINE s == held[t]
             n == used_index[t]
             l == AfterDelay(t)
  <1>1. pc[t] = "free" /\ Closes(t) /\ ~Behind(t) /\ pc[t] \in InHand
    BY DEF Free, Closes, IInv, PlaceInv, InHand
  <1>2. /\ s \in Slots /\ s = SlotFor(n) /\ n \in 1 .. parsed_examples
        /\ Released(t) = n - 1 /\ n \in Nat /\ in_use[s]
        /\ contents[s].counter = n
        /\ \A u \in Threads : u # t => Released(u) >= n
    BY <1>1, OwnExample, Ranges DEF IInv, CloseInv
  <1>3. l \in {"unlock", "peek"} /\ l \in LearnerPcs
        /\ (l = "unlock" => ex_lock[s] = t)
    <2>1. Top(t) = "peek"
      BY NoRelaySetting DEF IInv
    <2> QED BY <2>1 DEF AfterDelay, LearnerPcs, GdPcs, RoutinePcs
  <1>4. /\ in_use' = [in_use EXCEPT ![s] = FALSE]
        /\ aborted' = FALSE
        /\ parser_pc' = WakeParser
        /\ example_available' \in {{}, example_available}
        /\ pc' = [pc EXCEPT ![t] = l]
        /\ UNCHANGED <<contents, threads_to_finish, parsed_examples, used_index,
                       done, source, delayVars, ex_lock, countVars, crashed,
                       netVars, locals, gdVars, global>>
    BY <1>2 DEF Free, FreeExample, Goto, WakeWorkers
  <1>5. s = held[t] /\ n = used_index[t]
    OBVIOUS
  <1> HIDE DEF s, n, l
  <1>6. UNCHANGED <<used_index, delay_indices, local_index, held, index, count,
                    contents, threads_to_finish, parsed_examples, delay_ring,
                    threads_to_use, mine, ex_lock>>
    BY <1>4
  <1>7. /\ pc' \in [Threads -> LearnerPcs] /\ pc'[t] = l
        /\ \A u \in Threads : Behind(u)' <=> Behind(u)
        /\ \A u \in Threads : u # t => pc'[u] = pc[u] /\ Released(u)' = Released(u)
        /\ Released(t)' = n
        /\ \A u \in Threads : Released(u)' >= Released(u) /\ Released(u)' \in Nat
        /\ \A u \in Threads : Predicted(u)' = Predicted(u)
        /\ \A u \in Threads : Owes(u)' <=> Owes(u)
        /\ \A u \in Threads : Fetches(u)' <=> Fetches(u)
        /\ \A u \in Threads : Completes(u)' <=> Completes(u)
        /\ \A u \in Threads : Closes(u)' => Closes(u)
    <2>1. Released(t)' = n /\ Predicted(t)' = n /\ ~Owes(t)' /\ ~Fetches(t)'
          /\ ~Completes(t)' /\ ~Closes(t)'
      BY <1>1, <1>3, <1>4, <1>5, <1>6, GoesOn DEF InHand
    <2>2. Predicted(t) = n /\ ~Completes(t) /\ ~Fetches(t) /\ ~Owes(t)
      BY <1>1, <1>5 DEF Predicted, Predicting, Completes, Fetches, Owes
    <2>3. \A u \in Threads : Released(u) \in Nat
      BY Ranges
    <2>4. /\ pc' \in [Threads -> LearnerPcs] /\ pc'[t] = l
          /\ \A u \in Threads : Behind(u)' <=> Behind(u)
          /\ \A u \in Threads : u # t =>
               /\ pc'[u] = pc[u] /\ Released(u)' = Released(u)
               /\ Predicted(u)' = Predicted(u)
               /\ (Owes(u)' <=> Owes(u)) /\ (Fetches(u)' <=> Fetches(u))
               /\ (Completes(u)' <=> Completes(u)) /\ (Closes(u)' <=> Closes(u))
      BY <1>3, <1>4, <1>6, GoesOn
    <2>5. Released(t)' >= Released(t) /\ Released(t)' \in Nat
      BY <1>2, <2>1, <2>3
    <2> QED BY <2>1, <2>2, <2>3, <2>4, <2>5
  <1>8. /\ \A k : Unpredicted(k)' = Unpredicted(k)
        /\ Owing' = Owing /\ Fetching' = Fetching
    BY <1>7 DEF Unpredicted, Owing, Fetching
  <1>9. /\ in_use' \in [Slots -> BOOLEAN]
        /\ \A x \in Slots : x # s => in_use'[x] = in_use[x]
    BY <1>2, <1>4 DEF IInv, RingInv, RingTypeOK
  <1>10. RingInv' /\ NoAssertFailure'
    BY <1>4, <1>9, RingWorker DEF IInv, RingInv, RingTypeOK, NoAssertFailure
  <1>11. TypeInv' /\ SettingInv'
    BY SameSetting, <1>4, <1>7 DEF IInv, TypeInv
  <1>12. HeldInv' /\ PlaceInv'
    BY <1>1, <1>3, <1>4, <1>6, GoesOnHeld
  <1>13. LiveInv'
    <2> SUFFICES ASSUME NEW k \in 1 .. parsed_examples, NEW v \in Threads,
                        Released(v)' < k
                 PROVE  in_use'[SlotFor(k)] /\ contents[SlotFor(k)].counter = k
      BY <1>6 DEF LiveInv
    <2>1. Released(v) < k
      BY <1>7, Ranges
    <2>2. /\ in_use[SlotFor(k)] /\ contents[SlotFor(k)].counter = k
          /\ SlotFor(k) \in Slots
      BY <2>1, LiveSlots
    <2>3. SlotFor(k) # s
      <3>1. SUFFICES ASSUME SlotFor(k) = s PROVE FALSE
        OBVIOUS
      <3>2. k = n
        BY <1>2, <2>2, <3>1
      <3> QED BY <1>2, <1>7, <3>2
    <2> QED BY <1>9, <2>2, <2>3
  <1>14. PredictInv'
    <2>1. \A u \in Threads : pc[u] = "wait_sum" => pc'[u] = "wait_sum"
      BY <1>1, <1>7
    <2> QED BY <1>6, <1>7, <1>8, <2>1 DEF IInv, PredictInv
  <1>15. WaitInv'
    <2>1. \A u \in Threads : pc'[u] = "wait_sum" => pc[u] = "wait_sum"
      BY <1>3, <1>7
    <2> QED BY <1>6, <1>7, <2>1 DEF IInv, WaitInv
  <1>16. CompleteInv'
    <2> SUFFICES ASSUME NEW v \in Threads, Completes(v)
        PROVE  /\ ex_lock[held[v]] = v
               /\ contents[held[v]].done
               /\ count[v] = IF TrainsOn(contents[held[v]].kind) THEN NumThreads ELSE 0
               /\ \A u \in Threads : Predicted(u) >= used_index[v]
               /\ count[v] # 0 =>
                    /\ \A u \in Threads : u # v =>
                         pc'[u] = "wait_sum" /\ used_index[u] = used_index[v]
                    /\ \A u \in Threads : ~Owes(u)
               /\ count[v] = 0 =>
                    /\ pc'[v] = "delay"
                    /\ \A u \in Threads : u # v => Released(u)' >= used_index[v]
               /\ pc'[v] = "insert" => index[v] = SlotOf(local_index)
      BY <1>6, <1>7 DEF CompleteInv
    <2>1. v # t
      BY <1>1 DEF Completes
    <2>2. count[v] = 0
      BY <1>1, <2>1 DEF IInv, CompleteInv
    <2>3. ASSUME NEW u \in Threads, u # v PROVE Released(u)' >= used_index[v]
      <3>1. Released(u) >= used_index[v]
        BY <2>2, <2>3 DEF IInv, CompleteInv
      <3>2. Released(u) \in Nat /\ used_index[v] \in Nat
        BY Ranges
      <3> QED BY <1>7, <3>1, <3>2
    <2> QED BY <1>7, <2>1, <2>2, <2>3 DEF IInv, CompleteInv
  <1>17. CloseInv'
    <2> SUFFICES ASSUME NEW v \in Threads, Closes(v), NEW u \in Threads, u # v
                 PROVE  Released(u)' >= used_index[v]
      BY <1>6, <1>7 DEF CloseInv
    <2>1. Released(u) \in Nat /\ used_index[v] \in Nat
      BY Ranges
    <2>2. Released(u) >= used_index[v]
      BY DEF IInv, CloseInv
    <2> QED BY <1>7, <2>1, <2>2
  <1>18. TrainInv'
    BY <1>6, <1>7, <1>8 DEF IInv, TrainInv
  <1>19. FetchInv'
    <2>1. \A v \in Threads : pc'[v] \in {"advance", "use", "clear"} => pc'[v] = pc[v]
      BY <1>3, <1>7
    <2> QED BY <1>6, <1>7, <1>8, <2>1 DEF IInv, FetchInv
  <1>20. ClearInv'
    <2>1. \A v \in Threads : pc'[v] = "clear" => pc[v] = "clear"
      BY <1>3, <1>7
    <2> QED BY <1>6, <1>7, <2>1 DEF IInv, ClearInv
  <1>21. UnlockInv'
    <2>1. \A v \in Threads : v # t /\ pc'[v] = "unlock" => pc[v] = "unlock"
      BY <1>7
    <2> QED BY <1>3, <1>5, <1>6, <1>7, <2>1 DEF IInv, UnlockInv
  <1>22. DelayRingInv'
    <2>1. \A v \in Threads : pc[v] = "clear" => pc'[v] = "clear"
      BY <1>1, <1>7
    <2> QED BY <1>6, <1>7, <2>1 DEF IInv, DelayRingInv
  <1>23. ParserInv' /\ PublishInv'
    <2>1. parser_pc' \in {parser_pc, WakeParser}
      BY <1>4
    <2>2. \A x \in Slots : x # held[t] =>
            /\ in_use'[x] = in_use[x]
            /\ contents'[x] = contents[x]
            /\ threads_to_finish'[x] = threads_to_finish[x]
      BY <1>5, <1>6, <1>9
    <2>3. \A u \in Threads : Released(u)' >= Released(u) /\ Released(u)' \in Int
      BY <1>7
    <2> QED BY <1>1, <1>6, <2>1, <2>2, <2>3, ParserUnmoved
  <1>24. BoundInv' /\ NoNullDereference'
    BY <1>4 DEF IInv, BoundInv, NoNullDereference
  <1> QED BY <1>10, <1>11, <1>12, <1>13, <1>14, <1>15, <1>16, <1>17, <1>18,
             <1>19, <1>20, <1>21, <1>22, <1>23, <1>24 DEF IInv

-----------------------------------------------------------------------------
(* The steps of a learner that predict                                     *)

\* The thread that predicts still counts for the example it predicts on, and
\* nobody has begun to train on it, or to end it.
LEMMA PredictingOn ==
  ASSUME IInv, NEW t \in Threads, pc[t] = "predict"
  PROVE  LET n == used_index[t]
             s == held[t]
         IN  /\ pc[t] \in InHand /\ ~Behind(t) /\ ~Owes(t) /\ ~Fetches(t)
             /\ ~Completes(t) /\ ~Closes(t)
             /\ s \in Slots /\ s = SlotFor(n) /\ n \in 1 .. parsed_examples
             /\ n \in Nat /\ Released(t) = n - 1 /\ Predicted(t) = n - 1
             /\ t \in Unpredicted(n)
             /\ threads_to_finish[s] = Cardinality(Unpredicted(n))
             /\ ~contents[s].done
             /\ TrainsOn(contents[s].kind) =>
                  \A u \in Threads : Predicted(u) >= n =>
                    used_index[u] = n /\ pc[u] = "wait_sum"
             /\ \A v \in Threads : Completes(v) => count[v] = 0
             /\ \A v \in Threads : Owes(v) => SlotFor(used_index[v]) # s
  <1> DEFINE n == used_index[t]
             s == held[t]
  <1>1. pc[t] \in InHand /\ ~Behind(t)
    BY DEF InHand, IInv, PlaceInv
  <1>2. ~Owes(t) /\ ~Fetches(t) /\ ~Completes(t) /\ ~Closes(t)
    BY <1>1 DEF Owes, Fetches, Completes, Closes
  <1>3. /\ s \in Slots /\ s = SlotFor(n) /\ n \in 1 .. parsed_examples
        /\ n \in Nat /\ Released(t) = n - 1
    BY <1>1, HeldSlot, OwnExample, Ranges
  <1>4. Predicted(t) = n - 1 /\ Predicted(t) < n
    BY <1>3 DEF Predicted, Predicting
  <1> HIDE DEF n, s
  <1>5. t \in Unpredicted(n)
    BY <1>4 DEF Unpredicted
  <1>6. /\ threads_to_finish[s] = Cardinality(Unpredicted(n))
        /\ ~contents[s].done
        /\ TrainsOn(contents[s].kind) =>
             \A u \in Threads : Predicted(u) >= n =>
               used_index[u] = n /\ pc[u] = "wait_sum"
    BY <1>3, <1>4 DEF IInv, PredictInv
  <1>7. ASSUME NEW v \in Threads, Completes(v) PROVE count[v] = 0
    <2>1. v # t /\ pc[t] # "wait_sum"
      BY <1>2, <1>7
    <2> QED BY <1>7, <2>1 DEF IInv, CompleteInv
  <1>8. \A v \in Threads : Owes(v) => SlotFor(used_index[v]) # s
    BY <1>6 DEF IInv, TrainInv
  <1> QED BY <1>1, <1>2, <1>3, <1>4, <1>5, <1>6, <1>7, <1>8 DEF n, s

\* When the last thread predicts on an example that is not trained on, all
\* others are through with it.
LEMMA NobodyWaits ==
  ASSUME IInv, NEW t \in Threads, pc[t] = "predict",
         Unpredicted(used_index[t]) = {t}, ~TrainsOn(contents[held[t]].kind),
         NEW u \in Threads, u # t
  PROVE  Released(u) >= used_index[t]
  <1> DEFINE n == used_index[t]
             s == held[t]
  <1>1. /\ s \in Slots /\ s = SlotFor(n) /\ n \in Nat /\ Released(t) = n - 1
        /\ ~contents[s].done
        /\ \A v \in Threads : Completes(v) => count[v] = 0
        /\ \A v \in Threads : Owes(v) => SlotFor(used_index[v]) # s
    BY PredictingOn
  <1>2. Predicted(u) >= n
    <2>1. u \notin Unpredicted(n)
      OBVIOUS
    <2>2. Predicted(u) \in Nat
      BY Ranges
    <2> QED BY <1>1, <2>1, <2>2 DEF Unpredicted
  <1> SUFFICES ASSUME ~(Released(u) >= n) PROVE FALSE
    OBVIOUS
  <1>3. /\ used_index[u] \in Nat /\ Predicted(u) \in Nat
        /\ Predicted(u) <= used_index[u] /\ Released(u) \in Nat
    BY Ranges
  <1>4. (pc[u] \in InHand \/ Behind(u)) /\ Released(u) = used_index[u] - 1
    <2>1. n \in Nat /\ Released(u) < n
      BY <1>1, <1>3
    <2>2. Released(u) # used_index[u]
      BY <1>2, <1>3, <2>1
    <2> QED BY <2>2, ReleasedInHand
  <1>5. used_index[u] = n
    BY <1>1, <1>2, <1>3, <1>4
  <1> HIDE DEF n
  <1>6. ~Predicting(u)
    BY <1>1, <1>2, <1>3, <1>5 DEF Predicted
  <1>7. ~Owes(u)
    BY <1>1, <1>5
  <1>8. pc[u] \in InHand /\ held[u] = s
    <2>1. pc[u] \in InHand
      BY <1>4, <1>7 DEF Owes
    <2> QED BY <1>1, <1>5, <2>1, HeldSlot
  <1>9. pc[u] # "wait_sum"
    BY <1>8 DEF IInv, WaitInv
  <1>10. ~Completes(u)
    BY <1>1, <1>8 DEF IInv, CompleteInv
  <1>11. ~Closes(u)
    <2> SUFFICES ASSUME Closes(u) PROVE FALSE
      OBVIOUS
    <2>1. Released(t) >= used_index[u]
      BY DEF IInv, CloseInv
    <2> QED BY <1>1, <1>5, <2>1
  <1>12. pc[u] \in {"wait_sum", "delay", "insert", "account", "account_end", "free"}
    <2>1. pc[u] \in LearnerPcs
      BY DEF IInv, TypeInv
    <2>2. pc[u] \notin {"advance", "return"}
      BY <1>7 DEF IInv, PlaceInv, Owes
    <2>3. pc[u] \notin {"use", "clear", "train", "decay", "finish"}
      BY <1>7 DEF Owes
    <2>4. pc[u] \notin {"dispatch", "predict"}
      BY <1>6 DEF Predicting
    <2> QED BY <1>8, <2>1, <2>2, <2>3, <2>4
        DEF InHand, LearnerPcs, GdPcs, RoutinePcs
  <1> QED BY <1>9, <1>10, <1>11, <1>12 DEF Completes, Closes

LEMMA PredictLastStep ==
  ASSUME IInv, NEW t \in Threads, PredictLast(t), UNCHANGED global,
         ~ActiveSimulation
  PROVE  IInv'
  <1> USE DEF delayVars, countVars
  <1> DEFINE n == used_index[t]
             s == held[t]
             e == [contents[s] EXCEPT !.done = TRUE]
             c == IF TrainsOn(contents[s].kind) THEN NumThreads ELSE 0
  <1>1. pc[t] = "predict"
    BY DEF PredictLast
  <1>2. /\ pc[t] \in InHand /\ ~Behind(t) /\ ~Owes(t) /\ ~Fetches(t)
        /\ ~Completes(t) /\ ~Closes(t)
        /\ s \in Slots /\ s = SlotFor(n) /\ n \in 1 .. parsed_examples
        /\ n \in Nat /\ Released(t) = n - 1 /\ Predicted(t) = n - 1
        /\ t \in Unpredicted(n)
        /\ threads_to_finish[s] = Cardinality(Unpredicted(n))
        /\ ~contents[s].done
        /\ TrainsOn(contents[s].kind) =>
             \A u \in Threads : Predicted(u) >= n =>
               used_index[u] = n /\ pc[u] = "wait_sum"
        /\ \A v \in Threads : Completes(v) => count[v] = 0
        /\ \A v \in Threads : Owes(v) => SlotFor(used_index[v]) # s
    BY <1>1, PredictingOn
  <1>3. contents[s] \in Example /\ contents \in [Slots -> Example]
    BY <1>2 DEF IInv, RingInv, RingTypeOK
  <1>4. /\ e \in Example /\ e.counter = contents[s].counter
        /\ e.kind = contents[s].kind /\ e.done
    BY <1>3 DEF Example
  <1>5. /\ ex_lock[s] = Null /\ threads_to_finish[s] = 1
        /\ threads_to_finish' = [threads_to_finish EXCEPT ![s] = @ - 1]
        /\ contents' = [contents EXCEPT ![s] = e]
        /\ count' = [count EXCEPT ![t] = c]
        /\ sent' \in {sent, sent + 1}
        /\ finished_sum' \subseteq finished_sum
        /\ ex_lock' = [ex_lock EXCEPT ![s] = t]
        /\ pc' = [pc EXCEPT ![t] = "delay"]
        /\ UNCHANGED <<in_use, parsed_examples, used_index, done,
                       example_available, aborted, parser_pc, source, delayVars,
                       countVars, crashed, answered, shut, held, index, taker,
                       reg, mine, current_pass, eta_decays, trained, global>>
    <2>1. PICK kind \in LabelAfter(contents[s].kind) :
            /\ contents' = [contents EXCEPT ![s].kind = kind, ![s].done = TRUE]
            /\ count' = [count EXCEPT ![t] =
                           IF TrainsOn(kind) THEN NumThreads ELSE 0]
      BY DEF PredictLast
    <2>2. kind = contents[s].kind
      BY DEF LabelAfter
    <2>3. contents' = [contents EXCEPT ![s] = e]
      <3> DEFINE f == [contents EXCEPT ![s].kind = kind, ![s].done = TRUE]
      <3>1. f[s] = e
        BY <1>2, <1>3, <2>2 DEF Example
      <3>2. \A x \in Slots : x # s => f[x] = contents[x]
        BY <1>2, <1>3
      <3>3. DOMAIN f = Slots /\ f = [x \in Slots |-> f[x]]
        BY <1>3
      <3>4. f = [contents EXCEPT ![s] = e]
        BY <1>2, <1>3, <3>1, <3>2, <3>3
      <3> QED BY <2>1, <3>4
    <2>4. count' = [count EXCEPT ![t] = c]
      BY <2>1, <2>2
    <2> QED BY <2>3, <2>4 DEF PredictLast, Goto, Locked, LastToFinish
  <1>6. s = held[t] /\ n = used_index[t]
        /\ c = IF TrainsOn(contents[s].kind) THEN NumThreads ELSE 0
    OBVIOUS
  <1> HIDE DEF s, n, e, c
  <1>7. UNCHANGED <<used_index, delay_indices, local_index, held, index,
                    in_use, parsed_examples, parser_pc, delay_ring,
                    threads_to_use, mine>>
    BY <1>5
  <1>8. NumThreads \in Nat \ {0} /\ "delay" \in LearnerPcs
    BY RingAssumption DEF LearnerPcs, GdPcs, RoutinePcs
  <1>9. /\ pc' \in [Threads -> LearnerPcs] /\ pc'[t] = "delay"
        /\ \A u \in Threads : Behind(u)' <=> Behind(u)
        /\ \A u \in Threads : u # t =>
             pc'[u] = pc[u] /\ (Completes(u)' <=> Completes(u))
             /\ Predicted(u)' = Predicted(u)
        /\ \A u \in Threads : Released(u)' = Released(u)
        /\ Predicted(t)' = n
        /\ \A u \in Threads : Owes(u)' <=> Owes(u)
        /\ \A u \in Threads : Fetches(u)' <=> Fetches(u)
        /\ \A u \in Threads : Closes(u)' <=> Closes(u)
    <2>1. Released(t)' = n - 1 /\ Predicted(t)' = n /\ ~Owes(t)' /\ ~Fetches(t)'
          /\ ~Closes(t)'
      BY <1>2, <1>5, <1>6, <1>7, <1>8, GoesOn DEF InHand
    <2>2. /\ pc' \in [Threads -> LearnerPcs] /\ pc'[t] = "delay"
          /\ \A u \in Threads : Behind(u)' <=> Behind(u)
          /\ \A u \in Threads : u # t =>
               /\ pc'[u] = pc[u] /\ Released(u)' = Released(u)
               /\ Predicted(u)' = Predicted(u)
               /\ (Owes(u)' <=> Owes(u)) /\ (Fetches(u)' <=> Fetches(u))
               /\ (Completes(u)' <=> Completes(u)) /\ (Closes(u)' <=> Closes(u))
      BY <1>5, <1>7, <1>8, GoesOn
    <2> QED BY <1>2, <2>1, <2>2
  <1>10. \A u \in Threads : Predicted(u) \in Nat /\ Released(u) \in Nat
                            /\ used_index[u] \in Nat /\ Released(u) <= Predicted(u)
    BY Ranges
  <1>11. Unpredicted(n) = {t}
    <2>1. Unpredicted(n) \subseteq Threads
      BY DEF Unpredicted
    <2>2. t \in Unpredicted(n)
      BY <1>2
    <2>3. Cardinality(Unpredicted(n)) <= 1
      <3>1. Cardinality(Unpredicted(n)) = 1
        BY <1>2, <1>5
      <3> QED BY <3>1
    <2> QED BY <2>1, <2>2, <2>3, OnlyThread
  <1>12. \A u \in Threads : u # t => Predicted(u) >= n
    <2> SUFFICES ASSUME NEW u \in Threads, u # t PROVE Predicted(u) >= n
      OBVIOUS
    <2>1. u \notin Unpredicted(n)
      BY <1>11
    <2> QED BY <1>2, <1>10, <2>1 DEF Unpredicted
  <1>13. \A u \in Threads : Predicted(u)' >= Predicted(u) /\ Predicted(u)' >= n
                            /\ Predicted(u)' \in Nat
    <2> SUFFICES ASSUME NEW u \in Threads
                 PROVE  Predicted(u)' >= Predicted(u) /\ Predicted(u)' >= n
                        /\ Predicted(u)' \in Nat
      OBVIOUS
    <2>1. CASE u = t
      BY <1>2, <1>9, <2>1
    <2>2. CASE u # t
      BY <1>9, <1>10, <1>12, <2>2
    <2> QED BY <2>1, <2>2
  <1>14. Owing' = Owing /\ Fetching' = Fetching
    BY <1>9 DEF Owing, Fetching
  <1>15. /\ contents' \in [Slots -> Example] /\ contents'[s] = e
         /\ \A x \in Slots : x # s => contents'[x] = contents[x]
         /\ \A x \in Slots : contents'[x].counter = contents[x].counter
                             /\ contents'[x].kind = contents[x].kind
         /\ threads_to_finish' \in [Slots -> 0 .. NumThreads]
         /\ \A x \in Slots : x # s => threads_to_finish'[x] = threads_to_finish[x]
         /\ ex_lock' \in [Slots -> Threads \cup {Null}] /\ ex_lock'[s] = t
         /\ \A x \in Slots : x # s => ex_lock'[x] = ex_lock[x]
         /\ count' \in [Threads -> {0, NumThreads}] /\ count'[t] = c
         /\ \A u \in Threads : u # t => count'[u] = count[u]
    <2>1. /\ contents' \in [Slots -> Example] /\ contents'[s] = e
          /\ \A x \in Slots : x # s => contents'[x] = contents[x]
      BY <1>2, <1>3, <1>4, <1>5
    <2>2. \A x \in Slots : contents'[x].counter = contents[x].counter
                           /\ contents'[x].kind = contents[x].kind
      BY <1>4, <2>1
    <2>3. /\ threads_to_finish' \in [Slots -> 0 .. NumThreads]
          /\ \A x \in Slots : x # s => threads_to_finish'[x] = threads_to_finish[x]
      <3>1. threads_to_finish \in [Slots -> 0 .. NumThreads]
        BY DEF IInv, BoundInv
      <3>2. threads_to_finish[s] - 1 \in 0 .. NumThreads
        BY <1>5, <1>8
      <3> QED BY <1>2, <1>5, <3>1, <3>2
    <2>4. /\ ex_lock' \in [Slots -> Threads \cup {Null}] /\ ex_lock'[s] = t
          /\ \A x \in Slots : x # s => ex_lock'[x] = ex_lock[x]
      BY <1>2, <1>5 DEF IInv, TypeInv
    <2>5. /\ count' \in [Threads -> {0, NumThreads}] /\ count'[t] = c
          /\ \A u \in Threads : u # t => count'[u] = count[u]
      BY <1>5, <1>6 DEF IInv, TypeInv
    <2> QED BY <2>1, <2>2, <2>3, <2>4, <2>5
  <1>16. RingInv' /\ NoAssertFailure'
    <2>1. threads_to_finish' \in [Slots -> Int]
      BY <1>8, <1>15
    <2> QED BY <1>5, <1>15, <2>1, RingWorker
        DEF IInv, RingInv, RingTypeOK, NoAssertFailure
  <1>17. TypeInv' /\ SettingInv'
    <2>1. sent' \in Nat /\ finished_sum' \subseteq Threads
      BY <1>5 DEF IInv, TypeInv
    <2> QED BY SameSetting, <1>5, <1>9, <1>15, <2>1 DEF IInv, TypeInv
  <1>18. HeldInv' /\ PlaceInv'
    BY <1>2, <1>5, <1>7, <1>8, GoesOnHeld
  <1>19. LiveInv'
    <2> SUFFICES ASSUME NEW k \in 1 .. parsed_examples, NEW v \in Threads,
                        Released(v) < k
                 PROVE  in_use[SlotFor(k)] /\ contents'[SlotFor(k)].counter = k
      BY <1>7, <1>9 DEF LiveInv
    <2> QED BY <1>15, LiveSlots
  <1>20. PredictInv'
    <2> SUFFICES ASSUME NEW k \in 1 .. parsed_examples, NEW v \in Threads,
                        Predicted(v)' < k
        PROVE  /\ threads_to_finish'[SlotFor(k)] = Cardinality(Unpredicted(k)')
               /\ ~contents'[SlotFor(k)].done
               /\ TrainsOn(contents'[SlotFor(k)].kind) =>
                    \A u \in Threads : Predicted(u)' >= k =>
                      used_index[u] = k /\ pc'[u] = "wait_sum"
      BY <1>7 DEF PredictInv
    <2>1. k > n /\ Predicted(v) < k /\ Released(v) < k /\ k \in Nat
      BY <1>2, <1>10, <1>13, Ranges
    <2>2. /\ threads_to_finish[SlotFor(k)] = Cardinality(Unpredicted(k))
          /\ ~contents[SlotFor(k)].done
          /\ TrainsOn(contents[SlotFor(k)].kind) =>
               \A u \in Threads : Predicted(u) >= k =>
                 used_index[u] = k /\ pc[u] = "wait_sum"
      BY <2>1 DEF IInv, PredictInv
    <2>3. SlotFor(k) \in Slots /\ SlotFor(k) # s
      <3>1. SlotFor(k) # SlotFor(n)
        <4>1. Released(t) < n
          BY <1>2
        <4> QED BY <1>2, <2>1, <4>1, DistinctSlots
      <3> QED BY <1>2, <2>1, <3>1, LiveSlots
    <2>4. Unpredicted(k)' = Unpredicted(k)
      <3>1. Predicted(t) < k /\ Predicted(t)' < k
        BY <1>2, <1>9, <2>1
      <3> QED BY <1>9, <3>1 DEF Unpredicted
    <2>5. \A u \in Threads : Predicted(u)' >= k => u # t
      BY <1>2, <1>9, <2>1
    <2> QED BY <1>9, <1>15, <2>2, <2>3, <2>4, <2>5
  <1>21. WaitInv'
    <2> SUFFICES ASSUME NEW u \in Threads, pc'[u] = "wait_sum"
                 PROVE  /\ TrainsOn(contents'[held[u]].kind)
                        /\ ~contents'[held[u]].done => ~Behind(u)
                        /\ contents'[held[u]].done =>
                             Behind(u) \/ \E v \in Threads :
                                            Completes(v)' /\ count'[v] # 0
      BY <1>7, <1>9 DEF WaitInv
    <2>1. u # t /\ pc[u] = "wait_sum"
      BY <1>9
    <2>2. held[u] \in Slots
      BY <2>1, HeldSlot DEF InHand
    <2>3. /\ TrainsOn(contents[held[u]].kind)
          /\ ~contents[held[u]].done => ~Behind(u)
          /\ contents[held[u]].done =>
               Behind(u) \/ \E v \in Threads : Completes(v) /\ count[v] # 0
      BY <2>1 DEF IInv, WaitInv
    <2>4. CASE held[u] = s
      <3>1. c # 0
        BY <1>6, <1>8, <2>3, <2>4
      <3>2. Completes(t)'
        BY <1>9 DEF Completes
      <3> QED BY <1>4, <1>15, <2>3, <2>4, <3>1, <3>2
    <2>5. CASE held[u] # s
      BY <1>2, <1>15, <2>2, <2>3, <2>5
    <2> QED BY <2>4, <2>5
  <1>22. CompleteInv'
    <2> SUFFICES ASSUME NEW v \in Threads, Completes(v)'
        PROVE  /\ ex_lock'[held[v]] = v
               /\ contents'[held[v]].done
               /\ count'[v] = IF TrainsOn(contents'[held[v]].kind) THEN NumThreads ELSE 0
               /\ \A u \in Threads : Predicted(u)' >= used_index[v]
               /\ count'[v] # 0 =>
                    /\ \A u \in Threads : u # v =>
                         pc'[u] = "wait_sum" /\ used_index[u] = used_index[v]
                    /\ \A u \in Threads : ~Owes(u)
               /\ count'[v] = 0 =>
                    /\ pc'[v] = "delay"
                    /\ \A u \in Threads : u # v => Released(u) >= used_index[v]
               /\ pc'[v] = "insert" => index[v] = SlotOf(local_index)
      BY <1>7, <1>9 DEF CompleteInv
    <2>1. CASE v # t
      <3>1. Completes(v) /\ held[v] \in Slots
        BY <1>9, <2>1, HeldSlot DEF Completes, InHand
      <3>2. /\ ex_lock[held[v]] = v /\ contents[held[v]].done /\ count[v] = 0
            /\ count[v] = (IF TrainsOn(contents[held[v]].kind) THEN NumThreads ELSE 0)
            /\ \A u \in Threads : Predicted(u) >= used_index[v]
            /\ pc[v] = "delay"
            /\ \A u \in Threads : u # v => Released(u) >= used_index[v]
        BY <1>2, <3>1 DEF IInv, CompleteInv
      <3>3. held[v] # s
        BY <1>5, <3>2, NoNull
      <3>4. ASSUME NEW u \in Threads PROVE Predicted(u)' >= used_index[v]
        <4>1. Predicted(u) >= used_index[v]
          BY <3>2
        <4> QED BY <1>10, <1>13, <4>1
      <3> QED BY <1>9, <1>15, <2>1, <3>1, <3>2, <3>3, <3>4
    <2>2. CASE v = t
      <3>1. /\ ex_lock'[held[v]] = v /\ contents'[held[v]].done /\ count'[v] = c
            /\ contents'[held[v]].kind = contents[s].kind
        BY <1>2, <1>4, <1>6, <1>15, <2>2
      <3>2. \A u \in Threads : Predicted(u)' >= used_index[v]
        BY <1>6, <1>13, <2>2
      <3>3. ASSUME c # 0
            PROVE  /\ \A u \in Threads : u # v =>
                        pc'[u] = "wait_sum" /\ used_index[u] = used_index[v]
                   /\ \A u \in Threads : ~Owes(u)
        <4>1. TrainsOn(contents[s].kind)
          BY <1>6, <3>3
        <4>2. \A u \in Threads : u # t => used_index[u] = n /\ pc[u] = "wait_sum"
          BY <1>2, <1>12, <4>1
        <4>3. \A u \in Threads : used_index[u] = n
          BY <1>6, <4>2
        <4> QED BY <1>2, <1>6, <1>9, <2>2, <4>2, <4>3
      <3>4. ASSUME c = 0
            PROVE  \A u \in Threads : u # v => Released(u) >= used_index[v]
        <4>1. ~TrainsOn(contents[s].kind)
          BY <1>6, <1>8, <3>4
        <4> QED BY <1>1, <1>6, <1>11, <2>2, <4>1, NobodyWaits
      <3>5. pc'[v] = "delay"
        BY <1>9, <2>2
      <3> QED BY <1>6, <3>1, <3>2, <3>3, <3>4, <3>5
    <2> QED BY <2>1, <2>2
  <1>23. CloseInv'
    BY <1>7, <1>9 DEF IInv, CloseInv
  <1>24. TrainInv'
    <2> SUFFICES ASSUME NEW v \in Threads, Owes(v)
        PROVE  /\ used_index[v] >= 1
               /\ TrainsOn(contents'[SlotFor(used_index[v])].kind)
               /\ contents'[SlotFor(used_index[v])].done
               /\ threads_to_finish'[SlotFor(used_index[v])] = Cardinality(Owing)
               /\ \A u \in Threads : Predicted(u)' >= used_index[v]
               /\ \A u \in Threads : Owes(u) => used_index[u] = used_index[v]
               /\ local_index >= 1
      BY <1>7, <1>9, <1>14 DEF TrainInv
    <2>1. SlotFor(used_index[v]) # s /\ SlotFor(used_index[v]) \in Slots
      BY <1>2, OwnExample
    <2>2. ASSUME NEW u \in Threads PROVE Predicted(u)' >= used_index[v]
      <3>1. Predicted(u) >= used_index[v]
        BY DEF IInv, TrainInv
      <3> QED BY <1>10, <1>13, <3>1
    <2> QED BY <1>15, <2>1, <2>2 DEF IInv, TrainInv
  <1>25. FetchInv'
    <2>1. \A v \in Threads : pc'[v] \in {"advance", "use", "clear"} => pc'[v] = pc[v]
      BY <1>9
    <2> QED BY <1>7, <1>9, <1>14, <2>1 DEF IInv, FetchInv
  <1>26. ClearInv' /\ UnlockInv'
    <2>1. ASSUME NEW v \in Threads, pc'[v] \in {"clear", "unlock"}
          PROVE  pc[v] = pc'[v] /\ ex_lock'[held[v]] = v
      <3>1. v # t /\ pc[v] = pc'[v]
        BY <1>9, <2>1
      <3>2. held[v] \in Slots /\ ex_lock[held[v]] = v
        BY <2>1, <3>1, HeldSlot DEF IInv, ClearInv, UnlockInv, InHand
      <3> QED BY <1>5, <1>15, <3>1, <3>2, NoNull
    <2> QED BY <1>7, <1>9, <2>1 DEF IInv, ClearInv, UnlockInv
  <1>27. DelayRingInv'
    <2>1. \A v \in Threads : pc[v] = "clear" => pc'[v] = "clear"
      BY <1>1, <1>9
    <2> QED BY <1>7, <1>9, <2>1 DEF IInv, DelayRingInv
  <1>28. ParserInv' /\ PublishInv'
    <2>1. \A u \in Threads : Released(u)' >= Released(u) /\ Released(u)' \in Int
      BY <1>9, <1>10
    <2>2. \A x \in Slots : x # held[t] =>
            /\ in_use'[x] = in_use[x]
            /\ contents'[x] = contents[x]
            /\ threads_to_finish'[x] = threads_to_finish[x]
      BY <1>6, <1>7, <1>15
    <2> QED BY <1>2, <1>7, <2>1, <2>2, ParserUnmoved
  <1>29. BoundInv' /\ NoNullDereference'
    BY <1>5, <1>15 DEF IInv, BoundInv, NoNullDereference
  <1> QED BY <1>16, <1>17, <1>18, <1>19, <1>20, <1>21, <1>22, <1>23, <1>24,
             <1>25, <1>26, <1>27, <1>28, <1>29 DEF IInv


\* Not the last one: there is one thread less to wait for.
LEMMA PredictMoreStep ==
  ASSUME IInv, NEW t \in Threads, PredictMore(t), UNCHANGED global
  PROVE  IInv'
  <1> USE DEF delayVars, countVars, netVars, locals
  <1> DEFINE n == used_index[t]
             s == held[t]
             l == IF MustWait(s) THEN "wait_sum" ELSE "peek"
  <1>1. pc[t] = "predict"
    BY DEF PredictMore
  <1>2. /\ pc[t] \in InHand /\ ~Behind(t) /\ ~Owes(t) /\ ~Fetches(t)
        /\ ~Completes(t) /\ ~Closes(t)
        /\ s \in Slots /\ s = SlotFor(n) /\ n \in 1 .. parsed_examples
        /\ n \in Nat /\ Released(t) = n - 1 /\ Predicted(t) = n - 1
        /\ t \in Unpredicted(n)
        /\ threads_to_finish[s] = Cardinality(Unpredicted(n))
        /\ ~contents[s].done
        /\ TrainsOn(contents[s].kind) =>
             \A u \in Threads : Predicted(u) >= n =>
               used_index[u] = n /\ pc[u] = "wait_sum"
        /\ \A v \in Threads : Completes(v) => count[v] = 0
        /\ \A v \in Threads : Owes(v) => SlotFor(used_index[v]) # s
    BY <1>1, PredictingOn
  <1>3. /\ threads_to_finish' = [threads_to_finish EXCEPT ![s] = @ - 1]
        /\ finished_sum' \subseteq finished_sum \cup {t}
        /\ pc' = [pc EXCEPT ![t] = l]
        /\ UNCHANGED <<in_use, contents, parsed_examples, used_index, done,
                       example_available, aborted, parser_pc, source, delayVars,
                       ex_lock, countVars, crashed, netVars, locals, mine,
                       current_pass, eta_decays, trained, global>>
    BY DEF PredictMore, Goto
  <1>4. /\ l \in {"wait_sum", "peek"} /\ l \in LearnerPcs
        /\ l = "wait_sum" <=> TrainsOn(contents[s].kind)
    BY <1>2 DEF MustWait, LearnerPcs, GdPcs
  <1>5. s = held[t] /\ n = used_index[t]
    OBVIOUS
  <1> HIDE DEF s, n, l
  <1>6. UNCHANGED <<used_index, delay_indices, local_index, held, index, count,
                    contents, in_use, parsed_examples, parser_pc, delay_ring,
                    threads_to_use, mine, ex_lock>>
    BY <1>3
  <1>7. /\ pc' \in [Threads -> LearnerPcs] /\ pc'[t] = l
        /\ \A u \in Threads : Behind(u)' <=> Behind(u)
        /\ \A u \in Threads : u # t =>
             pc'[u] = pc[u] /\ Released(u)' = Released(u)
             /\ Predicted(u)' = Predicted(u)
        /\ \A u \in Threads : Released(u)' >= Released(u) /\ Released(u)' \in Nat
        /\ Predicted(t)' = n
        /\ \A u \in Threads : Predicted(u)' >= Predicted(u)
                              /\ Predicted(u)' \in Nat
        /\ \A u \in Threads : Owes(u)' <=> Owes(u)
        /\ \A u \in Threads : Fetches(u)' <=> Fetches(u)
        /\ \A u \in Threads : Completes(u)' <=> Completes(u)
        /\ \A u \in Threads : Closes(u)' <=> Closes(u)
    <2>1. /\ Released(t)' = IF l = "wait_sum" THEN n - 1 ELSE n
          /\ Predicted(t)' = n /\ ~Owes(t)' /\ ~Fetches(t)'
          /\ ~Completes(t)' /\ ~Closes(t)'
      BY <1>2, <1>3, <1>4, <1>5, <1>6, GoesOn DEF InHand
    <2>2. \A u \in Threads : Released(u) \in Nat /\ Predicted(u) \in Nat
      BY Ranges
    <2>3. /\ pc' \in [Threads -> LearnerPcs] /\ pc'[t] = l
          /\ \A u \in Threads : Behind(u)' <=> Behind(u)
          /\ \A u \in Threads : u # t =>
               /\ pc'[u] = pc[u] /\ Released(u)' = Released(u)
               /\ Predicted(u)' = Predicted(u)
               /\ (Owes(u)' <=> Owes(u)) /\ (Fetches(u)' <=> Fetches(u))
               /\ (Completes(u)' <=> Completes(u)) /\ (Closes(u)' <=> Closes(u))
      BY <1>3, <1>4, <1>6, GoesOn
    <2>4. /\ Released(t)' >= Released(t) /\ Released(t)' \in Nat
          /\ Predicted(t)' >= Predicted(t) /\ Predicted(t)' \in Nat
      BY <1>2, <2>1, <2>2
    <2> QED BY <1>2, <2>1, <2>2, <2>3, <2>4
  <1>8. Owing' = Owing /\ Fetching' = Fetching
    BY <1>7 DEF Owing, Fetching
  <1>9. /\ threads_to_finish' \in [Slots -> 0 .. NumThreads]
        /\ threads_to_finish'[s] = Cardinality(Unpredicted(n)) - 1
        /\ \A x \in Slots : x # s => threads_to_finish'[x] = threads_to_finish[x]
    <2>1. threads_to_finish \in [Slots -> 0 .. NumThreads] /\ NumThreads \in Nat
      BY RingAssumption DEF IInv, BoundInv
    <2>2. Unpredicted(n) \subseteq Threads
      BY DEF Unpredicted
    <2>3. Cardinality(Unpredicted(n)) >= 1
      BY <1>2, <2>2, OneThreadLeaves
    <2>4. Cardinality(Unpredicted(n)) \in 0 .. NumThreads
      BY <2>2, SomeThreads
    <2>5. threads_to_finish[s] - 1 \in 0 .. NumThreads
      BY <1>2, <2>1, <2>3, <2>4
    <2> QED BY <1>2, <1>3, <2>1, <2>5
  <1>10. RingInv' /\ NoAssertFailure'
    <2>1. threads_to_finish' \in [Slots -> Int]
      BY <1>9, RingAssumption
    <2> QED BY <1>3, <2>1, RingWorker DEF IInv, RingInv, RingTypeOK, NoAssertFailure
  <1>11. TypeInv' /\ SettingInv'
    <2>1. finished_sum' \subseteq Threads
      BY <1>3 DEF IInv, TypeInv
    <2> QED BY SameSetting, <1>3, <1>7, <2>1 DEF IInv, TypeInv
  <1>12. HeldInv' /\ PlaceInv'
    BY <1>2, <1>3, <1>4, <1>6, GoesOnHeld
  <1>13. LiveInv'
    <2> SUFFICES ASSUME NEW k \in 1 .. parsed_examples, NEW v \in Threads,
                        Released(v)' < k
                 PROVE  in_use[SlotFor(k)] /\ contents[SlotFor(k)].counter = k
      BY <1>6 DEF LiveInv
    <2>1. Released(v) < k
      BY <1>7, Ranges
    <2> QED BY <2>1, LiveSlots
  <1>14. PredictInv'
    <2> SUFFICES ASSUME NEW k \in 1 .. parsed_examples, NEW v \in Threads,
                        Predicted(v)' < k
        PROVE  /\ threads_to_finish'[SlotFor(k)] = Cardinality(Unpredicted(k)')
               /\ ~contents[SlotFor(k)].done
               /\ TrainsOn(contents[SlotFor(k)].kind) =>
                    \A u \in Threads : Predicted(u)' >= k =>
                      used_index[u] = k /\ pc'[u] = "wait_sum"
      BY <1>6 DEF PredictInv
    <2>1. Predicted(v) < k /\ Released(v) < k /\ k \in Nat
      BY <1>7, Ranges
    <2>2. /\ threads_to_finish[SlotFor(k)] = Cardinality(Unpredicted(k))
          /\ ~contents[SlotFor(k)].done
          /\ TrainsOn(contents[SlotFor(k)].kind) =>
               \A u \in Threads : Predicted(u) >= k =>
                 used_index[u] = k /\ pc[u] = "wait_sum"
      BY <2>1 DEF IInv, PredictInv
    <2>3. CASE k = n
      <3>2. Unpredicted(n) \subseteq Threads
        BY DEF Unpredicted
      <3>3. Cardinality(Unpredicted(n) \ {t}) = Cardinality(Unpredicted(n)) - 1
        BY <1>2, <3>2, OneThreadLeaves
      <3>4. ASSUME TrainsOn(contents[s].kind), NEW u \in Threads, Predicted(u)' >= n
            PROVE  used_index[u] = n /\ pc'[u] = "wait_sum"
        <4>1. CASE u = t
          BY <1>4, <1>5, <1>7, <3>4, <4>1
        <4>2. CASE u # t
          BY <1>2, <1>7, <3>4, <4>2
        <4> QED BY <4>1, <4>2
      <3>5. Unpredicted(k)' = Unpredicted(n) \ {t}
        <4>1. Unpredicted(k)' = {u \in Threads : Predicted(u)' < n}
          BY <2>3 DEF Unpredicted
        <4>2. ~(Predicted(t)' < n)
          BY <1>2, <1>7
        <4> QED BY <1>7, <4>1, <4>2 DEF Unpredicted
      <3> QED BY <1>2, <1>9, <2>2, <2>3, <3>3, <3>4, <3>5
    <2>4. CASE k # n
      <3>1. SlotFor(k) \in Slots /\ SlotFor(k) # s
        <4>1. Released(t) < n
          BY <1>2
        <4>2. SlotFor(k) # SlotFor(n)
          BY <1>2, <2>1, <2>4, <4>1, DistinctSlots
        <4> QED BY <1>2, <2>1, <4>2, LiveSlots
      <3>2. Predicted(t)' < k <=> Predicted(t) < k
        BY <1>2, <1>7, <2>1, <2>4
      <3>3. Unpredicted(k)' = Unpredicted(k)
        BY <1>7, <3>2 DEF Unpredicted
      <3>4. ASSUME TrainsOn(contents[SlotFor(k)].kind), NEW u \in Threads,
                   Predicted(u)' >= k
            PROVE  used_index[u] = k /\ pc'[u] = "wait_sum"
        <4>1. CASE u = t
          <5>1. Predicted(t) >= k
            BY <1>2, <1>7, <2>1, <2>4, <3>4, <4>1
          <5> QED BY <1>1, <2>2, <3>4, <5>1
        <4>2. CASE u # t
          BY <1>7, <2>2, <3>4, <4>2
        <4> QED BY <4>1, <4>2
      <3> QED BY <1>9, <2>2, <3>1, <3>3, <3>4
    <2> QED BY <2>3, <2>4
  <1>15. WaitInv'
    <2> SUFFICES ASSUME NEW u \in Threads, pc'[u] = "wait_sum"
                 PROVE  /\ TrainsOn(contents[held[u]].kind)
                        /\ ~contents[held[u]].done => ~Behind(u)
                        /\ contents[held[u]].done =>
                             Behind(u) \/ \E v \in Threads :
                                            Completes(v) /\ count[v] # 0
      BY <1>6, <1>7 DEF WaitInv
    <2>1. CASE u = t
      BY <1>2, <1>4, <1>5, <1>7, <2>1
    <2>2. CASE u # t
      BY <1>7, <2>2 DEF IInv, WaitInv
    <2> QED BY <2>1, <2>2
  <1>16. CompleteInv'
    <2> SUFFICES ASSUME NEW v \in Threads, Completes(v)
        PROVE  /\ ex_lock[held[v]] = v
               /\ contents[held[v]].done
               /\ count[v] = IF TrainsOn(contents[held[v]].kind) THEN NumThreads ELSE 0
               /\ \A u \in Threads : Predicted(u)' >= used_index[v]
               /\ count[v] # 0 =>
                    /\ \A u \in Threads : u # v =>
                         pc'[u] = "wait_sum" /\ used_index[u] = used_index[v]
                    /\ \A u \in Threads : ~Owes(u)
               /\ count[v] = 0 =>
                    /\ pc'[v] = "delay"
                    /\ \A u \in Threads : u # v => Released(u)' >= used_index[v]
               /\ pc'[v] = "insert" => index[v] = SlotOf(local_index)
      BY <1>6, <1>7 DEF CompleteInv
    <2>1. v # t /\ count[v] = 0
      BY <1>2
    <2>2. used_index[v] \in Nat
      BY Ranges
    <2>3. ASSUME NEW u \in Threads PROVE Predicted(u)' >= used_index[v]
      <3>1. Predicted(u) >= used_index[v] /\ Predicted(u) \in Nat
        BY Ranges DEF IInv, CompleteInv
      <3> QED BY <1>7, <2>2, <3>1
    <2>4. ASSUME NEW u \in Threads, u # v PROVE Released(u)' >= used_index[v]
      <3>1. Released(u) >= used_index[v] /\ Released(u) \in Nat
        BY <2>1, <2>4, Ranges DEF IInv, CompleteInv
      <3> QED BY <1>7, <2>2, <3>1
    <2> QED BY <1>7, <2>1, <2>3, <2>4 DEF IInv, CompleteInv
  <1>17. CloseInv'
    <2> SUFFICES ASSUME NEW v \in Threads, Closes(v), NEW u \in Threads, u # v
                 PROVE  Released(u)' >= used_index[v]
      BY <1>6, <1>7 DEF CloseInv
    <2>1. Released(u) \in Nat /\ used_index[v] \in Nat
      BY Ranges
    <2>2. Released(u) >= used_index[v]
      BY DEF IInv, CloseInv
    <2> QED BY <1>7, <2>1, <2>2
  <1>18. TrainInv'
    <2> SUFFICES ASSUME NEW v \in Threads, Owes(v)
        PROVE  /\ used_index[v] >= 1
               /\ TrainsOn(contents[SlotFor(used_index[v])].kind)
               /\ contents[SlotFor(used_index[v])].done
               /\ threads_to_finish'[SlotFor(used_index[v])] = Cardinality(Owing)
               /\ \A u \in Threads : Predicted(u)' >= used_index[v]
               /\ \A u \in Threads : Owes(u) => used_index[u] = used_index[v]
               /\ local_index >= 1
      BY <1>6, <1>7, <1>8 DEF TrainInv
    <2>1. SlotFor(used_index[v]) # s /\ SlotFor(used_index[v]) \in Slots
      BY <1>2, OwnExample
    <2>2. ASSUME NEW u \in Threads PROVE Predicted(u)' >= used_index[v]
      <3>1. /\ Predicted(u) >= used_index[v]
            /\ Predicted(u) \in Nat /\ used_index[v] \in Nat
        BY Ranges DEF IInv, TrainInv
      <3> QED BY <1>7, <3>1
    <2> QED BY <1>9, <2>1, <2>2 DEF IInv, TrainInv
  <1>19. FetchInv'
    <2>1. \A v \in Threads : pc'[v] \in {"advance", "use", "clear"} => pc'[v] = pc[v]
      BY <1>4, <1>7
    <2> QED BY <1>6, <1>7, <1>8, <2>1 DEF IInv, FetchInv
  <1>20. ClearInv' /\ UnlockInv'
    <2>1. \A v \in Threads : pc'[v] \in {"clear", "unlock"} => pc'[v] = pc[v]
      BY <1>4, <1>7
    <2> QED BY <1>6, <1>7, <2>1 DEF IInv, ClearInv, UnlockInv
  <1>21. DelayRingInv'
    <2>1. \A v \in Threads : pc[v] = "clear" => pc'[v] = "clear"
      BY <1>1, <1>7
    <2> QED BY <1>6, <1>7, <2>1 DEF IInv, DelayRingInv
  <1>22. ParserInv' /\ PublishInv'
    <2>1. \A u \in Threads : Released(u)' >= Released(u) /\ Released(u)' \in Int
      BY <1>7
    <2> QED BY <1>2, <1>5, <1>6, <1>9, <2>1, ParserUnmoved
  <1>23. BoundInv' /\ NoNullDereference'
    BY <1>3, <1>9 DEF IInv, BoundInv, NoNullDereference
  <1> QED BY <1>10, <1>11, <1>12, <1>13, <1>14, <1>15, <1>16, <1>17, <1>18,
             <1>19, <1>20, <1>21, <1>22, <1>23 DEF IInv

-----------------------------------------------------------------------------
(* The steps of the parser                                                 *)

\* What the parser leaves alone.
Idle ==
  /\ UNCHANGED <<delayVars, ex_lock, countVars, crashed, netVars, locals, pc,
                 gdVars, global>>
  /\ UNCHANGED <<used_index, aborted>>

\* Every example that is still needed stays what it is.
Kept ==
  \A k \in 1 .. parsed_examples : \A t \in Threads : Released(t) < k =>
    /\ in_use'[SlotFor(k)]
    /\ contents'[SlotFor(k)] = contents[SlotFor(k)]
    /\ threads_to_finish'[SlotFor(k)] = threads_to_finish[SlotFor(k)]

\* The parser moves nobody.
LEMMA NobodyMoves ==
  ASSUME Idle
  PROVE  /\ UNCHANGED <<used_index, delay_indices, local_index, held, index,
                        count, delay_ring, threads_to_use, mine, ex_lock, pc>>
         /\ \A t \in Threads :
              /\ Released(t)' = Released(t) /\ Predicted(t)' = Predicted(t)
              /\ Behind(t)' <=> Behind(t)
              /\ (Owes(t)' <=> Owes(t)) /\ (Fetches(t)' <=> Fetches(t))
              /\ (Completes(t)' <=> Completes(t)) /\ (Closes(t)' <=> Closes(t))
         /\ \A k : Unpredicted(k)' = Unpredicted(k)
         /\ Owing' = Owing /\ Fetching' = Fetching
  <1>1. UNCHANGED <<used_index, delay_indices, local_index, held, index,
                    count, delay_ring, threads_to_use, mine, ex_lock, pc>>
    BY DEF Idle, delayVars, locals, gdVars
  <1>2. \A t \in Threads :
              /\ Released(t)' = Released(t) /\ Predicted(t)' = Predicted(t)
              /\ Behind(t)' <=> Behind(t)
              /\ (Owes(t)' <=> Owes(t)) /\ (Fetches(t)' <=> Fetches(t))
    BY <1>1 DEF Released, Predicted, Predicting, Behind, Owes, Fetches
  <1>3. \A t \in Threads :
          /\ (Completes(t)' <=> Completes(t)) /\ (Closes(t)' <=> Closes(t))
    BY <1>1 DEF Completes, Closes
  <1> QED BY <1>1, <1>2, <1>3 DEF Unpredicted, Owing, Fetching

\* Nothing changes for the learners when what they need is kept.
LEMMA KeptForLearners ==
  ASSUME IInv, Idle, Kept
  PROVE  /\ SettingInv' /\ TypeInv' /\ HeldInv' /\ PlaceInv' /\ WaitInv'
         /\ CompleteInv' /\ CloseInv' /\ TrainInv' /\ FetchInv' /\ ClearInv'
         /\ UnlockInv' /\ DelayRingInv' /\ NoAssertFailure' /\ NoNullDereference'
  <1>1. /\ UNCHANGED <<used_index, delay_indices, local_index, held, index,
                       count, delay_ring, threads_to_use, mine, ex_lock, pc>>
        /\ \A t \in Threads :
             /\ Released(t)' = Released(t) /\ Predicted(t)' = Predicted(t)
             /\ Behind(t)' <=> Behind(t)
             /\ (Owes(t)' <=> Owes(t)) /\ (Fetches(t)' <=> Fetches(t))
             /\ (Completes(t)' <=> Completes(t)) /\ (Closes(t)' <=> Closes(t))
        /\ Owing' = Owing /\ Fetching' = Fetching
    BY NobodyMoves
  <1>2. \A t \in Threads : pc[t] \in InHand \/ Owes(t) =>
          /\ contents'[SlotFor(used_index[t])] = contents[SlotFor(used_index[t])]
          /\ threads_to_finish'[SlotFor(used_index[t])]
               = threads_to_finish[SlotFor(used_index[t])]
    BY OwnExample DEF Kept
  <1>3. \A t \in Threads : pc[t] \in InHand => contents'[held[t]] = contents[held[t]]
    BY <1>2, HeldSlot
  <1>4. SettingInv' /\ TypeInv'
    BY SameSetting DEF IInv, TypeInv, Idle, delayVars, countVars, netVars,
                       locals, gdVars
  <1>5. HeldInv' /\ PlaceInv'
    BY <1>1 DEF IInv, HeldInv, PlaceInv, SlotFor
  <1>6. WaitInv'
    <2>1. \A t \in Threads : pc[t] = "wait_sum" => contents'[held[t]] = contents[held[t]]
      BY <1>3 DEF InHand
    <2> QED BY <1>1, <2>1 DEF IInv, WaitInv
  <1>7. CompleteInv'
    <2>1. \A t \in Threads : Completes(t) => contents'[held[t]] = contents[held[t]]
      BY <1>3 DEF Completes, InHand
    <2> QED BY <1>1, <2>1 DEF IInv, CompleteInv
  <1>8. CloseInv'
    BY <1>1 DEF IInv, CloseInv
  <1>9. TrainInv'
    BY <1>1, <1>2 DEF IInv, TrainInv
  <1>10. FetchInv' /\ ClearInv' /\ UnlockInv' /\ DelayRingInv'
    BY <1>1 DEF IInv, FetchInv, ClearInv, UnlockInv, DelayRingInv
  <1>11. NoAssertFailure' /\ NoNullDereference'
    BY DEF IInv, NoAssertFailure, NoNullDereference, Idle
  <1> QED BY <1>4, <1>5, <1>6, <1>7, <1>8, <1>9, <1>10, <1>11

\* Nothing changes at all when nothing is published.
LEMMA KeptStep ==
  ASSUME IInv, Idle, Kept, UNCHANGED parsed_examples,
         RingInv', ParserInv', PublishInv', BoundInv'
  PROVE  IInv'
  <1>1. /\ pc' = pc /\ used_index' = used_index
        /\ \A t \in Threads : /\ Released(t)' = Released(t)
                              /\ Predicted(t)' = Predicted(t)
        /\ \A k : Unpredicted(k)' = Unpredicted(k)
    BY NobodyMoves
  <1>2. LiveInv'
    BY <1>1 DEF IInv, LiveInv, Kept
  <1>3. PredictInv'
    <2> SUFFICES ASSUME NEW k \in 1 .. parsed_examples, NEW v \in Threads,
                        Predicted(v) < k
        PROVE  /\ threads_to_finish'[SlotFor(k)] = Cardinality(Unpredicted(k))
               /\ ~contents'[SlotFor(k)].done
               /\ TrainsOn(contents'[SlotFor(k)].kind) =>
                    \A u \in Threads : Predicted(u) >= k =>
                      used_index[u] = k /\ pc[u] = "wait_sum"
      BY <1>1 DEF PredictInv
    <2>1. Released(v) < k
      BY Ranges
    <2>2. /\ contents'[SlotFor(k)] = contents[SlotFor(k)]
          /\ threads_to_finish'[SlotFor(k)] = threads_to_finish[SlotFor(k)]
      BY <2>1 DEF Kept
    <2> QED BY <2>2 DEF IInv, PredictInv
  <1> QED BY <1>2, <1>3, KeptForLearners DEF IInv

\* The slot of the parser is free: everybody is through with what it held.
LEMMA FreeSlotRoom ==
  ASSUME IInv, SlotIsFree
  PROVE  \A t \in Threads : parsed_examples - Released(t) < RingSize
  <1> SUFFICES ASSUME NEW t \in Threads,
                      ~(parsed_examples - Released(t) < RingSize)
               PROVE  FALSE
    OBVIOUS
  <1> DEFINE k == parsed_examples - RingSize + 1
  <1>1. Released(t) \in Nat /\ parsed_examples \in Nat
    BY Ranges
  <1>2. RingSize \in Nat \ {0}
    BY RingAssumption
  <1>3. k \in 1 .. parsed_examples /\ Released(t) < k
        /\ k - 1 = parsed_examples - RingSize /\ parsed_examples >= RingSize
    BY <1>1, <1>2
  <1>4. SlotFor(k) = ParserSlot
    BY <1>1, <1>3, SlotAgain DEF ParserSlot, SlotFor
  <1>5. in_use[SlotFor(k)]
    BY <1>3, LiveSlots
  <1> QED BY <1>4, <1>5 DEF SlotIsFree

\* While the parser works on its slot nothing that is needed is in there.
LEMMA ParserAlone ==
  ASSUME IInv, parser_pc \in {"parse", "publish", "set_done", "release"},
         NEW k \in 1 .. parsed_examples, NEW t \in Threads, Released(t) < k
  PROVE  SlotFor(k) \in Slots /\ SlotFor(k) # ParserSlot /\ in_use[SlotFor(k)]
  BY LiveSlots, ParserSlotClear DEF IInv, ParserInv

LEMMA ParserIdle ==
  ASSUME IInv, Parser, UNCHANGED aborted, UNCHANGED used_index PROVE Idle
  BY DEF Parser, Idle

LEMMA ParserSlotIn == ASSUME IInv PROVE ParserSlot \in Slots
  BY SlotRange DEF ParserSlot, IInv, RingInv, RingTypeOK

\* Steps that touch no slot.
LEMMA SlotsUntouched ==
  ASSUME IInv, Idle, RingInv',
         UNCHANGED <<in_use, contents, threads_to_finish, parsed_examples>>,
         parser_pc # "publish", parser_pc' # "publish",
         parser_pc' \in {"parse", "publish", "set_done", "release"} =>
           parser_pc \in {"parse", "publish", "set_done", "release"}
  PROVE  IInv'
  <1>1. Kept
    BY LiveSlots DEF Kept
  <1>2. ParserInv' /\ PublishInv'
    <2>1. \A t \in Threads : Released(t)' = Released(t)
      BY NobodyMoves
    <2> QED BY <2>1 DEF IInv, ParserInv, PublishInv, ParserSlot
  <1>3. BoundInv'
    BY NobodyMoves DEF IInv, BoundInv
  <1> QED BY <1>1, <1>2, <1>3, KeptStep

LEMMA GetUnusedStep ==
  ASSUME IInv, Idle, RingInv', GetUnusedExample
  PROVE  IInv'
  <1> USE DEF GetUnusedExample
  <1>1. ParserSlot \in Slots /\ ParserSlot' = ParserSlot
    BY ParserSlotIn DEF ParserSlot
  <1>2. in_use \in [Slots -> BOOLEAN]
    BY DEF IInv, RingInv, RingTypeOK
  <1>3. in_use'[ParserSlot] /\ \A s \in Slots : in_use[s] => in_use'[s]
    BY <1>1, <1>2
  <1>4. Kept
    BY <1>3, LiveSlots DEF Kept
  <1>5. \A t \in Threads : Released(t)' = Released(t)
    BY NobodyMoves
  <1>6. ParserInv' /\ PublishInv'
    BY <1>1, <1>3, <1>5, FreeSlotRoom DEF ParserInv, PublishInv
  <1>7. BoundInv'
    BY NobodyMoves DEF IInv, BoundInv
  <1> QED BY <1>4, <1>6, <1>7, KeptStep

LEMMA ParseStep ==
  ASSUME IInv, Idle, RingInv', ParseExample, "save" \notin Kinds
  PROVE  IInv'
  <1> DEFINE e == contents'[ParserSlot]
  <1>1. /\ ParserSlot \in Slots
        /\ e.counter = parsed_examples + 1
        /\ e.done = FALSE
        /\ contents' = [contents EXCEPT ![ParserSlot] = e]
    BY ParsedExample DEF IInv
  <1>2. /\ parser_pc = "parse" /\ parser_pc' = "publish"
        /\ threads_to_finish' = [threads_to_finish EXCEPT ![ParserSlot] = NumThreads]
        /\ UNCHANGED <<in_use, parsed_examples>>
    BY DEF ParseExample, ThreadsPerExample
  <1> HIDE DEF e
  <1>3. contents \in [Slots -> Example]
        /\ threads_to_finish \in [Slots -> 0 .. NumThreads]
        /\ NumThreads \in 0 .. NumThreads
    BY RingAssumption DEF IInv, RingInv, RingTypeOK, BoundInv
  <1>4. /\ contents'[ParserSlot] = e
        /\ threads_to_finish'[ParserSlot] = NumThreads
        /\ \A s \in Slots : s # ParserSlot =>
             /\ contents'[s] = contents[s]
             /\ threads_to_finish'[s] = threads_to_finish[s]
    BY <1>1, <1>2, <1>3
  <1>5. Kept
    BY <1>2, <1>4, ParserAlone DEF Kept
  <1>6. ParserSlot' = ParserSlot
    BY <1>2 DEF ParserSlot
  <1>7. ParserInv' /\ PublishInv'
    <2>1. \A t \in Threads : Released(t)' = Released(t)
      BY NobodyMoves
    <2> QED BY <1>1, <1>2, <1>4, <1>6, <2>1 DEF IInv, ParserInv, PublishInv
  <1>8. BoundInv'
    <2>1. threads_to_finish' \in [Slots -> 0 .. NumThreads]
      BY <1>1, <1>2, <1>3
    <2>2. threads_to_use' = threads_to_use
      BY NobodyMoves
    <2> QED BY <2>1, <2>2 DEF IInv, BoundInv
  <1> QED BY <1>2, <1>5, <1>7, <1>8, KeptStep

\* A published example is one that nobody has predicted.
LEMMA PublishStep ==
  ASSUME IInv, Idle, RingInv', Publish
  PROVE  IInv'
  <1> USE DEF Publish
  <1> DEFINE n == parsed_examples + 1
  <1>1. parsed_examples \in Nat /\ parsed_examples' = n
    BY DEF IInv, RingInv, RingTypeOK
  <1>2. /\ in_use[SlotFor(n)] /\ contents[SlotFor(n)].counter = n
        /\ ~contents[SlotFor(n)].done
        /\ threads_to_finish[SlotFor(n)] = NumThreads
    <2>1. SlotFor(n) = ParserSlot
      BY <1>1 DEF SlotFor, ParserSlot
    <2> QED BY <2>1 DEF IInv, ParserInv, PublishInv
  <1>3. Kept
    BY LiveSlots DEF Kept
  <1>4. /\ pc' = pc /\ used_index' = used_index
        /\ \A t \in Threads : /\ Released(t)' = Released(t)
                              /\ Predicted(t)' = Predicted(t)
        /\ \A k : Unpredicted(k)' = Unpredicted(k)
    BY NobodyMoves
  <1>5. /\ in_use' = in_use /\ contents' = contents
        /\ threads_to_finish' = threads_to_finish
    OBVIOUS
  <1>6. ParserInv' /\ PublishInv' /\ BoundInv'
    BY NobodyMoves DEF IInv, ParserInv, PublishInv, BoundInv
  <1> HIDE DEF n, Publish
  <1>7. \A k \in 1 .. n : k = n \/ k \in 1 .. parsed_examples
    BY <1>1 DEF n
  <1>8. LiveInv'
    <2> SUFFICES ASSUME NEW k \in 1 .. n, NEW t \in Threads, Released(t) < k
                 PROVE  in_use[SlotFor(k)] /\ contents[SlotFor(k)].counter = k
      BY <1>1, <1>4, <1>5 DEF LiveInv
    <2> QED BY <1>2, <1>7, LiveSlots
  <1>9. PredictInv'
    <2> SUFFICES ASSUME NEW k \in 1 .. n, NEW v \in Threads, Predicted(v) < k
        PROVE  /\ threads_to_finish[SlotFor(k)] = Cardinality(Unpredicted(k))
               /\ ~contents[SlotFor(k)].done
               /\ TrainsOn(contents[SlotFor(k)].kind) =>
                    \A u \in Threads : Predicted(u) >= k =>
                      used_index[u] = k /\ pc[u] = "wait_sum"
      BY <1>1, <1>4, <1>5 DEF PredictInv
    <2>1. CASE k = n
      <3>1. \A u \in Threads : Predicted(u) < n
        <4> SUFFICES ASSUME NEW u \in Threads PROVE Predicted(u) < n
          OBVIOUS
        <4> QED BY Ranges DEF n
      <3>2. Unpredicted(n) = Threads
        BY <3>1 DEF Unpredicted
      <3>3. Cardinality(Unpredicted(n)) = NumThreads
        BY <3>2, ThreadCount
      <3>4. \A u \in Threads : ~(Predicted(u) >= n)
        <4> SUFFICES ASSUME NEW u \in Threads PROVE ~(Predicted(u) >= n)
          OBVIOUS
        <4> QED BY Ranges DEF n
      <3> QED BY <1>2, <2>1, <3>3, <3>4
    <2>2. CASE k # n
      BY <1>7, <2>2 DEF IInv, PredictInv
    <2> QED BY <2>1, <2>2
  <1> QED BY <1>3, <1>6, <1>8, <1>9, KeptForLearners DEF IInv

LEMMA ReleaseSlotStep ==
  ASSUME IInv, Idle, RingInv', ReleaseSlot
  PROVE  IInv'
  <1> USE DEF ReleaseSlot
  <1>1. ParserSlot \in Slots /\ in_use \in [Slots -> BOOLEAN]
    BY ParserSlotIn DEF IInv, RingInv, RingTypeOK
  <1>2. \A s \in Slots : s # ParserSlot => in_use'[s] = in_use[s]
    BY <1>1
  <1>3. Kept
    BY <1>2, ParserAlone DEF Kept
  <1>4. ParserInv' /\ PublishInv' /\ BoundInv'
    BY NobodyMoves DEF IInv, ParserInv, PublishInv, BoundInv
  <1> QED BY <1>3, <1>4, KeptStep

LEMMA ParserIInv ==
  ASSUME IInv, Parser, "save" \notin Kinds
  PROVE  IInv'
  <1>1. ParserStep /\ RingInv'
    BY RingParser DEF Parser, IInv
  <1>2. CASE GetUnusedExample
    BY <1>1, <1>2, GetUnusedStep, ParserIdle DEF GetUnusedExample
  <1>3. CASE WaitForUnused
    BY <1>1, <1>3, SlotsUntouched, ParserIdle DEF WaitForUnused, shared
  <1>4. CASE ParseExample
    BY <1>1, <1>4, ParseStep, ParserIdle DEF ParseExample
  <1>5. CASE Publish
    BY <1>1, <1>5, PublishStep, ParserIdle DEF Publish
  <1>6. CASE EndPass
    BY <1>1, <1>6, SlotsUntouched, ParserIdle DEF EndPass, shared
  <1>7. CASE SetDone
    BY <1>1, <1>7, SlotsUntouched, ParserIdle DEF SetDone
  <1>8. CASE ReleaseSlot
    BY <1>1, <1>8, ReleaseSlotStep, ParserIdle DEF ReleaseSlot
  <1> QED BY <1>1, <1>2, <1>3, <1>4, <1>5, <1>6, <1>7, <1>8 DEF ParserStep

-----------------------------------------------------------------------------
(* The invariant                                                           *)

\* A step that changes nothing.
LEMMA StutterIInv ==
  ASSUME IInv, UNCHANGED vars PROVE IInv'
  <1> USE DEF vars, ringVars, shared, source, delayVars, countVars, netVars,
              locals, gdVars
  <1>1. Idle /\ parser_pc' = parser_pc
    BY DEF Idle
  <1>2. Kept
    BY LiveSlots DEF Kept
  <1>3. RingInv'
    BY RingStill DEF IInv, RingInv, RingTypeOK
  <1>4. ParserInv' /\ PublishInv' /\ BoundInv'
    <2>1. \A t \in Threads : Released(t)' = Released(t)
      BY <1>1, NobodyMoves
    <2> QED BY <2>1 DEF IInv, ParserInv, PublishInv, BoundInv, ParserSlot
  <1> QED BY <1>1, <1>2, <1>3, <1>4, KeptStep

LEMMA RoutineIInv ==
  ASSUME IInv, NEW t \in Threads, RoutineStep(t), UNCHANGED gdVars,
         UNCHANGED global
  PROVE  IInv'
  <1>1. CASE ReturnExample(t)
    BY <1>1, ReturnStep
  <1>2. CASE Advance(t)
    BY <1>2, AdvanceStep
  <1>3. CASE UseReturned(t)
    BY <1>3, UseStep
  <1>4. CASE ClearSlot(t)
    BY <1>4, ClearStep
  <1>5. CASE DelayExample(t)
    BY <1>5, DelayStep
  <1>6. CASE InsertExample(t)
    BY <1>6, InsertStep
  <1>7. CASE SkipForAll(t)
    BY <1>7 DEF SkipForAll, IInv, TypeInv, LearnerPcs
  <1>8. CASE FinishExample(t)
    BY <1>8, FinishStep
  <1>9. CASE AccountBegin(t) \/ AccountEnd(t)
    BY <1>9, AccountStep
  <1>10. CASE Free(t)
    BY <1>10, FreeStep
  <1> QED BY <1>1, <1>2, <1>3, <1>4, <1>5, <1>6, <1>7, <1>8, <1>9, <1>10
          DEF RoutineStep

LEMMA LearnerIInv ==
  ASSUME IInv, NEW t \in Threads, Learner(t), ~ActiveSimulation
  PROVE  IInv'
  <1>1. UNCHANGED global /\ LearnerStep(t)
    BY DEF Learner
  <1>2. CASE RoutineStep(t) /\ UNCHANGED gdVars
    BY <1>1, <1>2, RoutineIInv
  <1>3. CASE Peek(t)
    BY <1>1, <1>3, PeekStep
  <1>4. CASE GetDelayExample(t)
    BY <1>1, <1>4, GetDelayStep
  <1>5. CASE GetGlobalExample(t) \/ AwaitGlobal(t)
    BY <1>5 DEF GetGlobalExample, AwaitGlobal, IInv, TypeInv, LearnerPcs
  <1>6. CASE Train(t)
    BY <1>1, <1>6, TrainStep
  <1>7. CASE Decay(t)
    BY <1>1, <1>7, DecayStep
  <1>8. CASE Take(t)
    BY <1>1, <1>8, TakeStep
  <1>9. CASE Await(t) \/ Woken(t) \/ NothingLeft(t)
    BY <1>1, <1>9, WaitingStep
  <1>10. CASE Dispatch(t)
    BY <1>1, <1>10, DispatchStep
  <1>11. CASE PredictLast(t)
    BY <1>1, <1>11, PredictLastStep
  <1>12. CASE PredictMore(t)
    BY <1>1, <1>12, PredictMoreStep
  <1>13. CASE Summed(t)
    BY <1>1, <1>13, SummedStep
  <1>14. CASE Unlock(t)
    BY <1>1, <1>14, UnlockStep
  <1>15. CASE CheckDone(t) \/ Scan(t) \/ Leave(t)
    BY <1>1, <1>15, DoneStep
  <1> QED BY <1>1, <1>2, <1>3, <1>4, <1>5, <1>6, <1>7, <1>8, <1>9, <1>10,
             <1>11, <1>12, <1>13, <1>14, <1>15 DEF LearnerStep

LEMMA NextIInv ==
  ASSUME IInv, [Next]_vars, "save" \notin Kinds, ~ActiveSimulation
  PROVE  IInv'
  <1>1. CASE Parser
    BY <1>1, ParserIInv
  <1>2. ASSUME NEW t \in Threads, Learner(t) PROVE IInv'
    BY <1>2, LearnerIInv
  <1>3. CASE RelayThread
    BY <1>3 DEF RelayThread, IInv, SettingInv
  <1>4. CASE UNCHANGED vars
    BY <1>4, StutterIInv
  <1> QED BY <1>1, <1>2, <1>3, <1>4 DEF Next, Joined

\* What the learner threads of gd.cc keep true together: without a relay, a
\* "save" example or a simulated active learner, IInv holds in every state.
THEOREM Invariance ==
  ASSUME \A g \in Globals : NoRelay(g), "save" \notin Kinds, ~ActiveSimulation
  PROVE  Spec => []IInv
  <1>1. Init => IInv
    BY InitIInv
  <1>2. IInv /\ [Next]_vars => IInv'
    BY NextIInv
  <1> QED BY <1>1, <1>2, PTL DEF Spec

-----------------------------------------------------------------------------
(* What follows from it                                                    *)

LEMMA TypeFollows == IInv => TypeOK
  <1> SUFFICES ASSUME IInv PROVE TypeOK
    OBVIOUS
  <1>1. Actors = Threads /\ Threads \subseteq Takers
    BY NoRelaySetting DEF IInv
  <1>2. NumThreads \in Nat \ {0}
    BY RingAssumption
  <1>3. 0 .. NumThreads \subseteq 0 .. 2 * NumThreads + 1
    BY <1>2
  <1>4. /\ threads_to_finish \in [Slots -> 0 .. 2 * NumThreads + 1]
        /\ threads_to_use \in [Slots -> 0 .. 2 * NumThreads + 1]
    BY <1>3 DEF IInv, BoundInv
  <1>5. RingTypeOK
    BY DEF IInv, RingInv
  <1>6. /\ pc \in [Actors -> GdPcs \cup RelayPcs]
        /\ Mesg = 0
        /\ held \in [Actors -> Slots \cup {Null}]
        /\ index \in [Actors -> Slots]
        /\ taker \in [Actors -> Takers]
        /\ count \in [Actors -> {0, NumThreads}]
        /\ reg \in [Actors -> Nat]
        /\ delay_nonempty \subseteq Actors
        /\ ex_lock \in [Slots -> Actors \cup {Null}]
        /\ delay_lock \in Actors \cup {Null}
    BY <1>1 DEF IInv, TypeInv, SettingInv, LearnerPcs
  <1>7. answered \in 0 .. sent /\ sent \in Nat
    BY DEF IInv, TypeInv
  <1> QED BY <1>4, <1>5, <1>6, <1>7 DEF TypeOK, IInv, TypeInv

\* Every variable keeps to the values the code can give it: threads_to_finish
\* and threads_to_use, unsigned in the code, never run below zero.
THEOREM TypeCorrect ==
  ASSUME \A g \in Globals : NoRelay(g), "save" \notin Kinds, ~ActiveSimulation
  PROVE  Spec => []TypeOK
  BY Invariance, TypeFollows, PTL

\* The C_ASSERTs of get_example, free_example and gd_thread never fail: the
\* slot a thread takes, uses or frees is in use.
THEOREM AssertionsHold ==
  ASSUME \A g \in Globals : NoRelay(g), "save" \notin Kinds, ~ActiveSimulation
  PROVE  Spec => []NoAssertFailure
  <1>1. IInv => NoAssertFailure
    BY DEF IInv
  <1> QED BY <1>1, Invariance, PTL

\* return_example never finds an empty slot: the delay indices lead a thread
\* to an example that is still there.
THEOREM NeverEmpty ==
  ASSUME \A g \in Globals : NoRelay(g), "save" \notin Kinds, ~ActiveSimulation
  PROVE  Spec => []NoNullDereference
  <1>1. IInv => NoNullDereference
    BY DEF IInv
  <1> QED BY <1>1, Invariance, PTL

LEMMA NoBlocking == IInv => DelayNeverBlocks
  <1> SUFFICES ASSUME IInv, NEW t \in Threads, pc[t] = "insert",
                      delay_ring[index[t]] # Null
               PROVE  FALSE
    BY DEF DelayNeverBlocks
  <1>1. Completes(t) /\ index[t] \in Slots
    BY DEF Completes, IInv, TypeInv
  <1>2. \A u \in Threads : ~Owes(u)
    BY <1>1 DEF IInv, CompleteInv
  <1>3. \E u \in Threads : Fetches(u) \/ pc[u] = "clear"
    BY <1>1 DEF IInv, DelayRingInv
  <1> QED BY <1>2, <1>3 DEF Owes, Fetches

\* delay_example, which predict calls with ex->lock held, never waits for a
\* slot of the delay ring: there is no example in the ring at that moment.
THEOREM DelayIsImmediate ==
  ASSUME \A g \in Globals : NoRelay(g), "save" \notin Kinds, ~ActiveSimulation
  PROVE  Spec => []DelayNeverBlocks
  BY Invariance, NoBlocking, PTL

\* Two threads never end an example at the same time.
LEMMA OneCloses ==
  ASSUME IInv, NEW t \in Threads, NEW u \in Threads, Closes(t), Closes(u)
  PROVE  t = u
  <1> SUFFICES ASSUME t # u PROVE FALSE
    OBVIOUS
  <1>1. Released(u) >= used_index[t] /\ Released(t) >= used_index[u]
    BY DEF IInv, CloseInv
  <1>2. Released(t) = used_index[t] - 1 /\ Released(u) = used_index[u] - 1
    BY OwnExample DEF Closes, InHand
  <1>3. used_index[t] \in Nat /\ used_index[u] \in Nat
    BY Ranges
  <1> QED BY <1>1, <1>2, <1>3

LEMMA AccountingAlone == IInv => AccountingExclusive
  <1> SUFFICES ASSUME IInv PROVE AccountingExclusive
    OBVIOUS
  <1> DEFINE S == {a \in Actors : pc[a] \in {"account", "account_end"}}
  <1>1. Actors = Threads
    BY NoRelaySetting DEF IInv
  <1>2. \A t, u \in S : t = u
    BY <1>1, OneCloses DEF Closes
  <1>3. Cardinality(S) <= 1
    <2>1. CASE S = {}
      <3>1. Cardinality(S) = 0
        BY <2>1, FS_EmptySet
      <3> QED BY <3>1
    <2>2. ASSUME NEW t \in S PROVE Cardinality(S) <= 1
      <3>1. S = {t}
        BY <1>2
      <3>2. Cardinality(S) = 1
        BY <3>1, FS_Singleton
      <3> QED BY <3>2
    <2> QED BY <2>1, <2>2
  <1> QED BY <1>3 DEF AccountingExclusive

\* output_and_account_example writes the statistics in *global.sd without a
\* lock, and needs none: at most one thread is in it.
THEOREM AccountsAlone ==
  ASSUME \A g \in Globals : NoRelay(g), "save" \notin Kinds, ~ActiveSimulation
  PROVE  Spec => []AccountingExclusive
  BY Invariance, AccountingAlone, PTL

-----------------------------------------------------------------------------
(* Slots are not reused early                                              *)

\* No learner puts another example into a slot, and only a simulated active
\* learner changes what is asked of it.
LEMMA LearnerKeepsExamples ==
  ASSUME IInv, NEW t \in Threads, Learner(t)
  PROVE  \A s \in Slots :
           /\ contents'[s].counter = contents[s].counter
           /\ ~ActiveSimulation => contents'[s].kind = contents[s].kind
  <1>1. contents \in [Slots -> Example]
    BY DEF IInv, RingInv, RingTypeOK
  <1>2. CASE PredictLast(t)
    <2>1. held[t] \in Slots
      BY <1>2, HeldSlot DEF PredictLast, InHand
    <2>2. PICK kind \in LabelAfter(contents[held[t]].kind) :
            contents' = [contents EXCEPT ![held[t]].kind = kind,
                                         ![held[t]].done = TRUE]
      BY <1>2 DEF PredictLast
    <2>3. ~ActiveSimulation => kind = contents[held[t]].kind
      BY <2>2 DEF LabelAfter
    <2> QED BY <1>1, <2>1, <2>2, <2>3 DEF Example
  <1>3. CASE ~PredictLast(t)
    <2>1. contents' = contents
      <3> USE DEF ringVars, shared
      <3>1. CASE RoutineStep(t)
        BY <3>1 DEF RoutineStep, ReturnExample, Advance, UseReturned, ClearSlot,
             DelayExample, InsertExample, SkipForAll, FinishExample,
             AccountBegin, AccountEnd, Free, FreeExample
      <3>2. CASE Peek(t) \/ GetDelayExample(t) \/ GetGlobalExample(t)
                 \/ AwaitGlobal(t) \/ Train(t) \/ Decay(t)
        BY <3>2 DEF Peek, GetDelayExample, GetGlobalExample, AwaitGlobal,
             Train, Decay
      <3>3. CASE Take(t) \/ Await(t) \/ Woken(t) \/ NothingLeft(t) \/ Dispatch(t)
        BY <3>3 DEF Take, TakeExample, Await, AwaitExample, Woken, NothingLeft,
             NoExample, Dispatch
      <3>4. CASE PredictMore(t) \/ Summed(t) \/ Unlock(t) \/ CheckDone(t)
                 \/ Scan(t) \/ Leave(t)
        BY <3>4 DEF PredictMore, Summed, Unlock, CheckDone, Scan, Leave
      <3> QED BY <1>3, <3>1, <3>2, <3>3, <3>4 DEF Learner, LearnerStep
    <2> QED BY <2>1
  <1> QED BY <1>2, <1>3

\* The parser does so in its own slot only.
LEMMA ParserKeepsExamples ==
  ASSUME IInv, Parser, "save" \notin Kinds,
         NEW s \in Slots, contents'[s].counter # contents[s].counter
  PROVE  parser_pc = "parse" /\ s = ParserSlot
  <1>1. CASE ParseExample
    <2>1. parser_pc = "parse" /\ ParserSlot \in Slots
          /\ contents' = [contents EXCEPT ![ParserSlot] = contents'[ParserSlot]]
      BY <1>1, ParsedExample DEF ParseExample, IInv
    <2>2. contents \in [Slots -> Example]
      BY DEF IInv, RingInv, RingTypeOK
    <2> QED BY <2>1, <2>2
  <1>2. CASE ~ParseExample
    BY <1>2 DEF Parser, ParserStep, GetUnusedExample, WaitForUnused, Publish,
         EndPass, SetDone, ReleaseSlot, shared
  <1> QED BY <1>1, <1>2

\* Whatever the slot of the parser held, nobody works on it, has still to take
\* it, or will find it in the delay ring.
LEMMA ParserSlotDead ==
  ASSUME IInv, parser_pc = "parse"
  PROVE  /\ \A a \in Actors : pc[a] \in InHand => held[a] # ParserSlot
         /\ \A t \in Threads : used_index[t] >= contents[ParserSlot].counter
         /\ \A i \in Slots : delay_ring[i] # ParserSlot
  <1>1. ASSUME NEW t \in Threads, pc[t] \in InHand \/ Owes(t)
        PROVE  SlotFor(used_index[t]) # ParserSlot
    BY <1>1, OwnExample, ParserAlone
  <1>2. ASSUME NEW a \in Actors, pc[a] \in InHand PROVE held[a] # ParserSlot
    <2>1. a \in Threads
      BY NoRelaySetting DEF IInv
    <2> QED BY <1>1, <1>2, <2>1, HeldSlot
  <1>3. ASSUME NEW t \in Threads
        PROVE  used_index[t] >= contents[ParserSlot].counter
    <2> DEFINE c == contents[ParserSlot].counter
    <2>1. c \in Nat /\ ParserSlot \in Slots
      BY ParserSlotIn DEF IInv, RingInv, RingTypeOK, Example
    <2>2. used_index[t] \in Nat /\ Released(t) <= used_index[t]
          /\ Released(t) \in Nat
      BY Ranges
    <2> SUFFICES ASSUME ~(used_index[t] >= c) PROVE FALSE
      OBVIOUS
    <2>3. c > 0 /\ Released(t) < c
      BY <2>1, <2>2
    <2>4. SlotFor(c) = ParserSlot /\ c <= parsed_examples
      BY <2>1, <2>3 DEF IInv, RingInv, CounterInv, SlotFor
    <2>5. c \in 1 .. parsed_examples
      BY <2>1, <2>3, <2>4, Ranges
    <2> QED BY <2>3, <2>4, <2>5, ParserAlone
  <1>4. ASSUME NEW i \in Slots, delay_ring[i] = ParserSlot PROVE FALSE
    <2>1. ParserSlot # Null
      BY ParserSlotIn, NoNull
    <2>2. PICK t \in Threads : Fetches(t) \/ pc[t] = "clear"
      BY <1>4, <2>1 DEF IInv, DelayRingInv
    <2>3. i = SlotOf(local_index - 1)
      BY <1>4, <2>1 DEF IInv, DelayRingInv
    <2>4. CASE Fetches(t)
      <3>1. Owes(t)
        BY <2>4 DEF Fetches, Owes
      <3>2. delay_ring[i] = SlotFor(used_index[t])
        BY <2>3, <2>4 DEF IInv, FetchInv
      <3> QED BY <1>1, <1>4, <3>1, <3>2
    <2>5. CASE pc[t] = "clear"
      <3>1. pc[t] \in InHand
        BY <2>5 DEF InHand
      <3>2. delay_ring[i] = held[t]
        BY <2>3, <2>5 DEF IInv, FetchInv, ClearInv
      <3> QED BY <1>1, <1>4, <3>1, <3>2, HeldSlot
    <2> QED BY <2>2, <2>4, <2>5
  <1> QED BY <1>2, <1>3, <1>4

\* setup_example never overwrites an example that a thread works on, has still
\* to take, or will find in the delay ring: a slot comes back to the parser
\* only when everybody is through with it.
THEOREM SlotsReusedInTime ==
  ASSUME \A g \in Globals : NoRelay(g), "save" \notin Kinds, ~ActiveSimulation
  PROVE  Spec => NoEarlyReuse
  <1>1. ASSUME IInv, [Next]_vars
        PROVE  [\A s \in Slots :
                  contents'[s].counter # contents[s].counter =>
                    /\ \A a \in Actors : pc[a] \in InHand => held[a] # s
                    /\ \A t \in Threads : used_index[t] >= contents[s].counter
                    /\ \A i \in Slots : delay_ring[i] # s]_vars
    <2> SUFFICES ASSUME NEW s \in Slots, contents'[s].counter # contents[s].counter
                 PROVE  /\ \A a \in Actors : pc[a] \in InHand => held[a] # s
                        /\ \A t \in Threads : used_index[t] >= contents[s].counter
                        /\ \A i \in Slots : delay_ring[i] # s
      OBVIOUS
    <2>1. CASE Parser
      <3>1. parser_pc = "parse" /\ s = ParserSlot
        BY <1>1, <2>1, ParserKeepsExamples
      <3> QED BY <1>1, <3>1, ParserSlotDead
    <2>2. ASSUME NEW t \in Threads, Learner(t) PROVE FALSE
      BY <1>1, <2>2, LearnerKeepsExamples
    <2>3. CASE RelayThread
      BY <1>1, <2>3 DEF RelayThread, IInv, SettingInv
    <2>4. CASE UNCHANGED vars
      BY <2>4 DEF vars, ringVars, shared
    <2> QED BY <1>1, <2>1, <2>2, <2>3, <2>4 DEF Next, Joined
  <1> QED BY <1>1, Invariance, PTL DEF Spec, NoEarlyReuse
=============================================================================
