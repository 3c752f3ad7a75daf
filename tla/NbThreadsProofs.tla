-------------------------- MODULE NbThreadsProofs --------------------------
(***************************************************************************)
(* Proofs about NbThreads, for every number of threads, every size of the  *)
(* ring and every input without an example tagged "save".                  *)
(*                                                                         *)
(* The heart of the inductive invariant is LiveInv: as long as some thread *)
(* is not through with a published example, the slot of that example is in *)
(* use, still holds it, and counts at least the threads that are not       *)
(* through.  The rest ties the parser, the held slots and the counters of  *)
(* the slots to it; what concerns the parser alone is in                   *)
(* ExampleRingProofs.                                                      *)
(***************************************************************************)
EXTENDS NbThreads, ExampleRingProofs

\* The threads that are not through with example k.
Unreleased(k) == {t \in Threads : Released(t) < k}

TypeInv ==
  /\ RingTypeOK
  /\ pc \in [Threads -> NbPcs]
  /\ held \in [Threads -> Slots]

HeldInv ==
  \A t \in Threads : pc[t] \in {"dispatch", "finish", "free"} =>
    used_index[t] >= 1 /\ held[t] = SlotOf(used_index[t] - 1)

LiveInv ==
  \A k \in 1 .. parsed_examples : \A t \in Threads : Released(t) < k =>
    /\ in_use[SlotOf(k - 1)]
    /\ contents[SlotOf(k - 1)].counter = k
    /\ threads_to_finish[SlotOf(k - 1)] >= Cardinality(Unreleased(k))

FreeInv ==
  \A t \in Threads : pc[t] = "free" =>
    /\ in_use[held[t]]
    /\ contents[held[t]].counter = used_index[t]
    /\ threads_to_finish[held[t]] = 0

FreeAlone ==
  \A t, u \in Threads :
    pc[t] = "free" /\ pc[u] = "free" /\ held[t] = held[u] => t = u

\* The slot the parser works on is out of everybody's reach.
ParserInv ==
  parser_pc \in {"parse", "publish", "set_done", "release"} =>
    /\ in_use[ParserSlot]
    /\ \A t \in Threads : parsed_examples - Released(t) < RingSize
    /\ \A t \in Threads : pc[t] = "free" => held[t] # ParserSlot

PublishInv ==
  parser_pc = "publish" =>
    /\ contents[ParserSlot].counter = parsed_examples + 1
    /\ threads_to_finish[ParserSlot] = NumThreads

RoomInv == \A t \in Threads : parsed_examples - Released(t) <= RingSize

BoundInv == threads_to_finish \in [Slots -> 0 .. NumThreads]

IInv ==
  /\ TypeInv
  /\ InputInv
  /\ UsedInv
  /\ DoneInv
  /\ HeldInv
  /\ LiveInv
  /\ FreeInv
  /\ FreeAlone
  /\ ParserInv
  /\ PublishInv
  /\ RoomInv
  /\ CounterInv
  /\ KindInv
  /\ BoundInv
  /\ NoAssertFailure

-----------------------------------------------------------------------------
(* Counting threads                                                        *)

\* At most NumThreads are not through with an example.
LEMMA UnreleasedCount ==
  ASSUME NEW k
  PROVE  /\ IsFiniteSet(Unreleased(k))
         /\ Cardinality(Unreleased(k)) \in 0 .. NumThreads
  <1>1. Unreleased(k) \subseteq Threads
    BY DEF Unreleased
  <1>2. IsFiniteSet(Unreleased(k)) /\ Cardinality(Unreleased(k)) <= NumThreads
    BY <1>1, ThreadCount, FS_Subset
  <1>3. Cardinality(Unreleased(k)) \in Nat
    BY <1>2, FS_CardinalityType
  <1> QED BY <1>2, <1>3, RingAssumption

\* Someone who is not through counts.
LEMMA UnreleasedSome ==
  ASSUME NEW k, NEW t \in Threads, Released(t) < k
  PROVE  Cardinality(Unreleased(k)) >= 1
  <1>1. t \in Unreleased(k)
    BY DEF Unreleased
  <1>2. IsFiniteSet(Unreleased(k)) /\ Cardinality(Unreleased(k)) \in Nat
    BY UnreleasedCount, RingAssumption
  <1>3. Cardinality(Unreleased(k)) # 0
    BY <1>1, <1>2, FS_EmptySet
  <1> QED BY <1>2, <1>3

-----------------------------------------------------------------------------
(* The initial states                                                      *)

LEMMA InitIInv == Init => IInv
  <1> SUFFICES ASSUME Init PROVE IInv
    OBVIOUS
  <1> USE DEF Init, RingInit
  <1>1. SlotOf(0) \in Slots
    BY SlotRange
  <1>2. NumThreads \in Nat \ {0} /\ RingSize \in Nat \ {0} /\ FileLen \in Nat
    BY RingAssumption
  <1>3. TypeInv
    <2>1. 0 \in Slots
      BY <1>2 DEF Slots
    <2>2. [counter |-> 0, pass |-> 0, kind |-> "labelled", done |-> FALSE]
            \in Example
      BY DEF Example, AllKinds
    <2>3. write_cache \in BOOLEAN
      OBVIOUS
    <2>4. /\ in_use \in [Slots -> BOOLEAN]
          /\ contents \in [Slots -> Example]
          /\ threads_to_finish \in [Slots -> Int]
      BY <2>2
    <2>5. /\ parsed_examples \in Nat
          /\ used_index \in [Threads -> Nat]
          /\ done \in BOOLEAN
          /\ example_available \subseteq Threads
          /\ aborted \in BOOLEAN
          /\ parser_pc \in ParserPcs
          /\ example_number \in Nat
          /\ passes_complete \in Nat
          /\ position \in Nat
          /\ stream \in [Items -> Kinds]
          /\ seen \subseteq Nat
      BY DEF ParserPcs
    <2>6. /\ pass_length \in Nat
          /\ reading \in {"text", "cache"}
          /\ cached \in Nat
      BY RingAssumption
    <2>7. /\ pc \in [Threads -> NbPcs]
          /\ held \in [Threads -> Slots]
      BY <2>1 DEF NbPcs
    <2> QED BY <2>3, <2>4, <2>5, <2>6, <2>7 DEF TypeInv, RingTypeOK
  <1>4. \A t \in Threads : Released(t) = 0
    BY DEF Released
  <1>5. InputInv
    <2>1. cached <= FileLen
      BY <1>2
    <2>2. write_cache => Source = "text_to_cache"
      OBVIOUS
    <2>3. Source = "text_to_cache" => reading = "text" /\ cached = position
      OBVIOUS
    <2> QED BY <2>1, <2>2, <2>3 DEF InputInv
  <1>6. UsedInv /\ DoneInv /\ HeldInv /\ FreeInv /\ FreeAlone /\ ParserInv
    BY DEF UsedInv, DoneInv, HeldInv, FreeInv, FreeAlone, ParserInv
  <1>7. LiveInv /\ PublishInv
    BY DEF LiveInv, PublishInv
  <1>8. RoomInv
    BY <1>2, <1>4 DEF RoomInv
  <1>9. CounterInv /\ KindInv /\ BoundInv /\ NoAssertFailure
    BY <1>2 DEF CounterInv, KindInv, BoundInv, NoAssertFailure
  <1> QED BY <1>3, <1>5, <1>6, <1>7, <1>8, <1>9 DEF IInv

-----------------------------------------------------------------------------
(* The steps of the parser                                                 *)

\* Steps that leave the workers alone release nothing.
LEMMA SameReleased ==
  ASSUME UNCHANGED <<pc, used_index>>
  PROVE  /\ \A t \in Threads : Released(t)' = Released(t)
         /\ \A k : Unreleased(k)' = Unreleased(k)
  <1>1. \A t \in Threads : Released(t)' = Released(t)
    BY DEF Released
  <1> QED BY <1>1 DEF Unreleased

\* How far a thread may be through, and what that says of its example.
LEMMA ReleasedRange ==
  ASSUME TypeInv, UsedInv, HeldInv
  PROVE  \A t \in Threads :
           /\ Released(t) \in Nat
           /\ Released(t) <= used_index[t]
           /\ used_index[t] <= parsed_examples
           /\ parsed_examples \in Nat
  BY DEF TypeInv, RingTypeOK, UsedInv, HeldInv, Released

\* No example that some thread still needs is in the slot of the parser.
LEMMA ParserSlotClear ==
  ASSUME TypeInv, UsedInv, HeldInv,
         \A t \in Threads : parsed_examples - Released(t) < RingSize
  PROVE  \A k \in 1 .. parsed_examples : \A t \in Threads :
           Released(t) < k => SlotOf(k - 1) # ParserSlot
  <1> SUFFICES ASSUME NEW k \in 1 .. parsed_examples, NEW t \in Threads,
                      Released(t) < k
               PROVE  SlotOf(k - 1) # SlotOf(parsed_examples)
    BY DEF ParserSlot
  <1>1. Released(t) \in Nat /\ parsed_examples \in Nat
    BY ReleasedRange
  <1>2. k - 1 \in Nat /\ k - 1 < parsed_examples
        /\ parsed_examples - (k - 1) < RingSize
    BY <1>1, RingAssumption
  <1> QED BY <1>1, <1>2, SlotsDiffer

\* The slot of the parser is free: everybody is through with what it held.
LEMMA FreeSlotRoom ==
  ASSUME IInv, SlotIsFree
  PROVE  \A t \in Threads : parsed_examples - Released(t) < RingSize
  <1> SUFFICES ASSUME NEW t \in Threads,
                      ~(parsed_examples - Released(t) < RingSize)
               PROVE  FALSE
    OBVIOUS
  <1> DEFINE k == parsed_examples - RingSize + 1
  <1>1. Released(t) \in Nat /\ parsed_examples \in Nat
    BY ReleasedRange DEF IInv
  <1>2. RingSize \in Nat \ {0}
    BY RingAssumption
  <1>3. k \in 1 .. parsed_examples /\ Released(t) < k
        /\ k - 1 = parsed_examples - RingSize /\ parsed_examples >= RingSize
    BY <1>1, <1>2
  <1>4. SlotOf(k - 1) = ParserSlot
    BY <1>1, <1>3, SlotAgain DEF ParserSlot
  <1>5. in_use[SlotOf(k - 1)]
    BY <1>3 DEF IInv, LiveInv
  <1> QED BY <1>4, <1>5 DEF SlotIsFree

\* A step that touches neither a slot, an index nor a worker, and moves the
\* parser to a point where it has the same slot or none.
LEMMA CalmStep ==
  ASSUME IInv, TypeInv', InputInv', DoneInv',
         UNCHANGED <<in_use, contents, threads_to_finish, parsed_examples,
                     used_index, pc, held, aborted>>,
         parser_pc' # "publish", parser_pc # "publish",
         parser_pc' \in {"parse", "publish", "set_done", "release"} =>
           parser_pc \in {"parse", "publish", "set_done", "release"}
  PROVE  IInv'
  <1>1. /\ \A t \in Threads : Released(t)' = Released(t)
        /\ \A k : Unreleased(k)' = Unreleased(k)
    BY SameReleased
  <1>2. UsedInv' /\ HeldInv' /\ FreeInv' /\ FreeAlone'
    BY DEF IInv, UsedInv, HeldInv, FreeInv, FreeAlone
  <1>3. LiveInv'
    BY <1>1 DEF IInv, LiveInv
  <1>4. ParserInv'
    BY <1>1 DEF IInv, ParserInv, ParserSlot
  <1>5. PublishInv' /\ RoomInv'
    BY <1>1 DEF IInv, PublishInv, RoomInv
  <1>6. CounterInv' /\ KindInv' /\ BoundInv' /\ NoAssertFailure'
    BY DEF IInv, CounterInv, KindInv, BoundInv, NoAssertFailure
  <1> QED BY <1>2, <1>3, <1>4, <1>5, <1>6 DEF IInv

LEMMA WaitForUnusedStep ==
  ASSUME IInv, WaitForUnused, UNCHANGED workerVars PROVE IInv'
  <1> USE DEF WaitForUnused, workerVars, shared, source
  <1>1. TypeInv'
    BY DEF IInv, TypeInv, RingTypeOK, ParserPcs
  <1>2. InputInv' /\ DoneInv'
    BY DEF IInv, InputInv, DoneInv
  <1> QED BY <1>1, <1>2, CalmStep

LEMMA EndPassStep ==
  ASSUME IInv, EndPass, UNCHANGED workerVars PROVE IInv'
  <1> USE DEF EndPass, ResetSource, workerVars, shared
  <1>1. TypeInv'
    <2> USE DEF IInv, TypeInv, RingTypeOK, ParserPcs
    <2>1. /\ passes_complete' \in Nat
          /\ pass_length' \in Nat
          /\ example_number' \in Nat
          /\ position' \in Nat
      OBVIOUS
    <2>2. reading' \in {"text", "cache"} /\ write_cache' \in BOOLEAN
      OBVIOUS
    <2>3. parser_pc' \in ParserPcs
      OBVIOUS
    <2> QED BY <2>1, <2>2, <2>3
  <1>2. InputInv' /\ DoneInv'
    BY DEF IInv, InputInv, DoneInv
  <1> QED BY <1>1, <1>2, CalmStep

LEMMA SetDoneStep ==
  ASSUME IInv, SetDone, UNCHANGED workerVars PROVE IInv'
  <1> USE DEF SetDone, workerVars, source
  <1>1. TypeInv'
    BY DEF IInv, TypeInv, RingTypeOK, ParserPcs
  <1>2. InputInv' /\ DoneInv'
    BY DEF IInv, InputInv, DoneInv
  <1> QED BY <1>1, <1>2, CalmStep

LEMMA GetUnusedStep ==
  ASSUME IInv, GetUnusedExample, UNCHANGED workerVars PROVE IInv'
  <1> USE DEF GetUnusedExample, workerVars, source
  <1>1. /\ \A t \in Threads : Released(t)' = Released(t)
        /\ \A k : Unreleased(k)' = Unreleased(k)
    BY SameReleased
  <1>2. ParserSlot \in Slots /\ ParserSlot' = ParserSlot
    BY SlotRange DEF ParserSlot, IInv, TypeInv, RingTypeOK
  <1>3. /\ in_use \in [Slots -> BOOLEAN]
        /\ in_use' = [in_use EXCEPT ![ParserSlot] = TRUE]
    BY DEF IInv, TypeInv, RingTypeOK
  <1>4. \A s \in Slots : in_use[s] => in_use'[s]
    BY <1>3
  <1>5. \A n \in Nat : SlotOf(n) \in Slots
    BY SlotRange
  <1>6. TypeInv' /\ InputInv' /\ DoneInv'
    BY <1>2 DEF IInv, TypeInv, RingTypeOK, ParserPcs, InputInv, DoneInv
  <1>7. UsedInv' /\ HeldInv' /\ FreeAlone'
    BY DEF IInv, UsedInv, HeldInv, FreeAlone
  <1>8. FreeInv'
    BY <1>4 DEF IInv, FreeInv, TypeInv
  <1>9. LiveInv'
    <2> SUFFICES ASSUME NEW k \in 1 .. parsed_examples, NEW t \in Threads,
                        Released(t) < k
                 PROVE  /\ in_use'[SlotOf(k - 1)]
                        /\ contents[SlotOf(k - 1)].counter = k
                        /\ threads_to_finish[SlotOf(k - 1)]
                             >= Cardinality(Unreleased(k))
      BY <1>1 DEF LiveInv
    <2>1. SlotOf(k - 1) \in Slots
      BY <1>5
    <2> QED BY <1>4, <2>1 DEF IInv, LiveInv
  <1>10. ParserInv'
    <2>1. \A t \in Threads : parsed_examples - Released(t) < RingSize
      BY FreeSlotRoom
    <2>2. \A t \in Threads : pc[t] = "free" => held[t] # ParserSlot
      BY DEF IInv, FreeInv, SlotIsFree
    <2> QED BY <1>1, <1>2, <1>3, <2>1, <2>2 DEF ParserInv
  <1>11. PublishInv' /\ RoomInv'
    BY <1>1 DEF IInv, PublishInv, RoomInv
  <1>12. CounterInv' /\ KindInv' /\ BoundInv' /\ NoAssertFailure'
    BY DEF IInv, CounterInv, KindInv, BoundInv, NoAssertFailure
  <1> QED BY <1>6, <1>7, <1>8, <1>9, <1>10, <1>11, <1>12 DEF IInv

LEMMA ParseStep ==
  ASSUME IInv, ParseExample, UNCHANGED workerVars, "save" \notin Kinds
  PROVE  IInv'
  <1> USE DEF ParseExample, workerVars
  <1> DEFINE e == [counter |-> parsed_examples + 1,
                   pass    |-> passes_complete,
                   kind    |-> stream[position + 1],
                   done    |-> FALSE]
  <1>1. /\ \A t \in Threads : Released(t)' = Released(t)
        /\ \A k : Unreleased(k)' = Unreleased(k)
    BY SameReleased
  <1>2. ParserSlot \in Slots /\ ParserSlot' = ParserSlot
    BY SlotRange DEF ParserSlot, IInv, TypeInv, RingTypeOK
  <1>3. /\ contents \in [Slots -> Example]
        /\ threads_to_finish \in [Slots -> Int]
        /\ held \in [Threads -> Slots]
        /\ parsed_examples \in Nat
    BY DEF IInv, TypeInv, RingTypeOK
  <1>4. position + 1 \in Items
    BY RingAssumption
    DEF IInv, TypeInv, RingTypeOK, InputInv, Readable, InputLen, Items
  <1>5. stream[position + 1] \in Kinds
    BY <1>4 DEF IInv, TypeInv, RingTypeOK
  <1>6. e \in Example
    BY <1>5, RingAssumption DEF Example, IInv, TypeInv, RingTypeOK
  <1>7. contents' = [contents EXCEPT ![ParserSlot] = e]
    OBVIOUS
  <1>8. threads_to_finish' = [threads_to_finish EXCEPT ![ParserSlot] = NumThreads]
    BY DEF ThreadsPerExample
  <1>9. /\ e.counter = parsed_examples + 1
        /\ e.kind # "save"
    BY <1>5
  <1>pub. /\ parser_pc = "parse" /\ parser_pc' = "publish"
         /\ parsed_examples' = parsed_examples
         /\ aborted' = aborted
    OBVIOUS
  <1> HIDE DEF e
  <1>10. /\ contents'[ParserSlot] = e
         /\ threads_to_finish'[ParserSlot] = NumThreads
         /\ \A s \in Slots : s # ParserSlot =>
              /\ contents'[s] = contents[s]
              /\ threads_to_finish'[s] = threads_to_finish[s]
    BY <1>2, <1>3, <1>7, <1>8
  <1>11. TypeInv'
    <2>1. contents' \in [Slots -> Example]
      BY <1>3, <1>6, <1>7
    <2>2. threads_to_finish' \in [Slots -> Int]
      <3>1. NumThreads \in Int
        BY RingAssumption
      <3> HIDE DEF ParseExample
      <3> QED BY <3>1, <1>3, <1>8
    <2>3. /\ position' \in Nat
          /\ cached' \in Nat
          /\ seen' \subseteq Nat
          /\ example_number' \in Nat
      BY DEF IInv, TypeInv, RingTypeOK
    <2> QED BY <2>1, <2>2, <2>3 DEF IInv, TypeInv, RingTypeOK, ParserPcs
  <1>12. InputInv' /\ DoneInv'
    BY RingAssumption
    DEF IInv, TypeInv, RingTypeOK, InputInv, DoneInv, Readable, InputLen
  <1>13. UsedInv' /\ HeldInv' /\ FreeAlone'
    BY DEF IInv, UsedInv, HeldInv, FreeAlone
  <1>14. FreeInv'
    <2>1. \A t \in Threads : pc[t] = "free" =>
            held[t] \in Slots /\ held[t] # ParserSlot
      BY <1>3 DEF IInv, ParserInv
    <2> QED BY <1>10, <2>1 DEF IInv, FreeInv
  <1>15. LiveInv'
    <2> SUFFICES ASSUME NEW k \in 1 .. parsed_examples, NEW t \in Threads,
                        Released(t) < k
                 PROVE  /\ in_use[SlotOf(k - 1)]
                        /\ contents'[SlotOf(k - 1)].counter = k
                        /\ threads_to_finish'[SlotOf(k - 1)]
                             >= Cardinality(Unreleased(k))
      BY <1>1 DEF LiveInv
    <2>1. SlotOf(k - 1) \in Slots
      BY SlotRange
    <2>2. SlotOf(k - 1) # ParserSlot
      BY ParserSlotClear DEF IInv, ParserInv
    <2> QED BY <1>10, <2>1, <2>2 DEF IInv, LiveInv
  <1>16. ParserInv'
    BY <1>1, <1>2 DEF IInv, ParserInv
  <1>17. PublishInv'
    BY <1>2, <1>9, <1>10 DEF PublishInv
  <1>18. RoomInv'
    BY <1>1 DEF IInv, RoomInv
  <1>19. CounterInv'
    <2> HIDE DEF ParseExample
    <2> SUFFICES ASSUME NEW s \in Slots, contents'[s].counter > 0
                 PROVE  /\ SlotOf(contents'[s].counter - 1) = s
                        /\ \/ contents'[s].counter <= parsed_examples
                           \/ contents'[s].counter = parsed_examples + 1
      BY <1>pub DEF CounterInv
    <2>2. CASE s = ParserSlot
      <3>1. contents'[s].counter = parsed_examples + 1
        BY <1>9, <1>10, <2>2
      <3>2. contents'[s].counter - 1 = parsed_examples
        BY <3>1, <1>3
      <3>3. SlotOf(contents'[s].counter - 1) = s
        BY <3>2, <2>2 DEF ParserSlot
      <3> QED BY <3>1, <3>3
    <2>3. CASE s # ParserSlot
      BY <1>10, <1>pub, <2>3 DEF IInv, CounterInv
    <2> QED BY <2>2, <2>3
  <1>20. KindInv'
    BY <1>9, <1>10 DEF IInv, KindInv
  <1>21. BoundInv' /\ NoAssertFailure'
    <2> HIDE DEF ParseExample
    <2>1. NumThreads \in 0 .. NumThreads
      BY RingAssumption
    <2>2. BoundInv'
      BY <1>8, <2>1 DEF IInv, BoundInv
    <2> QED BY <1>pub, <2>2 DEF IInv, NoAssertFailure
  <1> QED BY <1>11, <1>12, <1>13, <1>14, <1>15, <1>16, <1>17, <1>18, <1>19,
             <1>20, <1>21 DEF IInv

LEMMA PublishStep ==
  ASSUME IInv, Publish, UNCHANGED workerVars PROVE IInv'
  <1> USE DEF Publish, workerVars, source
  <1>1. /\ \A t \in Threads : Released(t)' = Released(t)
        /\ \A k : Unreleased(k)' = Unreleased(k)
    BY SameReleased
  <1>2. parsed_examples \in Nat /\ parsed_examples' = parsed_examples + 1
    BY DEF IInv, TypeInv, RingTypeOK
  <1>3. \A t \in Threads :
          /\ Released(t) \in Nat /\ Released(t) <= used_index[t]
          /\ used_index[t] \in Nat /\ used_index[t] <= parsed_examples
    BY ReleasedRange DEF IInv, TypeInv, RingTypeOK
  <1>4. TypeInv' /\ InputInv' /\ DoneInv'
    BY <1>2
    DEF IInv, TypeInv, RingTypeOK, ParserPcs, InputInv, DoneInv, WakeWorkers
  <1>5. UsedInv'
    BY <1>2, <1>3 DEF UsedInv
  <1>6. HeldInv' /\ FreeInv' /\ FreeAlone' /\ ParserInv' /\ PublishInv'
    BY DEF IInv, HeldInv, FreeInv, FreeAlone, ParserInv, PublishInv
  <1>7. LiveInv'
    <2> SUFFICES ASSUME NEW k \in 1 .. parsed_examples + 1,
                        NEW t \in Threads, Released(t) < k
                 PROVE  /\ in_use[SlotOf(k - 1)]
                        /\ contents[SlotOf(k - 1)].counter = k
                        /\ threads_to_finish[SlotOf(k - 1)]
                             >= Cardinality(Unreleased(k))
      BY <1>1, <1>2 DEF LiveInv
    <2>1. CASE k \in 1 .. parsed_examples
      BY <2>1 DEF IInv, LiveInv
    <2>2. CASE k = parsed_examples + 1
      <3>1. SlotOf(k - 1) = ParserSlot
        BY <1>2, <2>2 DEF ParserSlot
      <3>2. Cardinality(Unreleased(k)) <= NumThreads
        BY UnreleasedCount, RingAssumption
      <3> QED BY <2>2, <3>1, <3>2, RingAssumption
              DEF IInv, ParserInv, PublishInv
    <2> QED BY <1>2, <2>1, <2>2
  <1>8. RoomInv'
    BY <1>1, <1>2, <1>3, RingAssumption DEF IInv, ParserInv, RoomInv
  <1>9. CounterInv'
    BY <1>2 DEF IInv, CounterInv, TypeInv, RingTypeOK, Example
  <1>10. KindInv' /\ BoundInv' /\ NoAssertFailure'
    BY DEF IInv, KindInv, BoundInv, NoAssertFailure
  <1> QED BY <1>4, <1>5, <1>6, <1>7, <1>8, <1>9, <1>10 DEF IInv

LEMMA ReleaseSlotStep ==
  ASSUME IInv, ReleaseSlot, UNCHANGED workerVars PROVE IInv'
  <1> USE DEF ReleaseSlot, workerVars, source
  <1>1. /\ \A t \in Threads : Released(t)' = Released(t)
        /\ \A k : Unreleased(k)' = Unreleased(k)
    BY SameReleased
  <1>2. ParserSlot \in Slots /\ in_use \in [Slots -> BOOLEAN]
        /\ held \in [Threads -> Slots]
    BY SlotRange DEF ParserSlot, IInv, TypeInv, RingTypeOK
  <1>3. \A s \in Slots : s # ParserSlot => in_use'[s] = in_use[s]
    BY <1>2
  <1>4. TypeInv' /\ InputInv' /\ DoneInv'
    BY <1>2
    DEF IInv, TypeInv, RingTypeOK, ParserPcs, InputInv, DoneInv, WakeWorkers
  <1>5. UsedInv' /\ HeldInv' /\ FreeAlone' /\ ParserInv' /\ PublishInv'
    BY DEF IInv, UsedInv, HeldInv, FreeAlone, ParserInv, PublishInv
  <1>6. FreeInv'
    BY <1>2, <1>3 DEF IInv, FreeInv, ParserInv
  <1>7. LiveInv'
    <2> SUFFICES ASSUME NEW k \in 1 .. parsed_examples, NEW t \in Threads,
                        Released(t) < k
                 PROVE  /\ in_use'[SlotOf(k - 1)]
                        /\ contents[SlotOf(k - 1)].counter = k
                        /\ threads_to_finish[SlotOf(k - 1)]
                             >= Cardinality(Unreleased(k))
      BY <1>1 DEF LiveInv
    <2>1. SlotOf(k - 1) \in Slots
      BY SlotRange
    <2>2. SlotOf(k - 1) # ParserSlot
      BY ParserSlotClear DEF IInv, ParserInv
    <2> QED BY <1>3, <2>1, <2>2 DEF IInv, LiveInv
  <1>8. RoomInv'
    BY <1>1 DEF IInv, RoomInv
  <1>9. CounterInv' /\ KindInv' /\ BoundInv' /\ NoAssertFailure'
    BY DEF IInv, CounterInv, KindInv, BoundInv, NoAssertFailure
  <1> QED BY <1>4, <1>5, <1>6, <1>7, <1>8, <1>9 DEF IInv

-----------------------------------------------------------------------------
(* The steps of the workers                                                *)

\* When threads only get further, fewer of them are not through.
LEMMA MoreReleased ==
  ASSUME TypeInv, UsedInv, HeldInv, TypeInv', UsedInv', HeldInv',
         \A t \in Threads : Released(t)' >= Released(t)
  PROVE  /\ \A k \in Int : \A t \in Threads : Released(t)' < k => Released(t) < k
         /\ \A k \in Int : Cardinality(Unreleased(k)') <= Cardinality(Unreleased(k))
  <1>1. \A t \in Threads : Released(t) \in Nat /\ Released(t)' \in Nat
    BY DEF TypeInv, RingTypeOK, HeldInv, Released
  <1>2. \A k \in Int : \A t \in Threads : Released(t)' < k => Released(t) < k
    BY <1>1
  <1>3. ASSUME NEW k \in Int
        PROVE  Cardinality(Unreleased(k)') <= Cardinality(Unreleased(k))
    <2>1. Unreleased(k)' \subseteq Unreleased(k)
      BY <1>2 DEF Unreleased
    <2> QED BY <2>1, UnreleasedCount, FS_Subset
  <1> QED BY <1>2, <1>3

\* A worker moves between points where it has no example, and nothing that
\* the invariant speaks of changes.
LEMMA CalmWorker ==
  ASSUME IInv, TypeInv', NEW t \in Threads, NEW label, Goto(t, label),
         UNCHANGED <<in_use, contents, threads_to_finish, parsed_examples,
                     used_index, done, aborted, parser_pc, source, held>>,
         pc[t] \notin {"dispatch", "finish", "free"},
         label \notin {"dispatch", "finish", "free"}
  PROVE  IInv'
  <1>1. \A u \in Threads :
          /\ pc'[u] = "free" <=> pc[u] = "free"
          /\ pc'[u] \in {"dispatch", "finish"} <=> pc[u] \in {"dispatch", "finish"}
    BY DEF Goto, IInv, TypeInv
  <1>2. /\ \A u \in Threads : Released(u)' = Released(u)
        /\ \A k : Unreleased(k)' = Unreleased(k)
    <2>1. \A u \in Threads : Released(u)' = Released(u)
      BY <1>1 DEF Released
    <2> QED BY <2>1 DEF Unreleased
  <1>3. InputInv' /\ UsedInv' /\ DoneInv'
    BY DEF IInv, InputInv, UsedInv, DoneInv, source
  <1>4. HeldInv' /\ FreeInv' /\ FreeAlone'
    BY <1>1 DEF IInv, HeldInv, FreeInv, FreeAlone
  <1>5. LiveInv'
    BY <1>2 DEF IInv, LiveInv
  <1>6. ParserInv' /\ PublishInv' /\ RoomInv'
    BY <1>1, <1>2 DEF IInv, ParserInv, PublishInv, RoomInv, ParserSlot
  <1>7. CounterInv' /\ KindInv' /\ BoundInv' /\ NoAssertFailure'
    BY DEF IInv, CounterInv, KindInv, BoundInv, NoAssertFailure
  <1> QED BY <1>3, <1>4, <1>5, <1>6, <1>7 DEF IInv

\* Waiting, waking up, and looking whether the run is over.
LEMMA IdleStep ==
  ASSUME IInv, NEW t \in Threads,
         \/ Await(t)
         \/ Woken(t)
         \/ NothingLeft(t)
         \/ CheckDone(t)
         \/ Scan(t)
  PROVE  IInv'
  <1> USE DEF ringVars, shared
  <1> DEFINE Calm(label) ==
        /\ Goto(t, label)
        /\ UNCHANGED <<in_use, contents, threads_to_finish, parsed_examples,
                       used_index, done, aborted, parser_pc, source, held>>
        /\ example_available' \subseteq Threads
        /\ label \in NbPcs \ {"dispatch", "finish", "free"}
        /\ pc[t] \notin {"dispatch", "finish", "free"}
  <1>1. example_available \subseteq Threads
    BY DEF IInv, TypeInv, RingTypeOK
  <1> SUFFICES ASSUME NEW label, Calm(label) PROVE IInv'
    <2>1. CASE Await(t)
      <3>1. Calm("wait")
        BY <1>1, <2>1 DEF Await, AwaitExample, NbPcs
      <3> QED BY <3>1
    <2>2. CASE Woken(t)
      <3>1. Calm("check_done")
        BY <1>1, <2>2 DEF Woken, NbPcs
      <3> QED BY <3>1
    <2>3. CASE NothingLeft(t)
      <3>1. Calm("check_done")
        BY <1>1, <2>3 DEF NothingLeft, NoExample, NbPcs
      <3> QED BY <3>1
    <2>4. CASE CheckDone(t)
      <3>1. Calm(IF done THEN "scan" ELSE "get_example")
        BY <1>1, <2>4 DEF CheckDone, NbPcs
      <3> QED BY <3>1
    <2>5. CASE Scan(t)
      <3>1. Calm(IF AllUsed THEN "exit" ELSE "get_example")
        BY <1>1, <2>5 DEF Scan, NbPcs
      <3> QED BY <3>1
    <2> QED BY <2>1, <2>2, <2>3, <2>4, <2>5
  <1>2. TypeInv'
    BY DEF IInv, TypeInv, RingTypeOK, Goto, source
  <1> QED BY <1>2, CalmWorker

LEMMA TakeStep ==
  ASSUME IInv, NEW t \in Threads, Take(t) PROVE IInv'
  <1> USE DEF Take, TakeExample, Goto, source
  <1>1. /\ pc \in [Threads -> NbPcs]
        /\ used_index \in [Threads -> Nat]
        /\ held \in [Threads -> Slots]
        /\ parsed_examples \in Nat
        /\ in_use \in [Slots -> BOOLEAN]
    BY DEF IInv, TypeInv, RingTypeOK
  <1>2. used_index[t] \in Nat /\ used_index[t] < parsed_examples
    BY <1>1 DEF IInv, UsedInv
  <1>3. SlotOf(used_index[t]) \in Slots
    BY <1>2, SlotRange
  <1>4. /\ \A u \in Threads : Released(u)' = Released(u)
        /\ \A k : Unreleased(k)' = Unreleased(k)
    <2>1. \A u \in Threads : Released(u)' = Released(u)
      BY <1>1, <1>2 DEF Released
    <2> QED BY <2>1 DEF Unreleased
  <1>5. \A u \in Threads : pc'[u] = "free" => u # t /\ pc[u] = "free"
    BY <1>1
  <1>6. \A u \in Threads : u # t =>
          /\ pc'[u] = pc[u]
          /\ used_index'[u] = used_index[u]
          /\ held'[u] = held[u]
    BY <1>1
  <1>7. /\ pc'[t] = "dispatch"
        /\ used_index'[t] = used_index[t] + 1
        /\ held'[t] = SlotOf(used_index[t])
    BY <1>1
  <1>8. NoAssertFailure'
    <2> DEFINE k == used_index[t] + 1
    <2>1. k \in 1 .. parsed_examples /\ Released(t) < k /\ k - 1 = used_index[t]
      BY <1>1, <1>2 DEF Released
    <2>2. in_use[SlotOf(k - 1)]
      BY <2>1 DEF IInv, LiveInv
    <2> QED BY <2>1, <2>2 DEF NoAssertFailure
  <1>9. TypeInv'
    <2>1. pc' \in [Threads -> NbPcs] /\ held' \in [Threads -> Slots]
      BY <1>1, <1>3 DEF NbPcs
    <2>2. used_index' \in [Threads -> Nat]
      BY <1>1
    <2> QED BY <2>1, <2>2 DEF IInv, TypeInv, RingTypeOK
  <1>10. InputInv' /\ DoneInv' /\ CounterInv' /\ KindInv' /\ BoundInv'
    BY DEF IInv, InputInv, DoneInv, CounterInv, KindInv, BoundInv
  <1>11. UsedInv'
    BY <1>1, <1>2, <1>6, <1>7 DEF IInv, UsedInv
  <1>12. HeldInv'
    <2>1. used_index'[t] >= 1 /\ held'[t] = SlotOf(used_index'[t] - 1)
      <3>1. used_index'[t] - 1 = used_index[t]
        BY <1>2, <1>7
      <3> QED BY <3>1, <1>2, <1>7
    <2> QED BY <2>1, <1>6 DEF IInv, HeldInv
  <1>13. FreeInv' /\ FreeAlone'
    BY <1>5, <1>6 DEF IInv, FreeInv, FreeAlone
  <1>14. LiveInv'
    BY <1>4 DEF IInv, LiveInv
  <1>15. ParserInv' /\ PublishInv' /\ RoomInv'
    BY <1>4, <1>5, <1>6
    DEF IInv, ParserInv, PublishInv, RoomInv, ParserSlot
  <1> QED BY <1>8, <1>9, <1>10, <1>11, <1>12, <1>13, <1>14, <1>15 DEF IInv

\* A thread that has an example it is not through with: the slot it holds.
LEMMA HeldLive ==
  ASSUME IInv, NEW t \in Threads, pc[t] \in {"dispatch", "finish"}
  PROVE  /\ used_index[t] \in 1 .. parsed_examples
         /\ Released(t) = used_index[t] - 1
         /\ held[t] \in Slots
         /\ held[t] = SlotOf(used_index[t] - 1)
         /\ in_use[held[t]]
         /\ contents[held[t]].counter = used_index[t]
         /\ threads_to_finish[held[t]] \in Int
         /\ threads_to_finish[held[t]] >= Cardinality(Unreleased(used_index[t]))
         /\ threads_to_finish[held[t]] >= 1
  <1> DEFINE k == used_index[t]
  <1>1. /\ used_index[t] \in Nat
        /\ held[t] \in Slots
        /\ parsed_examples \in Nat
        /\ threads_to_finish[held[t]] \in Int
    BY DEF IInv, TypeInv, RingTypeOK
  <1>2. k \in 1 .. parsed_examples /\ held[t] = SlotOf(k - 1)
    BY <1>1 DEF IInv, HeldInv, UsedInv
  <1>3. Released(t) = k - 1
    BY DEF Released
  <1>4. Released(t) < k
    BY <1>1, <1>3
  <1>5. /\ in_use[SlotOf(k - 1)]
        /\ contents[SlotOf(k - 1)].counter = k
        /\ threads_to_finish[SlotOf(k - 1)] >= Cardinality(Unreleased(k))
    BY <1>2, <1>4 DEF IInv, LiveInv
  <1>6. Cardinality(Unreleased(k)) >= 1 /\ Cardinality(Unreleased(k)) \in Nat
    BY <1>4, UnreleasedSome, UnreleasedCount, RingAssumption
  <1>7. /\ in_use[held[t]]
        /\ contents[held[t]].counter = k
        /\ threads_to_finish[held[t]] >= Cardinality(Unreleased(k))
    BY <1>2, <1>5
  <1>8. threads_to_finish[held[t]] >= 1
    BY <1>1, <1>6, <1>7
  <1> QED BY <1>1, <1>2, <1>3, <1>7, <1>8

LEMMA DispatchStep ==
  ASSUME IInv, NEW t \in Threads, Dispatch(t) PROVE IInv'
  <1> USE DEF source
  <1>1. /\ pc \in [Threads -> NbPcs]
        /\ used_index \in [Threads -> Nat]
        /\ parsed_examples \in Nat
    BY DEF IInv, TypeInv, RingTypeOK
  <1>2. pc[t] = "dispatch"
    BY DEF Dispatch
  <1>3. /\ UNCHANGED <<in_use, contents, threads_to_finish, parsed_examples,
                       used_index, done, example_available, parser_pc, source,
                       held>>
        /\ aborted' = ~in_use[held[t]]
    BY DEF Dispatch
  <1>4. /\ used_index[t] >= 1
        /\ held[t] \in Slots
        /\ in_use[held[t]]
    BY <1>1, <1>2, HeldLive
  <1>5. contents[held[t]].kind # "save"
    BY <1>4 DEF IInv, KindInv
  <1>6. \/ pc' = [pc EXCEPT ![t] = "finish"]
        \/ pc' = [pc EXCEPT ![t] = "get_example"]
    BY <1>5 DEF Dispatch, Goto
  <1>7. /\ \A u \in Threads : u # t => pc'[u] = pc[u]
        /\ pc'[t] \in {"finish", "get_example"}
        /\ pc' \in [Threads -> NbPcs]
    BY <1>1, <1>6 DEF NbPcs
  <1> HIDE DEF source
  <1>8. TypeInv'
    <2>1. aborted' \in BOOLEAN
      BY <1>3
    <2> QED BY <1>3, <1>7, <2>1 DEF IInv, TypeInv, RingTypeOK, source
  <1>9. /\ InputInv' /\ UsedInv' /\ DoneInv' /\ CounterInv' /\ KindInv'
        /\ BoundInv' /\ NoAssertFailure'
    BY <1>3, <1>4
    DEF IInv, InputInv, UsedInv, DoneInv, CounterInv, KindInv, BoundInv,
        NoAssertFailure, source
  <1>10. HeldInv' /\ FreeInv' /\ FreeAlone'
    BY <1>2, <1>3, <1>7 DEF IInv, HeldInv, FreeInv, FreeAlone
  <1>11. \A u \in Threads : Released(u)' >= Released(u) /\ Released(u) \in Nat
                            /\ Released(u)' \in Nat
    <2>1. \A u \in Threads : Released(u) \in Nat
      BY ReleasedRange DEF IInv
    <2>2. \A u \in Threads : u # t => Released(u)' = Released(u)
      BY <1>3, <1>7 DEF Released
    <2>3. Released(t)' \in Nat /\ Released(t)' >= Released(t)
      BY <1>1, <1>2, <1>3, <1>4, <1>7 DEF Released
    <2> QED BY <2>1, <2>2, <2>3
  <1>12. /\ \A k \in Int : \A u \in Threads : Released(u)' < k => Released(u) < k
         /\ \A k \in Int :
              Cardinality(Unreleased(k)') <= Cardinality(Unreleased(k))
    BY <1>8, <1>9, <1>10, <1>11, MoreReleased DEF IInv
  <1>13. LiveInv'
    <2> SUFFICES ASSUME NEW k \in 1 .. parsed_examples, NEW u \in Threads,
                        Released(u)' < k
                 PROVE  /\ in_use[SlotOf(k - 1)]
                        /\ contents[SlotOf(k - 1)].counter = k
                        /\ threads_to_finish[SlotOf(k - 1)]
                             >= Cardinality(Unreleased(k)')
      BY <1>3 DEF LiveInv
    <2>1. /\ in_use[SlotOf(k - 1)]
          /\ contents[SlotOf(k - 1)].counter = k
          /\ threads_to_finish[SlotOf(k - 1)] >= Cardinality(Unreleased(k))
      BY <1>1, <1>12 DEF IInv, LiveInv
    <2>2. /\ threads_to_finish[SlotOf(k - 1)] \in Int
          /\ Cardinality(Unreleased(k)) \in Int
          /\ Cardinality(Unreleased(k)') \in Int
      <3>1. SlotOf(k - 1) \in Slots
        BY SlotRange
      <3>2. Cardinality(Unreleased(k)) \in Int
        BY UnreleasedCount, RingAssumption
      <3>3. Cardinality(Unreleased(k)') \in Int
        <4>1. Unreleased(k)' \subseteq Threads
          BY DEF Unreleased
        <4> QED BY <4>1, ThreadCount, FS_Subset, FS_CardinalityType
      <3> QED BY <3>1, <3>2, <3>3 DEF IInv, TypeInv, RingTypeOK
    <2>3. Cardinality(Unreleased(k)') <= Cardinality(Unreleased(k))
      BY <1>12
    <2> QED BY <2>1, <2>2, <2>3
  <1>14. ParserInv' /\ PublishInv' /\ RoomInv'
    <2>1. \A u \in Threads : parsed_examples - Released(u)'
                               <= parsed_examples - Released(u)
      BY <1>1, <1>11
    <2>2. ParserInv'
      BY <1>1, <1>3, <1>7, <1>11, <2>1, RingAssumption
      DEF IInv, ParserInv, ParserSlot
    <2>3. RoomInv'
      BY <1>1, <1>3, <1>11, <2>1, RingAssumption DEF IInv, RoomInv
    <2>4. PublishInv'
      BY <1>3 DEF IInv, PublishInv, ParserSlot
    <2> QED BY <2>2, <2>3, <2>4
  <1> QED BY <1>8, <1>9, <1>10, <1>13, <1>14 DEF IInv

LEMMA FinishStep ==
  ASSUME IInv, NEW t \in Threads, Finish(t) PROVE IInv'
  <1> DEFINE s == held[t]
             k0 == used_index[t]
  <1>1. /\ pc \in [Threads -> NbPcs]
        /\ used_index \in [Threads -> Nat]
        /\ parsed_examples \in Nat
        /\ threads_to_finish \in [Slots -> Int]
        /\ held \in [Threads -> Slots]
    BY DEF IInv, TypeInv, RingTypeOK
  <1>2. pc[t] = "finish"
    BY DEF Finish
  <1>3. /\ UNCHANGED <<in_use, contents, parsed_examples, used_index, done,
                       example_available, aborted, parser_pc, source, held>>
        /\ threads_to_finish' = [threads_to_finish EXCEPT ![s] = @ - 1]
        /\ \/ threads_to_finish[s] = 1 /\ pc' = [pc EXCEPT ![t] = "free"]
           \/ pc' = [pc EXCEPT ![t] = "get_example"]
    BY DEF Finish, Goto, source
  <1>4. /\ k0 \in 1 .. parsed_examples
        /\ Released(t) = k0 - 1
        /\ s \in Slots
        /\ s = SlotOf(k0 - 1)
        /\ in_use[s]
        /\ contents[s].counter = k0
        /\ threads_to_finish[s] \in Int
        /\ threads_to_finish[s] >= Cardinality(Unreleased(k0))
        /\ threads_to_finish[s] >= 1
    BY <1>2, HeldLive
  <1>5. /\ threads_to_finish'[s] = threads_to_finish[s] - 1
        /\ \A x \in Slots : x # s => threads_to_finish'[x] = threads_to_finish[x]
    BY <1>1, <1>3, <1>4
  <1> HIDE DEF s, k0
  <1>6. /\ \A u \in Threads : u # t => pc'[u] = pc[u]
        /\ pc'[t] \in {"free", "get_example"}
        /\ pc'[t] = "free" => threads_to_finish[s] = 1
        /\ pc' \in [Threads -> NbPcs]
    BY <1>1, <1>3 DEF NbPcs
  <1>7. TypeInv'
    <2>1. threads_to_finish' \in [Slots -> Int]
      BY <1>1, <1>3, <1>4
    <2> QED BY <1>3, <1>6, <2>1 DEF IInv, TypeInv, RingTypeOK, source
  <1>8. /\ InputInv' /\ UsedInv' /\ DoneInv' /\ CounterInv' /\ KindInv'
        /\ NoAssertFailure'
    BY <1>3
    DEF IInv, InputInv, UsedInv, DoneInv, CounterInv, KindInv,
        NoAssertFailure, source
  <1>9. BoundInv'
    <2>1. threads_to_finish[s] - 1 \in 0 .. NumThreads
      BY <1>4, RingAssumption DEF IInv, BoundInv
    <2> QED BY <1>3, <2>1 DEF IInv, BoundInv
  <1>10. HeldInv'
    BY <1>2, <1>3, <1>6 DEF IInv, HeldInv
  <1>11. \A u \in Threads : pc[u] = "free" => held[u] # s
    BY <1>4 DEF IInv, FreeInv
  <1>12. FreeInv'
    <2> SUFFICES ASSUME NEW u \in Threads, pc'[u] = "free"
                 PROVE  /\ in_use[held[u]]
                        /\ contents[held[u]].counter = used_index[u]
                        /\ threads_to_finish'[held[u]] = 0
      BY <1>3 DEF FreeInv
    <2>1. CASE u = t
      BY <2>1, <1>4, <1>5, <1>6 DEF s, k0
    <2>2. CASE u # t
      <3>1. pc[u] = "free" /\ held[u] # s /\ held[u] \in Slots
        BY <1>1, <1>6, <1>11, <2>2
      <3> QED BY <3>1, <1>5 DEF IInv, FreeInv
    <2> QED BY <2>1, <2>2
  <1>13. FreeAlone'
    BY <1>3, <1>6, <1>11 DEF IInv, FreeAlone, s
  <1>14. /\ \A u \in Threads : Released(u) \in Nat /\ Released(u)' \in Nat
         /\ \A u \in Threads : u # t => Released(u)' = Released(u)
         /\ Released(t)' = k0
         /\ \A u \in Threads : Released(u)' >= Released(u)
    <2>1. \A u \in Threads : Released(u) \in Nat
      BY ReleasedRange DEF IInv
    <2>2. \A u \in Threads : u # t => Released(u)' = Released(u)
      BY <1>3, <1>6 DEF Released
    <2>3. Released(t)' = k0
      BY <1>3, <1>6 DEF Released, k0
    <2> QED BY <1>1, <1>4, <2>1, <2>2, <2>3
  <1>15. /\ \A k \in Int : \A u \in Threads : Released(u)' < k => Released(u) < k
         /\ \A k \in Int :
              Cardinality(Unreleased(k)') <= Cardinality(Unreleased(k))
    BY <1>7, <1>8, <1>10, <1>14, MoreReleased DEF IInv
  <1>16. Cardinality(Unreleased(k0)') = Cardinality(Unreleased(k0)) - 1
    <2>1. Unreleased(k0)' = Unreleased(k0) \ {t}
      <3>1. k0 \in Int
        BY <1>1, <1>4
      <3>2. \A u \in Threads : Released(u)' < k0 <=> Released(u) < k0 /\ u # t
        BY <3>1, <1>14
      <3>3. k0' = k0
        BY <1>3 DEF k0
      <3> QED BY <3>2, <3>3 DEF Unreleased
    <2>2. t \in Unreleased(k0)
      BY <1>1, <1>4 DEF Unreleased
    <2> QED BY <2>1, <2>2, UnreleasedCount, FS_RemoveElement
  <1>17. LiveInv'
    <2> SUFFICES ASSUME NEW k \in 1 .. parsed_examples, NEW u \in Threads,
                        Released(u)' < k
                 PROVE  /\ in_use[SlotOf(k - 1)]
                        /\ contents[SlotOf(k - 1)].counter = k
                        /\ threads_to_finish'[SlotOf(k - 1)]
                             >= Cardinality(Unreleased(k)')
      BY <1>3 DEF LiveInv
    <2>1. /\ in_use[SlotOf(k - 1)]
          /\ contents[SlotOf(k - 1)].counter = k
          /\ threads_to_finish[SlotOf(k - 1)] >= Cardinality(Unreleased(k))
      BY <1>1, <1>15 DEF IInv, LiveInv
    <2>2. SlotOf(k - 1) \in Slots
      BY SlotRange
    <2>3. Cardinality(Unreleased(k)) \in Int /\ Cardinality(Unreleased(k)') \in Int
      <3>1. Cardinality(Unreleased(k)) \in Int
        BY UnreleasedCount, RingAssumption
      <3>2. Unreleased(k)' \subseteq Threads
        BY DEF Unreleased
      <3> QED BY <3>1, <3>2, ThreadCount, FS_Subset, FS_CardinalityType
    <2>4. threads_to_finish'[SlotOf(k - 1)] >= Cardinality(Unreleased(k)')
      <3>1. CASE k = k0
        <4>1. SlotOf(k - 1) = s
          BY <1>4, <3>1
        <4>2. Cardinality(Unreleased(k)') = Cardinality(Unreleased(k)) - 1
          <5>1. k0' = k0
            BY <1>3 DEF k0
          <5> QED BY <1>16, <3>1, <5>1
        <4> QED BY <1>4, <1>5, <2>1, <2>3, <4>1, <4>2
      <3>2. CASE k # k0
        <4>1. SlotOf(k - 1) # s
          BY <1>4, <2>1, <3>2
        <4>2. Cardinality(Unreleased(k)') <= Cardinality(Unreleased(k))
          BY <1>15
        <4>3. threads_to_finish[SlotOf(k - 1)] \in Int
          BY <1>1, <2>2
        <4> QED BY <1>5, <2>1, <2>2, <2>3, <4>1, <4>2, <4>3
      <3> QED BY <3>1, <3>2
    <2> QED BY <2>1, <2>4
  <1>18. ParserInv' /\ PublishInv' /\ RoomInv'
    <2>1. \A u \in Threads : parsed_examples - Released(u)'
                               <= parsed_examples - Released(u)
      BY <1>1, <1>14
    <2>2. RoomInv'
      BY <1>1, <1>3, <1>14, <2>1, RingAssumption DEF IInv, RoomInv
    <2>3. parser_pc \in {"parse", "publish", "set_done", "release"} =>
            s # ParserSlot
      <3> SUFFICES ASSUME parser_pc \in {"parse", "publish", "set_done", "release"}
                   PROVE  s # ParserSlot
        OBVIOUS
      <3>1. Released(t) < k0
        BY <1>1, <1>4
      <3>2. SlotOf(k0 - 1) # ParserSlot
        BY <1>4, <3>1, ParserSlotClear DEF IInv, ParserInv
      <3> QED BY <1>4, <3>2
    <2>4. ParserInv'
      <3> SUFFICES ASSUME parser_pc \in {"parse", "publish", "set_done", "release"}
                   PROVE  /\ in_use[ParserSlot]
                          /\ \A u \in Threads :
                               parsed_examples - Released(u)' < RingSize
                          /\ \A u \in Threads :
                               pc'[u] = "free" => held[u] # ParserSlot
        BY <1>3 DEF ParserInv, ParserSlot
      <3>1. \A u \in Threads : parsed_examples - Released(u)' < RingSize
        BY <1>1, <1>14, <2>1, RingAssumption DEF IInv, ParserInv
      <3>2. \A u \in Threads : pc'[u] = "free" => held[u] # ParserSlot
        BY <1>6, <2>3 DEF IInv, ParserInv, s
      <3> QED BY <3>1, <3>2 DEF IInv, ParserInv
    <2>5. PublishInv'
      <3> SUFFICES ASSUME parser_pc = "publish"
                   PROVE  /\ contents[ParserSlot].counter = parsed_examples + 1
                          /\ threads_to_finish'[ParserSlot] = NumThreads
        BY <1>3 DEF PublishInv, ParserSlot
      <3>1. ParserSlot \in Slots
        BY <1>1, SlotRange DEF ParserSlot
      <3> QED BY <1>5, <2>3, <3>1 DEF IInv, PublishInv
    <2> QED BY <2>2, <2>4, <2>5
  <1> QED BY <1>7, <1>8, <1>9, <1>10, <1>12, <1>13, <1>17, <1>18 DEF IInv

LEMMA FreeStep ==
  ASSUME IInv, NEW t \in Threads, Free(t) PROVE IInv'
  <1> DEFINE s == held[t]
  <1>1. /\ pc \in [Threads -> NbPcs]
        /\ parsed_examples \in Nat
        /\ in_use \in [Slots -> BOOLEAN]
        /\ held \in [Threads -> Slots]
    BY DEF IInv, TypeInv, RingTypeOK
  <1>2. pc[t] = "free"
    BY DEF Free
  <1>3. /\ UNCHANGED <<contents, threads_to_finish, parsed_examples, used_index,
                       done, source, held>>
        /\ in_use' = [in_use EXCEPT ![s] = FALSE]
        /\ aborted' = ~in_use[s]
        /\ pc' = [pc EXCEPT ![t] = "get_example"]
        /\ parser_pc' = WakeParser
        /\ example_available' \in {{}, example_available}
    BY DEF Free, FreeExample, Goto, WakeWorkers
  <1>4. s \in Slots /\ in_use[s] /\ threads_to_finish[s] = 0
    BY <1>1, <1>2 DEF IInv, FreeInv
  <1>5. \A x \in Slots : x # s => in_use'[x] = in_use[x]
    BY <1>1, <1>3
  <1>6. /\ \A u \in Threads : u # t => pc'[u] = pc[u]
        /\ pc'[t] = "get_example"
        /\ pc' \in [Threads -> NbPcs]
    BY <1>1, <1>3 DEF NbPcs
  <1>7. /\ parser_pc' \in ParserPcs
        /\ \A l \in ParserPcs \ {"get_unused", "wait_unused"} :
             parser_pc' = l <=> parser_pc = l
    BY <1>3 DEF WakeParser, ParserPcs, IInv, TypeInv, RingTypeOK
  <1>8. /\ \A u \in Threads : Released(u)' = Released(u)
        /\ \A k : Unreleased(k)' = Unreleased(k)
    <2>1. \A u \in Threads : Released(u)' = Released(u)
      BY <1>2, <1>3, <1>6 DEF Released
    <2> QED BY <2>1 DEF Unreleased
  <1>9. TypeInv'
    <2>1. in_use' \in [Slots -> BOOLEAN] /\ aborted' \in BOOLEAN
      BY <1>1, <1>3
    <2>2. example_available' \subseteq Threads
      BY <1>3 DEF IInv, TypeInv, RingTypeOK
    <2> QED BY <1>3, <1>6, <1>7, <2>1, <2>2
            DEF IInv, TypeInv, RingTypeOK, source
  <1>10. /\ InputInv' /\ UsedInv' /\ KindInv' /\ BoundInv' /\ NoAssertFailure'
    BY <1>3, <1>4
    DEF IInv, InputInv, UsedInv, KindInv, BoundInv, NoAssertFailure, source
  <1>11. DoneInv' /\ CounterInv'
    BY <1>3, <1>7 DEF IInv, DoneInv, CounterInv, ParserPcs
  <1>12. HeldInv' /\ FreeAlone'
    BY <1>2, <1>3, <1>6 DEF IInv, HeldInv, FreeAlone
  <1>13. FreeInv'
    <2> SUFFICES ASSUME NEW u \in Threads, pc'[u] = "free"
                 PROVE  /\ in_use'[held[u]]
                        /\ contents[held[u]].counter = used_index[u]
                        /\ threads_to_finish[held[u]] = 0
      BY <1>3 DEF FreeInv
    <2>1. u # t /\ pc[u] = "free"
      BY <1>6
    <2>2. held[u] # s /\ held[u] \in Slots
      BY <1>1, <1>2, <2>1 DEF IInv, FreeAlone
    <2> QED BY <1>5, <2>1, <2>2 DEF IInv, FreeInv
  <1>14. LiveInv'
    <2> SUFFICES ASSUME NEW k \in 1 .. parsed_examples, NEW u \in Threads,
                        Released(u) < k
                 PROVE  /\ in_use'[SlotOf(k - 1)]
                        /\ contents[SlotOf(k - 1)].counter = k
                        /\ threads_to_finish[SlotOf(k - 1)]
                             >= Cardinality(Unreleased(k))
      BY <1>3, <1>8 DEF LiveInv
    <2>1. /\ in_use[SlotOf(k - 1)]
          /\ contents[SlotOf(k - 1)].counter = k
          /\ threads_to_finish[SlotOf(k - 1)] >= Cardinality(Unreleased(k))
      BY DEF IInv, LiveInv
    <2>2. SlotOf(k - 1) \in Slots
      BY SlotRange
    <2>3. SlotOf(k - 1) # s
      <3>1. Cardinality(Unreleased(k)) >= 1 /\ Cardinality(Unreleased(k)) \in Nat
        BY UnreleasedSome, UnreleasedCount, RingAssumption
      <3> QED BY <1>4, <2>1, <3>1
    <2> QED BY <1>5, <2>1, <2>2, <2>3
  <1>15. ParserInv' /\ PublishInv' /\ RoomInv'
    <2>1. ParserSlot \in Slots /\ ParserSlot' = ParserSlot
      BY <1>1, <1>3, SlotRange DEF ParserSlot
    <2>2. parser_pc \in {"parse", "publish", "set_done", "release"} =>
            s # ParserSlot
      BY <1>2 DEF IInv, ParserInv
    <2>3. parser_pc' \in {"parse", "publish", "set_done", "release"} =>
            parser_pc \in {"parse", "publish", "set_done", "release"}
      BY <1>7 DEF ParserPcs
    <2>4. ParserInv'
      BY <1>3, <1>5, <1>6, <1>8, <2>1, <2>2, <2>3 DEF IInv, ParserInv
    <2>5. PublishInv'
      BY <1>3, <1>7, <2>1 DEF IInv, PublishInv, ParserPcs
    <2>6. RoomInv'
      BY <1>3, <1>8 DEF IInv, RoomInv
    <2> QED BY <2>4, <2>5, <2>6
  <1> QED BY <1>9, <1>10, <1>11, <1>12, <1>13, <1>14, <1>15 DEF IInv

-----------------------------------------------------------------------------
(* The invariant holds, and what follows from it                           *)

\* Every step preserves the invariant.
LEMMA NextIInv ==
  ASSUME "save" \notin Kinds PROVE IInv /\ [Next]_vars => IInv'
  <1> SUFFICES ASSUME IInv, [Next]_vars PROVE IInv'
    OBVIOUS
  <1>1. CASE Parser
    <2> USE DEF Parser
    <2>1. CASE GetUnusedExample
      BY <1>1, <2>1, GetUnusedStep
    <2>2. CASE WaitForUnused
      BY <1>1, <2>2, WaitForUnusedStep
    <2>3. CASE ParseExample
      BY <1>1, <2>3, ParseStep
    <2>4. CASE Publish
      BY <1>1, <2>4, PublishStep
    <2>5. CASE EndPass
      BY <1>1, <2>5, EndPassStep
    <2>6. CASE SetDone
      BY <1>1, <2>6, SetDoneStep
    <2>7. CASE ReleaseSlot
      BY <1>1, <2>7, ReleaseSlotStep
    <2> QED BY <1>1, <2>1, <2>2, <2>3, <2>4, <2>5, <2>6, <2>7 DEF ParserStep
  <1>2. ASSUME NEW t \in Threads, Worker(t) PROVE IInv'
    <2>1. CASE Take(t)
      BY <2>1, TakeStep
    <2>2. CASE Dispatch(t)
      BY <2>2, DispatchStep
    <2>3. CASE Finish(t)
      BY <2>3, FinishStep
    <2>4. CASE Free(t)
      BY <2>4, FreeStep
    <2>5. CASE Await(t) \/ Woken(t) \/ NothingLeft(t) \/ CheckDone(t) \/ Scan(t)
      BY <2>5, IdleStep
    <2> QED BY <1>2, <2>1, <2>2, <2>3, <2>4, <2>5 DEF Worker
  <1>3. CASE UNCHANGED vars
    <2> USE <1>3 DEF vars, ringVars, workerVars, shared, source
    <2>1. TypeInv' /\ InputInv' /\ DoneInv'
      BY DEF IInv, TypeInv, RingTypeOK, InputInv, DoneInv
    <2>2. \A t \in Threads : Released(t)' = Released(t)
      BY DEF Released
    <2>3. \A k : Unreleased(k)' = Unreleased(k)
      BY <2>2 DEF Unreleased
    <2>4. UsedInv' /\ HeldInv' /\ FreeInv' /\ FreeAlone'
      BY DEF IInv, UsedInv, HeldInv, FreeInv, FreeAlone
    <2>5. LiveInv' /\ ParserInv' /\ PublishInv' /\ RoomInv'
      BY <2>2, <2>3
      DEF IInv, LiveInv, ParserInv, PublishInv, RoomInv, ParserSlot
    <2>6. CounterInv' /\ KindInv' /\ BoundInv' /\ NoAssertFailure'
      BY DEF IInv, CounterInv, KindInv, BoundInv, NoAssertFailure
    <2> QED BY <2>1, <2>4, <2>5, <2>6 DEF IInv
  <1> QED BY <1>1, <1>2, <1>3 DEF Next, Joined

\* The invariant holds in every reachable state.
THEOREM Invariance ==
  ASSUME "save" \notin Kinds PROVE Spec => []IInv
  <1>1. Init => IInv
    BY InitIInv
  <1>2. IInv /\ [Next]_vars => IInv'
    BY NextIInv
  <1> QED BY <1>1, <1>2, PTL DEF Spec

\* The variables keep their types.  In particular the count of threads that
\* have yet to finish an example (example.threads_to_finish, decremented by
\* finish_example) stays between 0 and the number of threads: no thread
\* finishes the same example twice, and no recycled slot is counted down.
THEOREM TypeCorrect ==
  ASSUME "save" \notin Kinds PROVE Spec => []TypeOK
  <1>1. IInv => TypeOK
    BY DEF IInv, TypeInv, BoundInv, TypeOK
  <1>2. Spec => []IInv
    BY Invariance
  <1> QED BY <1>1, <1>2, PTL

\* The assertions on in_use in get_example, free_example and nb_thread never
\* fail, for any number of threads and any size of the ring.
THEOREM AssertionsHold ==
  ASSUME "save" \notin Kinds PROVE Spec => []NoAssertFailure
  <1>1. IInv => NoAssertFailure
    BY DEF IInv
  <1>2. Spec => []IInv
    BY Invariance
  <1> QED BY <1>1, <1>2, PTL

\* What get_example is about to hand to a thread is the example that follows
\* the ones it has taken, in a slot in use: nothing is lost, reordered or
\* overwritten between the parser and a worker.
THEOREM ReadyCorrect ==
  ASSUME "save" \notin Kinds PROVE Spec => []NextIsReady
  <1>1. IInv => NextIsReady
    <2> SUFFICES ASSUME IInv, NEW t \in Threads,
                        used_index[t] < parsed_examples
                 PROVE  /\ in_use[SlotOf(used_index[t])]
                        /\ contents[SlotOf(used_index[t])].counter
                             = used_index[t] + 1
      BY DEF NextIsReady
    <2> DEFINE k == used_index[t] + 1
    <2>1. /\ used_index[t] \in Nat /\ parsed_examples \in Nat
          /\ Released(t) <= used_index[t] /\ Released(t) \in Nat
      BY ReleasedRange DEF IInv, TypeInv, RingTypeOK
    <2>2. k \in 1 .. parsed_examples /\ Released(t) < k /\ k - 1 = used_index[t]
      BY <2>1
    <2>3. in_use[SlotOf(k - 1)] /\ contents[SlotOf(k - 1)].counter = k
      BY <2>2 DEF IInv, LiveInv
    <2> QED BY <2>2, <2>3
  <1>2. Spec => []IInv
    BY Invariance
  <1> QED BY <1>1, <1>2, PTL

\* The example a thread works on stays in its slot until the thread is through
\* with it, whatever the parser and the other threads do.
THEOREM HeldCorrect ==
  ASSUME "save" \notin Kinds PROVE Spec => []HeldIsStable
  <1>1. IInv => HeldIsStable
    <2> SUFFICES ASSUME IInv, NEW t \in Threads,
                        pc[t] \in {"dispatch", "finish", "free"}
                 PROVE  /\ in_use[held[t]]
                        /\ contents[held[t]].counter = used_index[t]
      BY DEF HeldIsStable
    <2>1. CASE pc[t] = "free"
      BY <2>1 DEF IInv, FreeInv
    <2>2. CASE pc[t] \in {"dispatch", "finish"}
      BY <2>2, HeldLive
    <2> QED BY <2>1, <2>2
  <1>2. Spec => []IInv
    BY Invariance
  <1> QED BY <1>1, <1>2, PTL

\* Only parsing writes to a slot, and only to one that everybody is through
\* with.
LEMMA ReuseStep ==
  ASSUME IInv, [Next]_vars,
         NEW s \in Slots, contents'[s].counter # contents[s].counter,
         NEW t \in Threads
  PROVE  Released(t) >= contents[s].counter
  <1> DEFINE c == contents[s].counter
  <1>1. ParseExample
    <2> USE DEF vars, ringVars, shared, workerVars
    <2>1. CASE Parser
      BY <2>1
      DEF Parser, ParserStep, GetUnusedExample, WaitForUnused, Publish, EndPass,
          SetDone, ReleaseSlot
    <2>2. ASSUME NEW u \in Threads, Worker(u) PROVE FALSE
      BY <2>2
      DEF Worker, Take, TakeExample, Await, AwaitExample, Woken, NothingLeft,
          NoExample, Dispatch, Finish, Free, FreeExample, CheckDone, Scan
    <2> QED BY <2>1, <2>2 DEF Next, Joined
  <1>2. /\ contents \in [Slots -> Example]
        /\ parsed_examples \in Nat
        /\ c \in Nat
        /\ Released(t) \in Nat
    BY ReleasedRange DEF IInv, TypeInv, RingTypeOK, Example
  <1>3. s = ParserSlot /\ parser_pc = "parse"
    BY <1>1, <1>2 DEF ParseExample
  <1> SUFFICES ASSUME Released(t) < c PROVE FALSE
    BY <1>2
  <1>4. c > 0
    BY <1>2
  <1>5. c \in 1 .. parsed_examples /\ SlotOf(c - 1) = ParserSlot
    BY <1>2, <1>3, <1>4 DEF IInv, CounterInv
  <1>6. SlotOf(c - 1) # ParserSlot
    BY <1>3, <1>5, ParserSlotClear DEF IInv, ParserInv
  <1> QED BY <1>5, <1>6

\* setup_example never overwrites an example that some thread has yet to take
\* or still works on.
THEOREM ReuseCorrect ==
  ASSUME "save" \notin Kinds PROVE Spec => NoEarlyReuse
  <1>1. IInv /\ [Next]_vars =>
          [\A s \in Slots :
             contents'[s].counter # contents[s].counter =>
               \A t \in Threads : Released(t) >= contents[s].counter]_vars
    BY ReuseStep
  <1>2. Spec => []IInv
    BY Invariance
  <1> QED BY <1>1, <1>2, PTL DEF Spec, NoEarlyReuse

-----------------------------------------------------------------------------
(* The end of the input                                                    *)

\* A thread that has seen done set is still right about it, and one that has
\* left was right about the indices.
ExitInv ==
  /\ \A t \in Threads : pc[t] = "scan" => done
  /\ NoExampleSkipped

\* Once done is set nothing is published and done stays set; an index that has
\* reached parsed_examples cannot move.
LEMMA ExitStep ==
  ASSUME IInv, ExitInv, [Next]_vars PROVE ExitInv'
  <1>1. /\ pc \in [Threads -> NbPcs]
        /\ used_index \in [Threads -> Nat]
        /\ done \in BOOLEAN
    BY DEF IInv, TypeInv, RingTypeOK
  <1>2. done => done' /\ parsed_examples' = parsed_examples
    <2> USE DEF vars, ringVars, shared, workerVars
    <2>1. CASE Parser
      BY <2>1
      DEF Parser, ParserStep, GetUnusedExample, WaitForUnused, ParseExample,
          Publish, EndPass, SetDone, ReleaseSlot, IInv, DoneInv
    <2>2. ASSUME NEW t \in Threads, Worker(t)
          PROVE  done' = done /\ parsed_examples' = parsed_examples
      BY <2>2
      DEF Worker, Take, TakeExample, Await, AwaitExample, Woken, NothingLeft,
          NoExample, Dispatch, Finish, Free, FreeExample, CheckDone, Scan
    <2> QED BY <2>1, <2>2 DEF Next, Joined
  <1>3. \A u \in Threads :
          used_index[u] = parsed_examples => used_index'[u] = used_index[u]
    <2> USE DEF vars, ringVars, shared, workerVars
    <2>1. CASE Parser
      BY <2>1
      DEF Parser, ParserStep, GetUnusedExample, WaitForUnused, ParseExample,
          Publish, EndPass, SetDone, ReleaseSlot
    <2>2. ASSUME NEW t \in Threads, Worker(t), NEW u \in Threads,
                 used_index[u] = parsed_examples
          PROVE  used_index'[u] = used_index[u]
      <3>1. CASE Take(t)
        BY <1>1, <2>2, <3>1 DEF Take, TakeExample
      <3> QED
        BY <2>2, <3>1
        DEF Worker, Await, AwaitExample, Woken, NothingLeft, NoExample,
            Dispatch, Finish, Free, FreeExample, CheckDone, Scan
    <2> QED BY <2>1, <2>2 DEF Next, Joined
  <1>4. ASSUME NEW t \in Threads
        PROVE  /\ pc'[t] = "scan" => pc[t] = "scan" \/ done
               /\ pc'[t] = "exit" =>
                    \/ pc[t] = "exit"
                    \/ pc[t] = "scan" /\ AllUsed
    <2> USE DEF vars, workerVars
    <2>1. CASE Parser
      BY <2>1 DEF Parser
    <2>2. ASSUME NEW u \in Threads, Worker(u)
          PROVE  /\ pc'[t] = "scan" => pc[t] = "scan" \/ done
                 /\ pc'[t] = "exit" =>
                      \/ pc[t] = "exit"
                      \/ pc[t] = "scan" /\ AllUsed
      BY <1>1, <2>2
      DEF Worker, Goto, Take, Await, Woken, NothingLeft, Dispatch, Finish, Free,
          CheckDone, Scan
    <2> QED BY <2>1, <2>2 DEF Next, Joined
  <1>5. \A t \in Threads : pc'[t] = "scan" => done'
    BY <1>2, <1>4 DEF ExitInv
  <1>6. NoExampleSkipped'
    <2> SUFFICES ASSUME NEW t \in Threads, pc'[t] = "exit"
                 PROVE  /\ done'
                        /\ \A u \in Threads : used_index'[u] = parsed_examples'
      BY DEF NoExampleSkipped
    <2>1. done /\ \A u \in Threads : used_index[u] = parsed_examples
      BY <1>4 DEF ExitInv, NoExampleSkipped, AllUsed
    <2> QED BY <1>2, <1>3, <2>1
  <1> QED BY <1>5, <1>6 DEF ExitInv

\* When parser_done tells a thread to leave, the input has ended and every
\* thread has taken every example, although parser_done reads done and the
\* indices one after the other and without a lock.
THEOREM NothingSkipped ==
  ASSUME "save" \notin Kinds PROVE Spec => []NoExampleSkipped
  <1>1. Init => ExitInv
    BY DEF Init, ExitInv, NoExampleSkipped
  <1>2. IInv /\ ExitInv /\ [Next]_vars => ExitInv'
    BY ExitStep
  <1>3. ExitInv => NoExampleSkipped
    BY DEF ExitInv
  <1>4. Spec => []IInv
    BY Invariance
  <1> QED BY <1>1, <1>2, <1>3, <1>4, PTL DEF Spec

\* Whenever done is set every item of the input has been published at least once,
\* however long the input is and whatever the number of passes: of single passes it
\* says nothing, and those that pass_length cuts short leave items out, but
\* the length has doubled past the end by the last one.  Of a text that is being
\* cached the first pass must not be cut short, as the cache is read afterwards.
THEOREM InputRead ==
  ASSUME "save" \notin Kinds, LongFirstPass
  PROVE  Spec => []WholeInputRead
  <1>1. Init => ReadInv
    BY ReadStart DEF Init
  <1>2. IInv /\ IInv' /\ ReadInv /\ [Next]_vars => ReadInv'
    <2> SUFFICES ASSUME IInv, IInv', ReadInv, [Next]_vars PROVE ReadInv'
      OBVIOUS
    <2>1. RingInv /\ RingInv'
      BY DEF IInv, TypeInv, RingInv
    <2>2. CASE Parser
      BY <2>1, <2>2, ReadParser DEF Parser
    <2>3. CASE \E t \in Threads : Worker(t)
      <3> PICK t \in Threads : Worker(t)
        BY <2>3
      <3>1. UNCHANGED source /\ done' = done
            /\ (parser_pc' = parser_pc \/ parser_pc = "wait_unused")
        BY DEF Worker, Take, TakeExample, Await, AwaitExample, Woken,
               NothingLeft, NoExample, Dispatch, Finish, Free, FreeExample,
               WakeParser, CheckDone, Scan, ringVars, shared
      <3>2. done => parser_pc # "wait_unused"
        BY <2>1 DEF RingInv, DoneInv
      <3>3. parser_pc' = "set_done" => parser_pc = "set_done"
        <4>1. parser_pc = "wait_unused" => parser_pc' \in {"wait_unused", "get_unused"}
          BY DEF Worker, Take, TakeExample, Await, AwaitExample, Woken,
                 NothingLeft, NoExample, Dispatch, Finish, Free, FreeExample,
                 WakeParser, CheckDone, Scan, ringVars, shared
        <4> QED BY <3>1, <4>1
      <3> QED BY <3>1, <3>2, <3>3 DEF ReadInv, source
    <2>4. CASE UNCHANGED vars
      BY <2>4 DEF vars, ringVars, shared, source, ReadInv
    <2> QED BY <2>2, <2>3, <2>4 DEF Next, Joined
  <1>3. ReadInv => WholeInputRead
    BY DEF ReadInv, WholeInputRead
  <1>4. Spec => []IInv
    BY Invariance
  <1> QED BY <1>1, <1>2, <1>3, <1>4, PTL DEF Spec

-----------------------------------------------------------------------------
(* The ring is a bounded queue                                             *)

\* A step that neither publishes, takes, ends the input nor lets go of an
\* example is invisible in the queue.
LEMMA QueueStutter ==
  ASSUME UNCHANGED <<parsed_examples, used_index, done>>,
         \A t \in Threads : Released(t)' = Released(t)
  PROVE  UNCHANGED Queue!queue
  BY DEF Queue!queue

\* A thread that lets go of the example it works on.
LEMMA QueueRelease ==
  ASSUME IInv, NEW t \in Threads, pc[t] \in {"dispatch", "finish"},
         UNCHANGED <<parsed_examples, used_index, done>>,
         pc'[t] \notin {"dispatch", "finish"},
         \A u \in Threads : u # t => pc'[u] = pc[u]
  PROVE  Queue!Next
  <1> DEFINE r == [u \in Threads |-> Released(u)]
  <1>1. used_index[t] \in Nat /\ used_index[t] >= 1
    BY HeldLive DEF IInv, TypeInv, RingTypeOK
  <1>2. Released(t) = used_index[t] - 1 /\ Released(t)' = used_index[t]
    BY DEF Released
  <1>3. \A u \in Threads : u # t => Released(u)' = Released(u)
    BY DEF Released
  <1>4. [u \in Threads |-> Released(u)'] = [r EXCEPT ![t] = @ + 1]
    <2>1. Released(t)' = Released(t) + 1
      BY <1>1, <1>2
    <2> QED BY <1>3, <2>1, Zenon
  <1>5. Queue!Release(t)
    BY <1>1, <1>2, <1>4 DEF Queue!Release
  <1> QED BY <1>5 DEF Queue!Next

\* Every step of the ring is a step of the queue, or invisible in it.
LEMMA QueueStep ==
  ASSUME IInv, [Next]_vars, "save" \notin Kinds
  PROVE  [Queue!Next]_Queue!queue
  <1>1. CASE Parser
    <2> USE <1>1 DEF Parser, workerVars, shared, source
    <2>1. ASSUME UNCHANGED used_index
          PROVE  /\ \A t \in Threads : Released(t)' = Released(t)
                 /\ [t \in Threads |-> Released(t)'] = [t \in Threads |-> Released(t)]
      BY <2>1, SameReleased
    <2>2. CASE Publish
      <3> USE <2>2 DEF Publish
      <3>1. ~done /\ \A t \in Threads : parsed_examples - Released(t) < RingSize
        BY DEF IInv, DoneInv, ParserInv, TypeInv, RingTypeOK
      <3>2. Queue!Write
        BY <2>1, <3>1 DEF Queue!Write
      <3> QED BY <3>2 DEF Queue!Next
    <2>3. CASE SetDone
      <3> USE <2>3 DEF SetDone
      <3>1. ~done
        BY DEF IInv, DoneInv, TypeInv, RingTypeOK
      <3>2. Queue!Close
        BY <2>1, <3>1 DEF Queue!Close
      <3> QED BY <3>2 DEF Queue!Next
    <2>4. CASE GetUnusedExample \/ WaitForUnused \/ ParseExample \/ EndPass
               \/ ReleaseSlot
      <3>1. UNCHANGED <<parsed_examples, used_index, done>>
        BY <2>4
        DEF GetUnusedExample, WaitForUnused, ParseExample, EndPass, ReleaseSlot
      <3> QED BY <2>1, <3>1, QueueStutter
    <2> QED BY <2>2, <2>3, <2>4 DEF ParserStep
  <1>2. ASSUME NEW t \in Threads, Worker(t) PROVE [Queue!Next]_Queue!queue
    <2> USE DEF Goto, ringVars, shared, source
    <2>1. /\ pc \in [Threads -> NbPcs]
          /\ used_index \in [Threads -> Nat]
          /\ parsed_examples \in Nat
      BY DEF IInv, TypeInv, RingTypeOK
    <2>2. CASE Take(t)
      <3> USE <2>2 DEF Take, TakeExample
      <3>1. used_index[t] < parsed_examples
        BY <2>1 DEF IInv, UsedInv
      <3>2. \A u \in Threads : Released(u)' = Released(u)
        BY <2>1 DEF Released
      <3>3. [u \in Threads |-> Released(u)'] = [u \in Threads |-> Released(u)]
        BY <3>2
      <3>4. Released(t) = used_index[t]
        BY DEF Released
      <3>5. Queue!Take(t)
        BY <3>1, <3>3, <3>4 DEF Queue!Take
      <3> QED BY <3>5 DEF Queue!Next
    <2>3. CASE Dispatch(t)
      <3>1. /\ UNCHANGED <<parsed_examples, used_index, done>>
            /\ pc[t] = "dispatch"
            /\ \A u \in Threads : u # t => pc'[u] = pc[u]
        BY <2>1, <2>3 DEF Dispatch
      <3>2. CASE pc'[t] = "finish"
        <4>1. \A u \in Threads : Released(u)' = Released(u)
          BY <3>1, <3>2 DEF Released
        <4> QED BY <3>1, <4>1, QueueStutter
      <3>3. CASE pc'[t] # "finish"
        <4>1. pc'[t] \notin {"dispatch", "finish"}
          BY <2>1, <2>3, <3>3 DEF Dispatch
        <4> QED BY <3>1, <4>1, QueueRelease
      <3> QED BY <3>2, <3>3
    <2>4. CASE Finish(t)
      <3>1. /\ UNCHANGED <<parsed_examples, used_index, done>>
            /\ pc[t] = "finish"
            /\ pc'[t] \notin {"dispatch", "finish"}
            /\ \A u \in Threads : u # t => pc'[u] = pc[u]
        BY <2>1, <2>4 DEF Finish
      <3> QED BY <3>1, QueueRelease
    <2>5. CASE Free(t) \/ Await(t) \/ Woken(t) \/ NothingLeft(t)
               \/ CheckDone(t) \/ Scan(t)
      <3>1. UNCHANGED <<parsed_examples, used_index, done>>
        BY <2>5
        DEF Free, FreeExample, Await, AwaitExample, Woken, NothingLeft,
            NoExample, CheckDone, Scan
      <3>2. /\ pc[t] \notin {"dispatch", "finish"}
            /\ pc'[t] \notin {"dispatch", "finish"}
            /\ \A u \in Threads : u # t => pc'[u] = pc[u]
        BY <2>1, <2>5
        DEF Free, Await, Woken, NothingLeft, CheckDone, Scan
      <3>3. \A u \in Threads : Released(u)' = Released(u)
        BY <3>1, <3>2 DEF Released
      <3> QED BY <3>1, <3>3, QueueStutter
    <2> QED BY <1>2, <2>2, <2>3, <2>4, <2>5 DEF Worker
  <1>3. CASE UNCHANGED vars
    <2> USE <1>3 DEF vars, ringVars, workerVars, shared
    <2>1. \A t \in Threads : Released(t)' = Released(t)
      BY DEF Released
    <2> QED BY <2>1, QueueStutter
  <1> QED BY <1>1, <1>2, <1>3 DEF Next, Joined

\* The ring of examples, with its slots, counts and condition variables,
\* behaves like a queue that every worker reads completely and in order and
\* that never holds more than RingSize examples.
THEOREM RingIsQueue ==
  ASSUME "save" \notin Kinds PROVE Spec => ImplementsQueue
  <1>1. Init => Queue!Init
    <2> SUFFICES ASSUME Init PROVE Queue!Init
      OBVIOUS
    <2>1. \A t \in Threads : Released(t) = 0
      BY DEF Init, RingInit, Released
    <2> QED BY <2>1 DEF Init, RingInit, Queue!Init
  <1>2. IInv /\ [Next]_vars => [Queue!Next]_Queue!queue
    BY QueueStep
  <1>3. Spec => []IInv
    BY Invariance
  <1> QED BY <1>1, <1>2, <1>3, PTL DEF Spec, ImplementsQueue, Queue!Spec
=============================================================================
