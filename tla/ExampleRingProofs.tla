------------------------- MODULE ExampleRingProofs -------------------------
(***************************************************************************)
(* Facts about the ring of examples that hold whatever the workers do with *)
(* it: the arithmetic of its slots, counting threads, and what the parser  *)
(* keeps true.  The proofs about the threads of nb.cc and of gd.cc rest on *)
(* them.                                                                   *)
(***************************************************************************)
EXTENDS ExampleRing, FiniteSetTheorems, TLAPS

\* What the parser may read: the cache never holds more than the file.
InputInv ==
  /\ cached <= FileLen
  /\ write_cache => reading = "text" /\ cached = position

DoneInv == done => parser_pc \in {"release", "exit"}

UsedInv == \A t \in Threads : used_index[t] <= parsed_examples

\* An example is in the slot of its number, and was published or is about to
\* be.
CounterInv ==
  \A s \in Slots : contents[s].counter > 0 =>
    /\ SlotOf(contents[s].counter - 1) = s
    /\ \/ contents[s].counter <= parsed_examples
       \/ parser_pc = "publish" /\ contents[s].counter = parsed_examples + 1

\* Only for an input without an example tagged "save".
KindInv == \A s \in Slots : contents[s].kind # "save"

-----------------------------------------------------------------------------
(* The arithmetic of the ring                                              *)

\* Division with remainder.
LEMMA DivMod ==
  ASSUME NEW n \in Int, NEW d \in Nat \ {0}
  PROVE  /\ (n % d) \in 0 .. d - 1
         /\ (n \div d) \in Int
         /\ n = d * (n \div d) + (n % d)
  BY Z3

\* A multiple of d between 0 and d - 1 is 0.
LEMMA SmallMultiple ==
  ASSUME NEW a \in Int, NEW b \in Int, NEW d \in Nat \ {0}, NEW x \in Int,
         a - b = d * x, 0 <= a - b, a - b < d
  PROVE  a = b
  <1>1. CASE x >= 1
    <2>1. d * x >= d
      BY <1>1, Z3
    <2> QED BY <2>1
  <1>2. CASE x <= 0
    <2>1. d * x <= 0
      BY <1>2, Z3
    <2> QED BY <2>1
  <1> QED BY <1>1, <1>2

\* Every number has a slot.
LEMMA SlotRange == \A n \in Nat : SlotOf(n) \in Slots
  <1> SUFFICES ASSUME NEW n \in Nat PROVE SlotOf(n) \in Slots
    OBVIOUS
  <1>1. (n % RingSize) \in 0 .. RingSize - 1
    BY DivMod, RingAssumption
  <1> QED BY <1>1 DEF SlotOf, Slots

\* Two numbers less than a whole ring apart have different slots.
LEMMA SlotsDiffer ==
  ASSUME NEW a \in Nat, NEW b \in Nat, b < a, a - b < RingSize
  PROVE  SlotOf(a) # SlotOf(b)
  <1> SUFFICES ASSUME a % RingSize = b % RingSize PROVE FALSE
    BY DEF SlotOf
  <1> DEFINE p == a \div RingSize
             q == b \div RingSize
             r == a % RingSize
  <1>1. p \in Int /\ r \in Int /\ a = RingSize * p + r
    BY DivMod, RingAssumption
  <1>2. q \in Int /\ b = RingSize * q + r
    BY DivMod, RingAssumption
  <1> HIDE DEF p, q, r
  <1>3. a - b = RingSize * (p - q)
    BY <1>1, <1>2, RingAssumption, Z3
  <1>4. a = b
    BY <1>1, <1>2, <1>3, SmallMultiple, RingAssumption
  <1> QED BY <1>4

\* A whole ring apart, they have the same slot.
LEMMA SlotAgain ==
  ASSUME NEW a \in Nat, a >= RingSize
  PROVE  SlotOf(a - RingSize) = SlotOf(a)
  <1> DEFINE p == a \div RingSize
             q == (a - RingSize) \div RingSize
             r == a % RingSize
             s == (a - RingSize) % RingSize
  <1>1. p \in Int /\ r \in 0 .. RingSize - 1 /\ a = RingSize * p + r
    BY DivMod, RingAssumption
  <1>2. /\ q \in Int /\ s \in 0 .. RingSize - 1
        /\ a - RingSize = RingSize * q + s
    <2>1. a - RingSize \in Int
      BY RingAssumption
    <2> QED BY <2>1, DivMod, RingAssumption
  <1> HIDE DEF p, q, r, s
  <1>3. r - s = RingSize * (q + 1 - p)
    BY <1>1, <1>2, RingAssumption, Z3
  <1>4. s - r = RingSize * (p - (q + 1))
    BY <1>1, <1>2, RingAssumption, Z3
  <1>5. RingSize \in Nat \ {0} /\ r \in Int /\ s \in Int
        /\ q + 1 - p \in Int /\ p - (q + 1) \in Int
        /\ r - s < RingSize /\ s - r < RingSize
    BY <1>1, <1>2, RingAssumption
  <1>6. r >= s => r = s
    BY <1>3, <1>5, SmallMultiple
  <1>7. s >= r => s = r
    BY <1>4, <1>5, SmallMultiple
  <1>8. r = s
    BY <1>5, <1>6, <1>7
  <1> QED BY <1>8 DEF SlotOf, r, s

-----------------------------------------------------------------------------
(* Counting threads                                                        *)

\* There are NumThreads of them.
LEMMA ThreadCount == IsFiniteSet(Threads) /\ Cardinality(Threads) = NumThreads
  <1>1. NumThreads \in Nat \ {0}
    BY RingAssumption
  <1>2. 0 \in Int /\ NumThreads - 1 \in Int
    BY <1>1
  <1>3. /\ IsFiniteSet(0 .. NumThreads - 1)
        /\ Cardinality(0 .. NumThreads - 1) =
             IF 0 > NumThreads - 1 THEN 0 ELSE NumThreads - 1 - 0 + 1
    BY <1>2, FS_Interval
  <1> QED BY <1>1, <1>3 DEF Threads

\* A set of threads is finite and has at most NumThreads members.
LEMMA SomeThreads ==
  ASSUME NEW S, S \subseteq Threads
  PROVE  IsFiniteSet(S) /\ Cardinality(S) \in 0 .. NumThreads
  <1>1. IsFiniteSet(S) /\ Cardinality(S) <= NumThreads
    BY ThreadCount, FS_Subset
  <1>2. Cardinality(S) \in Nat
    BY <1>1, FS_CardinalityType
  <1> QED BY <1>1, <1>2, RingAssumption

\* It has no more members than a larger one.
LEMMA FewerThreads ==
  ASSUME NEW S, NEW T, T \subseteq Threads, S \subseteq T
  PROVE  Cardinality(S) <= Cardinality(T)
  BY SomeThreads, FS_Subset

\* One of them leaves, and there is one less.
LEMMA OneThreadLeaves ==
  ASSUME NEW S, S \subseteq Threads, NEW t \in S
  PROVE  /\ Cardinality(S) >= 1
         /\ Cardinality(S \ {t}) = Cardinality(S) - 1
  <1>1. IsFiniteSet(S) /\ Cardinality(S) \in Nat
    BY SomeThreads, RingAssumption
  <1>2. Cardinality(S) # 0
    BY <1>1, FS_EmptySet
  <1>3. Cardinality(S \ {t}) = Cardinality(S) - 1
    BY <1>1, FS_RemoveElement
  <1> QED BY <1>1, <1>2, <1>3

\* A thread that counts for all of them is alone.
LEMMA OnlyThread ==
  ASSUME NEW S, S \subseteq Threads, NEW t \in S, Cardinality(S) <= 1
  PROVE  S = {t}
  <1>1. S \ {t} \subseteq Threads
    OBVIOUS
  <1>2. Cardinality(S \ {t}) \in 0 .. NumThreads /\ IsFiniteSet(S \ {t})
    BY <1>1, SomeThreads
  <1>3. Cardinality(S) \in 0 .. NumThreads
    BY SomeThreads
  <1>4. Cardinality(S \ {t}) = Cardinality(S) - 1
    BY OneThreadLeaves
  <1>5. Cardinality(S \ {t}) = 0
    BY <1>2, <1>3, <1>4, RingAssumption
  <1>6. S \ {t} = {}
    BY <1>2, <1>5, FS_EmptySet
  <1> QED BY <1>6

-----------------------------------------------------------------------------
(* What the parser keeps true                                              *)

RingInv ==
  /\ RingTypeOK
  /\ InputInv
  /\ DoneInv
  /\ UsedInv
  /\ CounterInv
  /\ KindInv

\* At the start the ring is empty.
LEMMA RingStart == RingInit => RingInv
  <1> SUFFICES ASSUME RingInit PROVE RingInv
    OBVIOUS
  <1> USE DEF RingInit
  <1>1. NumThreads \in Nat \ {0} /\ RingSize \in Nat \ {0} /\ FileLen \in Nat
        /\ InitialPassLength \in Nat
    BY RingAssumption
  <1>2. [counter |-> 0, pass |-> 0, kind |-> "labelled", done |-> FALSE]
          \in Example
    BY DEF Example, AllKinds
  <1>3. write_cache \in BOOLEAN
    OBVIOUS
  <1>4. /\ in_use \in [Slots -> BOOLEAN]
        /\ contents \in [Slots -> Example]
        /\ threads_to_finish \in [Slots -> Int]
    BY <1>2
  <1>5. /\ parsed_examples \in Nat
        /\ used_index \in [Threads -> Nat]
        /\ done \in BOOLEAN
        /\ example_available \subseteq Threads
        /\ aborted \in BOOLEAN
        /\ parser_pc \in ParserPcs
        /\ example_number \in Nat
        /\ passes_complete \in Nat
        /\ pass_length \in Nat
        /\ position \in Nat
        /\ reading \in {"text", "cache"}
        /\ cached \in Nat
        /\ stream \in [Items -> Kinds]
        /\ seen \subseteq Nat
    BY <1>1 DEF ParserPcs
  <1>6. RingTypeOK
    BY <1>3, <1>4, <1>5 DEF RingTypeOK
  <1>7. InputInv
    <2>1. cached <= FileLen
      BY <1>1
    <2>2. write_cache => Source = "text_to_cache"
      OBVIOUS
    <2>3. Source = "text_to_cache" => reading = "text" /\ cached = position
      OBVIOUS
    <2> QED BY <2>1, <2>2, <2>3 DEF InputInv
  <1>8. DoneInv /\ UsedInv /\ CounterInv /\ KindInv
    BY <1>1 DEF DoneInv, UsedInv, CounterInv, KindInv
  <1> QED BY <1>6, <1>7, <1>8 DEF RingInv

\* An example is parsed into the slot of the parser.
LEMMA ParsedExample ==
  ASSUME RingInv, ParseExample, "save" \notin Kinds
  PROVE  LET e == contents'[ParserSlot]
         IN  /\ ParserSlot \in Slots
             /\ e \in Example
             /\ e.counter = parsed_examples + 1
             /\ e.kind # "save"
             /\ e.done = FALSE
             /\ contents' = [contents EXCEPT ![ParserSlot] = e]
             /\ position + 1 \in Items
  <1> USE DEF ParseExample
  <1> DEFINE e == [counter |-> parsed_examples + 1,
                   pass    |-> passes_complete,
                   kind    |-> stream[position + 1],
                   done    |-> FALSE]
  <1>1. ParserSlot \in Slots
    BY SlotRange DEF ParserSlot, RingInv, RingTypeOK
  <1>2. position + 1 \in Items
    BY RingAssumption
    DEF RingInv, RingTypeOK, InputInv, Readable, InputLen, Items
  <1>3. stream[position + 1] \in Kinds
    BY <1>2 DEF RingInv, RingTypeOK
  <1>4. e \in Example
    BY <1>3, RingAssumption DEF Example, RingInv, RingTypeOK
  <1>5. contents' = [contents EXCEPT ![ParserSlot] = e]
    OBVIOUS
  <1>6. contents \in [Slots -> Example]
    BY DEF RingInv, RingTypeOK
  <1>7. e.counter = parsed_examples + 1 /\ e.kind # "save" /\ e.done = FALSE
    BY <1>3
  <1> HIDE DEF e
  <1>8. contents'[ParserSlot] = e
    BY <1>1, <1>5, <1>6
  <1> QED BY <1>1, <1>2, <1>4, <1>5, <1>7, <1>8

LEMMA RingParse ==
  ASSUME RingInv, ParseExample, "save" \notin Kinds PROVE RingInv'
  <1> DEFINE e == contents'[ParserSlot]
  <1>1. /\ ParserSlot \in Slots
        /\ e \in Example
        /\ e.counter = parsed_examples + 1
        /\ e.kind # "save"
        /\ contents' = [contents EXCEPT ![ParserSlot] = e]
        /\ position + 1 \in Items
    BY ParsedExample
  <1> HIDE DEF e
  <1>2. contents \in [Slots -> Example] /\ parsed_examples \in Nat
    BY DEF RingInv, RingTypeOK
  <1>3. \A s \in Slots : contents'[s] = IF s = ParserSlot THEN e ELSE contents[s]
    BY <1>1, <1>2
  <1> USE DEF ParseExample
  <1>4. RingTypeOK'
    <2>1. contents' \in [Slots -> Example]
      BY <1>1, <1>2
    <2>2. threads_to_finish' \in [Slots -> Int]
      <3>1. threads_to_finish' = [threads_to_finish EXCEPT ![ParserSlot] = NumThreads]
        BY DEF ThreadsPerExample
      <3>2. NumThreads \in Int /\ threads_to_finish \in [Slots -> Int]
        BY RingAssumption DEF RingInv, RingTypeOK
      <3> HIDE DEF ParseExample
      <3> QED BY <3>1, <3>2
    <2>3. /\ position' \in Nat
          /\ cached' \in Nat
          /\ seen' \subseteq Nat
          /\ example_number' \in Nat
      BY DEF RingInv, RingTypeOK
    <2> QED BY <2>1, <2>2, <2>3 DEF RingInv, RingTypeOK, ParserPcs
  <1>5. InputInv' /\ DoneInv'
    BY RingAssumption
    DEF RingInv, RingTypeOK, InputInv, DoneInv, Readable, InputLen
  <1>6. UsedInv'
    BY DEF RingInv, UsedInv
  <1>7. CounterInv'
    <2>1. parser_pc = "parse" /\ parser_pc' = "publish"
          /\ parsed_examples' = parsed_examples
      OBVIOUS
    <2>3. SlotOf(parsed_examples) = ParserSlot
      BY DEF ParserSlot
    <2> HIDE DEF ParseExample
    <2> SUFFICES ASSUME NEW s \in Slots, contents'[s].counter > 0
                 PROVE  /\ SlotOf(contents'[s].counter - 1) = s
                        /\ \/ contents'[s].counter <= parsed_examples
                           \/ contents'[s].counter = parsed_examples + 1
      BY <2>1 DEF CounterInv
    <2>4. CASE s = ParserSlot
      <3>1. contents'[s].counter = parsed_examples + 1
        BY <1>1, <1>3, <2>4
      <3>2. contents'[s].counter - 1 = parsed_examples
        BY <1>2, <3>1
      <3>3. SlotOf(contents'[s].counter - 1) = s
        BY <2>3, <2>4, <3>2
      <3> QED BY <3>1, <3>3
    <2>5. CASE s # ParserSlot
      BY <1>3, <2>1, <2>5 DEF RingInv, CounterInv
    <2> QED BY <2>4, <2>5
  <1>8. KindInv'
    BY <1>1, <1>3 DEF RingInv, KindInv
  <1> QED BY <1>4, <1>5, <1>6, <1>7, <1>8 DEF RingInv

\* No step of the parser breaks the ring.
LEMMA RingParser ==
  ASSUME RingInv, ParserStep, "save" \notin Kinds
  PROVE  RingInv'
  <1> USE DEF RingInv
  <1>1. parsed_examples \in Nat /\ ParserSlot \in Slots
    BY SlotRange DEF ParserSlot, RingTypeOK
  <1>2. CASE GetUnusedExample
    <2> USE <1>2 DEF GetUnusedExample, source
    <2>1. RingTypeOK'
      BY <1>1 DEF RingTypeOK, ParserPcs
    <2>2. InputInv' /\ DoneInv' /\ UsedInv' /\ CounterInv' /\ KindInv'
      BY DEF InputInv, DoneInv, UsedInv, CounterInv, KindInv
    <2> QED BY <2>1, <2>2
  <1>3. CASE WaitForUnused
    <2> USE <1>3 DEF WaitForUnused, shared, source
    <2>1. RingTypeOK'
      BY DEF RingTypeOK, ParserPcs
    <2>2. InputInv' /\ DoneInv' /\ UsedInv' /\ CounterInv' /\ KindInv'
      BY DEF InputInv, DoneInv, UsedInv, CounterInv, KindInv
    <2> QED BY <2>1, <2>2
  <1>4. CASE ParseExample
    BY <1>4, RingParse
  <1>5. CASE Publish
    <2> USE <1>5 DEF Publish, source
    <2>1. RingTypeOK'
      BY DEF RingTypeOK, ParserPcs, WakeWorkers
    <2>2. InputInv' /\ DoneInv' /\ KindInv'
      BY DEF InputInv, DoneInv, KindInv
    <2>3. UsedInv'
      BY <1>1 DEF UsedInv, RingTypeOK
    <2>4. CounterInv'
      <3>1. \A s \in Slots : contents[s].counter \in Nat
        BY DEF RingTypeOK, Example
      <3> QED BY <1>1, <3>1 DEF CounterInv
    <2> QED BY <2>1, <2>2, <2>3, <2>4
  <1>6. CASE EndPass
    <2> USE <1>6 DEF EndPass, ResetSource, shared
    <2>1. RingTypeOK'
      <3>1. /\ passes_complete' \in Nat
            /\ pass_length' \in Nat
            /\ example_number' \in Nat
            /\ position' \in Nat
        BY DEF RingTypeOK
      <3>2. reading' \in {"text", "cache"} /\ write_cache' \in BOOLEAN
        BY DEF RingTypeOK
      <3>3. parser_pc' \in ParserPcs
        BY DEF ParserPcs
      <3> QED BY <3>1, <3>2, <3>3 DEF RingTypeOK
    <2>2. InputInv' /\ DoneInv' /\ UsedInv' /\ CounterInv' /\ KindInv'
      BY DEF InputInv, DoneInv, UsedInv, CounterInv, KindInv
    <2> QED BY <2>1, <2>2
  <1>7. CASE SetDone
    <2> USE <1>7 DEF SetDone, source
    <2>1. RingTypeOK'
      BY DEF RingTypeOK, ParserPcs
    <2>2. InputInv' /\ DoneInv' /\ UsedInv' /\ CounterInv' /\ KindInv'
      BY DEF InputInv, DoneInv, UsedInv, CounterInv, KindInv
    <2> QED BY <2>1, <2>2
  <1>8. CASE ReleaseSlot
    <2> USE <1>8 DEF ReleaseSlot, source
    <2>1. RingTypeOK'
      BY <1>1 DEF RingTypeOK, ParserPcs, WakeWorkers
    <2>2. InputInv' /\ DoneInv' /\ UsedInv' /\ CounterInv' /\ KindInv'
      BY DEF InputInv, DoneInv, UsedInv, CounterInv, KindInv
    <2> QED BY <2>1, <2>2
  <1> QED BY <1>2, <1>3, <1>4, <1>5, <1>6, <1>7, <1>8 DEF ParserStep

\* A step that moves nothing but waiting threads does not break it either.
LEMMA RingStill ==
  ASSUME RingInv,
         UNCHANGED <<in_use, contents, threads_to_finish, parsed_examples,
                     used_index, done, parser_pc, source>>,
         example_available' \subseteq Threads, aborted' \in BOOLEAN
  PROVE  RingInv'
  <1> USE DEF RingInv, source
  <1>1. RingTypeOK'
    BY DEF RingTypeOK
  <1>2. InputInv' /\ DoneInv' /\ UsedInv' /\ CounterInv' /\ KindInv'
    BY DEF InputInv, DoneInv, UsedInv, CounterInv, KindInv
  <1> QED BY <1>1, <1>2

\* Nor does one that changes what the slots count, whether they are in use, or
\* whether their examples are done, and wakes the parser.
LEMMA RingWorker ==
  ASSUME RingInv,
         UNCHANGED <<parsed_examples, used_index, done, source>>,
         example_available' \subseteq Threads, aborted' \in BOOLEAN,
         in_use' \in [Slots -> BOOLEAN],
         threads_to_finish' \in [Slots -> Int],
         contents' \in [Slots -> Example],
         \A s \in Slots : /\ contents'[s].counter = contents[s].counter
                         /\ contents'[s].kind = contents[s].kind,
         parser_pc' \in {parser_pc, WakeParser}
  PROVE  RingInv'
  <1> USE DEF RingInv, source, WakeParser
  <1>1. RingTypeOK'
    BY DEF RingTypeOK, ParserPcs
  <1>2. InputInv' /\ DoneInv' /\ UsedInv'
    BY DEF InputInv, DoneInv, UsedInv
  <1>3. CounterInv' /\ KindInv'
    BY DEF CounterInv, KindInv
  <1> QED BY <1>1, <1>2, <1>3

-----------------------------------------------------------------------------
(* What of the input has been read                                         *)

\* The first pass is not cut short, or reading goes on where it was cut.
LongFirstPass == Source = "text" \/ InitialPassLength > FileLen

\* While the parser reads the text it has seen all of it up to where it is;
\* once it reads the cache, or has ended, it has seen everything.
ReadInv ==
  /\ position <= FileLen
  /\ reading = "text" => seen = 1 .. position
  /\ reading = "cache" => seen = Items /\ cached = FileLen
  /\ write_cache => cached = position
  /\ Source = "text" => /\ reading = "text" /\ ~write_cache
                        /\ passes_complete = 0 \/ parser_pc = "set_done" \/ done
  /\ Source = "text_to_cache" =>
       /\ pass_length > FileLen
       /\ example_number = position
       /\ write_cache <=> reading = "text"
  /\ parser_pc = "set_done" \/ done => seen = Items

LEMMA ReadStart == RingInit /\ LongFirstPass => ReadInv
  <1> SUFFICES ASSUME RingInit, LongFirstPass PROVE ReadInv
    OBVIOUS
  <1> USE DEF RingInit
  <1>1. FileLen \in Nat /\ seen = 1 .. 0 /\ reading # "cache"
    BY RingAssumption
  <1>2. write_cache <=> Source = "text_to_cache"
    OBVIOUS
  <1>3. write_cache => cached = position
    OBVIOUS
  <1>4. Source = "text_to_cache" => pass_length > FileLen
    BY DEF LongFirstPass
  <1> QED BY <1>1, <1>2, <1>3, <1>4 DEF ReadInv

\* A pass over the text or the cache only ends early when it is cut short.
LEMMA ReadParser ==
  ASSUME RingInv, RingInv', ReadInv, ParserStep, LongFirstPass
  PROVE  ReadInv'
  <1> USE DEF ReadInv
  <1>1. /\ FileLen \in Nat /\ NumPasses \in Nat \ {0}
        /\ Source \in {"text", "text_to_cache"}
        /\ Source = "text" => NumPasses = 1
    BY RingAssumption DEF Sources
  <1>2. /\ position \in Nat /\ cached \in Nat /\ cached <= FileLen
        /\ reading \in {"text", "cache"} /\ write_cache \in BOOLEAN
        /\ example_number \in Nat /\ pass_length \in Nat
        /\ passes_complete \in Nat /\ done \in BOOLEAN
        /\ done => parser_pc \in {"release", "exit"}
    BY DEF RingInv, RingTypeOK, InputInv, DoneInv
  <1>3. CASE GetUnusedExample
    BY <1>2, <1>3 DEF GetUnusedExample, source
  <1>4. CASE WaitForUnused
    BY <1>2, <1>4 DEF WaitForUnused, shared, source
  <1>5. CASE ParseExample
    <2> USE <1>5 DEF ParseExample, Readable
    <2>1. position < InputLen /\ InputLen <= FileLen
      BY <1>1, <1>2 DEF InputLen
    <2>2. position' = position + 1 /\ position' <= FileLen
      BY <1>1, <1>2, <2>1 DEF InputLen
    <2>3. reading = "text" => seen' = 1 .. position'
      BY <1>2, <2>2
    <2>4. position + 1 \in Items
      BY <1>1, <1>2, <2>2 DEF Items
    <2>5. reading = "cache" => seen' = Items /\ cached' = FileLen
      BY <1>1, <1>2, <2>4
    <2>6. ~done /\ ~done' /\ parser_pc' = "publish"
      BY <1>2
    <2>7. write_cache' => cached' = position'
      BY <2>2
    <2>8. Source = "text_to_cache" => example_number' = position'
      BY <2>2
    <2> QED BY <2>2, <2>3, <2>5, <2>6, <2>7, <2>8
  <1>6. CASE Publish
    BY <1>2, <1>6 DEF Publish, source
  <1>7. CASE EndPass
    <2> USE <1>7 DEF EndPass, ResetSource, shared
    <2>1. ~done /\ ~done' /\ seen' = seen /\ cached' = cached
      BY <1>2
    <2>2. CASE Source = "text"
      <3>1. /\ ~write_cache /\ reading' = "text" /\ ~write_cache'
            /\ position' = position
        BY <2>2 DEF Resettable
      <3>2. passes_complete = 0 /\ NumPasses = 1
        BY <1>1, <2>1, <2>2
      <3>3. CASE NeedsLongerPass
        BY <2>1, <2>2, <3>1, <3>3
      <3>4. CASE ~NeedsLongerPass
        <4>1. parser_pc' = "set_done"
          BY <3>2, <3>4
        <4>2. example_number # pass_length
          BY <3>2, <3>4 DEF NeedsLongerPass
        <4>3. position = FileLen
          BY <1>1, <1>2, <2>2, <4>2 DEF Readable, InputLen
        <4>4. seen = Items
          BY <2>2, <4>3 DEF Items
        <4> QED BY <2>1, <2>2, <3>1, <4>1, <4>4
      <3> QED BY <3>3, <3>4
    <2>3. CASE Source = "text_to_cache"
      <3>1. example_number # pass_length
        BY <1>1, <1>2, <2>3
      <3>2. position >= InputLen
        BY <1>1, <1>2, <3>1 DEF Readable, InputLen
      <3>3. seen = Items /\ cached = FileLen
        BY <1>1, <1>2, <2>3, <3>2 DEF InputLen, Items
      <3>4. ~NeedsLongerPass
        BY <3>1 DEF NeedsLongerPass
      <3>5. /\ position' = 0 /\ example_number' = 0
            /\ reading' = "cache" /\ write_cache' = FALSE
            /\ pass_length' = pass_length
        BY <1>2, <2>3, <3>4 DEF Resettable
      <3> QED BY <1>1, <2>1, <2>3, <3>3, <3>5
    <2> QED BY <1>1, <2>2, <2>3
  <1>8. CASE SetDone
    BY <1>2, <1>8 DEF SetDone, source
  <1>9. CASE ReleaseSlot
    BY <1>2, <1>9 DEF ReleaseSlot, source
  <1> QED BY <1>3, <1>4, <1>5, <1>6, <1>7, <1>8, <1>9 DEF ParserStep
=============================================================================
