----------------------------- MODULE NaiveBayes -----------------------------
(***************************************************************************)
(* The statistics of naive Bayes: the header that says what the attributes *)
(* are, the observers that training makes of them, the model file they are *)
(* read from, and what is made of them at the end.  The counts and moments *)
(* are left out; what decides how the program goes on is kept, the number  *)
(* of examples observed and the kind of each attribute's observer.         *)
(*                                                                         *)
(* A function that may end the program returns the driver's next pc.       *)
(***************************************************************************)
EXTENDS Integers, SequencesExt, FiniteSetsExt, TLC

None == "none"        \* a null observer
Hollow == "hollow"    \* nominal, without any class

-----------------------------------------------------------------------------
(* The XML header.  The key of a feature is the hash of its name.          *)

\* What cannot be loaded leaves an empty header.
ParseArfHeader(elements) ==
  LET named == SelectSeq(elements, LAMBDA e : e.kind = "feature")
  IN  [no_of_features   |-> Len(named),
       no_of_categories |-> Len(elements) - Len(named),
       features         |-> FoldLeft(LAMBDA m, e : (e.key :> e.type) @@ m, <<>>, named)]

\* A feature that the header does not know is entered there as a numeric one.
TypeOf(h, key) == IF key \in DOMAIN h.features THEN h.features[key] ELSE "numeric"

\* noOfObservedExamples starts from whatever is in its memory.
NbVars(h, garbage) ==
  [header |-> h, total |-> garbage,
   observers |-> [a \in 0 .. h.no_of_features - 1 |-> None]]

-----------------------------------------------------------------------------
(* The model file: lines of classes (left out), then one per observer.     *)

EmptyFile == [lines |-> <<>>, size |-> 0]
ModelFile(lines) == [lines |-> lines, size |-> 1]

\* A numeric line makes an observer; the last field of a nominal one is never
\* found, and nothing is ever entered in its observer.
ParsedLine(line) == IF line.type = "nominal" THEN Hollow ELSE line.type

\* Each line makes attNo observers of all there are.  That the line was parsed
\* before attNo was read is not certain.
AttNos(lines) ==
  {Last(lines).att, IF Len(lines) > 1 THEN lines[Len(lines) - 1].att ELSE 0}

ReadModelFile(vars, lines) ==
  IF lines = <<>> THEN {vars}
  ELSE {[vars EXCEPT !.observers =
           [a \in 0 .. (IF @ = <<>> THEN attNo ELSE vars.header.no_of_features) - 1 |->
              IF a < attNo THEN ParsedLine(Last(lines)) ELSE None]] : attNo \in AttNos(lines)}

\* setup_nb: the statistics a run may start from.
SetupNb(vars, file) ==
  IF "size" \in DOMAIN file /\ file.size > 0 THEN ReadModelFile(vars, file.lines)
                                             ELSE {vars}

\* What of each attribute that has an observer is written.
CreateModelFileContent(h, observers) ==
  LET written == SelectSeq([n \in 1 .. h.no_of_features |-> n - 1],
                           LAMBDA a : observers[a] # None)
  IN  [n \in DOMAIN written |-> [att |-> written[n], type |-> observers[written[n]]]]

-----------------------------------------------------------------------------
(* nb_train_on_example                                                     *)

\* The thread's own features of a namespace, as setup_example cut them.
Subset(features, thread, expert_size) ==
  SelectSeq(features, LAMBDA i : i \div expert_size = thread)

\* Attributes are numbered by their place, anew in every namespace.
Met(h, namespaces, thread, expert_size) ==
  FlattenSeq([n \in DOMAIN namespaces |->
    LET own == Subset(namespaces[n], thread, expert_size)
    IN  [j \in 1 .. Min({Len(own), h.no_of_features}) |-> [att |-> j - 1, index |-> own[j]]]])

\* An attribute's observer is made for the first feature in its place; another
\* of a different type there is a null pointer after the cast.
Observe(r, feature) ==
  LET type  == TypeOf(r.vars.header, feature.index)
      found == r.vars.observers[feature.att]
  IN  IF r.pc # "nb" THEN r
      ELSE CASE found = None /\ type = "time" -> [r EXCEPT !.pc = "exited"]
             [] found = None /\ type # "time" ->
                  [r EXCEPT !.vars.observers[feature.att] = type]
             [] type # "time" /\ found \notin {None, type} -> [r EXCEPT !.pc = "crashed"]
             [] OTHER -> r

TrainOnExample(r, namespaces, thread, expert_size) ==
  FoldLeft(Observe, [r EXCEPT !.vars.total = @ + 1],
           Met(r.vars.header, namespaces, thread, expert_size))

\* naive_bayes_predict, in each of the threads: one vote less than there are
\* classes is allocated.  For each vote a nominal observer is asked for a class;
\* a hollow one has none.  An observer of the other type is passed over.
Predict(vars, namespaces, threads, expert_size, next) ==
  LET asksHollow(feature) ==
        /\ TypeOf(vars.header, feature.index) # "numeric"
        /\ vars.observers[feature.att] = Hollow
      met(thread) == ToSet(Met(vars.header, namespaces, thread, expert_size))
  IN  IF \/ vars.header.no_of_categories = 0
         \/ vars.header.no_of_categories > 1
              /\ \E thread \in threads : \E feature \in met(thread) : asksHollow(feature)
        THEN "crashed" ELSE next

-----------------------------------------------------------------------------
(* destroy_nb                                                              *)

\* joinThreadData adds up into observers that were never made: where there is
\* something to add it uses a null pointer.
NothingToAdd(vars, a) ==
  \/ TypeOf(vars.header, a) = "time"
  \/ vars.observers[a] = Hollow /\ TypeOf(vars.header, a) = "nominal"
  \/ vars.observers[a] = TypeOf(vars.header, a) /\ vars.header.no_of_categories = 0
JoinCrashes(vars) ==
  vars.total > 0 /\ \E a \in DOMAIN vars.observers : ~NothingToAdd(vars, a)

Merged(vars) ==
  IF vars.total > 0 THEN [a \in DOMAIN vars.observers |-> None] ELSE <<>>

\* With nothing joined there is no observer to look at for the first attribute.
WriteCrashes(vars) == Merged(vars) = <<>> /\ vars.header.no_of_features > 0
=============================================================================
