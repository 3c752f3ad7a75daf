------------------------------ MODULE VwProofs ------------------------------
(***************************************************************************)
(* Proofs about the life of the program, for every sequence of command     *)
(* lines: what has the name of a model is a whole model, whatever is       *)
(* killed, conjugate gradient computes each direction and each curvature   *)
(* from one whole pass, LDA merges each minibatch completely, and a run    *)
(* starts from the weights of its files.                                   *)
(***************************************************************************)
EXTENDS Vw, SequenceProofs

-----------------------------------------------------------------------------
(* Sessions                                                                *)

\* Whose turn it is.
SessionInv ==
  /\ scenario \in Scenarios
  /\ session \in 0 .. Len(scenario)
  /\ ~Over => session >= 1

\* The command line of the session.
LEMMA TheCommand ==
  ASSUME SessionInv, ~Over
  PROVE  /\ opt \in Commands
         /\ opt.items \in Nat /\ opt.passes \in Nat \ {0}
         /\ opt.rounds \in Nat \ {0}
         /\ opt.final \in Seq(Models) /\ opt.readable \in Seq(Models)
         /\ opt.nb_model \in DOMAIN Earlier \cup {""}
  <1>1. scenario \in Seq(Commands)
    BY ScenarioAssumption DEF SessionInv
  <1>2. session \in 1 .. Len(scenario)
    BY DEF SessionInv
  <1>3. opt \in Commands
    BY <1>1, <1>2 DEF opt
  <1> QED BY <1>3 DEF Commands

\* Only a launch happens when no program runs.
LEMMA ActsInSession ==
  ASSUME Next, ~Launch
  PROVE  ~Over /\ UNCHANGED <<scenario, session>>
  <1> USE DEF Over, Running, Drives, Parser, files
  <1>1. CASE ParserStep
    BY <1>1 DEF ParserStep, Publish, SetDone, ParserExits
  <1>2. CASE Kill
    BY <1>2 DEF Kill
  <1>3. CASE Start \/ Learn \/ Learned \/ NbTrain \/ NbPredict \/ NbJoin
             \/ NbBackup \/ NbWrite
    BY <1>3 DEF Start, Learn, Learned, NbTrain, NbPredict, NbJoin, NbBackup,
       NbWrite
  <1>4. CASE Noop \/ NoopEnds \/ Send \/ SenderEnds \/ CgExample \/ CgEnds
             \/ LdaTake \/ LdaCut \/ LdaProcess \/ LdaCheck
    BY <1>4 DEF Noop, NoopEnds, Send, SenderEnds, CgExample, CgEnds, LdaTake,
       LdaCut, LdaProcess, LdaCheck
  <1>5. CASE EndParser \/ DumpHeader \/ DumpWeights \/ Rename \/ FinalizeSource
    BY <1>5 DEF EndParser, DumpHeader, DumpWeights, Rename, FinalizeSource
  <1> QED BY <1>1, <1>2, <1>3, <1>4, <1>5 DEF Next, MainStep

LEMMA SessionStep ==
  ASSUME SessionInv, [Next]_vars
  PROVE  SessionInv'
  <1>1. CASE Launch
    <2>1. scenario \in Seq(Commands)
      BY ScenarioAssumption DEF SessionInv
    <2>2. Len(scenario) \in Nat
      BY <2>1
    <2> QED BY <1>1, <2>2 DEF SessionInv, Launch
  <1>2. CASE Next /\ ~Launch
    BY <1>2, ActsInSession DEF SessionInv
  <1>3. CASE UNCHANGED vars
    BY <1>3 DEF SessionInv, Over, vars, files
  <1> QED BY <1>1, <1>2, <1>3

LEMMA SessionStart ==
  ASSUME Init
  PROVE  SessionInv
  <1>1. scenario \in Seq(Commands)
    BY ScenarioAssumption DEF Init
  <1>2. Len(scenario) \in Nat
    BY <1>1
  <1> QED BY <1>2 DEF Init, SessionInv, Over

-----------------------------------------------------------------------------
(* Model files                                                             *)

\* No file of a regressor has the name of one of naive Bayes.
NamesApart == Models \cap DOMAIN Earlier = {}

WholeModel == {Dump(global, weights), Readable(Dump(global, weights))}

\* A model is complete when it is about to get its name; the old statistics of
\* naive Bayes are out of the way when the new ones are written.
FilesInv ==
  /\ DOMAIN disk = [name : Models \cup DOMAIN Earlier, writing : BOOLEAN]
  /\ dumps \in Seq(Models)
  /\ pc \in {"dump_weights", "rename"} => dumps # <<>>
  /\ pc = "rename" => disk[Temp(Head(dumps))] \in WholeModel
  /\ pc \in {"nb_backup", "nb_write"} => opt.nb_model \in DOMAIN Earlier
  /\ pc = "nb_write" => disk[Final(opt.nb_model)] = NoFile
  /\ buffered \subseteq {Final(name) : name \in DOMAIN Earlier}

\* A file under its own name is none that is being written, and the other way
\* round; different names are different files.
LEMMA FileNames ==
  /\ \A a, b : Final(a) # Temp(b)
  /\ \A a, b : Final(a) = Final(b) => a = b
  /\ \A a, b : Temp(a) = Temp(b) => a = b
  /\ \A a \in Models \cup DOMAIN Earlier :
       /\ Final(a) \in [name : Models \cup DOMAIN Earlier, writing : BOOLEAN]
       /\ Temp(a) \in [name : Models \cup DOMAIN Earlier, writing : BOOLEAN]
  <1>1. \A a, b : Final(a) # Temp(b)
    <2> SUFFICES ASSUME NEW a, NEW b, Final(a) = Temp(b) PROVE FALSE
      OBVIOUS
    <2>1. Final(a).writing = Temp(b).writing
      OBVIOUS
    <2> QED BY <2>1 DEF Final, Temp
  <1>2. \A a, b : Final(a) = Final(b) => a = b
    <2> SUFFICES ASSUME NEW a, NEW b, Final(a) = Final(b) PROVE a = b
      OBVIOUS
    <2>1. Final(a).name = Final(b).name
      OBVIOUS
    <2> QED BY <2>1 DEF Final
  <1>3. \A a, b : Temp(a) = Temp(b) => a = b
    <2> SUFFICES ASSUME NEW a, NEW b, Temp(a) = Temp(b) PROVE a = b
      OBVIOUS
    <2>1. Temp(a).name = Temp(b).name
      OBVIOUS
    <2> QED BY <2>1 DEF Temp
  <1>4. \A a \in Models \cup DOMAIN Earlier :
          /\ Final(a) \in [name : Models \cup DOMAIN Earlier, writing : BOOLEAN]
          /\ Temp(a) \in [name : Models \cup DOMAIN Earlier, writing : BOOLEAN]
    BY DEF Final, Temp
  <1> QED BY <1>1, <1>2, <1>3, <1>4

Writes == NbBackup \/ NbWrite \/ DumpHeader \/ DumpWeights \/ Rename \/ Kill

\* The other steps leave the disk alone, and those that come while a model is
\* written leave it as it is.
LEMMA DiskFrame ==
  ASSUME [Next]_vars, ~Writes
  PROVE  /\ UNCHANGED disk
         /\ UNCHANGED dumps \/ EndParser \/ Start
         /\ UNCHANGED buffered \/ Start
         /\ UNCHANGED scenario /\ (UNCHANGED session \/ Launch)
         /\ pc' \in {"dump_weights", "rename", "nb_write"} =>
              pc' = pc /\ UNCHANGED <<global, weights>>
         /\ pc' = "nb_backup" => pc = "nb_backup" \/ NbJoin
  <1> USE DEF Drives, Parser, files, driverVars, nbVars, ParserRuns, CFree,
              CMemcpy
  <1>1. CASE UNCHANGED vars
    BY <1>1 DEF vars
  <1>2. CASE ParserStep
    BY <1>2 DEF ParserStep, Publish, SetDone, ParserExits
  <1>3. CASE Launch
    BY <1>3 DEF Launch
  <1>4. CASE Start
    BY <1>4 DEF Start, DriverOf, FreshMemory
  <1>5. CASE Learn \/ Learned \/ NbPredict \/ NbJoin
    BY <1>5 DEF Learn, Learned, NbPredict, NbJoin, Predict
  <1>6. CASE Noop \/ NoopEnds \/ Send \/ SenderEnds
    BY <1>6 DEF Noop, NoopEnds, Send, SenderEnds
  <1>7. CASE CgExample \/ CgEnds
    BY <1>7 DEF CgExample, CgEnds
  <1>8. CASE LdaTake \/ LdaCut \/ LdaProcess \/ LdaCheck
    BY <1>8 DEF LdaTake, LdaCut, LdaProcess, LdaCheck
  <1>9. CASE EndParser \/ FinalizeSource
    BY <1>9 DEF EndParser, FinalizeSource
  <1>10. CASE NbTrain
    BY <1>10 DEF NbTrain
  <1> QED BY <1>1, <1>2, <1>3, <1>4, <1>5, <1>6, <1>7, <1>8, <1>9, <1>10
          DEF Next, MainStep, Writes

LEMMA FilesStart == ASSUME Init PROVE FilesInv
  <1>1. DOMAIN disk = [name : Models \cup DOMAIN Earlier, writing : BOOLEAN]
    BY DEF Init
  <1>2. /\ pc = "over"
        /\ dumps = <<>>
        /\ buffered = {}
    BY DEF Init
  <1>3. <<>> \in Seq(Models)
    OBVIOUS
  <1> QED BY <1>1, <1>2, <1>3 DEF FilesInv

\* Writing one file leaves the others as they are.
LEMMA OthersKept ==
  ASSUME NEW written, NEW content, NEW file \in DOMAIN disk, file # written,
         disk' = [disk EXCEPT ![written] = content]
  PROVE  disk'[file] = disk[file]
  OBVIOUS

\* A step that does not write leaves the files as they are.
LEMMA FilesKept ==
  ASSUME SessionInv, FilesInv, [Next]_vars, ~Writes
  PROVE  FilesInv'
  <1>1. /\ UNCHANGED disk
        /\ UNCHANGED dumps \/ EndParser \/ Start
        /\ UNCHANGED buffered \/ Start
        /\ UNCHANGED scenario /\ (UNCHANGED session \/ Launch)
        /\ pc' \in {"dump_weights", "rename", "nb_write"} =>
             pc' = pc /\ UNCHANGED <<global, weights>>
        /\ pc' = "nb_backup" => pc = "nb_backup" \/ NbJoin
    BY DiskFrame
  <1>2. Launch => pc' = "start"
    BY DEF Launch
  <1>3. EndParser \/ Start => pc' \notin {"dump_weights", "rename"}
    BY DEF EndParser, Start, CFree, DriverOf
  <1>4. dumps' \in Seq(Models)
    <2>1. CASE EndParser
      <3>1. opt.final \in Seq(Models) /\ opt.readable \in Seq(Models)
        BY <2>1, TheCommand DEF EndParser, Over
      <3> QED BY <2>1, <3>1 DEF EndParser
    <2>2. CASE Start
      BY <2>2 DEF Start, FreshMemory
    <2>3. CASE UNCHANGED dumps
      BY <2>3 DEF FilesInv
    <2> QED BY <1>1, <2>1, <2>2, <2>3
  <1>5. pc' \in {"dump_weights", "rename"} =>
          pc' = pc /\ UNCHANGED <<global, weights, dumps>>
    BY <1>1, <1>3
  <1>6. pc' \in {"nb_backup", "nb_write"} =>
          opt' = opt /\ opt.nb_model \in DOMAIN Earlier
                     /\ (pc' = "nb_write" => pc = "nb_write")
    <2>1. CASE NbJoin
      <3>1. opt.nb_model \in DOMAIN Earlier \cup {""}
        BY <2>1, TheCommand DEF NbJoin, Drives, Over
      <3>2. pc' = "nb_backup" => opt.nb_model # ""
        BY <2>1 DEF NbJoin
      <3>3. UNCHANGED opt /\ pc = "nb"
        BY <2>1 DEF NbJoin, Drives, files, opt
      <3> QED BY <1>1, <3>1, <3>2, <3>3
    <2>2. CASE ~NbJoin
      BY <1>1, <1>2, <2>2 DEF FilesInv, opt
    <2> QED BY <2>1, <2>2
  <1>7. buffered' \subseteq {Final(name) : name \in DOMAIN Earlier}
    BY <1>1 DEF FilesInv, Start, FreshMemory
  <1> QED BY <1>1, <1>4, <1>5, <1>6, <1>7 DEF FilesInv, WholeModel

\* What the writing steps do to the files.
LEMMA FilesWritten ==
  ASSUME SessionInv, FilesInv, Next, Writes
  PROVE  FilesInv'
  <1> USE FileNames
  <1>1. CASE NbBackup
    <2>1. /\ pc = "nb_backup" /\ pc' \in {"crashed", "nb_write"}
          /\ UNCHANGED <<dumps, buffered, scenario, session>>
          /\ disk' = BackedUp(opt.nb_model)
      BY <1>1 DEF NbBackup, driverVars, nbVars
    <2>2. opt' = opt /\ opt.nb_model \in DOMAIN Earlier
      BY <2>1 DEF FilesInv, opt
    <2>3. disk'[Final(opt.nb_model)] = NoFile /\ DOMAIN disk' = DOMAIN disk
      BY <2>1, <2>2 DEF BackedUp, FilesInv
    <2> QED BY <2>1, <2>2, <2>3 DEF FilesInv
  <1>2. CASE NbWrite
    <2>1. /\ pc = "nb_write" /\ pc' = "end_parser"
          /\ UNCHANGED dumps /\ DOMAIN disk' = DOMAIN disk
          /\ buffered' = {Final(opt.nb_model)}
      BY <1>2 DEF NbWrite
    <2>2. opt.nb_model \in DOMAIN Earlier
      BY <2>1 DEF FilesInv
    <2> QED BY <2>1, <2>2 DEF FilesInv
  <1>3. CASE DumpHeader
    <2>1. /\ pc = "dump" /\ pc' \in {"crashed", "dump_weights"} /\ dumps # <<>>
          /\ UNCHANGED <<dumps, buffered>> /\ DOMAIN disk' = DOMAIN disk
      BY <1>3 DEF DumpHeader, driverVars, nbVars
    <2> QED BY <2>1 DEF FilesInv
  <1>4. CASE DumpWeights
    <2>1. /\ pc = "dump_weights" /\ pc' = "rename"
          /\ disk' = [disk EXCEPT ![Temp(Head(dumps))] = Written(Dump(global, weights))]
          /\ UNCHANGED <<dumps, buffered, global, weights>>
      BY <1>4 DEF DumpWeights, driverVars, nbVars
    <2>2. Head(dumps) \in Models /\ dumps # <<>>
      BY <2>1 DEF FilesInv
    <2>3. disk'[Temp(Head(dumps))] = Written(Dump(global, weights))
          /\ DOMAIN disk' = DOMAIN disk
      BY <2>1, <2>2 DEF FilesInv
    <2>4. Written(Dump(global, weights)) \in WholeModel
      BY DEF Written, WholeModel
    <2> QED BY <2>1, <2>2, <2>3, <2>4 DEF FilesInv, WholeModel
  <1>5. CASE Rename
    <2>1. /\ pc = "rename" /\ pc' = "dump" /\ dumps' = Tail(dumps)
          /\ DOMAIN disk' = DOMAIN disk /\ UNCHANGED buffered
      BY <1>5 DEF Rename, driverVars, nbVars
    <2>2. Tail(dumps) \in Seq(Models)
      BY <2>1 DEF FilesInv
    <2> QED BY <2>1, <2>2 DEF FilesInv
  <1>6. CASE Kill
    <2>1. /\ pc' = "killed" /\ dumps' = <<>> /\ buffered' = {}
          /\ DOMAIN disk' = DOMAIN disk
      BY <1>6 DEF Kill, FreshMemory
    <2> QED BY <2>1 DEF FilesInv
  <1> QED BY <1>1, <1>2, <1>3, <1>4, <1>5, <1>6 DEF Writes

LEMMA FilesKnown == Spec => [](SessionInv /\ FilesInv)
  <1> DEFINE Inv == SessionInv /\ FilesInv
  <1>1. Init => Inv
    BY SessionStart, FilesStart
  <1>2. Inv /\ [Next]_vars => Inv'
    <2> SUFFICES ASSUME Inv, [Next]_vars PROVE Inv'
      OBVIOUS
    <2>1. SessionInv'
      BY SessionStep
    <2>2. CASE ~Writes
      BY <2>1, <2>2, FilesKept
    <2>3. CASE Writes /\ Next
      BY <2>1, <2>3, FilesWritten
    <2>4. CASE UNCHANGED vars
      <3>1. ~Writes
        BY <2>4 DEF vars, files, Writes, NbBackup, NbWrite, DumpHeader,
           DumpWeights, Rename, Kill, Running, Over, driverVars, nbVars
      <3> QED BY <2>1, <3>1, FilesKept
    <2> QED BY <2>2, <2>3, <2>4
  <1> HIDE DEF Inv
  <1>3. Spec => []Inv
    BY <1>1, <1>2, PTL DEF Spec
  <1> QED BY <1>3, PTL DEF Inv

\* dump_regressor gives a file the name of a model when it is whole.
LEMMA ModelNamed ==
  ASSUME NamesApart, SessionInv, FilesInv, [Next]_vars, NEW name \in Models,
         disk'[Final(name)] # disk[Final(name)]
  PROVE  Rename /\ disk'[Final(name)] \in WholeModel
  <1> USE FileNames
  <1>1. name \notin DOMAIN Earlier
    BY DEF NamesApart
  <1>2. Writes
    BY DiskFrame
  <1>3. CASE NbBackup \/ NbWrite
    <2>1. opt.nb_model \in DOMAIN Earlier
      BY <1>3 DEF FilesInv, NbBackup, NbWrite
    <2>2. Final(name) # Final(opt.nb_model) /\ Final(name) # Temp(opt.nb_model)
      BY <1>1, <2>1
    <2>3. Final(name) \in DOMAIN disk
      BY DEF FilesInv
    <2>4. CASE NbWrite
      BY <2>2, <2>3, <2>4, OthersKept DEF NbWrite
    <2>5. CASE NbBackup
      BY <2>2, <2>3, <2>5 DEF NbBackup, BackedUp
    <2> QED BY <1>3, <2>4, <2>5
  <1>4. CASE DumpHeader \/ DumpWeights
    <2>1. Final(name) \in DOMAIN disk /\ Final(name) # Temp(Head(dumps))
      BY DEF FilesInv
    <2> QED BY <1>4, <2>1, OthersKept DEF DumpHeader, DumpWeights
  <1>5. CASE Rename
    <2>1. dumps \in Seq(Models) /\ dumps # <<>>
          /\ disk[Temp(Head(dumps))] \in WholeModel
      BY <1>5 DEF FilesInv, Rename
    <2>2. Head(dumps) \in Models
      BY <2>1
    <2>3. disk'[Final(name)] = IF name = Head(dumps) THEN disk[Temp(Head(dumps))]
                                                     ELSE disk[Final(name)]
      BY <1>5, <2>2 DEF Rename, FilesInv
    <2>4. disk'[Final(name)] = disk[Temp(Head(dumps))]
      BY <2>3
    <2> QED BY <1>5, <2>1, <2>4
  <1>6. CASE Kill
    BY <1>1, <1>6 DEF Kill, FilesInv
  <1> QED BY <1>2, <1>3, <1>4, <1>5, <1>6 DEF Writes

\* Whatever has the name of a model is a whole one, in the binary form or the
\* readable one: dump_regressor writes it under another name first, and a run
\* that is killed leaves the model it started from.
THEOREM ModelsReplacedWhole ==
  ASSUME NamesApart
  PROVE  Spec => ModelReplacedWhole
  <1>1. ASSUME SessionInv, FilesInv, [Next]_vars, NEW name \in Models,
               disk'[Final(name)] # disk[Final(name)]
        PROVE  disk'[Final(name)] \in WholeModel
    BY <1>1, ModelNamed
  <1>2. SessionInv /\ FilesInv /\ [Next]_vars =>
          [\A name \in Models :
             disk'[Final(name)] # disk[Final(name)] =>
               disk'[Final(name)] \in {Dump(global, weights),
                                       Readable(Dump(global, weights))}]_vars
    BY <1>1 DEF WholeModel
  <1> QED BY <1>2, FilesKnown, PTL DEF Spec, ModelReplacedWhole

\* A file that is on the disk and that no step of the program touches stays there.
LEMMA OnDiskStays ==
  ASSUME NEW f, OnDisk(f), disk'[f] = disk[f], buffered' \subseteq buffered
  PROVE  OnDisk(f)'
  BY DEF OnDisk

\* The file a step writes is no file of the statistics, unless naive Bayes writes.
LEMMA DumpsApart ==
  ASSUME NamesApart, SessionInv, FilesInv, DumpHeader \/ DumpWeights \/ Rename,
         NEW name \in DOMAIN Earlier, NEW f \in {Final(name), Temp(name)}
  PROVE  disk'[f] = disk[f] /\ UNCHANGED buffered
  <1>1. dumps \in Seq(Models) /\ dumps # <<>>
    BY DEF FilesInv, DumpHeader, DumpWeights, Rename
  <1>2. Head(dumps) \in Models /\ name # Head(dumps)
    BY <1>1 DEF NamesApart
  <1>3. f \in DOMAIN disk /\ f # Temp(Head(dumps)) /\ f # Final(Head(dumps))
    BY <1>2, FileNames DEF FilesInv
  <1>4. UNCHANGED buffered
    BY DEF DumpHeader, DumpWeights, Rename, driverVars, nbVars
  <1>5. CASE DumpHeader \/ DumpWeights
    BY <1>3, <1>4, <1>5, OthersKept DEF DumpHeader, DumpWeights
  <1>6. CASE Rename
    BY <1>3, <1>4, <1>6 DEF Rename
  <1> QED BY <1>5, <1>6

\* A naive Bayes model stays on the disk, under its name or that of the old one,
\* through every step of every run, killed or not, except where a run moves the
\* empty file of one that was killed (parse_nbmodel.cc:122) over the old model.
\* So one killed run loses nothing, and a second one may.
THEOREM NbModelsKept ==
  ASSUME NamesApart
  PROVE  Spec => NbModelKept
  <1>1. ASSUME SessionInv, FilesInv, [Next]_vars, NEW name \in DOMAIN Earlier,
               HasModel(name), ~BacksUpEmptyFile(name)
        PROVE  HasModel(name)'
    <2> USE FileNames, <1>1
    <2>1. PICK f \in {Final(name), Temp(name)} : OnDisk(f)
      BY DEF HasModel
    <2>2. f \in DOMAIN disk
      BY DEF FilesInv
    <2>3. ASSUME disk'[f] = disk[f], buffered' \subseteq buffered PROVE HasModel(name)'
      <3>1. OnDisk(f)'
        BY <2>1, <2>3, OnDiskStays
      <3> QED BY <3>1 DEF HasModel, Final, Temp
    <2>4. CASE ~Writes
      <3>1. UNCHANGED disk /\ (UNCHANGED buffered \/ Start)
        BY <2>4, DiskFrame
      <3>2. Start => buffered' = {}
        BY DEF Start, FreshMemory
      <3> QED BY <2>3, <3>1, <3>2
    <2>5. CASE NbBackup
      <3>1. /\ pc = "nb_backup" /\ UNCHANGED buffered
            /\ opt.nb_model \in DOMAIN Earlier /\ disk' = BackedUp(opt.nb_model)
        BY <2>5 DEF FilesInv, NbBackup, driverVars, nbVars
      <3>2. CASE name # opt.nb_model
        <4>1. disk'[f] = disk[f]
          BY <2>2, <3>1, <3>2 DEF BackedUp, FilesInv
        <4> QED BY <2>3, <3>1, <4>1
      <3>3. CASE name = opt.nb_model /\ disk[Final(name)] = NoFile
        BY <2>3, <3>1, <3>3 DEF BackedUp
      <3>4. CASE name = opt.nb_model /\ disk[Final(name)] # NoFile
        <4>1. disk[Final(name)] # EmptyFile
          BY <3>1, <3>4 DEF BacksUpEmptyFile
        <4>2. disk'[Temp(name)] = disk[Final(name)]
          BY <3>1, <3>4 DEF BackedUp, FilesInv
        <4>3. Temp(name) \notin buffered'
          BY <3>1 DEF FilesInv
        <4> QED BY <3>4, <4>1, <4>2, <4>3 DEF HasModel, OnDisk
      <3> QED BY <3>2, <3>3, <3>4
    <2>6. CASE NbWrite
      <3>1. /\ opt.nb_model \in DOMAIN Earlier /\ disk[Final(opt.nb_model)] = NoFile
            /\ buffered' = {Final(opt.nb_model)}
            /\ \A g \in DOMAIN disk : g # Final(opt.nb_model) => disk'[g] = disk[g]
        BY <2>6 DEF FilesInv, NbWrite
      <3>2. f # Final(opt.nb_model)
        BY <2>1, <3>1 DEF OnDisk
      <3>3. OnDisk(f)'
        BY <2>1, <2>2, <3>1, <3>2 DEF OnDisk
      <3> QED BY <3>3 DEF HasModel, Final, Temp
    <2>7. CASE DumpHeader \/ DumpWeights \/ Rename
      BY <2>3, <2>7, DumpsApart
    <2>8. CASE Kill
      <3>1. disk'[f] = disk[f] /\ buffered' = {}
        BY <2>1, <2>2, <2>8 DEF Kill, FreshMemory, OnDisk
      <3> QED BY <2>3, <3>1
    <2> QED BY <2>4, <2>5, <2>6, <2>7, <2>8 DEF Writes
  <1>2. SessionInv /\ FilesInv /\ [Next]_vars =>
          [\A name \in DOMAIN Earlier :
             HasModel(name) /\ ~BacksUpEmptyFile(name) => HasModel(name)']_vars
    BY <1>1
  <1> QED BY <1>2, FilesKnown, PTL DEF Spec, NbModelKept

-----------------------------------------------------------------------------
(* Conjugate gradient: what a pass has come to after k examples            *)

Contribution == Nat \X Nat
CgState ==
  [weights : Nat, gradient : Seq(Contribution), direction : Seq(Contribution),
   preconditioner : Seq(Nat), predictions : Seq(Contribution),
   example_number : Nat, gradient_pass : BOOLEAN, current_pass : Nat,
   stepped_back : BOOLEAN,
   read : [item : Nat, prediction : Contribution \cup {<<>>}]]

\* What the first k examples add up to, at the same weights.
Whole(k, w) == [i \in 1 .. k |-> <<i, w>>]
Items(k) == [i \in 1 .. k |-> i]

\* The gradient so far.  Its predictions are those of this pass, or are behind
\* those of an earlier one when the step was taken back.
GradientSoFar(c, k, items) ==
  /\ c.gradient = Whole(k, c.weights)
  /\ c.preconditioner = Items(IF c.current_pass = 0 THEN k ELSE items)
  /\ ~c.stepped_back => c.predictions = c.gradient
  /\ k > 0 \/ c.current_pass = 0 => c.read = NothingRead

\* The curvature so far: each example meets the prediction of its own.
CurvatureSoFar(c, k, items) ==
  /\ c.gradient = <<>> /\ c.example_number = k
  /\ c.preconditioner = Items(items)
  /\ ~c.stepped_back => c.predictions = Whole(items, c.weights)
  /\ k > 0 => c.read = [item |-> k, prediction |-> c.predictions[k]]

Progress(c, k, pass, items) ==
  /\ c \in CgState /\ c.current_pass = pass
  /\ pass = 0 => c.gradient_pass /\ ~c.stepped_back /\ c.direction = <<>>
  /\ c.gradient_pass => GradientSoFar(c, k, items)
  /\ ~c.gradient_pass => CurvatureSoFar(c, k, items)
  /\ c.stepped_back => /\ Len(c.predictions) >= items
                       /\ \A i \in 1 .. items : c.predictions[i][1] = i
  /\ c.direction # <<>> => c.direction = Whole(items, c.direction[1][2])

CgInv ==
  pc = "cg" =>
    /\ opt.passes >= 2
    /\ parsed_examples \in 0 .. Total /\ used_index \in Nat
    /\ used_index = 0 => Progress(cg, 0, 0, opt.items)
    /\ used_index > 0 =>
         /\ opt.items > 0
         /\ Progress(cg, Item(used_index), Pass(used_index), opt.items)

LEMMA WholeSequences ==
  ASSUME NEW k \in Nat, NEW w \in Nat
  PROVE  /\ Whole(k, w) \in Seq(Contribution) /\ Len(Whole(k, w)) = k
         /\ Items(k) \in Seq(Nat)
  <1>1. \A i \in 1 .. k : <<i, w>> \in Contribution
    BY DEF Contribution
  <1> QED BY <1>1 DEF Whole, Items

LEMMA NothingYet ==
  ASSUME NEW w PROVE Whole(0, w) = <<>> /\ Items(0) = <<>>
  BY DEF Whole, Items

LEMMA OneMore ==
  ASSUME NEW k \in Nat, NEW w \in Nat
  PROVE  /\ Append(Whole(k, w), <<k + 1, w>>) = Whole(k + 1, w)
         /\ Append(Items(k), k + 1) = Items(k + 1)
  <1> DEFINE more == Append(Whole(k, w), <<k + 1, w>>)
             items == Append(Items(k), k + 1)
  <1>1. Len(Items(k)) = k
    BY DEF Items
  <1>2. /\ DOMAIN more = 1 .. k + 1
        /\ \A i \in 1 .. k : more[i] = <<i, w>>
        /\ more[k + 1] = <<k + 1, w>>
    BY WholeSequences DEF Whole
  <1>3. /\ DOMAIN items = 1 .. k + 1
        /\ \A i \in 1 .. k : items[i] = i
        /\ items[k + 1] = k + 1
    BY <1>1, WholeSequences DEF Items
  <1>4. \A i \in 1 .. k + 1 : i \in 1 .. k \/ i = k + 1
    OBVIOUS
  <1>5. more = Whole(k + 1, w)
    <2>1. more = [i \in 1 .. k + 1 |-> more[i]]
      <3>1. <<k + 1, w>> \in Contribution
        BY DEF Contribution
      <3>2. Whole(k, w) \in Seq(Contribution) /\ Len(Whole(k, w)) = k
        BY WholeSequences
      <3>3. more \in Seq(Contribution)
        BY <3>1, <3>2
      <3>4. Len(more) = k + 1
        BY <3>2
      <3> HIDE DEF more
      <3> QED BY <3>3, <3>4
    <2> HIDE DEF more
    <2> QED BY <2>1, <1>2, <1>4 DEF Whole
  <1>6. items = Items(k + 1)
    <2>1. items = [i \in 1 .. k + 1 |-> items[i]]
      <3>1. items \in Seq(Nat) /\ Len(items) = k + 1
        BY <1>1, WholeSequences
      <3> HIDE DEF items
      <3> QED BY <3>1
    <2> HIDE DEF items
    <2> QED BY <2>1, <1>3, <1>4 DEF Items
  <1> QED BY <1>5, <1>6

LEMMA AtTheStart ==
  ASSUME NEW w \in Nat, NEW items \in Nat
  PROVE  Progress(CgStart(w), 0, 0, items)
  <1>1. CgStart(w) \in CgState
    BY DEF CgStart, CgState, NothingRead
  <1>2. GradientSoFar(CgStart(w), 0, items)
    BY NothingYet DEF GradientSoFar, CgStart
  <1> QED BY <1>1, <1>2 DEF Progress, CgStart

\* The next example of the pass.
LEMMA ExampleUsed ==
  ASSUME NEW c, NEW k \in Nat, NEW pass \in Nat, NEW items \in Nat, k < items,
         Progress(c, k, pass, items)
  PROVE  Progress(UseExample(c, k + 1), k + 1, pass, items)
  <1> DEFINE d == UseExample(c, k + 1)
  <1>1. c \in CgState /\ c.current_pass = pass /\ c.weights \in Nat
    BY DEF Progress, CgState
  <1>2. CASE c.gradient_pass
    <2>1. /\ d = [c EXCEPT !.gradient = Append(@, <<k + 1, c.weights>>),
                    !.predictions = Append(@, <<k + 1, c.weights>>),
                    !.preconditioner = IF c.current_pass = 0
                                         THEN Append(@, k + 1) ELSE @,
                    !.read = NothingRead]
      BY <1>2 DEF UseExample, AddGradient
    <2>2. GradientSoFar(c, k, items)
      BY <1>2 DEF Progress
    <2>3. /\ d.gradient = Append(c.gradient, <<k + 1, c.weights>>)
          /\ d.predictions = Append(c.predictions, <<k + 1, c.weights>>)
          /\ d.preconditioner = IF c.current_pass = 0
                                  THEN Append(c.preconditioner, k + 1)
                                  ELSE c.preconditioner
          /\ d.read = NothingRead /\ d.weights = c.weights
          /\ d.current_pass = c.current_pass /\ d.direction = c.direction
          /\ d.stepped_back = c.stepped_back
          /\ d.gradient_pass = c.gradient_pass
      BY <1>1, <2>1 DEF CgState
    <2>4. d \in CgState
      <3>1. <<k + 1, c.weights>> \in Contribution
        BY <1>1 DEF Contribution
      <3>2. /\ c.gradient \in Seq(Contribution)
            /\ c.predictions \in Seq(Contribution)
            /\ c.preconditioner \in Seq(Nat)
        BY <1>1 DEF CgState
      <3>3. /\ Append(c.gradient, <<k + 1, c.weights>>) \in Seq(Contribution)
            /\ Append(c.predictions, <<k + 1, c.weights>>) \in Seq(Contribution)
            /\ Append(c.preconditioner, k + 1) \in Seq(Nat)
        BY <3>1, <3>2
      <3>4. NothingRead \in [item : Nat, prediction : Contribution \cup {<<>>}]
        BY DEF NothingRead
      <3> QED BY <1>1, <2>1, <3>3, <3>4 DEF CgState
    <2>5. GradientSoFar(d, k + 1, items)
      BY <1>1, <2>2, <2>3, OneMore DEF GradientSoFar
    <2>6. c.stepped_back =>
            /\ Len(d.predictions) >= items
            /\ \A i \in 1 .. items : d.predictions[i][1] = i
      <3> HIDE DEF d
      <3>1. c.predictions \in Seq(Contribution)
            /\ <<k + 1, c.weights>> \in Contribution
        BY <1>1 DEF CgState, Contribution
      <3>2. \A i \in 1 .. Len(c.predictions) : d.predictions[i] = c.predictions[i]
        BY <2>3, <3>1
      <3> QED BY <2>3, <3>1, <3>2 DEF Progress
    <2>7. Progress(d, k + 1, pass, items)
      <3> HIDE DEF d
      <3> QED BY <1>1, <1>2, <2>3, <2>4, <2>5, <2>6 DEF Progress
    <2> QED BY <2>7
  <1>3. CASE ~c.gradient_pass
    <2>1. CurvatureSoFar(c, k, items)
      BY <1>3 DEF Progress
    <2>2. c.predictions \in Seq(Contribution) /\ Len(c.predictions) >= items
      <3>1. c.stepped_back \in BOOLEAN /\ c.predictions \in Seq(Contribution)
        BY <1>1 DEF CgState
      <3>2. CASE c.stepped_back
        BY <3>1, <3>2 DEF Progress
      <3>3. CASE ~c.stepped_back
        <4>1. c.predictions = Whole(items, c.weights)
          BY <2>1, <3>3 DEF CurvatureSoFar
        <4>2. Len(c.predictions) = items
          BY <1>1, <4>1, WholeSequences
        <4> QED BY <3>1, <4>2
      <3> QED BY <3>1, <3>2, <3>3
    <2>3. d = [c EXCEPT !.example_number = k + 1,
                 !.read = [item |-> k + 1, prediction |-> c.predictions[k + 1]]]
      <3>1. c.example_number + 1 = k + 1 /\ k + 1 <= Len(c.predictions)
        BY <2>1, <2>2 DEF CurvatureSoFar
      <3>2. d = AddCurvature(c, k + 1)
        BY <1>3 DEF UseExample
      <3> QED BY <3>1, <3>2 DEF AddCurvature
    <2>4. /\ d.example_number = k + 1
          /\ d.read = [item |-> k + 1, prediction |-> c.predictions[k + 1]]
          /\ d.gradient = c.gradient /\ d.predictions = c.predictions
          /\ d.preconditioner = c.preconditioner /\ d.weights = c.weights
          /\ d.current_pass = c.current_pass /\ d.direction = c.direction
          /\ d.stepped_back = c.stepped_back
          /\ d.gradient_pass = c.gradient_pass
      BY <1>1, <2>3 DEF CgState
    <2>5. d \in CgState
      <3>1. c.predictions[k + 1] \in Contribution
        BY <2>2
      <3>2. [item |-> k + 1, prediction |-> c.predictions[k + 1]]
              \in [item : Nat, prediction : Contribution \cup {<<>>}]
        BY <3>1
      <3> QED BY <1>1, <2>3, <3>2 DEF CgState
    <2>6. CurvatureSoFar(d, k + 1, items)
      BY <2>1, <2>4 DEF CurvatureSoFar
    <2>7. Progress(d, k + 1, pass, items)
      <3> HIDE DEF d
      <3> QED BY <1>1, <1>3, <2>4, <2>5, <2>6 DEF Progress
    <2> QED BY <2>7
  <1> QED BY <1>2, <1>3

\* A pass is over: the step is taken, or taken back, or the direction is new.
LEMMA PassChanged ==
  ASSUME NEW c, NEW pass \in Nat, NEW next \in {0, pass + 1},
         NEW items \in Nat \ {0}, NEW worse \in BOOLEAN,
         Progress(c, items, pass, items)
  PROVE  Progress(ChangePass(c, next, worse), 0, next, items)
  <1> DEFINE stepped ==
               IF ~c.gradient_pass THEN TakeStep(c)
               ELSE IF c.current_pass > 0 /\ worse THEN StepBack(c)
               ELSE IF next # 0 THEN NewDirection(c) ELSE c
             d == ChangePass(c, next, worse)
  <1>1. c \in CgState /\ c.current_pass = pass /\ c.weights \in Nat
    BY DEF Progress, CgState
  <1>2. stepped \in CgState
    <2>1. <<>> \in Seq(Contribution)
      OBVIOUS
    <2>2. UpdateWeight(c) \in CgState
      <3>1. c.weights + 1 \in Nat
        BY <1>1
      <3>2. UpdateWeight(c) = [c EXCEPT !.weights = c.weights + 1]
        BY DEF UpdateWeight
      <3> QED BY <1>1, <3>1, <3>2 DEF CgState
    <2>3. TakeStep(c) \in CgState
      BY <2>1, <2>2 DEF CgState, TakeStep
    <2>4. StepBack(c) \in CgState
      BY <2>1, <2>2 DEF CgState, StepBack, ZeroDerivative
    <2>5. NewDirection(c) \in CgState
      BY <1>1, <2>1 DEF CgState, NewDirection, ZeroDerivative, FirstRead
    <2> QED BY <1>1, <2>3, <2>4, <2>5
  <1>3. CASE next = 0
    <2>1. d = CgStart(stepped.weights)
      BY <1>3 DEF ChangePass
    <2>2. stepped.weights \in Nat
      BY <1>2 DEF CgState
    <2> QED BY <1>3, <2>1, <2>2, AtTheStart
  <1>4. CASE next # 0
    <2>1. next = pass + 1 /\ next > 0
      BY <1>4
    <2>2. d = [stepped EXCEPT !.current_pass = @ + 1]
      BY <1>4 DEF ChangePass
    <2>3. stepped.current_pass = pass
      BY <1>1 DEF CgState, TakeStep, StepBack, NewDirection, UpdateWeight
    <2>4. d \in CgState /\ d.current_pass = next
      <3> HIDE DEF d, stepped
      <3>1. d = [stepped EXCEPT !.current_pass = next]
        BY <2>1, <2>2, <2>3
      <3>2. next \in Nat
        BY <2>1
      <3> QED BY <1>2, <3>1, <3>2 DEF CgState
    <2>5. /\ d.gradient = stepped.gradient /\ d.predictions = stepped.predictions
          /\ d.preconditioner = stepped.preconditioner
          /\ d.weights = stepped.weights /\ d.direction = stepped.direction
          /\ d.stepped_back = stepped.stepped_back
          /\ d.gradient_pass = stepped.gradient_pass
          /\ d.example_number = stepped.example_number
      BY <1>2, <2>2 DEF CgState
    <2>6. c.preconditioner = Items(items)
      BY <1>1 DEF Progress, GradientSoFar, CurvatureSoFar
    <2>7. c.gradient_pass \in BOOLEAN /\ c.stepped_back \in BOOLEAN
      BY <1>1 DEF CgState
    <2>8. CASE ~c.gradient_pass
      <3>1. stepped = TakeStep(c) /\ c.gradient = <<>>
        BY <2>8 DEF Progress, CurvatureSoFar
      <3>2. /\ stepped.gradient = <<>> /\ stepped.predictions = <<>>
            /\ stepped.preconditioner = Items(items)
            /\ stepped.direction = c.direction
            /\ ~stepped.stepped_back /\ stepped.gradient_pass
            /\ stepped.weights \in Nat
        <4>1. /\ UpdateWeight(c).gradient = c.gradient
              /\ UpdateWeight(c).preconditioner = c.preconditioner
              /\ UpdateWeight(c).direction = c.direction
          BY <1>1 DEF CgState, UpdateWeight
        <4>2. /\ TakeStep(c).gradient = <<>> /\ TakeStep(c).predictions = <<>>
              /\ TakeStep(c).preconditioner = Items(items)
              /\ TakeStep(c).direction = c.direction
              /\ ~TakeStep(c).stepped_back /\ TakeStep(c).gradient_pass
          BY <1>1, <2>6, <3>1, <4>1 DEF CgState, TakeStep, UpdateWeight
        <4> HIDE DEF stepped
        <4> QED BY <1>2, <3>1, <4>2 DEF CgState
      <3>3. GradientSoFar(d, 0, items)
        BY <2>1, <2>4, <2>5, <3>2, NothingYet DEF GradientSoFar
      <3>8. Progress(d, 0, next, items)
        <4> HIDE DEF d, stepped
        <4> QED BY <2>1, <2>4, <2>5, <3>2, <3>3 DEF Progress
      <3> QED BY <3>8
    <2>9. CASE c.gradient_pass /\ c.current_pass > 0 /\ worse
      <3>1. stepped = StepBack(c)
        BY <2>9
      <3>2. /\ stepped.gradient = <<>> /\ stepped.predictions = c.predictions
            /\ stepped.preconditioner = Items(items)
            /\ stepped.direction = c.direction
            /\ stepped.stepped_back /\ stepped.gradient_pass
            /\ stepped.weights \in Nat
        BY <1>1, <2>6, <2>9, <3>1
           DEF CgState, StepBack, UpdateWeight, ZeroDerivative
      <3>3. GradientSoFar(d, 0, items)
        BY <2>1, <2>4, <2>5, <3>2, NothingYet DEF GradientSoFar
      <3>4. /\ Len(c.predictions) >= items
            /\ \A i \in 1 .. items : c.predictions[i][1] = i
        <4>1. CASE c.stepped_back
          BY <4>1 DEF Progress
        <4>2. CASE ~c.stepped_back
          <5>1. c.predictions = Whole(items, c.weights)
            BY <2>9, <4>2 DEF Progress, GradientSoFar
          <5>2. Len(c.predictions) = items
            BY <1>1, <5>1, WholeSequences
          <5> QED BY <5>1, <5>2 DEF Whole
        <4> QED BY <2>7, <4>1, <4>2
      <3>8. Progress(d, 0, next, items)
        <4> HIDE DEF d, stepped
        <4> QED BY <2>1, <2>4, <2>5, <3>2, <3>3, <3>4 DEF Progress
      <3> QED BY <3>8
    <2>10. CASE c.gradient_pass /\ ~(c.current_pass > 0 /\ worse)
      <3>1. stepped = NewDirection(c)
        BY <1>4, <2>10
      <3>2. /\ stepped.gradient = <<>> /\ stepped.predictions = c.predictions
            /\ stepped.preconditioner = Items(items)
            /\ stepped.direction = c.gradient /\ stepped.example_number = 0
            /\ stepped.stepped_back = c.stepped_back
            /\ ~stepped.gradient_pass /\ stepped.weights = c.weights
        BY <1>1, <2>6, <3>1 DEF CgState, NewDirection, ZeroDerivative, FirstRead
      <3>3. c.gradient = Whole(items, c.weights)
            /\ (~c.stepped_back => c.predictions = Whole(items, c.weights))
        BY <2>10 DEF Progress, GradientSoFar
      <3>4. CurvatureSoFar(d, 0, items)
        BY <2>5, <3>2, <3>3 DEF CurvatureSoFar
      <3>5. Whole(items, c.weights)[1][2] = c.weights
        BY DEF Whole
      <3>6. d.direction = Whole(items, d.direction[1][2])
        BY <2>5, <3>2, <3>3, <3>5
      <3>7. c.stepped_back => /\ Len(c.predictions) >= items
                              /\ \A i \in 1 .. items : c.predictions[i][1] = i
        BY DEF Progress
      <3>8. Progress(d, 0, next, items)
        <4> HIDE DEF d, stepped
        <4> QED BY <2>1, <2>4, <2>5, <3>2, <3>4, <3>6, <3>7 DEF Progress
      <3> QED BY <3>8
    <2> QED BY <2>7, <2>8, <2>9, <2>10
  <1> QED BY <1>3, <1>4

-----------------------------------------------------------------------------
(* Conjugate gradient: the passes are those of the input                   *)

\* Division with remainder, and there is only one.
LEMMA DivMod ==
  ASSUME NEW n \in Int, NEW d \in Nat \ {0}
  PROVE  /\ (n % d) \in 0 .. d - 1
         /\ (n \div d) \in Int
         /\ n = d * (n \div d) + (n % d)
  BY Z3

LEMMA OneQuotient ==
  ASSUME NEW d \in Nat \ {0}, NEW q \in Int, NEW p \in Int,
         NEW r \in 0 .. d - 1, NEW s \in 0 .. d - 1, d * q + r = d * p + s
  PROVE  q = p /\ r = s
  <1>1. d * (q - p) = s - r
    BY Z3
  <1>2. CASE q - p >= 1
    <2>1. d * (q - p) >= d
      BY <1>2, Z3
    <2> QED BY <1>1, <2>1
  <1>3. CASE q - p <= -1
    <2>1. d * (q - p) <= -d
      BY <1>3, Z3
    <2> QED BY <1>1, <2>1
  <1>4. CASE q = p
    BY <1>4, Z3
  <1> QED BY <1>2, <1>3, <1>4

\* One more: the remainder grows, or starts again with the next quotient.
LEMMA NextRemainder ==
  ASSUME NEW n \in Nat, NEW d \in Nat \ {0}
  PROVE  /\ (n % d) + 1 < d => /\ (n + 1) % d = (n % d) + 1
                               /\ (n + 1) \div d = n \div d
         /\ (n % d) + 1 = d => /\ (n + 1) % d = 0
                               /\ (n + 1) \div d = (n \div d) + 1
  <1> DEFINE q == n \div d
             r == n % d
             p == (n + 1) \div d
             s == (n + 1) % d
  <1>1. q \in Int /\ r \in 0 .. d - 1 /\ n = d * q + r
    BY DivMod
  <1>2. p \in Int /\ s \in 0 .. d - 1 /\ n + 1 = d * p + s
    BY DivMod
  <1> HIDE DEF q, r, p, s
  <1>3. CASE r + 1 < d
    <2>1. d * q + (r + 1) = d * p + s /\ r + 1 \in 0 .. d - 1
      BY <1>1, <1>2, <1>3
    <2>2. q = p /\ r + 1 = s
      BY <1>1, <1>2, <2>1, OneQuotient
    <2> QED BY <1>3, <2>2 DEF q, r, p, s
  <1>4. CASE r + 1 = d
    <2>1. d * (q + 1) = d * q + d
      BY <1>1, Z3
    <2>2. d * (q + 1) + 0 = d * p + s /\ 0 \in 0 .. d - 1 /\ q + 1 \in Int
      BY <1>1, <1>2, <1>4, <2>1
    <2>3. q + 1 = p /\ 0 = s
      BY <1>1, <1>2, <2>2, OneQuotient
    <2> QED BY <1>4, <2>3 DEF q, r, p, s
  <1> QED BY <1>1, <1>3, <1>4 DEF q, r, p, s

\* The first example is the first of pass 0.  The next one is the next of the
\* same pass, or the first of another: there are at least two.
LEMMA FirstItem ==
  ASSUME opt.items \in Nat \ {0}, opt.passes \in Nat \ {0}
  PROVE  Item(1) = 1 /\ Pass(1) = 0
  <1> DEFINE d == opt.items
             e == opt.passes
  <1>0. d \in Nat \ {0} /\ e \in Nat \ {0}
    OBVIOUS
  <1>1. 0 % d = 0 /\ 0 \div d = 0
    <2> HIDE DEF d
    <2>1. /\ 0 \div d \in Int /\ 0 % d \in 0 .. d - 1
          /\ 0 = d * (0 \div d) + (0 % d)
      BY <1>0, DivMod
    <2>2. d * (0 \div d) + (0 % d) = d * 0 + 0 /\ 0 \in 0 .. d - 1
      BY <1>0, <2>1
    <2> QED BY <1>0, <2>1, <2>2, OneQuotient
  <1>2. 0 % e = 0
    <2> HIDE DEF e
    <2>1. /\ 0 \div e \in Int /\ 0 % e \in 0 .. e - 1
          /\ 0 = e * (0 \div e) + (0 % e)
      BY <1>0, DivMod
    <2>2. e * (0 \div e) + (0 % e) = e * 0 + 0 /\ 0 \in 0 .. e - 1
      BY <1>0, <2>1
    <2> QED BY <1>0, <2>1, <2>2, OneQuotient
  <1> QED BY <1>1, <1>2 DEF Item, Pass

LEMMA ItemsAndPasses ==
  ASSUME opt.items \in Nat \ {0}, opt.passes \in Nat \ {0}, opt.passes >= 2,
         NEW n \in Nat \ {0}
  PROVE  /\ Item(n) \in 1 .. opt.items /\ Pass(n) \in Nat
         /\ Item(n) < opt.items => /\ Item(n + 1) = Item(n) + 1
                                   /\ Pass(n + 1) = Pass(n)
         /\ Item(n) = opt.items => /\ Item(n + 1) = 1
                                   /\ Pass(n + 1) \in {0, Pass(n) + 1}
                                   /\ Pass(n + 1) # Pass(n)
  <1> DEFINE d == opt.items
             e == opt.passes
             o == n - 1
             q == o \div d
             r == o % d
             m == q % e
  <1>0. /\ d \in Nat \ {0} /\ e \in Nat \ {0} /\ e >= 2
        /\ o \in Nat /\ n = o + 1
    OBVIOUS
  <1>1. q \in Int /\ r \in 0 .. d - 1 /\ o = d * q + r
    <2> HIDE DEF d, o
    <2> QED BY <1>0, DivMod
  <1>2. q \in Nat
    <2> SUFFICES ASSUME q <= -1 PROVE FALSE
      BY <1>1
    <2> HIDE DEF q, r, d, o
    <2>1. d * q <= -d
      BY <1>0, <1>1, Z3
    <2> QED BY <1>0, <1>1, <2>1
  <1>3. m \in 0 .. e - 1
    <2> HIDE DEF q, e
    <2> QED BY <1>0, <1>2, DivMod
  <1>4. Item(n) = r + 1 /\ Pass(n) = m
    BY DEF Item, Pass
  <1>5. Item(n + 1) = (n % d) + 1 /\ Pass(n + 1) = (n \div d) % e
    BY DEF Item, Pass
  <1>6. /\ r + 1 < d => n % d = r + 1 /\ n \div d = q
        /\ r + 1 = d => n % d = 0 /\ n \div d = q + 1
    <2> HIDE DEF d, o
    <2> QED BY <1>0, NextRemainder
  <1>7. /\ m + 1 < e => (q + 1) % e = m + 1
        /\ m + 1 = e => (q + 1) % e = 0
    <2> HIDE DEF q, e
    <2> QED BY <1>0, <1>2, NextRemainder
  <1> HIDE DEF q, r, m, o
  <1>8. Item(n) \in 1 .. opt.items /\ Pass(n) \in Nat
    BY <1>0, <1>1, <1>3, <1>4
  <1>9. ASSUME Item(n) < opt.items
        PROVE  Item(n + 1) = Item(n) + 1 /\ Pass(n + 1) = Pass(n)
    <2>1. n % d = r + 1 /\ n \div d = q
      BY <1>1, <1>4, <1>6, <1>9
    <2> QED BY <1>4, <1>5, <2>1 DEF m
  <1>10. ASSUME Item(n) = opt.items
         PROVE  /\ Item(n + 1) = 1 /\ Pass(n + 1) \in {0, Pass(n) + 1}
                /\ Pass(n + 1) # Pass(n)
    <2>1. n % d = 0 /\ n \div d = q + 1
      BY <1>1, <1>4, <1>6, <1>10
    <2>2. Item(n + 1) = 1 /\ Pass(n + 1) = (q + 1) % e
      BY <1>5, <2>1
    <2> QED BY <1>0, <1>3, <1>4, <1>7, <2>2
  <1> QED BY <1>8, <1>9, <1>10

-----------------------------------------------------------------------------
(* Conjugate gradient: the invariant                                       *)

LEMMA TotalIsNatural ==
  ASSUME opt.items \in Nat, opt.passes \in Nat, opt.rounds \in Nat
  PROVE  /\ Total \in Nat
         /\ opt.items = 0 => Total = 0
  <1>1. opt.rounds * opt.passes \in Nat
    BY Z3
  <1> QED BY <1>1, Z3 DEF Total

LEMMA CgFrame ==
  ASSUME [Next]_vars, pc' = "cg", ~CgExample, ~Start
  PROVE  /\ pc = "cg" /\ UNCHANGED <<cg, used_index, scenario, session>>
         /\ UNCHANGED parsed_examples \/ Publish
  <1> USE DEF Drives, Parser, files, driverVars, nbVars, ParserRuns, CFree,
              CMemcpy, queueVars
  <1>1. CASE UNCHANGED vars
    BY <1>1 DEF vars
  <1>2. CASE ParserStep
    BY <1>2 DEF ParserStep, Publish, SetDone, ParserExits
  <1>3. CASE Launch \/ Kill
    BY <1>3 DEF Launch, Kill
  <1>4. CASE Learn \/ Learned \/ NbPredict \/ NbJoin \/ NbTrain
    BY <1>4 DEF Learn, Learned, NbPredict, NbJoin, NbTrain, Predict
  <1>5. CASE Noop \/ NoopEnds \/ Send \/ SenderEnds
    BY <1>5 DEF Noop, NoopEnds, Send, SenderEnds
  <1>6. CASE CgEnds
    BY <1>6 DEF CgEnds
  <1>7. CASE LdaTake \/ LdaCut \/ LdaProcess \/ LdaCheck
    BY <1>7 DEF LdaTake, LdaCut, LdaProcess, LdaCheck
  <1>8. CASE NbBackup \/ NbWrite \/ DumpHeader \/ DumpWeights \/ Rename
    BY <1>8 DEF NbBackup, NbWrite, DumpHeader, DumpWeights, Rename
  <1>9. CASE EndParser \/ FinalizeSource
    BY <1>9 DEF EndParser, FinalizeSource
  <1> QED BY <1>1, <1>2, <1>3, <1>4, <1>5, <1>6, <1>7, <1>8, <1>9
          DEF Next, MainStep

\* conjugate_gradient is refused with fewer than two passes.
LEMMA CgBegins ==
  ASSUME SessionInv, Start, pc' = "cg"
  PROVE  CgInv'
  <1>1. opt' = opt
    BY DEF Start, files, opt
  <1>2. opt \in Commands /\ opt.items \in Nat /\ opt.rounds \in Nat
        /\ opt.passes \in Nat
    BY TheCommand DEF Start, Over
  <1>3. Given(opt, "conjugate_gradient") /\ ~Refused(opt)
    <2>1. ~Refused(opt) /\ pc' = DriverOf(opt, global')
      BY DEF Start
    <2> QED BY <2>1, Zenon DEF DriverOf
  <1>4. opt.passes >= 2
    BY <1>2, <1>3 DEF Refused
  <1>5. cg' = CgStart(0) /\ used_index' = 0 /\ parsed_examples' = 0
    BY DEF Start, FreshMemory
  <1>6. Progress(CgStart(0), 0, 0, opt.items)
    BY <1>2, AtTheStart
  <1>7. Total' = Total
    BY <1>1 DEF Total
  <1>8. Total \in Nat
    BY <1>2, TotalIsNatural
  <1> QED BY <1>1, <1>4, <1>5, <1>6, <1>7, <1>8 DEF CgInv

LEMMA CgGoesOn ==
  ASSUME SessionInv, CgInv, CgExample, pc' = "cg"
  PROVE  CgInv'
  <1> DEFINE n == used_index + 1
  <1>1. pc = "cg" /\ used_index \in Nat /\ opt' = opt
    BY DEF CgInv, CgExample, Drives, files, opt
  <1>2. opt.items \in Nat /\ opt.rounds \in Nat /\ opt.passes \in Nat \ {0}
        /\ opt.passes >= 2
    BY <1>1, TheCommand DEF Over, CgInv
  <1>3. opt.items > 0
    <2>1. used_index < parsed_examples /\ parsed_examples \in 0 .. Total
      BY <1>1 DEF CgExample, Available, CgInv
    <2> QED BY <1>1, <1>2, <2>1, TotalIsNatural
  <1>4. PICK worse \in BOOLEAN :
          cg' = IF Pass(n) = cg.current_pass THEN UseExample(cg, Item(n))
                ELSE UseExample(ChangePass(cg, Pass(n), worse), Item(n))
    BY <1>1 DEF CgExample
  <1>5. Progress(cg', Item(n), Pass(n), opt.items)
    <2>1. CASE used_index = 0
      <3>1. Progress(cg, 0, 0, opt.items) /\ Item(n) = 1 /\ Pass(n) = 0
        BY <1>1, <1>2, <1>3, <2>1, FirstItem DEF CgInv
      <3>2. cg' = UseExample(cg, 0 + 1)
        BY <1>4, <3>1 DEF Progress
      <3>3. Progress(UseExample(cg, 0 + 1), 0 + 1, 0, opt.items)
        BY <1>2, <1>3, <3>1, ExampleUsed
      <3> QED BY <3>1, <3>2, <3>3
    <2>2. CASE used_index > 0 /\ Item(used_index) < opt.items
      <3>1. Progress(cg, Item(used_index), Pass(used_index), opt.items)
        BY <1>1, <2>2 DEF CgInv
      <3>2. /\ Item(n) = Item(used_index) + 1 /\ Pass(n) = Pass(used_index)
            /\ Item(used_index) \in Nat /\ Pass(used_index) \in Nat
        BY <1>1, <1>2, <1>3, <2>2, ItemsAndPasses
      <3>3. cg' = UseExample(cg, Item(n))
        BY <1>4, <3>1, <3>2 DEF Progress
      <3> QED BY <1>2, <2>2, <3>1, <3>2, <3>3, ExampleUsed
    <2>3. CASE used_index > 0 /\ Item(used_index) = opt.items
      <3>1. Progress(cg, opt.items, Pass(used_index), opt.items)
        BY <1>1, <2>3 DEF CgInv
      <3>2. /\ Item(n) = 1 /\ Pass(n) \in {0, Pass(used_index) + 1}
            /\ Pass(n) # Pass(used_index) /\ Pass(used_index) \in Nat
        BY <1>1, <1>2, <1>3, <2>3, ItemsAndPasses
      <3>3. cg' = UseExample(ChangePass(cg, Pass(n), worse), 0 + 1)
        BY <1>4, <3>1, <3>2 DEF Progress
      <3>4. Progress(ChangePass(cg, Pass(n), worse), 0, Pass(n), opt.items)
        BY <1>2, <1>3, <3>1, <3>2, PassChanged
      <3>5. Pass(n) \in Nat
        BY <3>2
      <3>6. Progress(cg', 0 + 1, Pass(n), opt.items)
        BY <1>2, <1>3, <3>3, <3>4, <3>5, ExampleUsed
      <3> QED BY <3>2, <3>6
    <2>4. Item(used_index) <= opt.items \/ used_index = 0
      BY <1>1, <1>2, <1>3, ItemsAndPasses
    <2>5. used_index > 0 => Item(used_index) \in Nat
      BY <1>1, <1>2, <1>3, ItemsAndPasses
    <2> QED BY <1>1, <1>2, <2>1, <2>2, <2>3, <2>4, <2>5
  <1>6. used_index' = n /\ UNCHANGED parsed_examples
    BY DEF CgExample, Taken, ParserRuns
  <1>7. Total' = Total /\ parsed_examples \in 0 .. Total
    BY <1>1, <1>6 DEF Total, CgInv
  <1>8. Item(used_index)' = Item(n) /\ Pass(used_index)' = Pass(n)
    BY <1>1, <1>6 DEF Item, Pass
  <1> HIDE DEF n
  <1>9. used_index' > 0 /\ used_index' \in Nat
    BY <1>1, <1>6 DEF n
  <1> QED BY <1>1, <1>2, <1>3, <1>5, <1>6, <1>7, <1>8, <1>9 DEF CgInv

LEMMA CgStep ==
  ASSUME SessionInv, CgInv, [Next]_vars
  PROVE  CgInv'
  <1>1. CASE pc' # "cg"
    BY <1>1 DEF CgInv
  <1>2. CASE pc' = "cg" /\ Start
    BY <1>2, CgBegins
  <1>3. CASE pc' = "cg" /\ CgExample
    BY <1>3, CgGoesOn
  <1>4. CASE pc' = "cg" /\ ~Start /\ ~CgExample
    <2>1. /\ pc = "cg" /\ UNCHANGED <<cg, used_index, scenario, session>>
          /\ UNCHANGED parsed_examples \/ Publish
      BY <1>4, CgFrame
    <2>2. opt' = opt
      BY <2>1 DEF opt
    <2>3. /\ Total' = Total /\ Item(used_index)' = Item(used_index)
          /\ Pass(used_index)' = Pass(used_index)
      BY <2>1, <2>2 DEF Total, Item, Pass
    <2>4. Total \in Nat
      BY <2>1, TheCommand, TotalIsNatural DEF Over
    <2>5. parsed_examples' \in 0 .. Total
      <3>1. parsed_examples \in 0 .. Total
        BY <2>1 DEF CgInv
      <3> QED BY <2>1, <2>4, <3>1 DEF Publish
    <2> QED BY <2>1, <2>2, <2>3, <2>5 DEF CgInv
  <1> QED BY <1>1, <1>2, <1>3, <1>4

LEMMA PassesKnown == Spec => [](SessionInv /\ CgInv)
  <1> DEFINE Inv == SessionInv /\ CgInv
  <1>1. Init => Inv
    <2>1. Init => CgInv
      BY DEF Init, CgInv
    <2> QED BY <2>1, SessionStart
  <1>2. Inv /\ [Next]_vars => Inv'
    BY SessionStep, CgStep
  <1> HIDE DEF Inv
  <1>3. Spec => []Inv
    BY <1>1, <1>2, PTL DEF Spec
  <1> QED BY <1>3, PTL DEF Inv

\* The curvature of an example is computed with the prediction made for it, not
\* for its neighbour: setup_cg reads the predictions again from the first one at
\* each change of the pass, and a step back leaves those of a whole pass in
\* front.  If no step was taken back they are from the present weights.
THEOREM CurvatureAtOwnPrediction == Spec => []OwnPrediction
  <1>1. SessionInv /\ CgInv => OwnPrediction
    <2> SUFFICES ASSUME SessionInv, CgInv, pc = "cg", cg.read # NothingRead
                 PROVE  /\ cg.read.prediction # <<>>
                        /\ cg.read.prediction[1] = cg.read.item
                        /\ ~cg.stepped_back => cg.read.prediction[2] = cg.weights
      BY DEF OwnPrediction
    <2> DEFINE k == Item(used_index)
    <2>1. used_index # 0
      BY DEF CgInv, Progress, GradientSoFar
    <2>2. /\ opt.items \in Nat \ {0} /\ opt.passes \in Nat \ {0}
          /\ opt.passes >= 2 /\ used_index \in Nat \ {0}
          /\ Progress(cg, k, Pass(used_index), opt.items)
      <3>1. opt.items \in Nat /\ opt.passes \in Nat \ {0}
        BY TheCommand DEF Over
      <3>2. used_index \in Nat \ {0}
        BY <2>1 DEF CgInv
      <3> QED BY <3>1, <3>2 DEF CgInv
    <2>3. k \in 1 .. opt.items
      BY <2>2, ItemsAndPasses
    <2> HIDE DEF k
    <2>4. ~cg.gradient_pass
      BY <2>2, <2>3 DEF Progress, GradientSoFar
    <2>5. cg.read = [item |-> k, prediction |-> cg.predictions[k]]
      BY <2>2, <2>3, <2>4 DEF Progress, CurvatureSoFar
    <2>6. cg \in CgState /\ cg.stepped_back \in BOOLEAN
      BY <2>2 DEF Progress, CgState
    <2>7. CASE cg.stepped_back
      <3>1. /\ cg.predictions \in Seq(Contribution)
            /\ k \in 1 .. Len(cg.predictions) /\ cg.predictions[k][1] = k
        BY <2>2, <2>3, <2>6, <2>7 DEF Progress, CgState
      <3>2. cg.predictions[k] \in Contribution
        BY <3>1
      <3> QED BY <2>5, <2>7, <3>1, <3>2 DEF Contribution
    <2>8. CASE ~cg.stepped_back
      <3>1. cg.predictions[k] = <<k, cg.weights>>
        BY <2>2, <2>3, <2>4, <2>8 DEF Progress, CurvatureSoFar, Whole
      <3> QED BY <2>5, <3>1
    <2> QED BY <2>6, <2>7, <2>8
  <1> QED BY <1>1, PassesKnown, PTL

\* A direction and the preconditioner are made of every example of one pass,
\* none twice and none of a step that was taken back, all at the same weights:
\* the derivative is set to zero whenever it was used or given up.
THEOREM DirectionIsWhole == Spec => []DirectionFromWholePass
  <1>1. SessionInv /\ CgInv => DirectionFromWholePass
    <2> SUFFICES ASSUME SessionInv, CgInv, pc = "cg", cg.direction # <<>>
                 PROVE  /\ cg.direction =
                             [i \in 1 .. opt.items |-> <<i, cg.direction[1][2]>>]
                        /\ cg.preconditioner = [i \in 1 .. opt.items |-> i]
      BY DEF DirectionFromWholePass
    <2>1. PICK k, pass : /\ Progress(cg, k, pass, opt.items) /\ pass # 0
      BY DEF CgInv, Progress
    <2>2. cg.gradient_pass \in BOOLEAN
      BY <2>1 DEF Progress, CgState
    <2> QED BY <2>1, <2>2
            DEF Progress, GradientSoFar, CurvatureSoFar, Whole, Items
  <1> QED BY <1>1, PassesKnown, PTL

-----------------------------------------------------------------------------
(* LDA: runs of features, and what is in them                              *)

LEMMA OccurrencesType ==
  ASSUME NEW S, NEW r \in Seq(S), NEW e
  PROVE  Occurrences(r, e) \in Nat
  <1>1. IsFiniteSet(1 .. Len(r)) /\ {i \in DOMAIN r : r[i] = e} \in SUBSET (1 .. Len(r))
    BY FS_Interval
  <1>2. IsFiniteSet({i \in DOMAIN r : r[i] = e})
    BY <1>1, FS_Subset
  <1> QED BY <1>2, FS_CardinalityType DEF Occurrences

LEMMA OccurrencesCat ==
  ASSUME NEW S, NEW a \in Seq(S), NEW b \in Seq(S), NEW e
  PROVE  Occurrences(Cat(a, b), e) = Occurrences(a, e) + Occurrences(b, e)
  <1> DEFINE c == Cat(a, b)
             n == Len(a)
             m == Len(b)
             A == {i \in 1 .. n : a[i] = e}
             B == {i \in 1 .. m : b[i] = e}
             C == {i \in 1 .. n + m : c[i] = e}
             D == {i \in n + 1 .. n + m : c[i] = e}
             f == [i \in B |-> n + i]
  <1>1. /\ c \in Seq(S) /\ Len(c) = n + m /\ n \in Nat /\ m \in Nat
        /\ \A i \in 1 .. n + m : c[i] = IF i <= n THEN a[i] ELSE b[i - n]
    <2>1. n \in Nat /\ m \in Nat
      OBVIOUS
    <2> QED BY <2>1, CatProperties
  <1>2. /\ Occurrences(a, e) = Cardinality(A) /\ Occurrences(b, e) = Cardinality(B)
        /\ Occurrences(c, e) = Cardinality(C)
    <2>1. DOMAIN a = 1 .. n /\ DOMAIN b = 1 .. m /\ DOMAIN c = 1 .. n + m
      BY <1>1
    <2> QED BY <2>1 DEF Occurrences
  <1> HIDE DEF c, n, m
  <1>3. IsFiniteSet(A) /\ IsFiniteSet(B)
    <2>1. IsFiniteSet(1 .. n) /\ IsFiniteSet(1 .. m)
      <3>1. n \in Int /\ m \in Int /\ 1 \in Int
        BY <1>1
      <3> QED BY <3>1, FS_Interval, Zenon
    <2>2. A \in SUBSET (1 .. n) /\ B \in SUBSET (1 .. m)
      OBVIOUS
    <2> QED BY <2>1, <2>2, FS_Subset
  <1>4. C = A \cup D /\ A \cap D = {}
    BY <1>1
  <1>5. f \in Bijection(B, D)
    <2>1. \A i \in B : n + i \in D
      <3> SUFFICES ASSUME NEW i \in 1 .. m, b[i] = e PROVE n + i \in D
        OBVIOUS
      <3>1. n + i \in n + 1 .. n + m /\ n + i \in 1 .. n + m /\ ~(n + i <= n) /\ (n + i) - n = i
        BY <1>1
      <3> QED BY <1>1, <3>1
    <2>2. f \in [B -> D]
      BY <2>1
    <2>3. \A i, j \in B : f[i] = f[j] => i = j
      BY <1>1
    <2>4. \A d \in D : \E i \in B : f[i] = d
      <3> SUFFICES ASSUME NEW d \in n + 1 .. n + m, c[d] = e PROVE \E i \in B : f[i] = d
        OBVIOUS
      <3>1. d - n \in 1 .. m /\ n + (d - n) = d /\ d \in 1 .. n + m /\ ~(d <= n)
        BY <1>1
      <3>2. d - n \in B
        BY <1>1, <3>1
      <3> QED BY <3>1, <3>2
    <2>5. f \in Injection(B, D)
      BY <2>2, <2>3 DEF Injection, IsInjective
    <2>6. f \in Surjection(B, D)
      BY <2>2, <2>4 DEF Surjection
    <2> QED BY <2>5, <2>6 DEF Bijection
  <1>6. IsFiniteSet(D) /\ Cardinality(D) = Cardinality(B)
    <2> HIDE DEF f, B, D
    <2>1. ExistsBijection(B, D)
      BY <1>5 DEF ExistsBijection
    <2> QED BY <1>3, <2>1, FS_Bijection
  <1>7. Cardinality(A) \in Nat /\ Cardinality(B) \in Nat
    BY <1>3, FS_CardinalityType
  <1> HIDE DEF A, B, C, D
  <1>8. Cardinality(C) = Cardinality(A) + Cardinality(D) - 0
    <2>1. Cardinality(A \cap D) = 0
      BY <1>4, FS_EmptySet
    <2> QED BY <1>3, <1>4, <1>6, <2>1, FS_Union
  <1> QED BY <1>2, <1>6, <1>7, <1>8 DEF c

Triples == [document : Int, weight_index : Nat]
Ascends(r) ==
  \A i, j \in 1 .. Len(r) : i <= j => r[i].weight_index <= r[j].weight_index
Runs == {r \in Seq(Triples) : Ascends(r)}
Below(r, v) == \A i \in 1 .. Len(r) : r[i].weight_index <= v
Above(r, v) == \A i \in 1 .. Len(r) : r[i].weight_index >= v

\* c holds what a and b hold.
Joins(c, a, b) ==
  /\ Len(c) = Len(a) + Len(b)
  /\ \A e : Occurrences(c, e) = Occurrences(a, e) + Occurrences(b, e)

LEMMA JoinsCat ==
  ASSUME NEW S, NEW a \in Seq(S), NEW b \in Seq(S)
  PROVE  Cat(a, b) \in Seq(S) /\ Joins(Cat(a, b), a, b)
  BY CatProperties, OccurrencesCat DEF Joins

LEMMA RunsCat ==
  ASSUME NEW a \in Runs, NEW b \in Runs, NEW v \in Nat, Below(a, v), Above(b, v)
  PROVE  Cat(a, b) \in Runs
  <1> DEFINE c == Cat(a, b)
             n == Len(a)
             m == Len(b)
  <1>1. /\ c \in Seq(Triples) /\ Len(c) = n + m /\ n \in Nat /\ m \in Nat
        /\ \A i \in 1 .. n + m : c[i] = IF i <= n THEN a[i] ELSE b[i - n]
    <2>1. a \in Seq(Triples) /\ b \in Seq(Triples)
      BY DEF Runs
    <2>2. n \in Nat /\ m \in Nat
      BY <2>1
    <2> QED BY <2>1, <2>2, CatProperties
  <1>2. /\ \A i \in 1 .. n : a[i].weight_index \in Nat /\ a[i].weight_index <= v
        /\ \A i \in 1 .. m : b[i].weight_index \in Nat /\ b[i].weight_index >= v
    <2>1. a \in Seq(Triples) /\ b \in Seq(Triples)
      BY DEF Runs
    <2>2. /\ \A i \in 1 .. n : a[i] \in Triples
          /\ \A i \in 1 .. m : b[i] \in Triples
      BY <2>1
    <2> QED BY <2>2 DEF Below, Above, Triples
  <1>3. /\ \A i, j \in 1 .. n : i <= j => a[i].weight_index <= a[j].weight_index
        /\ \A i, j \in 1 .. m : i <= j => b[i].weight_index <= b[j].weight_index
    BY DEF Runs, Ascends
  <1> HIDE DEF c, n, m
  <1>4. ASSUME NEW i \in 1 .. n + m, NEW j \in 1 .. n + m, i <= j
        PROVE  c[i].weight_index <= c[j].weight_index
    <2>1. CASE j <= n
      <3>1. i \in 1 .. n /\ j \in 1 .. n
        BY <1>1, <1>4, <2>1
      <3> QED BY <1>1, <1>3, <1>4, <2>1, <3>1
    <2>2. CASE ~(i <= n)
      <3>1. i - n \in 1 .. m /\ j - n \in 1 .. m /\ i - n <= j - n /\ ~(j <= n)
        BY <1>1, <1>4, <2>2
      <3>2. c[i] = b[i - n] /\ c[j] = b[j - n]
        BY <1>1, <2>2, <3>1
      <3> QED BY <1>3, <3>1, <3>2
    <2>3. CASE i <= n /\ ~(j <= n)
      <3>1. i \in 1 .. n /\ j - n \in 1 .. m
        BY <1>1, <2>3
      <3>2. c[i] = a[i] /\ c[j] = b[j - n]
        BY <1>1, <2>3
      <3>3. a[i].weight_index \in Nat /\ a[i].weight_index <= v
            /\ b[j - n].weight_index \in Nat /\ b[j - n].weight_index >= v
        BY <1>2, <3>1
      <3> QED BY <3>2, <3>3
    <2> QED BY <1>1, <2>1, <2>2, <2>3
  <1> QED BY <1>1, <1>4 DEF Runs, Ascends, c

LEMMA BelowCat ==
  ASSUME NEW S, NEW a \in Seq(S), NEW b \in Seq(S), NEW v, Below(a, v), Below(b, v)
  PROVE  Below(Cat(a, b), v)
  <1> DEFINE c == Cat(a, b)
             n == Len(a)
             m == Len(b)
  <1>1. /\ Len(c) = n + m /\ n \in Nat /\ m \in Nat
        /\ \A i \in 1 .. n + m : c[i] = IF i <= n THEN a[i] ELSE b[i - n]
    <2>1. n \in Nat /\ m \in Nat
      OBVIOUS
    <2> QED BY <2>1, CatProperties
  <1>2. /\ \A i \in 1 .. n : a[i].weight_index <= v
        /\ \A i \in 1 .. m : b[i].weight_index <= v
    BY DEF Below
  <1> HIDE DEF c, n, m
  <1>3. \A i \in 1 .. n + m : IF i <= n THEN i \in 1 .. n ELSE i - n \in 1 .. m
    BY <1>1
  <1>4. \A i \in 1 .. Len(c) : c[i].weight_index <= v
    BY <1>1, <1>2, <1>3
  <1> QED BY <1>4 DEF Below, c

\* The features of the destination that are before one of the source.
LEMMA SmallerIs ==
  ASSUME NEW r \in Seq(Triples), NEW e \in Triples
  PROVE  /\ Smaller(r, e) \in 0 .. Len(r)
         /\ \A i \in 1 .. Smaller(r, e) : r[i].weight_index < e.weight_index
         /\ Smaller(r, e) = Len(r) \/ r[Smaller(r, e) + 1].weight_index >= e.weight_index
  <1> DEFINE Fits(n) == /\ \A i \in 1 .. n : r[i].weight_index < e.weight_index
                        /\ n = Len(r) \/ r[n + 1].weight_index >= e.weight_index
             m == Len(r)
             T == {i \in 1 .. m : r[i].weight_index >= e.weight_index}
  <1>1. m \in Nat /\ e.weight_index \in Nat /\ \A i \in 1 .. m : r[i].weight_index \in Nat
    <2>1. m \in Nat /\ \A i \in 1 .. m : r[i] \in Triples
      OBVIOUS
    <2> HIDE DEF m
    <2>2. e.weight_index \in Nat
      BY DEF Triples
    <2>3. \A i \in 1 .. m : r[i].weight_index \in Nat
      BY <2>1 DEF Triples
    <2> QED BY <2>1, <2>2, <2>3
  <1>2. \E n \in 0 .. m : Fits(n)
    <2>1. CASE T = {}
      <3>1. \A i \in 1 .. m : r[i].weight_index < e.weight_index
        BY <1>1, <2>1
      <3>2. m \in 0 .. m
        BY <1>1
      <3> QED BY <3>1, <3>2
    <2>2. CASE T # {}
      <3>1. PICK x \in T : \A y \in T : x <= y
        <4>1. T \in SUBSET Nat
          BY <1>1
        <4> HIDE DEF T
        <4> QED BY <2>2, <4>1, Smallest
      <3>2. x - 1 \in 0 .. m /\ (x - 1) + 1 = x /\ r[x].weight_index >= e.weight_index
        BY <1>1, <3>1
      <3>3. ASSUME NEW i \in 1 .. x - 1 PROVE r[i].weight_index < e.weight_index
        <4>1. i \in 1 .. m /\ ~(x <= i)
          BY <1>1, <3>1
        <4>2. i \notin T
          BY <3>1, <4>1
        <4> QED BY <1>1, <4>1, <4>2
      <3>4. Fits(x - 1)
        BY <3>2, <3>3
      <3> QED BY <3>2, <3>4
    <2> QED BY <2>1, <2>2
  <1>3. Smaller(r, e) = CHOOSE n \in 0 .. m : Fits(n)
    BY DEF Smaller
  <1> HIDE DEF Fits, m
  <1>4. Smaller(r, e) \in 0 .. m /\ Fits(Smaller(r, e))
    BY <1>2, <1>3
  <1> QED BY <1>4 DEF Fits, m

\* A run and its two parts.
LEMMA RunParts ==
  ASSUME NEW r \in Runs, NEW n \in 0 .. Len(r)
  PROVE  /\ SubSeq(r, 1, n) \in Runs /\ SubSeq(r, n + 1, Len(r)) \in Runs
         /\ r = Cat(SubSeq(r, 1, n), SubSeq(r, n + 1, Len(r)))
         /\ Len(SubSeq(r, 1, n)) = n /\ \A i \in 1 .. n : SubSeq(r, 1, n)[i] = r[i]
         /\ Len(SubSeq(r, n + 1, Len(r))) = Len(r) - n
         /\ \A i \in 1 .. Len(r) - n : SubSeq(r, n + 1, Len(r))[i] = r[n + i]
  <1> DEFINE m == Len(r)
             a == SubSeq(r, 1, n)
             b == SubSeq(r, n + 1, m)
             c == Cat(a, b)
  <1>1. r \in Seq(Triples) /\ m \in Nat /\ n \in Nat /\ n <= m
    BY DEF Runs
  <1>2. \A i, j \in 1 .. m : i <= j => r[i].weight_index <= r[j].weight_index
    BY DEF Runs, Ascends
  <1>3. /\ b \in Seq(Triples) /\ Len(b) = m - n /\ \A i \in 1 .. m - n : b[i] = r[n + i]
    BY <1>1, SuffixProperties
  <1>4. a \in Seq(Triples) /\ Len(a) = n /\ \A i \in 1 .. n : a[i] = r[i]
    <2>1. \A i \in 1 .. n : r[i] \in Triples
      BY <1>1
    <2>2. /\ a \in Seq(Triples)
          /\ Len(a) = IF 1 <= n THEN n - 1 + 1 ELSE 0
          /\ \A i \in 1 .. n - 1 + 1 : a[i] = r[1 + i - 1]
      BY <1>1, <2>1, SubSeqProperties
    <2>3. \A i \in 1 .. n : i \in 1 .. n - 1 + 1 /\ 1 + i - 1 = i
      BY <1>1
    <2> QED BY <1>1, <2>2, <2>3
  <1> HIDE DEF a, b, m
  <1>5. Ascends(a) /\ Ascends(b)
    <2>1. \A i, j \in 1 .. n : i \in 1 .. m /\ j \in 1 .. m
      BY <1>1
    <2>2. \A i, j \in 1 .. m - n : /\ n + i \in 1 .. m /\ n + j \in 1 .. m
                                   /\ i <= j => n + i <= n + j
      BY <1>1
    <2>3. \A i, j \in 1 .. n : i <= j => a[i].weight_index <= a[j].weight_index
      BY <1>2, <1>4, <2>1
    <2>4. ASSUME NEW i \in 1 .. m - n, NEW j \in 1 .. m - n, i <= j
          PROVE  b[i].weight_index <= b[j].weight_index
      <3>1. b[i] = r[n + i] /\ b[j] = r[n + j]
        BY <1>3
      <3>2. n + i \in 1 .. m /\ n + j \in 1 .. m /\ n + i <= n + j
        BY <2>2, <2>4
      <3> QED BY <1>2, <3>1, <3>2
    <2> QED BY <1>3, <1>4, <2>3, <2>4 DEF Ascends
  <1>6. c = r
    <2>1. /\ c \in Seq(Triples) /\ Len(c) = n + (m - n)
          /\ \A i \in 1 .. n + (m - n) : c[i] = IF i <= n THEN a[i] ELSE b[i - n]
      <3>1. a \in Seq(Triples) /\ b \in Seq(Triples) /\ Len(a) = n /\ Len(b) = m - n
        BY <1>3, <1>4
      <3>2. /\ Cat(a, b) \in Seq(Triples) /\ Len(Cat(a, b)) = Len(a) + Len(b)
            /\ \A i \in 1 .. Len(a) + Len(b) :
                 Cat(a, b)[i] = IF i <= Len(a) THEN a[i] ELSE b[i - Len(a)]
        BY <3>1, CatProperties, Zenon
      <3> QED BY <3>1, <3>2
    <2> HIDE DEF c
    <2>2. n + (m - n) = m
      BY <1>1
    <2>3. ASSUME NEW i \in 1 .. m PROVE c[i] = r[i]
      <3>1. CASE i <= n
        <4>1. i \in 1 .. n
          BY <1>1, <3>1
        <4> QED BY <1>4, <2>1, <2>2, <3>1, <4>1
      <3>2. CASE ~(i <= n)
        <4>1. i - n \in 1 .. m - n /\ n + (i - n) = i
          BY <1>1, <3>2
        <4> QED BY <1>3, <2>1, <2>2, <3>2, <4>1
      <3> QED BY <3>1, <3>2
    <2>4. Len(c) = m /\ Len(r) = m
      BY <2>1, <2>2 DEF m
    <2> QED BY <1>1, <2>1, <2>3, <2>4, SeqEqual
  <1> QED BY <1>3, <1>4, <1>5, <1>6 DEF Runs, a, b, m

-----------------------------------------------------------------------------
(* LDA: two runs become one                                                *)

MovedOn(merged, left, e, now, rest) ==
  /\ now \in Runs /\ rest \in Runs
  /\ Below(now, e.weight_index) /\ Above(rest, e.weight_index)
  /\ Len(now) + Len(rest) = (Len(merged) + Len(left)) + 1
  /\ \A x : Occurrences(now, x) + Occurrences(rest, x)
              = (Occurrences(merged, x) + Occurrences(left, x)) + Occurrences(<<e>>, x)

\* One feature of the source: what comes before it in the destination, and it.
LEMMA TakenOne ==
  ASSUME NEW merged \in Runs, NEW left \in Runs, NEW v \in Nat, NEW e \in Triples,
         Below(merged, v), Above(left, v), v <= e.weight_index,
         NEW n, n = Smaller(left, e), NEW now, NEW rest,
         now = Cat(Cat(merged, SubSeq(left, 1, n)), <<e>>),
         rest = SubSeq(left, n + 1, Len(left))
  PROVE  MovedOn(merged, left, e, now, rest)
  <1> DEFINE w == e.weight_index
             a == SubSeq(left, 1, n)
             m == Len(left)
             one == <<e>>
             most == Cat(merged, a)
  <1>1. /\ left \in Seq(Triples) /\ merged \in Seq(Triples) /\ m \in Nat /\ w \in Nat
        /\ \A i \in 1 .. m : left[i].weight_index \in Nat
    <2>1. left \in Seq(Triples) /\ merged \in Seq(Triples)
      BY DEF Runs
    <2>2. m \in Nat /\ \A i \in 1 .. m : left[i] \in Triples
      BY <2>1
    <2> HIDE DEF m
    <2>3. w \in Nat /\ \A i \in 1 .. m : left[i].weight_index \in Nat
      BY <2>2 DEF Triples
    <2> QED BY <2>1, <2>2, <2>3
  <1>2. /\ n \in 0 .. m /\ \A i \in 1 .. n : left[i].weight_index < w
        /\ n = m \/ left[n + 1].weight_index >= w
    BY <1>1, SmallerIs
  <1>3. /\ a \in Runs /\ rest \in Runs /\ left = Cat(a, rest)
        /\ Len(a) = n /\ (\A i \in 1 .. n : a[i] = left[i])
        /\ Len(rest) = m - n /\ \A i \in 1 .. m - n : rest[i] = left[n + i]
    BY <1>2, RunParts
  <1>4. one \in Runs /\ Len(one) = 1 /\ one[1] = e
    <2>1. one \in Seq(Triples) /\ Len(one) = 1 /\ one[1] = e
      OBVIOUS
    <2>2. \A i, j \in 1 .. 1 : one[i].weight_index <= one[j].weight_index
      <3>1. \A i \in 1 .. 1 : i = 1
        OBVIOUS
      <3>2. w <= w
        BY <1>1
      <3> QED BY <2>1, <3>1, <3>2
    <2> QED BY <2>1, <2>2 DEF Runs, Ascends
  <1>5. /\ \A i \in 1 .. m : left[i].weight_index >= v
        /\ \A i, j \in 1 .. m : i <= j => left[i].weight_index <= left[j].weight_index
    BY DEF Above, Runs, Ascends
  <1> HIDE DEF a, m, one, w
  <1>6. Above(a, v) /\ Below(a, w) /\ Above(one, w) /\ Below(one, w)
    <2>1. ASSUME NEW i \in 1 .. n
          PROVE  a[i].weight_index >= v /\ a[i].weight_index <= w
      <3>1. i \in 1 .. m
        BY <1>1, <1>2
      <3> DEFINE q == left[i].weight_index
      <3>2. a[i] = left[i] /\ q \in Nat /\ q >= v /\ q < w
        BY <1>1, <1>2, <1>3, <1>5, <3>1
      <3> HIDE DEF q
      <3>3. q >= v /\ q <= w
        BY <1>1, <3>2
      <3> QED BY <3>2, <3>3 DEF q
    <2>2. \A i \in 1 .. 1 : one[i].weight_index >= w /\ one[i].weight_index <= w
      <3>1. \A i \in 1 .. 1 : one[i].weight_index = w
        BY <1>4 DEF w
      <3> QED BY <1>1, <3>1
    <2> QED BY <1>3, <1>4, <2>1, <2>2 DEF Above, Below
  <1>7. Above(rest, w)
    <2>1. ASSUME NEW i \in 1 .. m - n PROVE rest[i].weight_index >= w
      <3>1. n + 1 \in 1 .. m /\ n + i \in 1 .. m /\ n + 1 <= n + i /\ n # m
        BY <1>1, <1>2
      <3>2. left[n + 1].weight_index <= left[n + i].weight_index
        BY <1>5, <3>1
      <3>3. rest[i] = left[n + i]
        BY <1>3
      <3>4. left[n + 1].weight_index \in Nat /\ left[n + i].weight_index \in Nat
        BY <1>1, <3>1
      <3>5. left[n + 1].weight_index >= w
        BY <1>2, <3>1
      <3> DEFINE p == left[n + 1].weight_index
                 q == left[n + i].weight_index
      <3> HIDE DEF p, q
      <3>6. p \in Nat /\ q \in Nat /\ p <= q /\ p >= w
        BY <3>2, <3>4, <3>5 DEF p, q
      <3>7. q >= w
        BY <1>1, <3>6
      <3> QED BY <3>3, <3>7 DEF q
    <2> QED BY <1>3, <2>1 DEF Above
  <1>8. most \in Runs /\ Below(most, w)
    <2>1. most \in Runs
      BY <1>3, <1>6, RunsCat
    <2>2. Below(merged, w)
      <3>1. \A i \in 1 .. Len(merged) : merged[i].weight_index \in Nat
        <4>1. \A i \in 1 .. Len(merged) : merged[i] \in Triples
          BY <1>1
        <4> QED BY <4>1 DEF Triples
      <3>2. v <= w
        BY DEF w
      <3> QED BY <1>1, <3>1, <3>2 DEF Below
    <2>3. a \in Seq(Triples)
      BY <1>3 DEF Runs
    <2> QED BY <1>1, <1>6, <2>1, <2>2, <2>3, BelowCat
  <1>9. now = Cat(most, one)
    BY DEF a, one
  <1>10. now \in Runs
    BY <1>1, <1>4, <1>6, <1>8, <1>9, RunsCat
  <1>11. Below(now, w)
    <2>1. most \in Seq(Triples) /\ one \in Seq(Triples)
      BY <1>4, <1>8 DEF Runs
    <2> QED BY <1>6, <1>8, <1>9, <2>1, BelowCat
  <1>12. /\ Joins(now, most, one) /\ Joins(most, merged, a) /\ Joins(left, a, rest)
    <2>1. /\ most \in Seq(Triples) /\ one \in Seq(Triples) /\ a \in Seq(Triples)
          /\ rest \in Seq(Triples)
      BY <1>3, <1>4, <1>8 DEF Runs
    <2>2. Joins(now, most, one)
      BY <1>9, <2>1, JoinsCat
    <2>3. Joins(most, merged, a)
      BY <1>1, <2>1, JoinsCat
    <2>4. Joins(left, a, rest)
      BY <1>3, <2>1, JoinsCat
    <2> QED BY <2>2, <2>3, <2>4
  <1> HIDE DEF most
  <1>13. Len(now) + Len(rest) = (Len(merged) + m) + 1
    <2>1. Len(merged) \in Nat /\ Len(a) \in Nat /\ Len(rest) \in Nat
      <3>1. n \in Nat /\ m - n \in Nat
        BY <1>1, <1>2
      <3>2. Len(merged) \in Nat
        BY <1>1
      <3> QED BY <1>3, <3>1, <3>2
    <2>2. Len(now) = Len(most) + 1 /\ Len(most) = Len(merged) + Len(a)
          /\ m = Len(a) + Len(rest)
      BY <1>4, <1>12 DEF Joins, m
    <2> DEFINE p == Len(merged)
               q == Len(a)
               r == Len(rest)
               s == Len(now)
               t == Len(most)
    <2> HIDE DEF p, q, r, s, t
    <2>3. p \in Nat /\ q \in Nat /\ r \in Nat /\ s = t + 1 /\ t = p + q /\ m = q + r
      BY <2>1, <2>2 DEF p, q, r, s, t
    <2>4. s + r = (p + m) + 1
      BY <2>3
    <2> QED BY <2>4 DEF p, q, r, s, t
  <1>14. ASSUME NEW x
         PROVE  Occurrences(now, x) + Occurrences(rest, x)
                  = (Occurrences(merged, x) + Occurrences(left, x)) + Occurrences(one, x)
    <2> DEFINE oa == Occurrences(a, x)
               or == Occurrences(rest, x)
               om == Occurrences(merged, x)
               o1 == Occurrences(one, x)
               on == Occurrences(now, x)
               ol == Occurrences(left, x)
               os == Occurrences(most, x)
    <2>1. oa \in Nat /\ or \in Nat /\ om \in Nat /\ o1 \in Nat
      <3>1. a \in Seq(Triples) /\ rest \in Seq(Triples) /\ one \in Seq(Triples)
        BY <1>3, <1>4 DEF Runs
      <3> QED BY <1>1, <3>1, OccurrencesType
    <2>2. on = os + o1 /\ os = om + oa /\ ol = oa + or
      BY <1>12 DEF Joins
    <2> HIDE DEF oa, or, om, o1, on, ol, os
    <2>3. on + or = (om + ol) + o1
      BY <2>1, <2>2
    <2> QED BY <2>3 DEF oa, or, om, o1, on, ol, os
  <1> QED BY <1>3, <1>7, <1>10, <1>11, <1>13, <1>14 DEF MovedOn, w, m, one

\* What MergePair makes of two runs is a run, and holds what they held.
LEMMA MergedPair ==
  ASSUME NEW s \in Runs, NEW b \in Runs
  PROVE  MergePair(s, b) \in Runs /\ Joins(MergePair(s, b), s, b)
  <1> DEFINE n == Len(s)
             V == [merged : Seq(Triples), left : Seq(Triples)]
             base == [merged |-> <<>>, left |-> b]
             More(m, e) == [merged |-> m.merged \o SubSeq(m.left, 1, Smaller(m.left, e)) \o <<e>>,
                            left   |-> SubSeq(m.left, Smaller(m.left, e) + 1, Len(m.left))]
             G == [p \in (1 .. n) \X V |-> More(p[2], s[p[1]])]
             Is(f) == f = [T \in SUBSET DOMAIN s |->
                             IF T = {} THEN base ELSE More(f[T \ {Max(T)}], s[Max(T)])]
             F == CHOOSE f : Is(f)
  <1>1. /\ n \in Nat /\ DOMAIN s = 1 .. n /\ s \in Seq(Triples) /\ b \in Seq(Triples)
        /\ \A i \in 1 .. n : s[i] \in Triples /\ s[i].weight_index \in Nat
        /\ \A i, j \in 1 .. n : i <= j => s[i].weight_index <= s[j].weight_index
    <2>1. s \in Seq(Triples) /\ b \in Seq(Triples) /\ Ascends(s)
      BY DEF Runs
    <2>2. n \in Nat /\ DOMAIN s = 1 .. n /\ \A i \in 1 .. n : s[i] \in Triples
      BY <2>1
    <2>3. \A i, j \in 1 .. n : i <= j => s[i].weight_index <= s[j].weight_index
      BY <2>1 DEF Ascends
    <2> HIDE DEF n
    <2>4. \A i \in 1 .. n : s[i].weight_index \in Nat
      BY <2>2 DEF Triples
    <2> QED BY <2>1, <2>2, <2>3, <2>4
  <1>2. MergePair(s, b) = F[1 .. n].merged \o F[1 .. n].left
    BY <1>1 DEF MergePair, FoldLeft, MapThenFoldSet
  <1>3. ASSUME NEW m \in V, NEW e \in Triples PROVE More(m, e) \in V
    <2> DEFINE r == m.left
               q == m.merged
               k == Smaller(r, e)
               front == SubSeq(r, 1, k)
               rest == SubSeq(r, k + 1, Len(r))
    <2>1. r \in Seq(Triples) /\ q \in Seq(Triples) /\ <<e>> \in Seq(Triples)
      OBVIOUS
    <2>2. k \in 0 .. Len(r)
      BY <2>1, SmallerIs
    <2> HIDE DEF r, q, k, V
    <2>3. front \in Seq(Triples) /\ rest \in Seq(Triples)
      <3>1. rest \in Seq(Triples)
        BY <2>1, <2>2, SuffixProperties
      <3>2. \A i \in 1 .. k : r[i] \in Triples
        BY <2>1, <2>2
      <3>3. front \in Seq(Triples)
        BY <2>1, <2>2, <3>2, SubSeqProperties
      <3> QED BY <3>1, <3>3
    <2> HIDE DEF front, rest
    <2>4. (q \o front) \o <<e>> \in Seq(Triples)
      BY <2>1, <2>3
    <2>5. More(m, e) = [merged |-> (q \o front) \o <<e>>, left |-> rest]
      BY DEF q, front, rest, r, k
    <2> QED BY <2>3, <2>4, <2>5 DEF V
  <1>4. base \in V
    BY <1>1
  <1>5. /\ \A m \in V : m.merged \in Seq(Triples) /\ m.left \in Seq(Triples)
        /\ base.merged = <<>> /\ base.left = b
        /\ \A m, e : /\ More(m, e).merged = Cat(Cat(m.merged, SubSeq(m.left, 1, Smaller(m.left, e))),
                                                <<e>>)
                     /\ More(m, e).left = SubSeq(m.left, Smaller(m.left, e) + 1, Len(m.left))
    BY DEF Cat
  <1> HIDE DEF n, V, More, base
  <1>6. /\ G \in [(1 .. n) \X V -> V]
        /\ \A i \in 1 .. n, x \in V : G[<<i, x>>] = More(x, s[i])
    BY <1>1, <1>3
  <1> HIDE DEF G
  <1>7. PICK f \in [SUBSET (1 .. n) -> V] : SetBySet(f, n, base, G)
    BY <1>1, <1>4, <1>6, SetRecursion
  <1>8. ASSUME NEW T \in SUBSET (1 .. n)
        PROVE  f[T] = IF T = {} THEN base ELSE More(f[T \ {Max(T)}], s[Max(T)])
    <2>1. CASE T = {}
      BY <1>7, <2>1 DEF SetBySet
    <2>2. CASE T # {}
      <3>1. Max(T) \in 1 .. n
        BY <1>1, <2>2, Largest
      <3>2. f[T \ {Max(T)}] \in V
        OBVIOUS
      <3>3. f[T] = G[<<Max(T), f[T \ {Max(T)}]>>]
        BY <1>7, <2>2 DEF SetBySet
      <3> QED BY <1>6, <2>2, <3>1, <3>2, <3>3
    <2> QED BY <2>1, <2>2
  <1>9. Is(F)
    <2>1. Is(f)
      BY <1>1, <1>8
    <2> HIDE DEF Is
    <2> QED BY <2>1
  <1> HIDE DEF F
  <1>10. \A T \in SUBSET (1 .. n) :
           F[T] = IF T = {} THEN base ELSE More(F[T \ {Max(T)}], s[Max(T)])
    BY <1>1, <1>9
  <1>11. Follows(F, n, base, G, V)
    <2>1. F[{}] = base
      BY <1>10
    <2>2. ASSUME NEW T \in SUBSET (1 .. n), T # {}, F[T \ {Max(T)}] \in V
          PROVE  F[T] = G[<<Max(T), F[T \ {Max(T)}]>>]
      <3>1. Max(T) \in 1 .. n
        BY <1>1, <2>2, Largest
      <3> QED BY <1>6, <1>10, <2>2, <3>1
    <2> QED BY <2>1, <2>2 DEF Follows
  <1>12. PICK h \in [0 .. n -> V] : InTurn(h, F, n, base, G)
    BY <1>1, <1>4, <1>6, <1>11, PlacesInTurn
  <1>13. /\ h[0] = base /\ h[n] = F[1 .. n]
         /\ \A k \in 1 .. n : h[k] = More(h[k - 1], s[k])
    <2> SUFFICES ASSUME NEW k \in 1 .. n PROVE h[k] = More(h[k - 1], s[k])
      BY <1>12 DEF InTurn
    <2>1. k - 1 \in 0 .. n
      BY <1>1
    <2>2. h[k] = G[<<k, h[k - 1]>>]
      BY <1>12 DEF InTurn
    <2> QED BY <1>6, <2>1, <2>2
  <1> DEFINE Q(k) == SubSeq(s, 1, k)
             Split(k, v) == /\ Below(h[k].merged, v) /\ Above(h[k].left, v)
                            /\ k < n => v <= s[k + 1].weight_index
             Good(k) == /\ h[k].merged \in Runs /\ h[k].left \in Runs
                        /\ \E v \in Nat : Split(k, v)
                        /\ Len(h[k].merged) + Len(h[k].left) = k + Len(b)
                        /\ \A x : Occurrences(h[k].merged, x) + Occurrences(h[k].left, x)
                                    = Occurrences(Q(k), x) + Occurrences(b, x)
             T == {k \in Nat : k <= n => Good(k)}
  <1>14. 0 \in T
    <2>1. h[0].merged = <<>> /\ h[0].left = b /\ Q(0) = <<>>
      BY <1>1, <1>5, <1>13, SubSeqEmpty
    <2>2. <<>> \in Runs
      BY DEF Runs, Ascends
    <2>3. Split(0, 0)
      <3>1. Below(<<>>, 0)
        BY DEF Below
      <3>2. Above(b, 0)
        <4>1. Len(b) \in Nat /\ \A i \in 1 .. Len(b) : b[i] \in Triples
          BY <1>1
        <4>2. \A i \in 1 .. Len(b) : b[i].weight_index \in Nat
          BY <4>1 DEF Triples
        <4> QED BY <4>2 DEF Above
      <3>3. 0 < n => 0 <= s[0 + 1].weight_index
        <4>1. 0 < n => 0 + 1 \in 1 .. n
          BY <1>1
        <4> QED BY <1>1, <4>1
      <3> QED BY <2>1, <3>1, <3>2, <3>3
    <2>4. Len(h[0].merged) + Len(h[0].left) = 0 + Len(b)
      <3>1. Len(<<>>) = 0
        OBVIOUS
      <3> QED BY <2>1, <3>1
    <2>5. 0 \in Nat
      OBVIOUS
    <2> HIDE DEF Split, Q
    <2> QED BY <2>1, <2>2, <2>3, <2>4, <2>5
  <1>15. ASSUME NEW k \in Nat, k \in T PROVE k + 1 \in T
    <2> SUFFICES ASSUME k + 1 <= n PROVE Good(k + 1)
      <3> HIDE DEF Good
      <3>1. k + 1 \in Nat
        OBVIOUS
      <3> QED BY <3>1
    <2> DEFINE e == s[k + 1]
               merged == h[k].merged
               left == h[k].left
               now == h[k + 1].merged
               rest == h[k + 1].left
    <2>1. k + 1 \in 1 .. n /\ (k + 1) - 1 = k /\ k \in 0 .. n /\ k < n /\ Good(k)
      <3> HIDE DEF Good
      <3>1. k + 1 \in 1 .. n /\ (k + 1) - 1 = k /\ k \in 0 .. n /\ k < n /\ k <= n
        BY <1>1
      <3> QED BY <1>15, <3>1
    <2>2. /\ now = Cat(Cat(merged, SubSeq(left, 1, Smaller(left, e))), <<e>>)
          /\ rest = SubSeq(left, Smaller(left, e) + 1, Len(left))
      <3>1. h[k + 1] = More(h[(k + 1) - 1], s[k + 1])
        BY <1>13, <2>1
      <3>2. h[k + 1] = More(h[k], e)
        BY <2>1, <3>1
      <3> QED BY <1>5, <3>2
    <2>3. PICK v \in Nat : Split(k, v)
      BY <2>1
    <2>4. v <= e.weight_index /\ e \in Triples
      BY <1>1, <2>1, <2>3
    <2>5. merged \in Runs /\ left \in Runs /\ Below(merged, v) /\ Above(left, v)
      BY <2>1, <2>3
    <2>6. /\ now \in Runs /\ rest \in Runs
          /\ Below(now, e.weight_index) /\ Above(rest, e.weight_index)
          /\ Len(now) + Len(rest) = (Len(merged) + Len(left)) + 1
          /\ \A x : Occurrences(now, x) + Occurrences(rest, x)
                      = (Occurrences(merged, x) + Occurrences(left, x)) + Occurrences(<<e>>, x)
      <3> HIDE DEF e, merged, left, now, rest
      <3>1. PICK j : j = Smaller(left, e)
        OBVIOUS
      <3>2. /\ now = Cat(Cat(merged, SubSeq(left, 1, j)), <<e>>)
            /\ rest = SubSeq(left, j + 1, Len(left))
        BY <2>2, <3>1
      <3>3. MovedOn(merged, left, e, now, rest)
        BY <2>4, <2>5, <3>1, <3>2, TakenOne
      <3> QED BY <3>3 DEF MovedOn
    <2>7. e.weight_index \in Nat /\ Split(k + 1, e.weight_index)
      <3>1. k + 1 < n => (k + 1) + 1 \in 1 .. n /\ k + 1 <= (k + 1) + 1
        BY <1>1, <2>1
      <3>2. k + 1 < n => e.weight_index <= s[(k + 1) + 1].weight_index
        BY <1>1, <2>1, <3>1
      <3> QED BY <1>1, <2>1, <2>6, <3>2
    <2>8. Len(now) + Len(rest) = (k + 1) + Len(b)
      <3>1. Len(merged) + Len(left) = k + Len(b) /\ Len(b) \in Nat
        <4>1. Len(b) \in Nat
          BY <1>1
        <4> QED BY <2>1, <4>1
      <3>2. Len(now) + Len(rest) = (k + Len(b)) + 1
        BY <2>6, <3>1
      <3>3. (k + Len(b)) + 1 = (k + 1) + Len(b)
        BY <3>1
      <3> QED BY <3>2, <3>3
    <2>9. ASSUME NEW x
          PROVE  Occurrences(now, x) + Occurrences(rest, x)
                   = Occurrences(Q(k + 1), x) + Occurrences(b, x)
      <3>1. /\ Q(k) \in Seq(Triples) /\ Q(k + 1) = Cat(Q(k), <<e>>)
            /\ <<e>> \in Seq(Triples)
        BY <1>1, <2>1, PrefixStep DEF n
      <3>2. Occurrences(Q(k + 1), x) = Occurrences(Q(k), x) + Occurrences(<<e>>, x)
        <4>1. PICK a, one : a = Q(k) /\ one = <<e>>
          OBVIOUS
        <4> HIDE DEF Q, e
        <4>2. a \in Seq(Triples) /\ one \in Seq(Triples) /\ Q(k + 1) = Cat(a, one)
          BY <3>1, <4>1
        <4>3. Occurrences(Cat(a, one), x) = Occurrences(a, x) + Occurrences(one, x)
          BY <4>2, OccurrencesCat
        <4> QED BY <4>1, <4>2, <4>3
      <3>3. /\ Occurrences(Q(k), x) \in Nat /\ Occurrences(<<e>>, x) \in Nat
            /\ Occurrences(b, x) \in Nat
        BY <1>1, <3>1, OccurrencesType
      <3>4. Occurrences(merged, x) + Occurrences(left, x) = Occurrences(Q(k), x) + Occurrences(b, x)
        BY <2>1
      <3>5. Occurrences(now, x) + Occurrences(rest, x)
              = (Occurrences(Q(k), x) + Occurrences(b, x)) + Occurrences(<<e>>, x)
        BY <2>6, <3>4
      <3> DEFINE p == Occurrences(Q(k), x)
                 q == Occurrences(b, x)
                 r == Occurrences(<<e>>, x)
      <3>6. p \in Nat /\ q \in Nat /\ r \in Nat
        BY <3>3
      <3> HIDE DEF p, q, r
      <3>7. (p + q) + r = (p + r) + q
        BY <3>6
      <3> QED BY <3>2, <3>5, <3>7 DEF p, q, r
    <2> HIDE DEF Split, Q
    <2> QED BY <2>6, <2>7, <2>8, <2>9
  <1>16. Good(n)
    <2> HIDE DEF Good
    <2>1. n \in T
      <3> HIDE DEF T
      <3> QED BY <1>1, <1>14, <1>15, SetInduction
    <2>2. n <= n
      BY <1>1
    <2> QED BY <2>1, <2>2
  <1> DEFINE p == h[n].merged
             q == h[n].left
             c == MergePair(s, b)
  <1>17. c = Cat(p, q)
    BY <1>2, <1>13 DEF Cat
  <1>18. Q(n) = s
    BY <1>1 DEF n
  <1>19. PICK v \in Nat : Below(p, v) /\ Above(q, v)
    BY <1>16
  <1>20. /\ p \in Runs /\ q \in Runs /\ Len(p) + Len(q) = Len(s) + Len(b)
         /\ \A x : Occurrences(p, x) + Occurrences(q, x) = Occurrences(s, x) + Occurrences(b, x)
    <2> HIDE DEF Q
    <2>1. n = Len(s)
      BY DEF n
    <2> QED BY <1>16, <1>18, <2>1
  <1> HIDE DEF p, q, c
  <1>21. c \in Runs
    BY <1>17, <1>19, <1>20, RunsCat
  <1>22. Joins(c, p, q)
    <2>1. p \in Seq(Triples) /\ q \in Seq(Triples)
      BY <1>20 DEF Runs
    <2> QED BY <1>17, <2>1, JoinsCat
  <1>23. Joins(c, s, b)
    BY <1>20, <1>22 DEF Joins
  <1> QED BY <1>21, <1>23 DEF c

-----------------------------------------------------------------------------
(* LDA: the set of runs                                                    *)

\* r holds what t holds.
Holds(r, t) ==
  /\ Len(r) = Len(t)
  /\ \A e : Occurrences(r, e) = Occurrences(t, e)

LEMMA RunSet ==
  ASSUME NEW m \in Seq(Runs)
  PROVE  m \in Seq(Seq(Triples)) /\ FlattenSeq(m) \in Seq(Triples)
  <1>1. \A r \in Runs : r \in Seq(Triples)
    BY DEF Runs
  <1> DEFINE W == Seq(Triples)
             n == Len(m)
  <1> HIDE DEF W
  <1>2. n \in Nat /\ m \in [1 .. n -> W]
    BY <1>1 DEF W
  <1>3. m \in Seq(W)
    BY <1>2
  <1>4. m \in Seq(Seq(Triples))
    BY <1>3 DEF W
  <1> QED BY <1>4, FlattenType

\* The last two runs of a set, merged.
LEMMA MergedLast ==
  ASSUME NEW m \in Seq(Runs), Len(m) > 1
  PROVE  /\ MergeLast(m) \in Seq(Runs) /\ MergeLast(m) # <<>>
         /\ Holds(FlattenSeq(MergeLast(m)), FlattenSeq(m))
  <1> DEFINE j == Len(m)
             P == SubSeq(m, 1, j - 2)
             a == m[j - 1]
             b == m[j]
             c == MergePair(b, a)
  <1>1. /\ j \in Nat /\ j - 2 \in Nat /\ (j - 2) + 1 = j - 1 /\ (j - 1) + 1 = j
        /\ j - 1 \in Nat /\ j - 1 <= j /\ j <= j
    <2>1. j \in Nat
      OBVIOUS
    <2> HIDE DEF j
    <2>2. j > 1
      BY DEF j
    <2> QED BY <2>1, <2>2
  <1>2. /\ P \in Seq(Runs) /\ a \in Runs /\ b \in Runs
        /\ SubSeq(m, 1, j) = Append(Append(P, a), b)
    <2>1. /\ P \in Seq(Runs) /\ m[(j - 2) + 1] \in Runs
          /\ SubSeq(m, 1, (j - 2) + 1) = Append(P, m[(j - 2) + 1])
      BY <1>1, PrefixStep
    <2>2. /\ m[(j - 1) + 1] \in Runs
          /\ SubSeq(m, 1, (j - 1) + 1) = Append(SubSeq(m, 1, j - 1), m[(j - 1) + 1])
      BY <1>1, PrefixStep
    <2> HIDE DEF P, j
    <2> QED BY <1>1, <2>1, <2>2
  <1>3. SubSeq(m, 1, j) = m
    OBVIOUS
  <1>4. c \in Runs /\ Joins(c, b, a)
    <2> HIDE DEF a, b
    <2> QED BY <1>2, MergedPair
  <1>5. MergeLast(m) = P \o <<c>>
    BY DEF MergeLast
  <1> HIDE DEF j, P, a, b, c
  <1>6. MergeLast(m) = Append(P, c) /\ Append(P, c) \in Seq(Runs) /\ Append(P, c) # <<>>
    <2>1. P \o <<c>> = Append(P, c) /\ Append(P, c) \in Seq(Runs) /\ Append(P, c) # <<>>
      BY <1>2, <1>4
    <2> QED BY <1>5, <2>1
  <1> DEFINE f == FlattenSeq(P)
  <1>7. /\ P \in Seq(Seq(Triples)) /\ f \in Seq(Triples)
        /\ a \in Seq(Triples) /\ b \in Seq(Triples) /\ c \in Seq(Triples)
    <2>1. a \in Seq(Triples) /\ b \in Seq(Triples) /\ c \in Seq(Triples)
      BY <1>2, <1>4 DEF Runs
    <2> QED BY <1>2, <2>1, RunSet
  <1>8. FlattenSeq(Append(P, c)) = Cat(f, c)
    BY <1>7, FlattenLast
  <1>9. /\ Append(P, a) \in Seq(Seq(Triples))
        /\ FlattenSeq(Append(P, a)) = Cat(f, a)
    BY <1>7, FlattenLast
  <1>10. FlattenSeq(m) = Cat(Cat(f, a), b)
    <2>1. FlattenSeq(Append(Append(P, a), b)) = Cat(FlattenSeq(Append(P, a)), b)
      BY <1>7, <1>9, FlattenLast
    <2> QED BY <1>2, <1>3, <1>9, <2>1
  <1> HIDE DEF f
  <1>11. /\ Joins(Cat(f, c), f, c) /\ Joins(Cat(f, a), f, a) /\ Cat(f, a) \in Seq(Triples)
    BY <1>7, JoinsCat
  <1> DEFINE fa == Cat(f, a)
             fc == Cat(f, c)
             fab == Cat(fa, b)
  <1>12. Joins(fab, fa, b)
    <2>1. fa \in Seq(Triples)
      BY <1>11
    <2> HIDE DEF fa
    <2> QED BY <1>7, <2>1, JoinsCat
  <1>13. /\ FlattenSeq(MergeLast(m)) = fc /\ FlattenSeq(m) = fab
         /\ Joins(fc, f, c) /\ Joins(fa, f, a)
    BY <1>6, <1>8, <1>10, <1>11
  <1> HIDE DEF fa, fc, fab
  <1>14. Len(fc) = Len(fab)
    <2>1. Len(f) \in Nat /\ Len(a) \in Nat /\ Len(b) \in Nat
      <3>1. Len(f) \in Nat
        BY <1>7
      <3>2. Len(a) \in Nat
        BY <1>7
      <3>3. Len(b) \in Nat
        BY <1>7
      <3> QED BY <3>1, <3>2, <3>3
    <2>2. Len(fc) = Len(f) + Len(c) /\ Len(c) = Len(b) + Len(a)
          /\ Len(fab) = Len(fa) + Len(b) /\ Len(fa) = Len(f) + Len(a)
      BY <1>4, <1>12, <1>13 DEF Joins
    <2> DEFINE p == Len(f)
               q == Len(a)
               r == Len(b)
    <2> HIDE DEF p, q, r
    <2>3. Len(fc) = p + (r + q) /\ Len(fab) = (p + q) + r
      BY <2>2 DEF p, q, r
    <2>4. p \in Nat /\ q \in Nat /\ r \in Nat
      BY <2>1 DEF p, q, r
    <2>5. p + (r + q) = (p + q) + r
      BY <2>4
    <2> QED BY <2>3, <2>5
  <1>15. ASSUME NEW e PROVE Occurrences(fc, e) = Occurrences(fab, e)
    <2> DEFINE p == Occurrences(f, e)
               q == Occurrences(a, e)
               r == Occurrences(b, e)
    <2>1. p \in Nat /\ q \in Nat /\ r \in Nat
      BY <1>7, OccurrencesType
    <2>2. Occurrences(fc, e) = p + (r + q) /\ Occurrences(fab, e) = (p + q) + r
      BY <1>4, <1>12, <1>13 DEF Joins
    <2> HIDE DEF p, q, r
    <2>3. p + (r + q) = (p + q) + r
      BY <2>1
    <2> QED BY <2>2, <2>3
  <1> QED BY <1>6, <1>13, <1>14, <1>15 DEF Holds

\* Merge loses nothing and makes nothing up.
LEMMA MergedSet ==
  ASSUME NEW s \in Seq(Runs)
  PROVE  /\ Merge(s) \in Seq(Runs)
         /\ s # <<>> => Merge(s) # <<>>
         /\ Holds(FlattenSeq(Merge(s)), FlattenSeq(s))
  <1> DEFINE n == Len(s)
             V == {m \in Seq(Runs) : /\ Holds(FlattenSeq(m), FlattenSeq(s))
                                     /\ s # <<>> => m # <<>>}
             More(m) == IF TooLong(m) THEN MergeLast(m) ELSE m
             G == [p \in (1 .. n) \X V |-> More(p[2])]
             Is(f) == f = [T \in SUBSET DOMAIN s |->
                             IF T = {} THEN s ELSE More(f[T \ {Max(T)}])]
             F == CHOOSE f : Is(f)
  <1>1. n \in Nat /\ DOMAIN s = 1 .. n
    OBVIOUS
  <1>2. Merge(s) = F[1 .. n]
    BY <1>1 DEF Merge, FoldLeft, MapThenFoldSet
  <1>3. ASSUME NEW m \in V PROVE More(m) \in V
    <2>1. CASE TooLong(m)
      <3>1. m \in Seq(Runs) /\ Len(m) > 1 /\ Holds(FlattenSeq(m), FlattenSeq(s))
        BY <2>1 DEF TooLong
      <3>2. /\ MergeLast(m) \in Seq(Runs) /\ MergeLast(m) # <<>>
            /\ Holds(FlattenSeq(MergeLast(m)), FlattenSeq(m))
        BY <3>1, MergedLast
      <3>3. Holds(FlattenSeq(MergeLast(m)), FlattenSeq(s))
        BY <3>1, <3>2 DEF Holds
      <3> QED BY <2>1, <3>2, <3>3
    <2> QED BY <2>1
  <1>4. s \in V
    BY DEF Holds
  <1> HIDE DEF n, V, More
  <1>5. /\ G \in [(1 .. n) \X V -> V]
        /\ \A i \in 1 .. n, x \in V : G[<<i, x>>] = More(x)
    BY <1>1, <1>3
  <1> HIDE DEF G
  <1>6. PICK f \in [SUBSET (1 .. n) -> V] : SetBySet(f, n, s, G)
    BY <1>1, <1>4, <1>5, SetRecursion
  <1>7. ASSUME NEW T \in SUBSET (1 .. n)
        PROVE  f[T] = IF T = {} THEN s ELSE More(f[T \ {Max(T)}])
    <2>1. CASE T = {}
      BY <1>6, <2>1 DEF SetBySet
    <2>2. CASE T # {}
      <3>1. Max(T) \in 1 .. n
        BY <1>1, <2>2, Largest
      <3>2. f[T \ {Max(T)}] \in V
        OBVIOUS
      <3>3. f[T] = G[<<Max(T), f[T \ {Max(T)}]>>]
        BY <1>6, <2>2 DEF SetBySet
      <3> QED BY <1>5, <2>2, <3>1, <3>2, <3>3
    <2> QED BY <2>1, <2>2
  <1>8. Is(F)
    <2>1. Is(f)
      BY <1>1, <1>7
    <2> HIDE DEF Is
    <2> QED BY <2>1
  <1> HIDE DEF F
  <1>9. \A T \in SUBSET (1 .. n) : F[T] = IF T = {} THEN s ELSE More(F[T \ {Max(T)}])
    BY <1>1, <1>8
  <1>10. Follows(F, n, s, G, V)
    <2>1. F[{}] = s
      BY <1>9
    <2>2. ASSUME NEW T \in SUBSET (1 .. n), T # {}, F[T \ {Max(T)}] \in V
          PROVE  F[T] = G[<<Max(T), F[T \ {Max(T)}]>>]
      <3>1. Max(T) \in 1 .. n
        BY <1>1, <2>2, Largest
      <3> QED BY <1>5, <1>9, <2>2, <3>1
    <2> QED BY <2>1, <2>2 DEF Follows
  <1>11. PICK h \in [0 .. n -> V] : InTurn(h, F, n, s, G)
    BY <1>1, <1>4, <1>5, <1>10, PlacesInTurn
  <1>12. F[1 .. n] \in V
    <2>1. n \in 0 .. n
      BY <1>1
    <2> QED BY <1>11, <2>1 DEF InTurn
  <1> QED BY <1>2, <1>12 DEF V

\* MergeAll makes one run of a set.
LEMMA MergedAll ==
  ASSUME NEW m \in Seq(Runs), m # <<>>
  PROVE  MergeAll(m) \in Runs /\ Holds(MergeAll(m), FlattenSeq(m))
  <1> DEFINE j == Len(m)
             n == j - 1
             s == Reverse(Front(m))
             base == Last(m)
             V == Runs
             G == [p \in (1 .. n) \X V |-> MergePair(p[2], s[p[1]])]
             Is(f) == f = [T \in SUBSET DOMAIN s |->
                             IF T = {} THEN base ELSE MergePair(f[T \ {Max(T)}], s[Max(T)])]
             F == CHOOSE f : Is(f)
  <1>1. /\ j \in Nat /\ n \in Nat /\ n + 1 = j /\ j \in 1 .. j
        /\ \A i \in 1 .. j : m[i] \in Runs
    <2>1. j \in Nat /\ j # 0 /\ \A i \in 1 .. j : m[i] \in Runs
      OBVIOUS
    <2> HIDE DEF j
    <2> QED BY <2>1
  <1>2. base = m[j] /\ base \in Runs
    <2>1. base = m[j]
      BY DEF Last
    <2> QED BY <1>1, <2>1
  <1>3. DOMAIN s = 1 .. n /\ \A i \in 1 .. n : s[i] = m[j - i] /\ s[i] \in Runs
    <2> DEFINE f == Front(m)
    <2>1. f = SubSeq(m, 1, n)
      BY DEF Front
    <2>2. \A i \in 1 .. n : m[i] \in Runs
      BY <1>1
    <2>3. /\ f \in Seq(Runs) /\ Len(f) = n /\ \A i \in 1 .. n : f[i] = m[i]
      <3> HIDE DEF f, n, j
      <3>1. /\ SubSeq(m, 1, n) \in Seq(Runs)
            /\ Len(SubSeq(m, 1, n)) = IF 1 <= n THEN n - 1 + 1 ELSE 0
            /\ \A i \in 1 .. n - 1 + 1 : SubSeq(m, 1, n)[i] = m[1 + i - 1]
        BY <1>1, <2>2, SubSeqProperties
      <3>2. \A i \in 1 .. n : i \in 1 .. n - 1 + 1 /\ 1 + i - 1 = i
        BY <1>1
      <3>3. (IF 1 <= n THEN n - 1 + 1 ELSE 0) = n
        BY <1>1
      <3> QED BY <2>1, <3>1, <3>2, <3>3
    <2> HIDE DEF f
    <2>4. s = [i \in 1 .. Len(f) |-> f[(Len(f) - i) + 1]]
      BY DEF Reverse, f
    <2> HIDE DEF n, j, s
    <2>5. ASSUME NEW i \in 1 .. n PROVE s[i] = m[j - i] /\ s[i] \in Runs
      <3>1. (n - i) + 1 \in 1 .. n /\ (n - i) + 1 = j - i /\ j - i \in 1 .. j
        BY <1>1
      <3>2. s[i] = f[(n - i) + 1]
        BY <2>3, <2>4
      <3> QED BY <1>1, <2>3, <3>1, <3>2
    <2> QED BY <2>3, <2>4, <2>5
  <1>4. MergeAll(m) = F[1 .. n]
    BY <1>3 DEF MergeAll, FoldLeft, MapThenFoldSet
  <1> HIDE DEF n, j, s, base, V
  <1>5. base \in V /\ \A i \in 1 .. n, x \in V : MergePair(x, s[i]) \in V
    BY <1>2, <1>3, MergedPair DEF V
  <1>6. /\ G \in [(1 .. n) \X V -> V]
        /\ \A i \in 1 .. n, x \in V : G[<<i, x>>] = MergePair(x, s[i])
    BY <1>5
  <1> HIDE DEF G
  <1>7. PICK f \in [SUBSET (1 .. n) -> V] : SetBySet(f, n, base, G)
    BY <1>1, <1>5, <1>6, SetRecursion
  <1>8. ASSUME NEW T \in SUBSET (1 .. n)
        PROVE  f[T] = IF T = {} THEN base ELSE MergePair(f[T \ {Max(T)}], s[Max(T)])
    <2>1. CASE T = {}
      BY <1>7, <2>1 DEF SetBySet
    <2>2. CASE T # {}
      <3>1. Max(T) \in 1 .. n
        BY <1>1, <2>2, Largest
      <3>2. f[T \ {Max(T)}] \in V
        OBVIOUS
      <3>3. f[T] = G[<<Max(T), f[T \ {Max(T)}]>>]
        BY <1>7, <2>2 DEF SetBySet
      <3> QED BY <1>6, <2>2, <3>1, <3>2, <3>3
    <2> QED BY <2>1, <2>2
  <1>9. Is(F)
    <2>1. Is(f)
      BY <1>3, <1>8
    <2> HIDE DEF Is
    <2> QED BY <2>1
  <1> HIDE DEF F
  <1>10. \A T \in SUBSET (1 .. n) :
           F[T] = IF T = {} THEN base ELSE MergePair(F[T \ {Max(T)}], s[Max(T)])
    BY <1>3, <1>9
  <1>11. Follows(F, n, base, G, V)
    <2>1. F[{}] = base
      BY <1>10
    <2>2. ASSUME NEW T \in SUBSET (1 .. n), T # {}, F[T \ {Max(T)}] \in V
          PROVE  F[T] = G[<<Max(T), F[T \ {Max(T)}]>>]
      <3>1. Max(T) \in 1 .. n
        BY <1>1, <2>2, Largest
      <3> QED BY <1>6, <1>10, <2>2, <3>1
    <2> QED BY <2>1, <2>2 DEF Follows
  <1>12. PICK h \in [0 .. n -> V] : InTurn(h, F, n, base, G)
    BY <1>1, <1>5, <1>6, <1>11, PlacesInTurn
  <1>13. /\ h[0] = base /\ h[n] = F[1 .. n]
         /\ \A k \in 1 .. n : h[k] = MergePair(h[k - 1], s[k])
    <2> SUFFICES ASSUME NEW k \in 1 .. n PROVE h[k] = MergePair(h[k - 1], s[k])
      BY <1>12 DEF InTurn
    <2>1. k - 1 \in 0 .. n
      BY <1>1
    <2>2. h[k] = G[<<k, h[k - 1]>>]
      BY <1>12 DEF InTurn
    <2> QED BY <1>6, <2>1, <2>2
  <1> DEFINE P(k) == FlattenSeq(SubSeq(m, 1, n - k))
             all == FlattenSeq(m)
             Good(k) == Joins(all, P(k), h[k])
             T == {k \in Nat : k <= n => Good(k)}
  <1>14. \A k \in 0 .. n : /\ h[k] \in Runs /\ h[k] \in Seq(Triples)
                           /\ SubSeq(m, 1, n - k) \in Seq(Runs)
                           /\ P(k) \in Seq(Triples)
    <2> SUFFICES ASSUME NEW k \in 0 .. n
                 PROVE  /\ h[k] \in Runs /\ h[k] \in Seq(Triples)
                        /\ SubSeq(m, 1, n - k) \in Seq(Runs)
                        /\ P(k) \in Seq(Triples)
      OBVIOUS
    <2>1. h[k] \in Runs
      BY DEF V
    <2>2. h[k] \in Seq(Triples)
      BY <2>1 DEF Runs
    <2>3. n - k \in Nat /\ (n - k) + 1 <= Len(m)
      BY <1>1 DEF j
    <2>4. SubSeq(m, 1, n - k) \in Seq(Runs)
      BY <2>3, PrefixStep
    <2>5. P(k) \in Seq(Triples)
      BY <2>4, RunSet
    <2> QED BY <2>1, <2>2, <2>4, <2>5
  <1>15. 0 \in T
    <2>1. n - 0 = n /\ n + 1 <= j
      BY <1>1
    <2>2. /\ SubSeq(m, 1, n) \in Seq(Runs)
          /\ SubSeq(m, 1, n + 1) = Append(SubSeq(m, 1, n), m[n + 1])
      BY <1>1, <2>1, PrefixStep DEF j
    <2>3. m = Append(SubSeq(m, 1, n), base)
      <3>1. SubSeq(m, 1, j) = m
        BY DEF j
      <3> QED BY <1>1, <1>2, <2>2, <3>1
    <2>4. SubSeq(m, 1, n) \in Seq(Seq(Triples)) /\ base \in Seq(Triples)
      BY <1>2, <2>2, RunSet DEF Runs
    <2>5. all = Cat(FlattenSeq(SubSeq(m, 1, n)), base)
      BY <2>3, <2>4, FlattenLast
    <2>6. Joins(all, FlattenSeq(SubSeq(m, 1, n)), base)
      <3>1. FlattenSeq(SubSeq(m, 1, n)) \in Seq(Triples)
        BY <2>4, FlattenType
      <3> QED BY <2>4, <2>5, <3>1, JoinsCat
    <2>7. Good(0)
      BY <1>13, <2>1, <2>6
    <2> HIDE DEF Good
    <2> QED BY <2>7
  <1>16. ASSUME NEW k \in Nat, k \in T PROVE k + 1 \in T
    <2> SUFFICES ASSUME k + 1 <= n PROVE Good(k + 1)
      <3> HIDE DEF Good
      <3>1. k + 1 \in Nat
        OBVIOUS
      <3> QED BY <3>1
    <2>1. /\ k + 1 \in 1 .. n /\ (k + 1) - 1 = k /\ k \in 0 .. n /\ k + 1 \in 0 .. n
          /\ n - (k + 1) \in Nat /\ (n - (k + 1)) + 1 = n - k
          /\ (n - (k + 1)) + 1 <= j /\ n - k = j - (k + 1)
      BY <1>1
    <2>2. Good(k)
      <3> HIDE DEF Good
      <3> QED BY <1>1, <1>16, <2>1
    <2> DEFINE q == SubSeq(m, 1, n - (k + 1))
               x == s[k + 1]
               now == h[k + 1]
               was == h[k]
    <2>3. SubSeq(m, 1, n - k) = Append(q, x) /\ q \in Seq(Runs) /\ x \in Runs
      <3>1. /\ q \in Seq(Runs)
            /\ SubSeq(m, 1, (n - (k + 1)) + 1) = Append(q, m[(n - (k + 1)) + 1])
        BY <2>1, PrefixStep DEF j
      <3>2. x = m[j - (k + 1)] /\ x \in Runs
        BY <1>3, <2>1
      <3> HIDE DEF q, x
      <3> QED BY <2>1, <3>1, <3>2
    <2>4. now = MergePair(was, x)
      <3>1. h[k + 1] = MergePair(h[(k + 1) - 1], s[k + 1])
        BY <1>13, <2>1
      <3> QED BY <2>1, <3>1
    <2>5. was \in Runs /\ now \in Runs /\ was \in Seq(Triples) /\ now \in Seq(Triples)
      BY <1>14, <2>1
    <2> DEFINE u == FlattenSeq(q)
               w == FlattenSeq(Append(q, x))
    <2>6. /\ q \in Seq(Seq(Triples)) /\ u \in Seq(Triples) /\ x \in Seq(Triples)
      BY <2>3, RunSet DEF Runs
    <2>7. w = Cat(u, x)
      BY <2>6, FlattenLast
    <2>8. P(k) = w /\ P(k + 1) = u
      BY <2>3
    <2> HIDE DEF q, x, now, was, u, w
    <2>9. Joins(w, u, x) /\ Joins(now, was, x) /\ Joins(all, w, was)
      <3>1. Joins(w, u, x)
        BY <2>6, <2>7, JoinsCat
      <3>2. Joins(now, was, x)
        BY <2>3, <2>4, <2>5, MergedPair
      <3>3. Joins(all, P(k), h[k])
        BY <2>2
      <3> QED BY <2>8, <3>1, <3>2, <3>3 DEF was
    <2>10. Joins(all, u, now)
      <3>1. Len(all) = Len(u) + Len(now)
        <4>1. Len(w) = Len(u) + Len(x) /\ Len(now) = Len(was) + Len(x)
              /\ Len(all) = Len(w) + Len(was)
          BY <2>9 DEF Joins
        <4> DEFINE a == Len(u)
                   b == Len(x)
                   c == Len(was)
        <4>2. a \in Nat /\ b \in Nat /\ c \in Nat
          <5>1. a \in Nat
            BY <2>6
          <5>2. b \in Nat
            BY <2>6
          <5>3. c \in Nat
            BY <2>5
          <5> QED BY <5>1, <5>2, <5>3
        <4>3. Len(all) = (a + b) + c /\ Len(now) = c + b
          BY <4>1
        <4> HIDE DEF a, b, c
        <4>4. (a + b) + c = a + (c + b)
          BY <4>2
        <4> QED BY <4>3, <4>4 DEF a
      <3>2. ASSUME NEW e PROVE Occurrences(all, e) = Occurrences(u, e) + Occurrences(now, e)
        <4> DEFINE a == Occurrences(u, e)
                   b == Occurrences(x, e)
                   c == Occurrences(was, e)
        <4>1. a \in Nat /\ b \in Nat /\ c \in Nat
          BY <2>5, <2>6, OccurrencesType
        <4>2. Occurrences(all, e) = (a + b) + c /\ Occurrences(now, e) = c + b
          BY <2>9 DEF Joins
        <4> HIDE DEF a, b, c
        <4>3. (a + b) + c = a + (c + b)
          BY <4>1
        <4> QED BY <4>2, <4>3 DEF a
      <3> QED BY <3>1, <3>2 DEF Joins
    <2> QED BY <2>8, <2>10 DEF now
  <1>17. Good(n)
    <2> HIDE DEF Good
    <2>1. n \in T
      <3> HIDE DEF T
      <3> QED BY <1>1, <1>15, <1>16, SetInduction
    <2>2. n <= n
      BY <1>1
    <2> QED BY <2>1, <2>2
  <1> DEFINE c == MergeAll(m)
  <1>18. c = h[n] /\ n \in 0 .. n /\ n - n = 0
    BY <1>1, <1>4, <1>13
  <1>19. c \in Runs /\ c \in Seq(Triples)
    BY <1>14, <1>18
  <1>20. P(n) = <<>>
    <2>1. SubSeq(m, 1, 0) = <<>>
      BY SubSeqEmpty
    <2> QED BY <1>18, <2>1, FlattenNone
  <1>21. Joins(all, <<>>, c)
    <2>1. Joins(all, P(n), h[n])
      BY <1>17
    <2> HIDE DEF P, c
    <2> QED BY <1>18, <1>20, <2>1
  <1> HIDE DEF c, all
  <1>22. Holds(c, all)
    <2>1. Len(<<>>) = 0 /\ Len(c) \in Nat
      BY <1>19
    <2>2. \A e : Occurrences(<<>>, e) = 0 /\ Occurrences(c, e) \in Nat
      <3>1. \A e : {i \in DOMAIN <<>> : <<>>[i] = e} = {}
        OBVIOUS
      <3>2. \A e : Occurrences(<<>>, e) = 0
        BY <3>1, FS_EmptySet DEF Occurrences
      <3>3. \A e : Occurrences(c, e) \in Nat
        BY <1>19, OccurrencesType
      <3> QED BY <3>2, <3>3
    <2>3. Len(all) = Len(c)
      <3>1. Len(all) = Len(<<>>) + Len(c)
        BY <1>21 DEF Joins
      <3> QED BY <2>1, <3>1
    <2>4. ASSUME NEW e PROVE Occurrences(all, e) = Occurrences(c, e)
      <3>1. Occurrences(all, e) = Occurrences(<<>>, e) + Occurrences(c, e)
        BY <1>21 DEF Joins
      <3> QED BY <2>2, <3>1
    <2> QED BY <2>3, <2>4 DEF Holds
  <1> QED BY <1>19, <1>22 DEF c, all

-----------------------------------------------------------------------------
(* LDA: the documents of a minibatch                                       *)

\* The features of a document, or of a namespace of it.
Marked(document, r) == [j \in DOMAIN r |-> Triple(document, r[j])]
MarkedRuns(document, ns) == [i \in DOMAIN ns |-> Marked(document, ns[i])]

LEMMA MarkedIs ==
  ASSUME NEW d \in Int, NEW r \in Seq(Nat)
  PROVE  /\ Marked(d, r) \in Seq(Triples) /\ Len(Marked(d, r)) = Len(r)
         /\ \A i \in 1 .. Len(r) : /\ Marked(d, r)[i] = Triple(d, r[i])
                                   /\ Marked(d, r)[i].weight_index = r[i]
  <1> DEFINE n == Len(r)
  <1>1. n \in Nat /\ DOMAIN r = 1 .. n /\ \A i \in 1 .. n : r[i] \in Nat
    OBVIOUS
  <1> HIDE DEF n
  <1>2. \A x \in Nat : Triple(d, x) \in Triples /\ Triple(d, x).weight_index = x
    BY DEF Triple, Triples
  <1>3. Marked(d, r) = [j \in 1 .. n |-> Triple(d, r[j])]
    BY <1>1 DEF Marked
  <1>4. [j \in 1 .. n |-> Triple(d, r[j])] \in [1 .. n -> Triples]
    BY <1>1, <1>2
  <1>5. Marked(d, r) \in Seq(Triples)
    BY <1>1, <1>3, <1>4
  <1>6. Len(Marked(d, r)) = n
    <2>1. DOMAIN Marked(d, r) = 1 .. n
      BY <1>3
    <2> QED BY <1>1, <1>5, <2>1
  <1> QED BY <1>1, <1>2, <1>3, <1>5, <1>6 DEF n

LEMMA MarkedCat ==
  ASSUME NEW d \in Int, NEW a \in Seq(Nat), NEW b \in Seq(Nat)
  PROVE  Marked(d, Cat(a, b)) = Cat(Marked(d, a), Marked(d, b))
  <1> DEFINE c == Cat(a, b)
             p == Marked(d, a)
             q == Marked(d, b)
             n == Len(a)
             m == Len(b)
  <1>1. /\ c \in Seq(Nat) /\ Len(c) = n + m /\ n \in Nat /\ m \in Nat
        /\ \A i \in 1 .. n + m : c[i] = IF i <= n THEN a[i] ELSE b[i - n]
    <2>1. n \in Nat /\ m \in Nat
      OBVIOUS
    <2> QED BY <2>1, CatProperties
  <1>2. /\ p \in Seq(Triples) /\ Len(p) = n /\ \A i \in 1 .. n : p[i] = Triple(d, a[i])
        /\ q \in Seq(Triples) /\ Len(q) = m /\ \A i \in 1 .. m : q[i] = Triple(d, b[i])
    BY MarkedIs
  <1> HIDE DEF c, n, m, p, q
  <1>3. /\ Marked(d, c) \in Seq(Triples) /\ Len(Marked(d, c)) = n + m
        /\ \A i \in 1 .. n + m : Marked(d, c)[i] = Triple(d, c[i])
    BY <1>1, MarkedIs
  <1>4. /\ Cat(p, q) \in Seq(Triples) /\ Len(Cat(p, q)) = n + m
        /\ \A i \in 1 .. n + m : Cat(p, q)[i] = IF i <= n THEN p[i] ELSE q[i - n]
    <2>1. /\ Cat(p, q) \in Seq(Triples) /\ Len(Cat(p, q)) = Len(p) + Len(q)
          /\ \A i \in 1 .. Len(p) + Len(q) :
               Cat(p, q)[i] = IF i <= Len(p) THEN p[i] ELSE q[i - Len(p)]
      BY <1>2, CatProperties
    <2> QED BY <1>2, <2>1
  <1>5. ASSUME NEW i \in 1 .. n + m PROVE Marked(d, c)[i] = Cat(p, q)[i]
    <2>1. Marked(d, c)[i] = Triple(d, c[i])
      BY <1>3
    <2>2. CASE i <= n
      <3>1. i \in 1 .. n
        BY <1>1, <2>2
      <3>2. c[i] = a[i] /\ p[i] = Triple(d, a[i])
        BY <1>1, <1>2, <2>2, <3>1
      <3>3. Cat(p, q)[i] = p[i]
        BY <1>4, <2>2
      <3> QED BY <2>1, <3>2, <3>3
    <2>3. CASE ~(i <= n)
      <3>1. i - n \in 1 .. m
        BY <1>1, <2>3
      <3>2. c[i] = b[i - n] /\ q[i - n] = Triple(d, b[i - n])
        BY <1>1, <1>2, <2>3, <3>1
      <3>3. Cat(p, q)[i] = q[i - n]
        BY <1>4, <2>3
      <3> QED BY <2>1, <3>2, <3>3
    <2> QED BY <2>2, <2>3
  <1>6. Marked(d, c) = Cat(p, q)
    <2> DEFINE u == Marked(d, c)
               v == Cat(p, q)
    <2>1. u \in Seq(Triples) /\ v \in Seq(Triples) /\ Len(u) = n + m /\ Len(v) = n + m
      BY <1>3, <1>4
    <2>2. \A i \in 1 .. n + m : u[i] = v[i]
      BY <1>5
    <2> HIDE DEF u, v
    <2>3. Len(u) = Len(v) /\ \A i \in 1 .. Len(u) : u[i] = v[i]
      BY <2>1, <2>2
    <2>4. u = v
      BY <2>1, <2>3, SeqEqual
    <2> QED BY <2>4 DEF u, v
  <1> QED BY <1>6 DEF c, p, q

\* It makes no difference whether they are put together before or after.
LEMMA FlattenMarked ==
  ASSUME NEW d \in Int, NEW ns \in Seq(Seq(Nat))
  PROVE  /\ MarkedRuns(d, ns) \in Seq(Seq(Triples)) /\ Len(MarkedRuns(d, ns)) = Len(ns)
         /\ \A i \in 1 .. Len(ns) : MarkedRuns(d, ns)[i] = Marked(d, ns[i])
         /\ FlattenSeq(ns) \in Seq(Nat)
         /\ FlattenSeq(MarkedRuns(d, ns)) = Marked(d, FlattenSeq(ns))
  <1> DEFINE N == MarkedRuns(d, ns)
             n == Len(ns)
             W == Seq(Nat)
             U == Seq(Triples)
  <1>1. n \in Nat /\ DOMAIN ns = 1 .. n /\ ns \in Seq(W) /\ \A i \in 1 .. n : ns[i] \in W
    <2>1. ns \in Seq(W)
      OBVIOUS
    <2> HIDE DEF W
    <2> QED BY <2>1
  <1>2. N = [i \in 1 .. n |-> Marked(d, ns[i])] /\ \A i \in 1 .. n : Marked(d, ns[i]) \in U
    <2>1. \A i \in 1 .. n : Marked(d, ns[i]) \in U
      BY <1>1, MarkedIs
    <2> QED BY <1>1, <2>1 DEF MarkedRuns
  <1> HIDE DEF n, N, W, U
  <1>3. /\ N \in Seq(U) /\ Len(N) = n /\ \A i \in 1 .. n : N[i] = Marked(d, ns[i])
    <2>1. N \in [1 .. n -> U]
      BY <1>2
    <2>2. N \in Seq(U)
      BY <1>1, <2>1
    <2>3. DOMAIN N = 1 .. n
      BY <2>1
    <2>4. Len(N) = n
      BY <1>1, <2>2, <2>3
    <2> QED BY <1>2, <2>2, <2>4
  <1> DEFINE Q(k) == FlattenSeq(SubSeq(ns, 1, k))
             R(k) == FlattenSeq(SubSeq(N, 1, k))
             T == {k \in Nat : k <= n => R(k) = Marked(d, Q(k))}
  <1>4. 0 \in T
    <2>1. SubSeq(ns, 1, 0) = <<>> /\ SubSeq(N, 1, 0) = <<>>
      BY SubSeqEmpty
    <2>2. Q(0) = <<>> /\ R(0) = <<>>
      BY <2>1, FlattenNone
    <2>3. Marked(d, <<>>) = <<>>
      <3>1. <<>> \in Seq(Nat) /\ Len(<<>>) = 0
        OBVIOUS
      <3>2. Marked(d, <<>>) \in Seq(Triples) /\ Len(Marked(d, <<>>)) = 0
        BY <3>1, MarkedIs
      <3> QED BY <3>2
    <2> HIDE DEF Q, R
    <2> QED BY <2>2, <2>3
  <1>5. ASSUME NEW k \in Nat, k \in T PROVE k + 1 \in T
    <2> SUFFICES ASSUME k + 1 <= n PROVE R(k + 1) = Marked(d, Q(k + 1))
      <3> HIDE DEF Q, R
      <3>1. k + 1 \in Nat
        OBVIOUS
      <3> QED BY <3>1
    <2>1. k + 1 \in 1 .. n /\ k <= n
      BY <1>1
    <2> DEFINE q == SubSeq(ns, 1, k)
               r == SubSeq(N, 1, k)
               x == ns[k + 1]
    <2>2. q \in Seq(W) /\ x \in W /\ SubSeq(ns, 1, k + 1) = Append(q, x)
      BY <1>1, PrefixStep DEF n
    <2>3. /\ r \in Seq(U)
          /\ SubSeq(N, 1, k + 1) = Append(r, Marked(d, x))
      <3>1. r \in Seq(U) /\ SubSeq(N, 1, k + 1) = Append(r, N[k + 1])
        BY <1>3, PrefixStep
      <3> HIDE DEF r
      <3> QED BY <1>3, <2>1, <3>1
    <2>4. FlattenSeq(r) = Marked(d, FlattenSeq(q))
      <3>1. R(k) = Marked(d, Q(k))
        <4> HIDE DEF Q, R
        <4> QED BY <1>5, <2>1
      <3> QED BY <3>1
    <2>5. Q(k + 1) = FlattenSeq(Append(q, x)) /\ R(k + 1) = FlattenSeq(Append(r, Marked(d, x)))
      BY <2>2, <2>3
    <2> HIDE DEF q, r, x, Q, R
    <2>6. FlattenSeq(Append(q, x)) = Cat(FlattenSeq(q), x) /\ FlattenSeq(q) \in Seq(Nat)
      BY <2>2, FlattenLast, FlattenType DEF W
    <2>7. Marked(d, x) \in Seq(Triples)
      BY <2>2, MarkedIs DEF W
    <2>8. FlattenSeq(Append(r, Marked(d, x))) = Cat(FlattenSeq(r), Marked(d, x))
      BY <2>3, <2>7, FlattenLast DEF U
    <2>9. Marked(d, Cat(FlattenSeq(q), x)) = Cat(Marked(d, FlattenSeq(q)), Marked(d, x))
      BY <2>2, <2>6, MarkedCat DEF W
    <2> QED BY <2>4, <2>5, <2>6, <2>8, <2>9
  <1>6. n \in T
    <2> HIDE DEF T
    <2> QED BY <1>1, <1>4, <1>5, SetInduction
  <1>7. SubSeq(ns, 1, n) = ns /\ SubSeq(N, 1, n) = N
    <2>1. SubSeq(ns, 1, Len(ns)) = ns
      BY <1>1
    <2>2. SubSeq(N, 1, Len(N)) = N
      BY <1>3
    <2> QED BY <1>3, <2>1, <2>2 DEF n
  <1>8. FlattenSeq(N) = Marked(d, FlattenSeq(ns))
    <2>1. n <= n
      BY <1>1
    <2>2. R(n) = Marked(d, Q(n))
      <3> HIDE DEF Q, R
      <3> QED BY <1>6, <2>1
    <2> QED BY <1>7, <2>2
  <1>9. FlattenSeq(ns) \in Seq(Nat)
    BY FlattenType
  <1> QED BY <1>3, <1>8, <1>9 DEF N, n, U

Sorted(r) == \A i, j \in DOMAIN r : i <= j => r[i] <= r[j]

\* A document's features join those of the set.
LEMMA MergedIn ==
  ASSUME NEW m \in Seq(Runs), NEW d \in Int, NEW ns \in Seq(Seq(Nat)),
         \A i \in DOMAIN ns : Sorted(ns[i])
  PROVE  /\ MergeIn(m, d, ns) \in Seq(Runs)
         /\ m # <<>> \/ ns # <<>> => MergeIn(m, d, ns) # <<>>
         /\ FlattenSeq(ns) \in Seq(Nat)
         /\ Holds(FlattenSeq(MergeIn(m, d, ns)), Cat(FlattenSeq(m), Marked(d, FlattenSeq(ns))))
  <1> DEFINE N == MarkedRuns(d, ns)
             n == Len(ns)
             s == Cat(m, N)
  <1>1. /\ N \in Seq(Seq(Triples)) /\ Len(N) = n /\ \A i \in 1 .. n : N[i] = Marked(d, ns[i])
        /\ FlattenSeq(ns) \in Seq(Nat) /\ FlattenSeq(N) = Marked(d, FlattenSeq(ns))
    BY FlattenMarked
  <1>2. /\ n \in Nat /\ \A i \in 1 .. n : ns[i] \in Seq(Nat) /\ Sorted(ns[i])
        /\ ns # <<>> => n # 0
    <2>1. n \in Nat /\ DOMAIN ns = 1 .. n /\ (ns # <<>> => n # 0)
          /\ \A i \in 1 .. n : ns[i] \in Seq(Nat)
      OBVIOUS
    <2> QED BY <2>1
  <1>3. ASSUME NEW i \in 1 .. n PROVE Marked(d, ns[i]) \in Runs
    <2> DEFINE r == ns[i]
               t == Marked(d, r)
    <2>1. r \in Seq(Nat) /\ Sorted(r)
      BY <1>2
    <2> HIDE DEF r
    <2>2. /\ t \in Seq(Triples) /\ Len(t) = Len(r)
          /\ \A j \in 1 .. Len(r) : t[j].weight_index = r[j]
      BY <2>1, MarkedIs
    <2>3. \A j, k \in 1 .. Len(r) : j <= k => r[j] <= r[k]
      BY <2>1 DEF Sorted
    <2> HIDE DEF t
    <2>4. t \in Runs
      BY <2>2, <2>3 DEF Runs, Ascends
    <2> QED BY <2>4 DEF r, t
  <1> HIDE DEF N, n
  <1>4. N \in Seq(Runs)
    <2> DEFINE W == Seq(Triples)
    <2>1. N \in Seq(W) /\ \A i \in 1 .. n : N[i] \in Runs
      BY <1>1, <1>3
    <2> HIDE DEF W
    <2>2. N \in [1 .. n -> Runs]
      <3>1. DOMAIN N = 1 .. n /\ N = [i \in DOMAIN N |-> N[i]]
        BY <1>1, <2>1
      <3> QED BY <2>1, <3>1
    <2> QED BY <1>2, <2>2
  <1>5. s \in Seq(Runs) /\ Len(s) = Len(m) + Len(N)
    <2> DEFINE W == Runs
    <2>1. m \in Seq(W) /\ N \in Seq(W)
      BY <1>4
    <2> HIDE DEF W
    <2>2. s \in Seq(W) /\ Len(s) = Len(m) + Len(N)
      BY <2>1, CatProperties
    <2> QED BY <2>2 DEF W
  <1>6. m # <<>> \/ ns # <<>> => s # <<>>
    <2> SUFFICES ASSUME m # <<>> \/ ns # <<>>, s = <<>> PROVE FALSE
      OBVIOUS
    <2>1. Len(m) \in Nat /\ (m # <<>> => Len(m) # 0) /\ Len(<<>>) = 0
      OBVIOUS
    <2>2. Len(m) + n = 0
      BY <1>1, <1>5, <2>1
    <2> QED BY <1>2, <2>1, <2>2
  <1>7. FlattenSeq(s) = Cat(FlattenSeq(m), FlattenSeq(N))
    BY <1>1, RunSet, FlattenCat
  <1>8. MergeIn(m, d, ns) = Merge(s)
    BY DEF MergeIn, MarkedRuns, Marked, Cat, N
  <1> HIDE DEF s
  <1>9. /\ Merge(s) \in Seq(Runs)
        /\ s # <<>> => Merge(s) # <<>>
        /\ Holds(FlattenSeq(Merge(s)), FlattenSeq(s))
    BY <1>5, MergedSet
  <1>10. /\ MergeIn(m, d, ns) \in Seq(Runs)
         /\ m # <<>> \/ ns # <<>> => MergeIn(m, d, ns) # <<>>
    BY <1>6, <1>8, <1>9
  <1>11. Holds(FlattenSeq(Merge(s)), Cat(FlattenSeq(m), FlattenSeq(N)))
    BY <1>7, <1>9
  <1>12. /\ FlattenSeq(ns) \in Seq(Nat)
         /\ Holds(FlattenSeq(MergeIn(m, d, ns)), Cat(FlattenSeq(m), Marked(d, FlattenSeq(ns))))
    BY <1>1, <1>8, <1>11
  <1> QED BY <1>10, <1>12

DocumentOf(d) == FlattenSeq(Features[examples[d]])

\* What is merged into the set while the batch is filled.
LEMMA SetMerged ==
  ASSUME examples \in Seq(DOMAIN Features)
  PROVE  /\ MergeSet \in Seq(Runs)
         /\ ~NothingMerged => MergeSet # <<>>
         /\ Holds(FlattenSeq(MergeSet), Everything)
  <1> DEFINE n == Len(examples)
             s == [d \in DOMAIN examples |-> d]
             base == <<>>
             V == Seq(Runs)
             More(m, d) == MergeIn(m, d - 1, Features[examples[d]])
             G == [p \in (1 .. n) \X V |-> More(p[2], p[1])]
             Is(f) == f = [T \in SUBSET DOMAIN s |->
                             IF T = {} THEN base ELSE More(f[T \ {Max(T)}], s[Max(T)])]
             F == CHOOSE f : Is(f)
  <1>1. /\ n \in Nat /\ DOMAIN examples = 1 .. n
        /\ \A d \in 1 .. n : examples[d] \in DOMAIN Features
    <2> DEFINE W == DOMAIN Features
    <2> HIDE DEF W
    <2>1. examples \in Seq(W)
      BY DEF W
    <2>2. n \in Nat /\ DOMAIN examples = 1 .. n /\ \A d \in 1 .. n : examples[d] \in W
      BY <2>1
    <2> QED BY <2>2 DEF W
  <1>2. ASSUME NEW d \in 1 .. n
        PROVE  /\ Features[examples[d]] \in Seq(Seq(Nat)) /\ d - 1 \in Int
               /\ \A i \in DOMAIN Features[examples[d]] : Sorted(Features[examples[d]][i])
    <2>1. Features \in Seq(Seq(Seq(Nat)))
      BY FeatureAssumption
    <2> DEFINE W == Seq(Seq(Nat))
    <2>2. Features[examples[d]] \in W
      <3>1. Features \in Seq(W)
        BY <2>1
      <3> HIDE DEF W
      <3> QED BY <1>1, <3>1
    <2>3. \A i \in DOMAIN Features[examples[d]] : Sorted(Features[examples[d]][i])
      BY <1>1, FeatureAssumption, Zenon DEF Sorted
    <2>4. d - 1 \in Int
      OBVIOUS
    <2> QED BY <2>2, <2>3, <2>4
  <1>3. DOMAIN s = 1 .. n /\ \A d \in 1 .. n : s[d] = d
    BY <1>1
  <1>4. MergeSet = F[1 .. n]
    BY <1>3 DEF MergeSet, FoldLeft, MapThenFoldSet
  <1> HIDE DEF n, s, base, V
  <1>5. base \in V /\ \A d \in 1 .. n, m \in V : More(m, d) \in V
    <2>1. base \in V
      BY DEF base, V
    <2>2. ASSUME NEW d \in 1 .. n, NEW m \in V PROVE More(m, d) \in V
      BY <1>2, MergedIn DEF V
    <2> QED BY <2>1, <2>2
  <1> HIDE DEF More
  <1>6. /\ G \in [(1 .. n) \X V -> V]
        /\ \A i \in 1 .. n, x \in V : G[<<i, x>>] = More(x, i)
    BY <1>5
  <1> HIDE DEF G
  <1>7. PICK f \in [SUBSET (1 .. n) -> V] : SetBySet(f, n, base, G)
    BY <1>1, <1>5, <1>6, SetRecursion
  <1>8. ASSUME NEW T \in SUBSET (1 .. n)
        PROVE  f[T] = IF T = {} THEN base ELSE More(f[T \ {Max(T)}], s[Max(T)])
    <2>1. CASE T = {}
      BY <1>7, <2>1 DEF SetBySet
    <2>2. CASE T # {}
      <3>1. Max(T) \in 1 .. n /\ s[Max(T)] = Max(T)
        BY <1>1, <1>3, <2>2, Largest
      <3>2. f[T \ {Max(T)}] \in V
        OBVIOUS
      <3>3. f[T] = G[<<Max(T), f[T \ {Max(T)}]>>]
        BY <1>7, <2>2 DEF SetBySet
      <3> QED BY <1>6, <2>2, <3>1, <3>2, <3>3
    <2> QED BY <2>1, <2>2
  <1>9. Is(F)
    <2>1. Is(f)
      BY <1>3, <1>8
    <2> HIDE DEF Is
    <2> QED BY <2>1
  <1> HIDE DEF F
  <1>10. \A T \in SUBSET (1 .. n) :
           F[T] = IF T = {} THEN base ELSE More(F[T \ {Max(T)}], s[Max(T)])
    BY <1>3, <1>9
  <1>11. Follows(F, n, base, G, V)
    <2>1. F[{}] = base
      BY <1>10
    <2>2. ASSUME NEW T \in SUBSET (1 .. n), T # {}, F[T \ {Max(T)}] \in V
          PROVE  F[T] = G[<<Max(T), F[T \ {Max(T)}]>>]
      <3>1. Max(T) \in 1 .. n /\ s[Max(T)] = Max(T)
        BY <1>1, <1>3, <2>2, Largest
      <3> DEFINE x == F[T \ {Max(T)}]
      <3>2. F[T] = More(x, Max(T))
        BY <1>10, <2>2, <3>1
      <3>3. G[<<Max(T), x>>] = More(x, Max(T))
        BY <1>6, <2>2, <3>1
      <3> QED BY <3>2, <3>3
    <2> QED BY <2>1, <2>2 DEF Follows
  <1>12. PICK h \in [0 .. n -> V] : InTurn(h, F, n, base, G)
    BY <1>1, <1>5, <1>6, <1>11, PlacesInTurn
  <1>13. /\ h[0] = base /\ h[n] = F[1 .. n]
         /\ \A k \in 1 .. n : h[k] = More(h[k - 1], k)
    <2> SUFFICES ASSUME NEW k \in 1 .. n PROVE h[k] = More(h[k - 1], k)
      BY <1>12 DEF InTurn
    <2>1. k - 1 \in 0 .. n
      BY <1>1
    <2>2. h[k] = G[<<k, h[k - 1]>>]
      BY <1>12 DEF InTurn
    <2> QED BY <1>6, <2>1, <2>2
  <1> DEFINE E == [d \in 1 .. n |-> Marked(d - 1, DocumentOf(d))]
             W == Seq(Triples)
  <1>14. /\ E \in Seq(W) /\ Len(E) = n /\ \A d \in 1 .. n : E[d] = Marked(d - 1, DocumentOf(d))
    <2>1. \A d \in 1 .. n : Marked(d - 1, DocumentOf(d)) \in W
      BY <1>2, FlattenType, MarkedIs DEF DocumentOf
    <2> HIDE DEF W
    <2>2. E \in [1 .. n -> W] /\ DOMAIN E = 1 .. n
      BY <2>1
    <2>3. E \in Seq(W)
      BY <1>1, <2>2
    <2>4. Len(E) = n
      BY <1>1, <2>2, <2>3
    <2> QED BY <2>3, <2>4
  <1>15. Everything = FlattenSeq(E)
    BY <1>1 DEF Everything, Marked, DocumentOf
  <1> HIDE DEF E
  <1> DEFINE Q(k) == FlattenSeq(SubSeq(E, 1, k))
             Good(k) == /\ Holds(FlattenSeq(h[k]), Q(k))
                        /\ (\E d \in 1 .. k : Features[examples[d]] # <<>>) => h[k] # <<>>
             T == {k \in Nat : k <= n => Good(k)}
  <1>16. 0 \in T
    <2>1. SubSeq(E, 1, 0) = <<>>
      BY SubSeqEmpty
    <2>2. Holds(FlattenSeq(h[0]), Q(0))
      BY <1>13, <2>1 DEF base, Holds
    <2>3. 1 .. 0 = {} /\ 0 \in Nat
      OBVIOUS
    <2> HIDE DEF Q
    <2> QED BY <2>2, <2>3
  <1>17. ASSUME NEW k \in Nat, k \in T PROVE k + 1 \in T
    <2> SUFFICES ASSUME k + 1 <= n PROVE Good(k + 1)
      <3> HIDE DEF Good
      <3>1. k + 1 \in Nat
        OBVIOUS
      <3> QED BY <3>1
    <2>1. k + 1 \in 1 .. n /\ (k + 1) - 1 = k /\ k \in 0 .. n /\ k <= n
      BY <1>1
    <2>2. Good(k)
      <3> HIDE DEF Good
      <3> QED BY <1>17, <2>1
    <2> DEFINE q == SubSeq(E, 1, k)
               e == E[k + 1]
               was == h[k]
               now == h[k + 1]
               ns == Features[examples[k + 1]]
    <2>3. q \in Seq(W) /\ e \in W /\ SubSeq(E, 1, k + 1) = Append(q, e)
      <3> HIDE DEF W
      <3> QED BY <1>14, PrefixStep
    <2>4. now = MergeIn(was, k, ns)
      <3>1. h[k + 1] = More(h[(k + 1) - 1], k + 1)
        BY <1>13, <2>1
      <3>2. h[k + 1] = More(h[k], k + 1)
        BY <2>1, <3>1
      <3>3. now = MergeIn(was, (k + 1) - 1, ns)
        BY <3>2 DEF More
      <3> QED BY <2>1, <3>3
    <2>5. was \in Seq(Runs) /\ now \in Seq(Runs)
      BY <2>1 DEF V
    <2>6. /\ ns \in Seq(Seq(Nat)) /\ k \in Int /\ \A i \in DOMAIN ns : Sorted(ns[i])
      BY <1>2, <2>1
    <2>7. e = Marked(k, FlattenSeq(ns))
      <3>1. e = Marked((k + 1) - 1, DocumentOf(k + 1))
        BY <1>14, <2>1
      <3> QED BY <2>1, <3>1 DEF DocumentOf
    <2>8. Q(k + 1) = FlattenSeq(Append(q, e)) /\ Q(k) = FlattenSeq(q)
      BY <2>3
    <2>9. (\E d \in 1 .. k + 1 : Features[examples[d]] # <<>>) => was # <<>> \/ ns # <<>>
      <3> SUFFICES ASSUME NEW d \in 1 .. k + 1, Features[examples[d]] # <<>>, ns = <<>>
                   PROVE  was # <<>>
        OBVIOUS
      <3>1. d # k + 1
        OBVIOUS
      <3>2. d \in 1 .. k
        BY <3>1
      <3> QED BY <2>2, <3>2
    <2>10. Holds(FlattenSeq(was), FlattenSeq(q))
      BY <2>2, <2>8
    <2> HIDE DEF q, e, was, now, ns, Q
    <2>11. /\ was # <<>> \/ ns # <<>> => now # <<>>
           /\ Holds(FlattenSeq(now), Cat(FlattenSeq(was), e))
      BY <2>4, <2>5, <2>6, <2>7, MergedIn
    <2>12. FlattenSeq(Append(q, e)) = Cat(FlattenSeq(q), e)
      BY <2>3, FlattenLast
    <2> DEFINE a == FlattenSeq(was)
               b == FlattenSeq(q)
               c == FlattenSeq(now)
    <2>13. a \in Seq(Triples) /\ b \in Seq(Triples) /\ e \in Seq(Triples)
      BY <2>3, <2>5, RunSet, FlattenType
    <2> HIDE DEF a, b, c
    <2>14. Joins(Cat(a, e), a, e) /\ Joins(Cat(b, e), b, e)
      BY <2>13, JoinsCat
    <2>15. Holds(a, b) /\ Holds(c, Cat(a, e))
      BY <2>10, <2>11 DEF a, b, c
    <2>16. Holds(c, Cat(b, e))
      BY <2>14, <2>15 DEF Holds, Joins
    <2>17. Holds(FlattenSeq(now), Q(k + 1))
      BY <2>8, <2>12, <2>16 DEF b, c
    <2> QED BY <2>9, <2>11, <2>17 DEF now
  <1>18. Good(n)
    <2> HIDE DEF Good
    <2>1. n \in T
      <3> HIDE DEF T
      <3> QED BY <1>1, <1>16, <1>17, SetInduction
    <2>2. n <= n
      BY <1>1
    <2> QED BY <2>1, <2>2
  <1>19. MergeSet = h[n] /\ h[n] \in Seq(Runs)
    <2>1. n \in 0 .. n
      BY <1>1
    <2> QED BY <1>4, <1>13, <2>1 DEF V
  <1>20. Q(n) = Everything
    <2>1. SubSeq(E, 1, Len(E)) = E
      BY <1>14
    <2> QED BY <1>14, <1>15, <2>1
  <1>21. ~NothingMerged => h[n] # <<>>
    <2> HIDE DEF Q
    <2> QED BY <1>1, <1>18 DEF NothingMerged
  <1>22. Holds(FlattenSeq(h[n]), Everything)
    <2> HIDE DEF Q
    <2> QED BY <1>18, <1>20
  <1> QED BY <1>19, <1>21, <1>22

-----------------------------------------------------------------------------
(* LDA: the invariant                                                      *)

LdaDrives == pc \in {"lda", "lda_check"}
LdaInv ==
  /\ examples \in Seq(DOMAIN Features)
  /\ LdaDrives => parsed_examples \in 0 .. Total /\ used_index \in Nat
  /\ pc = "lda_check" => ~NothingMerged

LEMMA LdaFrame ==
  ASSUME [Next]_vars, ~Start
  PROVE  /\ UNCHANGED examples \/ examples' = <<>> \/ LdaTake
         /\ LdaDrives' => /\ LdaDrives /\ UNCHANGED <<scenario, session>>
                          /\ UNCHANGED parsed_examples \/ Publish
                          /\ UNCHANGED used_index \/ LdaTake
         /\ pc' = "lda_check" => /\ UNCHANGED examples
                                 /\ pc = "lda_check" \/ ~NothingMerged
  <1> USE DEF Drives, Parser, files, driverVars, ldaVars, ParserRuns, CFree,
              CMemcpy, queueVars, LdaDrives
  <1>1. CASE UNCHANGED vars
    BY <1>1 DEF vars
  <1>2. CASE ParserStep
    BY <1>2 DEF ParserStep, Publish, SetDone, ParserExits
  <1>3. CASE Launch \/ Kill
    BY <1>3 DEF Launch, Kill, FreshMemory
  <1>4. CASE Learn \/ Learned \/ NbPredict \/ NbJoin \/ NbTrain
    BY <1>4 DEF Learn, Learned, NbPredict, NbJoin, NbTrain, Predict
  <1>5. CASE Noop \/ NoopEnds \/ Send \/ SenderEnds
    BY <1>5 DEF Noop, NoopEnds, Send, SenderEnds
  <1>6. CASE CgExample \/ CgEnds
    BY <1>6 DEF CgExample, CgEnds
  <1>7. CASE LdaTake
    BY <1>7 DEF LdaTake
  <1>8. CASE LdaCut \/ LdaProcess \/ LdaCheck
    BY <1>8 DEF LdaCut, LdaProcess, LdaCheck
  <1>9. CASE NbBackup \/ NbWrite \/ DumpHeader \/ DumpWeights \/ Rename
    BY <1>9 DEF NbBackup, NbWrite, DumpHeader, DumpWeights, Rename
  <1>10. CASE EndParser \/ FinalizeSource
    BY <1>10 DEF EndParser, FinalizeSource
  <1> QED BY <1>1, <1>2, <1>3, <1>4, <1>5, <1>6, <1>7, <1>8, <1>9, <1>10
          DEF Next, MainStep

\* An item of the input has features that are known.
LEMMA ItemTaken ==
  ASSUME SessionInv, LdaInv, LdaTake
  PROVE  examples' \in Seq(DOMAIN Features)
  <1> DEFINE n == used_index
             d == opt.items
  <1>1. pc = "lda" /\ n < parsed_examples /\ n \in Nat /\ parsed_examples \in 0 .. Total
    BY DEF LdaTake, Drives, Available, LdaInv, LdaDrives
  <1>2. d \in Nat /\ opt.passes \in Nat /\ opt.rounds \in Nat
    BY <1>1, TheCommand DEF Over
  <1>3. d \in Nat \ {0}
    BY <1>1, <1>2, TotalIsNatural
  <1>4. d <= Len(Features)
    <2>1. scenario \in Scenarios /\ scenario \in Seq(Commands)
      BY ScenarioAssumption DEF SessionInv
    <2>2. session \in DOMAIN scenario
      BY <1>1, <2>1 DEF SessionInv, Over
    <2> QED BY <2>1, <2>2, FeatureAssumption DEF opt
  <1>5. Item(n + 1) = (n % d) + 1
    <2>1. (n + 1) - 1 = n
      BY <1>1
    <2> QED BY <2>1 DEF Item
  <1>6. n % d \in 0 .. d - 1
    <2> HIDE DEF n, d
    <2> QED BY <1>1, <1>3, DivMod
  <1>7. Len(Features) \in Nat /\ DOMAIN Features = 1 .. Len(Features)
    <2> DEFINE W == Seq(Seq(Nat))
    <2>1. Features \in Seq(W)
      BY FeatureAssumption
    <2> HIDE DEF W
    <2> QED BY <2>1
  <1>8. Item(n + 1) \in DOMAIN Features
    <2> DEFINE r == n % d
               l == Len(Features)
    <2> HIDE DEF r, l, d
    <2>1. r \in 0 .. d - 1 /\ d <= l /\ l \in Nat /\ d \in Nat
      BY <1>3, <1>4, <1>6, <1>7 DEF r, l
    <2>2. r + 1 \in 1 .. l
      BY <2>1
    <2> QED BY <1>5, <1>7, <2>2 DEF r, l
  <1>9. examples' = Append(examples, Item(n + 1)) /\ examples \in Seq(DOMAIN Features)
    BY DEF LdaTake, LdaInv
  <1> DEFINE W == DOMAIN Features
             i == Item(n + 1)
  <1> HIDE DEF W, i
  <1>10. examples \in Seq(W) /\ i \in W /\ examples' = Append(examples, i)
    BY <1>8, <1>9 DEF W, i
  <1>11. examples' \in Seq(W)
    BY <1>10
  <1> QED BY <1>11 DEF W

LEMMA LdaStep ==
  ASSUME SessionInv, LdaInv, [Next]_vars
  PROVE  LdaInv'
  <1>1. CASE Start
    <2>1. examples' = <<>> /\ parsed_examples' = 0 /\ used_index' = 0
      BY <1>1 DEF Start, FreshMemory
    <2>2. opt' = opt /\ Total' = Total
      BY <1>1 DEF Start, files, opt, Total
    <2>3. Total \in Nat
      BY <1>1, TheCommand, TotalIsNatural DEF Start, Over
    <2>4. pc' # "lda_check"
      BY <1>1 DEF Start, DriverOf
    <2>5. <<>> \in Seq(DOMAIN Features)
      OBVIOUS
    <2> QED BY <2>1, <2>2, <2>3, <2>4, <2>5 DEF LdaInv
  <1>2. CASE ~Start
    <2>1. examples' \in Seq(DOMAIN Features)
      <3>1. <<>> \in Seq(DOMAIN Features)
        OBVIOUS
      <3>2. examples' = examples \/ examples' = <<>> \/ LdaTake
        BY <1>2, LdaFrame
      <3> QED BY <3>1, <3>2, ItemTaken DEF LdaInv
    <2>2. ASSUME LdaDrives'
          PROVE  parsed_examples' \in 0 .. Total' /\ used_index' \in Nat
      <3>1. /\ LdaDrives /\ UNCHANGED <<scenario, session>>
            /\ UNCHANGED parsed_examples \/ Publish
            /\ UNCHANGED used_index \/ LdaTake
        BY <1>2, <2>2, LdaFrame
      <3>2. opt' = opt /\ Total' = Total
        BY <3>1 DEF opt, Total
      <3>3. Total \in Nat
        BY <3>1, TheCommand, TotalIsNatural DEF LdaDrives, Over
      <3>4. parsed_examples \in 0 .. Total /\ used_index \in Nat
        BY <3>1 DEF LdaInv
      <3>5. parsed_examples' \in 0 .. Total
        BY <3>1, <3>3, <3>4 DEF Publish
      <3>6. used_index' \in Nat
        BY <3>1, <3>4 DEF LdaTake, Taken
      <3> QED BY <3>2, <3>5, <3>6
    <2>3. ASSUME pc' = "lda_check" PROVE ~NothingMerged'
      <3>1. UNCHANGED examples /\ (pc = "lda_check" \/ ~NothingMerged)
        BY <1>2, <2>3, LdaFrame
      <3>2. ~NothingMerged
        BY <3>1 DEF LdaInv
      <3> QED BY <3>1, <3>2 DEF NothingMerged
    <2> QED BY <2>1, <2>2, <2>3 DEF LdaInv
  <1> QED BY <1>1, <1>2

\* merge_all: "Now merge_set[0] contains everything".  Whatever the documents of
\* a minibatch and their namespaces hold, merge_pair, merge and merge_all make one
\* run of them in which each feature is as often as it was read, and no index
\* comes before a smaller one: start_lda, which compares each index with the one
\* before, meets each once.  A batch without features does not get there.
THEOREM BatchesMerged == Spec => []BatchMerged
  <1> DEFINE Inv == SessionInv /\ LdaInv
  <1>1. Init => Inv
    <2> SUFFICES ASSUME Init PROVE Inv
      OBVIOUS
    <2>1. SessionInv
      BY SessionStart
    <2>2. <<>> \in Seq(DOMAIN Features)
      OBVIOUS
    <2> QED BY <2>1, <2>2 DEF Init, LdaInv, LdaDrives
  <1>2. Inv /\ [Next]_vars => Inv'
    BY SessionStep, LdaStep
  <1>3. Inv => BatchMerged
    <2> SUFFICES ASSUME LdaInv, pc = "lda_check"
                 PROVE  LET merged == MergeAll(MergeSet)
                        IN  /\ \A i \in 1 .. Len(merged) - 1 :
                                 merged[i].weight_index <= merged[i + 1].weight_index
                            /\ Len(merged) = Len(Everything)
                            /\ \A e \in ToSet(Everything) :
                                 Occurrences(merged, e) = Occurrences(Everything, e)
      BY DEF BatchMerged
    <2> DEFINE m == MergeAll(MergeSet)
    <2>1. /\ MergeSet \in Seq(Runs) /\ MergeSet # <<>>
          /\ Holds(FlattenSeq(MergeSet), Everything)
      BY SetMerged DEF LdaInv
    <2>2. m \in Runs /\ Holds(m, FlattenSeq(MergeSet))
      BY <2>1, MergedAll
    <2>3. Holds(m, Everything)
      BY <2>1, <2>2 DEF Holds
    <2> HIDE DEF m
    <2>4. ASSUME NEW i \in 1 .. Len(m) - 1 PROVE m[i].weight_index <= m[i + 1].weight_index
      <3>1. Len(m) \in Nat
        BY <2>2 DEF Runs
      <3>2. i \in 1 .. Len(m) /\ i + 1 \in 1 .. Len(m) /\ i <= i + 1
        BY <3>1
      <3> QED BY <2>2, <3>2 DEF Runs, Ascends
    <2> QED BY <2>3, <2>4 DEF Holds, m
  <1> HIDE DEF Inv
  <1> QED BY <1>1, <1>2, <1>3, PTL DEF Spec

-----------------------------------------------------------------------------
(* Regressors: the arrays of the threads                                   *)

\* No more threads than weights, and room for the topics of an index.
SettingsFit(s) ==
  /\ s.num_bits \in Nat /\ s.thread_bits \in Nat /\ s.thread_bits <= s.num_bits
  /\ s.stride \in Nat /\ s.lda \in Nat /\ s.lda < s.stride
  /\ s.initial_weight \in Int

Size(s) == (s.stride * Length(s)) \div ThreadCount(s)
Arrays(s) == [0 .. ThreadCount(s) - 1 -> [0 .. Size(s) - 1 -> Int]]

LEMMA DivExact ==
  ASSUME NEW n \in Nat, NEW d \in Nat \ {0}
  PROVE  (n * d) \div d = n /\ (n * d) % d = 0
  <1> DEFINE m == n * d
             q == m \div d
             r == m % d
  <1>1. m \in Int
    OBVIOUS
  <1>2. r \in 0 .. d - 1 /\ q \in Int /\ m = d * q + r
    BY <1>1, DivMod
  <1>3. m = d * n + 0 /\ 0 \in 0 .. d - 1
    BY Z3
  <1> HIDE DEF m, q, r
  <1>4. d * q + r = d * n + 0 /\ n \in Int
    BY <1>2, <1>3
  <1>5. q = n /\ r = 0
    BY <1>2, <1>3, <1>4, OneQuotient
  <1> QED BY <1>5 DEF m, q, r

\* A quotient is below a limit if the number is below so many divisors.
LEMMA QuotientBelow ==
  ASSUME NEW n \in Nat, NEW d \in Nat \ {0}, NEW m \in Nat, n < m * d
  PROVE  n \div d \in 0 .. m - 1
  <1> DEFINE q == n \div d
             r == n % d
  <1>1. r \in 0 .. d - 1 /\ q \in Int /\ n = d * q + r
    BY DivMod
  <1> HIDE DEF q, r
  <1>2. q >= 0
    <2>1. CASE q <= -1
      <3>1. d * q <= -d
        BY <1>1, <2>1, Z3
      <3> QED BY <1>1, <3>1
    <2> QED BY <1>1, <2>1
  <1>3. q < m
    <2>1. CASE q >= m
      <3>1. d * q >= m * d
        BY <1>1, <2>1, Z3
      <3> QED BY <1>1, <3>1
    <2> QED BY <1>1, <2>1
  <1> QED BY <1>1, <1>2, <1>3 DEF q

LEMMA ArraySize ==
  ASSUME NEW s, SettingsFit(s)
  PROVE  /\ ThreadCount(s) \in Nat \ {0} /\ Length(s) \in Nat \ {0}
         /\ \E m \in Nat \ {0} : /\ Length(s) = m * ThreadCount(s)
                                 /\ Size(s) = s.stride * m
  <1> DEFINE t == s.thread_bits
             n == s.num_bits
             p == Pow2[t]
             q == Pow2[n - t]
             k == s.stride
  <1>1. t \in Nat /\ n \in Nat /\ t <= n /\ n - t \in Nat /\ k \in Nat
    BY DEF SettingsFit
  <1>2. p \in Nat \ {0} /\ q \in Nat \ {0} /\ Pow2[n] \in Nat \ {0}
    BY <1>1, Pow2Step
  <1>3. Pow2[n] = q * p
    BY <1>1, Pow2Grows
  <1>4. Size(s) = (k * (q * p)) \div p
    BY <1>3 DEF Size, Length, ThreadCount
  <1>5. ThreadCount(s) = p /\ Length(s) = q * p
    BY <1>3 DEF Length, ThreadCount
  <1> HIDE DEF p, q, k
  <1>6. k * (q * p) = (k * q) * p /\ k * q \in Nat
    BY <1>1, <1>2, Z3
  <1>7. Size(s) = k * q
    BY <1>2, <1>4, <1>6, DivExact
  <1> QED BY <1>2, <1>3, <1>5, <1>7 DEF k

LEMMA InitialInt ==
  ASSUME NEW s, SettingsFit(s), NEW j
  PROVE  InitialValue(s, j) \in Int
  BY DEF SettingsFit, InitialValue, One, TopicWeight, InitialT, RandomWeight, Zero

LEMMA InitialArrays ==
  ASSUME NEW s, SettingsFit(s)
  PROVE  InitializeRegressor(s) \in Arrays(s)
  BY InitialInt DEF InitializeRegressor, Arrays, Size

\* The thread of an index.
LEMMA ThreadOf ==
  ASSUME NEW s, SettingsFit(s), NEW h \in Nat
  PROVE  h % ThreadCount(s) \in 0 .. ThreadCount(s) - 1
  <1> DEFINE t == ThreadCount(s)
  <1>1. t \in Nat \ {0} /\ h \in Int
    BY ArraySize
  <1> HIDE DEF t
  <1>2. h % t \in 0 .. t - 1
    BY <1>1, DivMod
  <1> QED BY <1>2 DEF t

\* What dump_regressor reads is in the arrays.
LEMMA WeightRead ==
  ASSUME NEW s, SettingsFit(s), NEW i \in 0 .. Length(s) - 1
  PROVE  /\ i % ThreadCount(s) \in 0 .. ThreadCount(s) - 1
         /\ s.stride * (i \div ThreadCount(s)) \in 0 .. Size(s) - 1
         /\ \A k \in 0 .. s.lda - 1 :
              /\ s.stride * i + k \in Nat
              /\ (s.stride * i + k) \div ThreadCount(s) \in 0 .. Size(s) - 1
  <1> DEFINE t == ThreadCount(s)
             g == s.stride
             q == i \div t
  <1>1. PICK m \in Nat \ {0} : Length(s) = m * t /\ Size(s) = g * m
    BY ArraySize
  <1>2. t \in Nat \ {0} /\ g \in Nat \ {0} /\ i \in Nat /\ i < m * t /\ s.lda \in Nat /\ s.lda < g
    BY <1>1, ArraySize DEF SettingsFit
  <1>3. i % t \in 0 .. t - 1
    BY <1>2, ThreadOf
  <1>4. q \in 0 .. m - 1
    <2> HIDE DEF t
    <2> QED BY <1>2, QuotientBelow
  <1> HIDE DEF t, g, q
  <1>5. g * q \in 0 .. (g * m) - 1
    <2>1. q \in Nat /\ m - q >= 1
      BY <1>4
    <2>2. g * q \in Nat
      BY <1>2, <2>1, Z3
    <2>3. g * (m - q) >= g
      BY <1>2, <2>1, Z3
    <2>4. g * (m - q) = g * m - g * q
      BY <1>2, <2>1, Z3
    <2>5. g * m \in Nat
      BY <1>2, Z3
    <2> QED BY <1>2, <2>2, <2>3, <2>4, <2>5
  <1>6. ASSUME NEW k \in 0 .. s.lda - 1
        PROVE  g * i + k \in Nat /\ (g * i + k) \div t \in 0 .. (g * m) - 1
    <2>1. k \in Nat /\ k < g
      BY <1>2
    <2>2. g * i \in Nat
      BY <1>2, Z3
    <2>3. m * t - i >= 1 /\ m * t \in Nat
      BY <1>2, Z3
    <2>4. g * (m * t - i) >= g
      BY <1>2, <2>3, Z3
    <2>5. g * (m * t - i) = (g * m) * t - g * i /\ g * m \in Nat
      BY <1>2, Z3
    <2>6. (g * m) * t \in Nat
      BY <1>2, <2>5, Z3
    <2>7. g * i + k < (g * m) * t /\ g * i + k \in Nat
      BY <1>2, <2>1, <2>2, <2>4, <2>5, <2>6
    <2> QED BY <1>2, <2>5, <2>7, QuotientBelow
  <1> QED BY <1>1, <1>3, <1>5, <1>6 DEF t, g, q

\* The entries of h have their place in the arrays to themselves.
OwnPlace(s, h) ==
  /\ h \in Nat /\ Place(s, h) \in 0 .. Size(s) - 1
  /\ \A i \in Nat : i % ThreadCount(s) = h % ThreadCount(s) /\ Place(s, i) = Place(s, h)
                      => i = h

\* Quotient and remainder make the number.
LEMMA SameParts ==
  ASSUME NEW d \in Nat \ {0}, NEW i \in Nat, NEW j \in Nat,
         i \div d = j \div d, i % d = j % d
  PROVE  i = j
  <1> DEFINE q == i \div d
             p == j \div d
  <1>1. i = d * q + (i % d) /\ j = d * p + (j % d)
    BY DivMod
  <1>2. q = p
    OBVIOUS
  <1> HIDE DEF q, p
  <1> QED BY <1>1, <1>2

\* With one thread, or a stride of one, a weight goes to where it was read from.
LEMMA PlacedBack ==
  ASSUME NEW s, SettingsFit(s), s.thread_bits = 0 \/ s.stride = 1,
         s.lda = 0, NEW i \in 0 .. Length(s) - 1
  PROVE  Place(s, i) = s.stride * (i \div ThreadCount(s)) /\ OwnPlace(s, i)
  <1> DEFINE t == ThreadCount(s)
             g == s.stride
  <1>1. t \in Nat \ {0} /\ g \in Nat \ {0} /\ i \in Nat /\ (t = 1 \/ g = 1)
    BY ArraySize, Pow2Step DEF SettingsFit, ThreadCount
  <1>2. \A n \in Nat : Place(s, n) = (n * g) \div t
    BY DEF Place
  <1>3. g * (i \div t) \in 0 .. Size(s) - 1
    BY WeightRead
  <1> HIDE DEF t, g
  <1>4. ASSUME NEW n \in Nat PROVE (n * g) \div t = g * (n \div t)
    <2>1. CASE g = 1
      <3>1. n \div t \in Int
        BY <1>1, DivMod
      <3> QED BY <2>1, <3>1
    <2>2. CASE t = 1
      <3>1. n * g \in Nat
        BY <1>1, Z3
      <3>2. (n * g) * 1 = n * g /\ n * 1 = n /\ 1 \in Nat \ {0} /\ n * g = g * n
        BY <1>1, <3>1, Z3
      <3>3. ((n * g) * 1) \div 1 = n * g /\ (n * 1) \div 1 = n
        BY <3>1, <3>2, DivExact
      <3> QED BY <2>2, <3>2, <3>3
    <2> QED BY <1>1, <2>1, <2>2
  <1>5. Place(s, i) = g * (i \div t)
    BY <1>1, <1>2, <1>4
  <1>6. ASSUME NEW n \in Nat, n % t = i % t, Place(s, n) = Place(s, i)
        PROVE  n = i
    <2>1. g * (n \div t) = g * (i \div t)
      BY <1>1, <1>2, <1>4, <1>6
    <2> DEFINE q == n \div t
               p == i \div t
    <2>2. q \in Int /\ p \in Int
      BY <1>1, DivMod
    <2>3. q = p
      <3> HIDE DEF q, p
      <3>1. g * q + 0 = g * p + 0 /\ 0 \in 0 .. g - 1
        BY <1>1, <2>1 DEF q, p
      <3> QED BY <1>1, <2>2, <3>1, OneQuotient
    <2> QED BY <1>1, <1>6, <2>3, SameParts
  <1> QED BY <1>1, <1>3, <1>5, <1>6 DEF OwnPlace, t, g

LEMMA TopicPlacedBack ==
  ASSUME NEW s, SettingsFit(s), s.thread_bits = 0 \/ s.stride = 1,
         NEW i \in 0 .. Length(s) - 1, NEW k \in 0 .. s.lda - 1,
         NEW h, h = s.stride * i + k
  PROVE  /\ OwnPlace(s, h)
         /\ h % ThreadCount(s) = i % ThreadCount(s) /\ Place(s, h) = h \div ThreadCount(s)
         /\ h \div ThreadCount(s) = h
  <1> DEFINE t == ThreadCount(s)
  <1>1. s.lda > 0 /\ s.stride # 1 /\ t = 1
    BY Pow2Step DEF SettingsFit, ThreadCount
  <1>2. h \in Nat /\ h \div t \in 0 .. Size(s) - 1 /\ \A n \in Nat : Place(s, n) = n \div t
    BY <1>1, WeightRead DEF Place
  <1>3. i \in Nat
    BY ArraySize
  <1> HIDE DEF t
  <1>4. \A n \in Nat : n \div t = n /\ n % t = 0
    <2> SUFFICES ASSUME NEW n \in Nat PROVE n \div t = n /\ n % t = 0
      OBVIOUS
    <2>1. n * 1 = n /\ 1 \in Nat \ {0}
      OBVIOUS
    <2>2. (n * 1) \div 1 = n /\ (n * 1) % 1 = 0
      BY <2>1, DivExact
    <2> QED BY <1>1, <2>1, <2>2
  <1> QED BY <1>1, <1>2, <1>3, <1>4 DEF OwnPlace, t

-----------------------------------------------------------------------------
(* Regressors: the entries of a file                                       *)

Pairs == Nat \X Int
Rises(es) == \A i, j \in 1 .. Len(es) : i < j => es[i][1] < es[j][1]
Within(es, from, limit) == \A i \in 1 .. Len(es) : es[i][1] >= from /\ es[i][1] < limit
\* No index has two entries.
Distinct(es) == \A i, j \in 1 .. Len(es) : es[i][1] = es[j][1] => i = j

\* How far apart the entries of two indices are.
Step(s) == IF s.lda > 0 THEN s.stride ELSE 1

LEMMA IndexEntries ==
  ASSUME NEW s, SettingsFit(s), NEW w \in Arrays(s), NEW i \in 0 .. Length(s) - 1
  PROVE  /\ EntriesOf(s, w, i) \in Seq(Pairs)
         /\ Rises(EntriesOf(s, w, i))
         /\ Within(EntriesOf(s, w, i), Step(s) * i, Step(s) * i + Step(s))
  <1> DEFINE es == EntriesOf(s, w, i)
             t == ThreadCount(s)
  <1>1. /\ i \in Nat /\ s.lda \in Nat /\ s.stride \in Nat /\ s.lda < s.stride
        /\ w \in [0 .. t - 1 -> [0 .. Size(s) - 1 -> Int]]
    BY ArraySize DEF SettingsFit, Arrays
  <1>2. i % t \in 0 .. t - 1
    BY WeightRead
  <1>3. WeightOf(s, w, i) \in Int
    <2>1. s.stride * (i \div t) \in 0 .. Size(s) - 1
      BY WeightRead
    <2> HIDE DEF t
    <2>2. w[i % t][s.stride * (i \div t)] \in Int
      BY <1>1, <1>2, <2>1
    <2> QED BY <2>2 DEF WeightOf, t
  <1>4. ASSUME NEW k \in 0 .. s.lda - 1
        PROVE  TopicOf(s, w, i, k) \in Int /\ s.stride * i + k \in Nat
    <2>1. s.stride * i + k \in Nat /\ (s.stride * i + k) \div t \in 0 .. Size(s) - 1
      BY WeightRead
    <2> HIDE DEF t
    <2>2. w[i % t][(s.stride * i + k) \div t] \in Int
      BY <1>1, <1>2, <2>1
    <2> QED BY <2>1, <2>2 DEF TopicOf, t
  <1> HIDE DEF t
  <1>5. CASE s.lda > 0
    <2> DEFINE g == s.stride * i
               f == [k \in 1 .. s.lda |-> <<g + (k - 1), TopicOf(s, w, i, k - 1)>>]
    <2>1. es = f /\ Step(s) = s.stride
      BY <1>5 DEF EntriesOf, Step
    <2>2. g \in Nat
      BY <1>1, Z3
    <2>3. ASSUME NEW k \in 1 .. s.lda
          PROVE  /\ <<g + (k - 1), TopicOf(s, w, i, k - 1)>> \in Pairs
                 /\ g + (k - 1) >= g /\ g + (k - 1) < g + s.stride
      <3>1. k - 1 \in 0 .. s.lda - 1
        BY <1>1
      <3>2. TopicOf(s, w, i, k - 1) \in Int
        BY <1>4, <3>1
      <3> QED BY <1>1, <2>2, <3>1, <3>2 DEF Pairs
    <2> HIDE DEF g
    <2>4. f \in Seq(Pairs) /\ Len(f) = s.lda /\ \A k \in 1 .. s.lda : f[k][1] = g + (k - 1)
      BY <1>1, <2>3
    <2> HIDE DEF f, es
    <2>5. Rises(f)
      BY <1>1, <2>2, <2>4 DEF Rises
    <2>6. Within(f, g, g + s.stride)
      BY <1>1, <2>3, <2>4 DEF Within
    <2> QED BY <2>1, <2>4, <2>5, <2>6 DEF g, es
  <1>6. CASE ~(s.lda > 0)
    <2>1. Step(s) = 1 /\ 1 * i = i
      BY <1>1, <1>6 DEF Step
    <2>2. CASE WeightOf(s, w, i) = Zero
      <3>1. es = <<>>
        BY <1>6, <2>2 DEF EntriesOf
      <3> QED BY <3>1 DEF Rises, Within
    <2>3. CASE WeightOf(s, w, i) # Zero
      <3> DEFINE e == <<i, WeightOf(s, w, i)>>
      <3>1. es = <<e>>
        BY <1>6, <2>3 DEF EntriesOf
      <3>2. e \in Pairs /\ e[1] = i
        BY <1>1, <1>3 DEF Pairs
      <3> HIDE DEF e, es
      <3>3. es \in Seq(Pairs) /\ Len(es) = 1 /\ es[1] = e
        BY <3>1, <3>2
      <3>4. Rises(es)
        BY <3>3 DEF Rises
      <3>5. Within(es, i, i + 1)
        BY <1>1, <3>2, <3>3 DEF Within
      <3> QED BY <2>1, <3>3, <3>4, <3>5 DEF es
    <2> QED BY <2>2, <2>3
  <1> QED BY <1>1, <1>5, <1>6

LEMMA RisesCat ==
  ASSUME NEW a \in Seq(Pairs), NEW b \in Seq(Pairs), NEW x \in Int, NEW y \in Int,
         NEW z \in Int, x <= y, y <= z,
         Rises(a), Rises(b), Within(a, x, y), Within(b, y, z)
  PROVE  /\ Cat(a, b) \in Seq(Pairs) /\ Rises(Cat(a, b)) /\ Within(Cat(a, b), x, z)
  <1> DEFINE c == Cat(a, b)
             n == Len(a)
             m == Len(b)
  <1>1. /\ n \in Nat /\ m \in Nat /\ c \in Seq(Pairs) /\ Len(c) = n + m
        /\ \A i \in 1 .. n + m : c[i] = IF i <= n THEN a[i] ELSE b[i - n]
    <2>1. n \in Nat /\ m \in Nat
      OBVIOUS
    <2>2. /\ Cat(a, b) \in Seq(Pairs) /\ Len(Cat(a, b)) = Len(a) + Len(b)
          /\ \A i \in 1 .. Len(a) + Len(b) :
               Cat(a, b)[i] = IF i <= Len(a) THEN a[i] ELSE b[i - Len(a)]
      BY CatProperties, Zenon
    <2> QED BY <2>1, <2>2
  <1>2. \A i \in 1 .. n : a[i][1] \in Int /\ a[i][1] >= x /\ a[i][1] < y
    BY DEF Within, Pairs
  <1>3. \A i \in 1 .. m : b[i][1] \in Int /\ b[i][1] >= y /\ b[i][1] < z
    BY DEF Within, Pairs
  <1>4. \A i, j \in 1 .. n : i < j => a[i][1] < a[j][1]
    BY DEF Rises
  <1>5. \A i, j \in 1 .. m : i < j => b[i][1] < b[j][1]
    BY DEF Rises
  <1> HIDE DEF c, n, m
  <1>6. ASSUME NEW i \in 1 .. n + m PROVE c[i][1] >= x /\ c[i][1] < z
    <2>1. CASE i <= n
      <3>1. i \in 1 .. n /\ c[i] = a[i]
        BY <1>1, <2>1
      <3> QED BY <1>2, <3>1
    <2>2. CASE ~(i <= n)
      <3>1. i - n \in 1 .. m /\ c[i] = b[i - n]
        BY <1>1, <2>2
      <3> QED BY <1>3, <3>1
    <2> QED BY <2>1, <2>2
  <1>7. ASSUME NEW i \in 1 .. n + m, NEW j \in 1 .. n + m, i < j
        PROVE  c[i][1] < c[j][1]
    <2>1. CASE j <= n
      <3>1. i \in 1 .. n /\ j \in 1 .. n /\ c[i] = a[i] /\ c[j] = a[j]
        BY <1>1, <1>7, <2>1
      <3> QED BY <1>4, <1>7, <3>1
    <2>2. CASE i <= n /\ ~(j <= n)
      <3>1. i \in 1 .. n /\ j - n \in 1 .. m /\ c[i] = a[i] /\ c[j] = b[j - n]
        BY <1>1, <2>2
      <3> QED BY <1>2, <1>3, <3>1
    <2>3. CASE ~(i <= n)
      <3>1. /\ i - n \in 1 .. m /\ j - n \in 1 .. m /\ i - n < j - n
            /\ c[i] = b[i - n] /\ c[j] = b[j - n]
        BY <1>1, <1>7, <2>3
      <3> QED BY <1>5, <3>1
    <2> QED BY <1>1, <2>1, <2>2, <2>3
  <1>8. Rises(c) /\ Within(c, x, z)
    BY <1>1, <1>6, <1>7 DEF Rises, Within
  <1> QED BY <1>1, <1>8 DEF c

LEMMA DumpEntries ==
  ASSUME NEW s, SettingsFit(s), NEW w \in Arrays(s)
  PROVE  Entries(s, w) \in Seq(Pairs) /\ Distinct(Entries(s, w))
  <1> DEFINE n == Length(s)
             E == [m \in 1 .. n |-> EntriesOf(s, w, m - 1)]
             W == Seq(Pairs)
             g == Step(s)
             Q(k) == FlattenSeq(SubSeq(E, 1, k))
             Good(k) == Q(k) \in W /\ Rises(Q(k)) /\ Within(Q(k), 0, g * k)
             T == {k \in Nat : k <= n => Good(k)}
  <1>1. n \in Nat \ {0} /\ g \in Nat
    BY ArraySize DEF Step, SettingsFit
  <1>2. \A m \in 1 .. n : m - 1 \in 0 .. n - 1
    BY <1>1
  <1>3. \A m \in 1 .. n : /\ EntriesOf(s, w, m - 1) \in W
                          /\ Rises(EntriesOf(s, w, m - 1))
                          /\ Within(EntriesOf(s, w, m - 1), g * (m - 1), g * (m - 1) + g)
    BY <1>2, IndexEntries
  <1> HIDE DEF n, W, g
  <1>4. /\ E \in Seq(W) /\ Len(E) = n
        /\ \A m \in 1 .. n : E[m] = EntriesOf(s, w, m - 1)
    BY <1>1, <1>3
  <1>5. Entries(s, w) = FlattenSeq(E)
    BY DEF Entries, n
  <1> HIDE DEF E
  <1>6. 0 \in T
    <2>1. SubSeq(E, 1, 0) = <<>>
      BY SubSeqEmpty
    <2>2. Q(0) = <<>>
      BY <2>1, FlattenNone
    <2>3. Q(0) \in W
      <3>1. <<>> \in W
        BY DEF W
      <3> HIDE DEF Q
      <3> QED BY <2>2, <3>1
    <2>4. Rises(Q(0)) /\ Within(Q(0), 0, g * 0)
      BY <2>2 DEF Rises, Within
    <2> QED BY <2>3, <2>4
  <1>7. ASSUME NEW k \in Nat, k \in T PROVE k + 1 \in T
    <2> SUFFICES ASSUME k + 1 <= n PROVE Good(k + 1)
      <3> HIDE DEF Good
      <3>1. k + 1 \in Nat
        OBVIOUS
      <3> QED BY <3>1
    <2>1. k + 1 \in 1 .. n /\ (k + 1) - 1 = k /\ k <= n
      BY <1>1
    <2>2. Good(k)
      <3> HIDE DEF Good
      <3> QED BY <1>7, <2>1
    <2> DEFINE q == SubSeq(E, 1, k)
               e == E[k + 1]
    <2>3. q \in Seq(W) /\ e \in W /\ SubSeq(E, 1, k + 1) = Append(q, e)
      BY <1>4, <2>1, PrefixStep
    <2>4. Q(k + 1) = Cat(Q(k), e)
      <3>1. Q(k + 1) = FlattenSeq(Append(q, e))
        BY <2>3
      <3>2. FlattenSeq(Append(q, e)) = Cat(FlattenSeq(q), e)
        BY <2>3, FlattenLast DEF W
      <3> QED BY <3>1, <3>2
    <2>5. Rises(e) /\ Within(e, g * k, g * k + g)
      BY <1>3, <1>4, <2>1
    <2>6. g * k \in Nat /\ g * (k + 1) = g * k + g
      BY <1>1, Z3
    <2>7. Q(k) \in W /\ Rises(Q(k)) /\ Within(Q(k), 0, g * k)
      BY <2>2
    <2> HIDE DEF Q, q, e
    <2>8. /\ Cat(Q(k), e) \in W /\ Rises(Cat(Q(k), e))
          /\ Within(Cat(Q(k), e), 0, g * k + g)
      <3>1. 0 <= g * k /\ g * k <= g * k + g /\ 0 \in Int /\ g * k \in Int /\ g * k + g \in Int
        BY <1>1, <2>6
      <3> QED BY <2>3, <2>5, <2>7, <3>1, RisesCat DEF W
    <2> QED BY <2>4, <2>6, <2>8
  <1>8. Good(n)
    <2> HIDE DEF Good
    <2>1. n \in T
      <3> HIDE DEF T
      <3> QED BY <1>1, <1>6, <1>7, SetInduction
    <2>2. n <= n
      BY <1>1
    <2> QED BY <2>1, <2>2
  <1>9. Q(n) = Entries(s, w)
    <2>1. SubSeq(E, 1, Len(E)) = E
      BY <1>4
    <2> QED BY <1>4, <1>5, <2>1
  <1> DEFINE es == Entries(s, w)
  <1>10. es \in Seq(Pairs) /\ Rises(es)
    <2> HIDE DEF Q
    <2> QED BY <1>8, <1>9 DEF W
  <1> HIDE DEF es
  <1>11. \A i \in 1 .. Len(es) : es[i][1] \in Nat
    BY <1>10 DEF Pairs
  <1>12. Distinct(es)
    <2> SUFFICES ASSUME NEW i \in 1 .. Len(es), NEW j \in 1 .. Len(es),
                        es[i][1] = es[j][1], i # j
                 PROVE  FALSE
      BY DEF Distinct
    <2>1. i < j \/ j < i
      OBVIOUS
    <2> QED BY <1>10, <1>11, <2>1 DEF Rises
  <1> QED BY <1>10, <1>12 DEF es

-----------------------------------------------------------------------------
(* Regressors: what the entries of a file add                              *)

LEMMA EntryAdded ==
  ASSUME NEW s, SettingsFit(s), NEW v \in Arrays(s), NEW e \in Pairs
  PROVE  /\ AddEntry(s, v, e) \in Arrays(s)
         /\ \A a \in 0 .. ThreadCount(s) - 1, b \in 0 .. Size(s) - 1 :
              AddEntry(s, v, e)[a][b] =
                IF a = e[1] % ThreadCount(s) /\ b = Place(s, e[1])
                  THEN v[a][b] + e[2] ELSE v[a][b]
  <1> DEFINE A == 0 .. ThreadCount(s) - 1
             B == 0 .. Size(s) - 1
             t == e[1] % ThreadCount(s)
             p == Place(s, e[1])
             u == AddEntry(s, v, e)
  <1>1. v \in [A -> [B -> Int]] /\ t \in A /\ e[2] \in Int
    BY ThreadOf DEF Arrays, Pairs
  <1>2. u = [v EXCEPT ![t][p] = v[t][p] + e[2]]
    BY DEF AddEntry
  <1>3. Arrays(s) = [A -> [B -> Int]]
    BY DEF Arrays
  <1> HIDE DEF A, B, t, p, u
  <1>4. u = [v EXCEPT ![t] = [v[t] EXCEPT ![p] = v[t][p] + e[2]]]
    BY <1>2
  <1> DEFINE x == [v[t] EXCEPT ![p] = v[t][p] + e[2]]
  <1>5. v[t] \in [B -> Int]
    BY <1>1
  <1>6. x \in [B -> Int] /\ \A b \in B : x[b] = IF b = p THEN v[t][b] + e[2] ELSE v[t][b]
    <2> DEFINE y == v[t]
               z == y[p] + e[2]
    <2>1. x = [y EXCEPT ![p] = z] /\ y \in [B -> Int]
      BY <1>5
    <2>2. p \in B => z \in Int
      BY <1>1, <1>5
    <2> HIDE DEF x, y, z
    <2>3. x \in [B -> Int]
      BY <2>1, <2>2
    <2>4. \A b \in B : x[b] = IF b = p THEN z ELSE y[b]
      BY <2>1
    <2> QED BY <2>3, <2>4 DEF y, z
  <1> HIDE DEF x
  <1>7. u = [v EXCEPT ![t] = x]
    BY <1>4 DEF x
  <1>8. u \in [A -> [B -> Int]]
    BY <1>1, <1>6, <1>7
  <1>9. \A a \in A, b \in B : u[a][b] = IF a = t /\ b = p THEN v[a][b] + e[2] ELSE v[a][b]
    BY <1>1, <1>6, <1>7
  <1> QED BY <1>3, <1>8, <1>9 DEF A, B, t, p, u

\* What the first k entries have for an index.
AmongFirst(es, k, h) ==
  LET found == {i \in 1 .. k : es[i][1] = h}
  IN  IF found = {} THEN 0 ELSE es[CHOOSE i \in found : TRUE][2]

LEMMA OneMoreEntry ==
  ASSUME NEW es \in Seq(Pairs), Distinct(es), NEW k \in Nat, k + 1 <= Len(es), NEW h
  PROVE  /\ AmongFirst(es, k, h) \in Int
         /\ AmongFirst(es, k + 1, h) =
              IF es[k + 1][1] = h THEN AmongFirst(es, k, h) + es[k + 1][2]
                                  ELSE AmongFirst(es, k, h)
  <1> DEFINE F == {i \in 1 .. k : es[i][1] = h}
             G == {i \in 1 .. k + 1 : es[i][1] = h}
             x == k + 1
  <1>1. /\ x \in 1 .. Len(es) /\ \A i \in 1 .. k : i \in 1 .. Len(es) /\ i # x
        /\ \A i \in 1 .. Len(es) : es[i][1] \in Nat /\ es[i][2] \in Int
        /\ \A i \in 1 .. x : i = x \/ i \in 1 .. k
        /\ x \in 1 .. x /\ \A i \in 1 .. k : i \in 1 .. x
    BY DEF Pairs
  <1>2. AmongFirst(es, k, h) \in Int
    <2>1. CASE F = {}
      BY <2>1 DEF AmongFirst
    <2>2. CASE F # {}
      <3>1. (CHOOSE i \in F : TRUE) \in F
        BY <2>2
      <3> DEFINE i == CHOOSE i \in F : TRUE
      <3>2. i \in 1 .. k /\ AmongFirst(es, k, h) = es[i][2]
        BY <2>2, <3>1 DEF AmongFirst
      <3> HIDE DEF i
      <3> QED BY <1>1, <3>2
    <2> QED BY <2>1, <2>2
  <1>3. CASE es[x][1] = h
    <2>1. F = {}
      BY <1>1, <1>3 DEF Distinct
    <2>2. G = {x}
      <3>1. \A i \in 1 .. x : es[i][1] = h => i = x
        BY <1>1, <1>3 DEF Distinct
      <3>2. x \in G
        BY <1>1, <1>3
      <3> HIDE DEF x
      <3> QED BY <3>1, <3>2 DEF x
    <2>3. (CHOOSE i \in {x} : TRUE) = x
      OBVIOUS
    <2>4. AmongFirst(es, k + 1, h) = es[x][2]
      BY <2>2, <2>3 DEF AmongFirst
    <2>5. AmongFirst(es, k, h) = 0 /\ es[x][2] \in Int
      BY <1>1, <2>1 DEF AmongFirst
    <2> QED BY <1>3, <2>4, <2>5
  <1>4. CASE es[x][1] # h
    <2>1. F = G
      BY <1>1, <1>4
    <2> DEFINE Found(S) == IF S = {} THEN 0 ELSE es[CHOOSE i \in S : TRUE][2]
    <2>2. AmongFirst(es, k + 1, h) = AmongFirst(es, k, h)
      <3>1. AmongFirst(es, k, h) = Found(F)
        BY DEF AmongFirst
      <3>2. AmongFirst(es, k + 1, h) = Found(G)
        BY DEF AmongFirst
      <3> HIDE DEF Found, F, G
      <3> QED BY <2>1, <3>1, <3>2
    <2> QED BY <1>2, <1>4, <2>2
  <1> QED BY <1>2, <1>3, <1>4

LEMMA ValueFound ==
  ASSUME NEW file, file.entries \in Seq(Pairs), Distinct(file.entries), NEW h
  PROVE  ValueIn(file, h) = AmongFirst(file.entries, Len(file.entries), h)
  <1> DEFINE es == file.entries
             n == Len(es)
             F == {i \in 1 .. n : es[i][1] = h}
  <1>1. n \in Nat /\ DOMAIN es = 1 .. n
    OBVIOUS
  <1>2. CASE F = {}
    BY <1>1, <1>2 DEF ValueIn, AmongFirst
  <1>3. CASE F # {}
    <2>1. Max(F) \in F
      BY <1>1, <1>3, Largest
    <2>2. (CHOOSE i \in F : TRUE) \in F
      BY <1>3
    <2>3. \A i, j \in F : i = j
      BY DEF Distinct
    <2>4. Max(F) = CHOOSE i \in F : TRUE
      BY <2>1, <2>2, <2>3
    <2> QED BY <1>1, <1>3, <2>4 DEF ValueIn, AmongFirst
  <1> QED BY <1>2, <1>3

LEMMA EntriesAdded ==
  ASSUME NEW s, SettingsFit(s), NEW w \in Arrays(s),
         NEW file, file.entries \in Seq(Pairs), Distinct(file.entries)
  PROVE  /\ AddEntries(s, w, file) \in Arrays(s)
         /\ \A h : OwnPlace(s, h) =>
              AddEntries(s, w, file)[h % ThreadCount(s)][Place(s, h)] =
                w[h % ThreadCount(s)][Place(s, h)] + ValueIn(file, h)
  <1> DEFINE es == file.entries
             n == Len(es)
             V == Arrays(s)
             More(v, i) == AddEntry(s, v, es[i])
             G == [p \in (1 .. n) \X V |-> More(p[2], p[1])]
             Is(f) == f = [T \in SUBSET DOMAIN es |->
                             IF T = {} THEN w ELSE More(f[T \ {Max(T)}], Max(T))]
             F == CHOOSE f : Is(f)
  <1>1. n \in Nat /\ DOMAIN es = 1 .. n /\ \A i \in 1 .. n : es[i] \in Pairs
    OBVIOUS
  <1>2. AddEntries(s, w, file) = F[1 .. n]
    BY <1>1 DEF AddEntries, FoldLeft, MapThenFoldSet
  <1>3. w \in V /\ \A i \in 1 .. n, v \in V : More(v, i) \in V
    BY <1>1, EntryAdded
  <1>4. es \in Seq(Pairs) /\ Distinct(es)
    OBVIOUS
  <1> HIDE DEF n, es, V, More
  <1>5. /\ G \in [(1 .. n) \X V -> V]
        /\ \A i \in 1 .. n, x \in V : G[<<i, x>>] = More(x, i)
    BY <1>3
  <1> HIDE DEF G
  <1>6. PICK f \in [SUBSET (1 .. n) -> V] : SetBySet(f, n, w, G)
    BY <1>1, <1>3, <1>5, SetRecursion
  <1>7. ASSUME NEW T \in SUBSET (1 .. n)
        PROVE  f[T] = IF T = {} THEN w ELSE More(f[T \ {Max(T)}], Max(T))
    <2>1. CASE T = {}
      BY <1>6, <2>1 DEF SetBySet
    <2>2. CASE T # {}
      <3>1. Max(T) \in 1 .. n
        BY <1>1, <2>2, Largest
      <3>2. f[T \ {Max(T)}] \in V
        OBVIOUS
      <3>3. f[T] = G[<<Max(T), f[T \ {Max(T)}]>>]
        BY <1>6, <2>2 DEF SetBySet
      <3> QED BY <1>5, <2>2, <3>1, <3>2, <3>3
    <2> QED BY <2>1, <2>2
  <1>8. Is(F)
    <2>1. Is(f)
      BY <1>1, <1>7
    <2> HIDE DEF Is
    <2> QED BY <2>1
  <1> HIDE DEF F
  <1>9. \A T \in SUBSET (1 .. n) :
          F[T] = IF T = {} THEN w ELSE More(F[T \ {Max(T)}], Max(T))
    BY <1>1, <1>8
  <1>10. Follows(F, n, w, G, V)
    <2>1. F[{}] = w
      BY <1>9
    <2>2. ASSUME NEW T \in SUBSET (1 .. n), T # {}, F[T \ {Max(T)}] \in V
          PROVE  F[T] = G[<<Max(T), F[T \ {Max(T)}]>>]
      <3>1. Max(T) \in 1 .. n
        BY <1>1, <2>2, Largest
      <3> QED BY <1>5, <1>9, <2>2, <3>1
    <2> QED BY <2>1, <2>2 DEF Follows
  <1>11. PICK g \in [0 .. n -> V] : InTurn(g, F, n, w, G)
    BY <1>1, <1>3, <1>5, <1>10, PlacesInTurn
  <1>12. /\ g[0] = w /\ g[n] = F[1 .. n]
         /\ \A k \in 1 .. n : g[k] = More(g[k - 1], k)
    <2> SUFFICES ASSUME NEW k \in 1 .. n PROVE g[k] = More(g[k - 1], k)
      BY <1>11 DEF InTurn
    <2>1. k - 1 \in 0 .. n
      BY <1>1
    <2>2. g[k] = G[<<k, g[k - 1]>>]
      BY <1>11 DEF InTurn
    <2> QED BY <1>5, <2>1, <2>2
  <1>13. F[1 .. n] \in V
    <2>1. n \in 0 .. n
      BY <1>1
    <2> QED BY <1>12, <2>1
  <1>14. ASSUME NEW h, OwnPlace(s, h)
         PROVE  F[1 .. n][h % ThreadCount(s)][Place(s, h)] =
                  w[h % ThreadCount(s)][Place(s, h)] + ValueIn(file, h)
    <2> DEFINE t == h % ThreadCount(s)
               p == Place(s, h)
               Good(k) == g[k][t][p] = w[t][p] + AmongFirst(es, k, h)
               T == {k \in Nat : k <= n => Good(k)}
    <2>1. t \in 0 .. ThreadCount(s) - 1 /\ p \in 0 .. Size(s) - 1
      BY <1>14, ThreadOf DEF OwnPlace
    <2>2. \A v \in V : v[t][p] \in Int
      <3> SUFFICES ASSUME NEW v \in V PROVE v[t][p] \in Int
        OBVIOUS
      <3>1. v \in [0 .. ThreadCount(s) - 1 -> [0 .. Size(s) - 1 -> Int]]
        BY DEF V, Arrays
      <3> HIDE DEF t, p
      <3> QED BY <2>1, <3>1
    <2>3. \A e \in Pairs : e[1] % ThreadCount(s) = t /\ Place(s, e[1]) = p <=> e[1] = h
      BY <1>14 DEF OwnPlace, Pairs
    <2> HIDE DEF t, p
    <2>4. 0 \in T
      <3>1. {i \in 1 .. 0 : es[i][1] = h} = {}
        OBVIOUS
      <3>2. AmongFirst(es, 0, h) = 0
        BY <3>1 DEF AmongFirst
      <3>3. w[t][p] \in Int
        BY <1>3, <2>2
      <3> QED BY <1>12, <3>2, <3>3
    <2>5. ASSUME NEW k \in Nat, k \in T PROVE k + 1 \in T
      <3> SUFFICES ASSUME k + 1 <= n PROVE Good(k + 1)
        <4> HIDE DEF Good
        <4>1. k + 1 \in Nat
          OBVIOUS
        <4> QED BY <4>1
      <3>1. k + 1 \in 1 .. n /\ (k + 1) - 1 = k /\ k \in 0 .. n /\ k <= n
        BY <1>1
      <3>2. g[k][t][p] = w[t][p] + AmongFirst(es, k, h)
        BY <2>5, <3>1
      <3> DEFINE e == es[k + 1]
                 v == g[k]
                 a == AmongFirst(es, k, h)
      <3>3. e \in Pairs /\ v \in V
        BY <1>1, <3>1
      <3>4. g[k + 1] = AddEntry(s, v, e)
        <4>1. g[k + 1] = More(g[(k + 1) - 1], k + 1)
          BY <1>12, <3>1
        <4> QED BY <3>1, <4>1 DEF More
      <3>5. /\ a \in Int
            /\ AmongFirst(es, k + 1, h) = IF e[1] = h THEN a + e[2] ELSE a
        BY <1>4, <3>1, OneMoreEntry DEF n
      <3>6. w[t][p] \in Int /\ e[2] \in Int
        BY <1>3, <2>2, <3>3 DEF Pairs
      <3> HIDE DEF e, v, a
      <3>7. g[k + 1][t][p] = IF e[1] = h THEN v[t][p] + e[2] ELSE v[t][p]
        <4>1. AddEntry(s, v, e)[t][p] =
                IF t = e[1] % ThreadCount(s) /\ p = Place(s, e[1])
                  THEN v[t][p] + e[2] ELSE v[t][p]
          BY <2>1, <3>3, EntryAdded DEF V
        <4> QED BY <2>3, <3>3, <3>4, <4>1
      <3>8. v[t][p] = w[t][p] + a
        BY <3>2 DEF v, a
      <3> QED BY <3>5, <3>6, <3>7, <3>8
    <2>6. Good(n)
      <3> HIDE DEF Good
      <3>1. n \in T
        <4> HIDE DEF T
        <4> QED BY <1>1, <2>4, <2>5, SetInduction
      <3>2. n <= n
        BY <1>1
      <3> QED BY <3>1, <3>2
    <2>7. ValueIn(file, h) = AmongFirst(es, n, h)
      BY ValueFound DEF es, n
    <2> QED BY <1>12, <2>6, <2>7 DEF t, p
  <1> QED BY <1>2, <1>13, <1>14 DEF V

-----------------------------------------------------------------------------
(* Regressors: the files of a run                                          *)

\* A file that the program takes has no index twice, and no more threads than
\* weights.
GoodFile(file) ==
  file.version = Current =>
    /\ file.entries \in Seq(Pairs) /\ Distinct(file.entries)
    /\ file.num_bits \in Nat /\ file.thread_bits \in Nat
    /\ file.thread_bits <= file.num_bits

HeaderFields == {"num_bits", "thread_bits", "partition_bits", "pairs", "ngram", "skips"}
IsSettings(s) ==
  /\ SettingsFit(s)
  /\ s = [f \in DOMAIN s |-> s[f]] /\ HeaderFields \subseteq DOMAIN s
  /\ {"stride", "lda", "initial_weight", "adaptive", "random_weights"} \subseteq DOMAIN s

\* What is in the arrays is what they began with and what the files add.
AddsUp(s, w, fs) ==
  \A h : OwnPlace(s, h) =>
    w[h % ThreadCount(s)][Place(s, h)] = InitialValue(s, Place(s, h)) + SumOf(fs, h)

LEMMA HeaderTaken ==
  ASSUME NEW s, IsSettings(s), NEW file, GoodFile(file), file.version = Current
  PROVE  IsSettings(TakeHeader(s, file))
  <1> DEFINE q == TakeHeader(s, file)
  <1>1. /\ s = [f \in DOMAIN s |-> s[f]]
        /\ {"num_bits", "thread_bits", "partition_bits", "pairs", "ngram", "skips"}
             \subseteq DOMAIN s
        /\ {"stride", "lda", "initial_weight", "adaptive", "random_weights"} \subseteq DOMAIN s
    BY DEF IsSettings, HeaderFields
  <1>2. /\ DOMAIN q = DOMAIN s /\ q = [f \in DOMAIN q |-> q[f]]
        /\ q.num_bits = file.num_bits /\ q.thread_bits = file.thread_bits
        /\ q.stride = s.stride /\ q.lda = s.lda /\ q.initial_weight = s.initial_weight
    <2> DEFINE D == DOMAIN s
    <2>1. /\ s = [f \in D |-> s[f]]
          /\ "num_bits" \in D /\ "thread_bits" \in D /\ "partition_bits" \in D
          /\ "pairs" \in D /\ "ngram" \in D /\ "skips" \in D
      BY <1>1
    <2> DEFINE With(f) ==
                 IF f = "num_bits" THEN file.num_bits
                 ELSE IF f \in {"thread_bits", "partition_bits"} THEN file.thread_bits
                 ELSE IF f = "pairs" THEN file.pairs
                 ELSE IF f = "ngram" THEN file.ngram
                 ELSE IF f = "skips" THEN file.skips ELSE s[f]
    <2>2. q = [f \in D |-> With(f)]
      BY <2>1 DEF TakeHeader
    <2> HIDE DEF q
    <2>3. DOMAIN q = D /\ q = [f \in DOMAIN q |-> q[f]]
      BY <2>2
    <2>4. q.num_bits = file.num_bits /\ q.thread_bits = file.thread_bits
      BY <2>1, <2>2
    <2>5. \A f \in D : f \notin HeaderFields => q[f] = s[f]
      BY <2>2 DEF HeaderFields
    <2>6. "stride" \in D /\ "lda" \in D /\ "initial_weight" \in D
      BY <1>1
    <2> QED BY <2>3, <2>4, <2>5, <2>6 DEF HeaderFields
  <1> HIDE DEF q
  <1>3. SettingsFit(q)
    BY <1>2 DEF IsSettings, SettingsFit, GoodFile
  <1> QED BY <1>1, <1>2, <1>3 DEF IsSettings, HeaderFields, q

\* The files one after the other.
NothingLoaded(s) == [s |-> s, weights |-> NoWeights, initialized |-> FALSE, refused |-> FALSE]
IsResult(r) ==
  /\ r = [s |-> r.s, weights |-> r.weights, initialized |-> r.initialized,
          refused |-> r.refused]
  /\ r.initialized \in BOOLEAN /\ r.refused \in BOOLEAN /\ IsSettings(r.s)
  /\ r.initialized => r.weights \in Arrays(r.s)
Loading(g, fs, n, s) ==
  /\ g[0] = NothingLoaded(s)
  /\ \A k \in 1 .. n : g[k] = Load(g[k - 1], fs[k])
Results(g, s, n, fs, weightless) ==
  /\ Loading(g, fs, n, s) /\ g[n] = ParseRegressorArgs(s, fs, weightless)
  /\ \A k \in 0 .. n : IsResult(g[k])

LEMMA LoadedInTurn ==
  ASSUME NEW s, IsSettings(s), NEW n \in Nat, NEW fs, DOMAIN fs = 1 .. n,
         \A k \in 1 .. n : GoodFile(fs[k]), NEW weightless,
         fs # <<>> \/ weightless
  PROVE  \E g : Results(g, s, n, fs, weightless)
  <1> DEFINE Cur == {j \in 1 .. n : fs[j].version = Current}
             S == {s} \cup {TakeHeader(s, fs[j]) : j \in Cur}
             W == {NoWeights} \cup UNION {Arrays(q) : q \in S}
             V == {r \in [s : S, weights : W, initialized : BOOLEAN, refused : BOOLEAN] :
                     /\ r.initialized => r.weights \in Arrays(r.s)
                     /\ ~r.initialized => r.s = s}
             base == NothingLoaded(s)
             More(r, i) == Load(r, fs[i])
             G == [p \in (1 .. n) \X V |-> More(p[2], p[1])]
             Is(f) == f = [T \in SUBSET DOMAIN fs |->
                             IF T = {} THEN base ELSE More(f[T \ {Max(T)}], Max(T))]
             F == CHOOSE f : Is(f)
  <1>1. ParseRegressorArgs(s, fs, weightless) = F[1 .. n]
    BY DEF ParseRegressorArgs, FoldLeft, MapThenFoldSet, NothingLoaded
  <1>2. \A q \in S : IsSettings(q)
    BY HeaderTaken
  <1>3. \A q \in S : \A w \in Arrays(q) : w \in W
    OBVIOUS
  <1>4. s \in S /\ NoWeights \in W /\ \A j \in Cur : TakeHeader(s, fs[j]) \in S
    OBVIOUS
  <1>5. \A r : r \in V <=> /\ r \in [s : S, weights : W, initialized : BOOLEAN, refused : BOOLEAN]
                           /\ r.initialized => r.weights \in Arrays(r.s)
                           /\ ~r.initialized => r.s = s
    OBVIOUS
  <1>6. \A j \in 1 .. n : fs[j].version = Current => j \in Cur
    OBVIOUS
  <1> HIDE DEF S, W, V, Cur
  <1>7. base \in V
    BY <1>4, <1>5 DEF NothingLoaded
  <1>8. ASSUME NEW i \in 1 .. n, NEW r \in V PROVE More(r, i) \in V
    <2> DEFINE file == fs[i]
               q == IF r.initialized THEN r ELSE Begin(TakeHeader(r.s, file))
    <2>1. /\ r \in [s : S, weights : W, initialized : BOOLEAN, refused : BOOLEAN]
          /\ r.initialized => r.weights \in Arrays(r.s)
          /\ ~r.initialized => r.s = s
      BY <1>5
    <2>2. CASE r.refused \/ file.version # Current \/ (r.initialized /\ ~Agrees(r, file))
      <3>1. More(r, i) = [r EXCEPT !.refused = TRUE]
        BY <2>2 DEF Load
      <3> DEFINE x == [r EXCEPT !.refused = TRUE]
      <3>2. /\ x \in [s : S, weights : W, initialized : BOOLEAN, refused : BOOLEAN]
            /\ x.initialized = r.initialized /\ x.weights = r.weights /\ x.s = r.s
        BY <2>1
      <3> HIDE DEF x
      <3>3. x \in V
        BY <1>5, <2>1, <3>2
      <3> QED BY <3>1, <3>3 DEF x
    <2>3. CASE ~(r.refused \/ file.version # Current \/ (r.initialized /\ ~Agrees(r, file)))
      <3>1. More(r, i) = [q EXCEPT !.weights = AddEntries(q.s, @, file)]
        BY <2>3 DEF Load
      <3>2. /\ q \in [s : S, weights : W, initialized : BOOLEAN, refused : BOOLEAN]
            /\ q.initialized /\ q.weights \in Arrays(q.s)
        <4>1. CASE r.initialized
          BY <2>1, <4>1
        <4>2. CASE ~r.initialized
          <5> DEFINE t == TakeHeader(s, file)
          <5>1. q = Begin(t)
            BY <2>1, <4>2
          <5>2. t \in S
            BY <1>4, <1>6, <2>3
          <5>3. InitializeRegressor(t) \in Arrays(t)
            BY <1>2, <5>2, InitialArrays DEF IsSettings
          <5> HIDE DEF t, q
          <5>4. InitializeRegressor(t) \in W
            BY <1>3, <5>2, <5>3
          <5> QED BY <5>1, <5>2, <5>3, <5>4 DEF Begin
        <4> QED BY <2>1, <4>1, <4>2
      <3>3. SettingsFit(q.s)
        BY <1>2, <3>2 DEF IsSettings
      <3>4. file.entries \in Seq(Pairs) /\ Distinct(file.entries)
        BY <2>3 DEF GoodFile
      <3> DEFINE w == AddEntries(q.s, q.weights, file)
                 x == [q EXCEPT !.weights = w]
      <3>5. w \in Arrays(q.s)
        <4> HIDE DEF q
        <4> QED BY <3>2, <3>3, <3>4, EntriesAdded
      <3>6. x = [q EXCEPT !.weights = AddEntries(q.s, @, file)]
        OBVIOUS
      <3> HIDE DEF q, w, file
      <3>7. w \in W
        BY <1>3, <3>2, <3>5
      <3>8. /\ x \in [s : S, weights : W, initialized : BOOLEAN, refused : BOOLEAN]
            /\ x.initialized = q.initialized /\ x.weights = w /\ x.s = q.s
        BY <3>2, <3>7
      <3>9. x \in V
        <4> HIDE DEF x
        <4> QED BY <1>5, <3>2, <3>5, <3>8
      <3> QED BY <3>1, <3>6, <3>9
    <2> QED BY <2>2, <2>3
  <1> HIDE DEF More, base
  <1>9. /\ G \in [(1 .. n) \X V -> V]
        /\ \A i \in 1 .. n, x \in V : G[<<i, x>>] = More(x, i)
    BY <1>8
  <1> HIDE DEF G
  <1>10. PICK f \in [SUBSET (1 .. n) -> V] : SetBySet(f, n, base, G)
    BY <1>7, <1>9, SetRecursion
  <1>11. ASSUME NEW T \in SUBSET (1 .. n)
         PROVE  f[T] = IF T = {} THEN base ELSE More(f[T \ {Max(T)}], Max(T))
    <2>1. CASE T = {}
      BY <1>10, <2>1 DEF SetBySet
    <2>2. CASE T # {}
      <3>1. Max(T) \in 1 .. n
        BY <2>2, Largest
      <3>2. f[T \ {Max(T)}] \in V
        OBVIOUS
      <3>3. f[T] = G[<<Max(T), f[T \ {Max(T)}]>>]
        BY <1>10, <2>2 DEF SetBySet
      <3> QED BY <1>9, <2>2, <3>1, <3>2, <3>3
    <2> QED BY <2>1, <2>2
  <1>12. Is(F)
    <2>1. Is(f)
      BY <1>11
    <2> HIDE DEF Is
    <2> QED BY <2>1
  <1> HIDE DEF F
  <1>13. \A T \in SUBSET (1 .. n) :
           F[T] = IF T = {} THEN base ELSE More(F[T \ {Max(T)}], Max(T))
    BY <1>12
  <1>14. Follows(F, n, base, G, V)
    <2>1. F[{}] = base
      BY <1>13
    <2>2. ASSUME NEW T \in SUBSET (1 .. n), T # {}, F[T \ {Max(T)}] \in V
          PROVE  F[T] = G[<<Max(T), F[T \ {Max(T)}]>>]
      <3>1. Max(T) \in 1 .. n
        BY <2>2, Largest
      <3> QED BY <1>9, <1>13, <2>2, <3>1
    <2> QED BY <2>1, <2>2 DEF Follows
  <1>15. PICK g \in [0 .. n -> V] : InTurn(g, F, n, base, G)
    BY <1>7, <1>9, <1>14, PlacesInTurn
  <1>16. g[0] = base /\ g[n] = F[1 .. n]
    BY <1>15 DEF InTurn
  <1>17. ASSUME NEW k \in 1 .. n PROVE g[k] = Load(g[k - 1], fs[k])
    <2>1. k - 1 \in 0 .. n
      OBVIOUS
    <2>2. g[k] = G[<<k, g[k - 1]>>]
      BY <1>15 DEF InTurn
    <2>3. g[k] = More(g[k - 1], k)
      BY <1>9, <2>1, <2>2
    <2> QED BY <2>3 DEF More
  <1>18. Loading(g, fs, n, s)
    BY <1>16, <1>17 DEF Loading, base
  <1>19. ASSUME NEW k \in 0 .. n
         PROVE  IsResult(g[k])
    <2> DEFINE r == g[k]
    <2>1. r \in V
      OBVIOUS
    <2> HIDE DEF r
    <2>2. r \in [s : S, weights : W, initialized : BOOLEAN, refused : BOOLEAN]
      BY <1>5, <2>1
    <2>3. r = [s |-> r.s, weights |-> r.weights, initialized |-> r.initialized,
               refused |-> r.refused]
      BY <2>2
    <2>4. r.initialized => r.weights \in Arrays(r.s)
      BY <1>5, <2>1
    <2>5. IsSettings(r.s)
      BY <1>2, <2>2
    <2> QED BY <2>2, <2>3, <2>4, <2>5 DEF IsResult, r
  <1> QED BY <1>1, <1>16, <1>18, <1>19 DEF Results

\* What the files say of an index, added up one after the other.
Sums(d, fs, n, h) ==
  /\ d[0] = 0 /\ d[n] = SumOf(fs, h)
  /\ \A k \in 1 .. n : d[k] = d[k - 1] + ValueIn(fs[k], h)

LEMMA SumInTurn ==
  ASSUME NEW n \in Nat, NEW fs, DOMAIN fs = 1 .. n, NEW h,
         \A k \in 1 .. n : ValueIn(fs[k], h) \in Int
  PROVE  \E d \in [0 .. n -> Int] : Sums(d, fs, n, h)
  <1> DEFINE V == Int
             More(x, i) == x + ValueIn(fs[i], h)
             G == [p \in (1 .. n) \X V |-> More(p[2], p[1])]
             Is(f) == f = [T \in SUBSET DOMAIN fs |->
                             IF T = {} THEN 0 ELSE More(f[T \ {Max(T)}], Max(T))]
             F == CHOOSE f : Is(f)
  <1>1. SumOf(fs, h) = F[1 .. n]
    BY DEF SumOf, FoldLeft, MapThenFoldSet
  <1>2. 0 \in V /\ \A i \in 1 .. n, x \in V : More(x, i) \in V
    OBVIOUS
  <1> HIDE DEF V, More
  <1>3. /\ G \in [(1 .. n) \X V -> V]
        /\ \A i \in 1 .. n, x \in V : G[<<i, x>>] = More(x, i)
    BY <1>2
  <1> HIDE DEF G
  <1>4. PICK f \in [SUBSET (1 .. n) -> V] : SetBySet(f, n, 0, G)
    BY <1>2, <1>3, SetRecursion
  <1>5. ASSUME NEW T \in SUBSET (1 .. n)
        PROVE  f[T] = IF T = {} THEN 0 ELSE More(f[T \ {Max(T)}], Max(T))
    <2>1. CASE T = {}
      BY <1>4, <2>1 DEF SetBySet
    <2>2. CASE T # {}
      <3>1. Max(T) \in 1 .. n
        BY <2>2, Largest
      <3>2. f[T \ {Max(T)}] \in V
        OBVIOUS
      <3>3. f[T] = G[<<Max(T), f[T \ {Max(T)}]>>]
        BY <1>4, <2>2 DEF SetBySet
      <3> QED BY <1>3, <2>2, <3>1, <3>2, <3>3
    <2> QED BY <2>1, <2>2
  <1>6. Is(F)
    <2>1. Is(f)
      BY <1>5
    <2> HIDE DEF Is
    <2> QED BY <2>1
  <1> HIDE DEF F
  <1>7. \A T \in SUBSET (1 .. n) :
          F[T] = IF T = {} THEN 0 ELSE More(F[T \ {Max(T)}], Max(T))
    BY <1>6
  <1>8. Follows(F, n, 0, G, V)
    <2>1. F[{}] = 0
      BY <1>7
    <2>2. ASSUME NEW T \in SUBSET (1 .. n), T # {}, F[T \ {Max(T)}] \in V
          PROVE  F[T] = G[<<Max(T), F[T \ {Max(T)}]>>]
      <3>1. Max(T) \in 1 .. n
        BY <2>2, Largest
      <3> QED BY <1>3, <1>7, <2>2, <3>1
    <2> QED BY <2>1, <2>2 DEF Follows
  <1>9. PICK g \in [0 .. n -> V] : InTurn(g, F, n, 0, G)
    BY <1>2, <1>3, <1>8, PlacesInTurn
  <1>10. g[0] = 0 /\ g[n] = SumOf(fs, h)
    BY <1>1, <1>9 DEF InTurn
  <1>11. ASSUME NEW k \in 1 .. n PROVE g[k] = g[k - 1] + ValueIn(fs[k], h)
    <2>1. k - 1 \in 0 .. n
      OBVIOUS
    <2>2. g[k] = G[<<k, g[k - 1]>>]
      BY <1>9 DEF InTurn
    <2>3. g[k] = More(g[k - 1], k)
      BY <1>3, <2>1, <2>2
    <2> QED BY <2>3 DEF More
  <1> QED BY <1>9, <1>10, <1>11 DEF V, Sums


\* One file more: the program refuses it, or adds what it says.
LEMMA FileLoaded ==
  ASSUME NEW r, IsResult(r), NEW file, GoodFile(file), ~Load(r, file).refused
  PROVE  /\ ~r.refused /\ file.version = Current
         /\ Load(r, file).initialized
         /\ LET s == IF r.initialized THEN r.s ELSE TakeHeader(r.s, file)
                w == IF r.initialized THEN r.weights ELSE InitializeRegressor(s)
            IN  Load(r, file).s = s /\ Load(r, file).weights = AddEntries(s, w, file)
  <1> DEFINE x == [r EXCEPT !.refused = TRUE]
             q == IF r.initialized THEN r ELSE Begin(TakeHeader(r.s, file))
             y == [q EXCEPT !.weights = AddEntries(q.s, @, file)]
  <1>1. /\ r = [s |-> r.s, weights |-> r.weights, initialized |-> r.initialized,
                refused |-> r.refused]
        /\ r.initialized \in BOOLEAN /\ r.refused \in BOOLEAN
    BY DEF IsResult
  <1>2. x.refused
    BY <1>1
  <1>3. /\ ~r.refused /\ file.version = Current
        /\ Load(r, file) = y
    <2>1. ~(r.refused \/ file.version # Current \/ (r.initialized /\ ~Agrees(r, file)))
      BY <1>2 DEF Load
    <2> QED BY <1>1, <2>1 DEF Load
  <1> HIDE DEF x
  <1>4. CASE r.initialized
    <2>1. q = r
      BY <1>4
    <2> HIDE DEF q
    <2>2. y.initialized /\ y.s = r.s /\ y.weights = AddEntries(r.s, r.weights, file)
      BY <1>1, <1>4, <2>1
    <2> QED BY <1>3, <1>4, <2>2
  <1>5. CASE ~r.initialized
    <2> DEFINE s == TakeHeader(r.s, file)
    <2>1. q = [s |-> s, weights |-> InitializeRegressor(s), initialized |-> TRUE,
               refused |-> FALSE]
      BY <1>5 DEF Begin
    <2> HIDE DEF q, s
    <2>2. y.initialized /\ y.s = s /\ y.weights = AddEntries(s, InitializeRegressor(s), file)
      BY <2>1
    <2> QED BY <1>3, <1>5, <2>2 DEF s
  <1> QED BY <1>1, <1>3, <1>4, <1>5

LEMMA ValueInt ==
  ASSUME NEW file, file.entries \in Seq(Pairs), NEW h
  PROVE  ValueIn(file, h) \in Int
  <1> DEFINE es == file.entries
             F == {i \in DOMAIN es : es[i][1] = h}
  <1>1. Len(es) \in Nat /\ DOMAIN es = 1 .. Len(es) /\ \A i \in 1 .. Len(es) : es[i][2] \in Int
    BY DEF Pairs
  <1>2. CASE F = {}
    BY <1>2 DEF ValueIn
  <1>3. CASE F # {}
    <2>1. Max(F) \in F
      BY <1>1, <1>3, Largest
    <2>2. ValueIn(file, h) = es[Max(F)][2]
      BY <1>3 DEF ValueIn
    <2> HIDE DEF es
    <2> QED BY <1>1, <2>1, <2>2
  <1> QED BY <1>2, <1>3

\* What an entry's place began with.
LEMMA PlaceBegins ==
  ASSUME NEW s, SettingsFit(s), NEW h, OwnPlace(s, h)
  PROVE  InitializeRegressor(s)[h % ThreadCount(s)][Place(s, h)] = InitialValue(s, Place(s, h))
  <1> DEFINE t == h % ThreadCount(s)
             p == Place(s, h)
  <1>1. t \in 0 .. ThreadCount(s) - 1 /\ p \in 0 .. Size(s) - 1
    BY ThreadOf DEF OwnPlace
  <1> HIDE DEF t, p
  <1>2. InitializeRegressor(s)[t][p] = InitialValue(s, p)
    BY <1>1 DEF InitializeRegressor, Size
  <1> QED BY <1>2 DEF t, p

LEMMA FilesLoaded ==
  ASSUME NEW s, IsSettings(s), NEW n \in Nat \ {0}, NEW fs, DOMAIN fs = 1 .. n,
         \A k \in 1 .. n : GoodFile(fs[k]), NEW weightless,
         NEW r, r = ParseRegressorArgs(s, fs, weightless), ~r.refused
  PROVE  IsSettings(r.s) /\ r.weights \in Arrays(r.s) /\ AddsUp(r.s, r.weights, fs)
  <1>1. fs # <<>>
    <2>1. 1 \in DOMAIN fs
      OBVIOUS
    <2> QED BY <2>1
  <1>2. PICK g : /\ Loading(g, fs, n, s) /\ g[n] = ParseRegressorArgs(s, fs, weightless)
                 /\ \A k \in 0 .. n : IsResult(g[k])
    <2>1. PICK g : Results(g, s, n, fs, weightless)
      BY <1>1, LoadedInTurn
    <2> QED BY <2>1 DEF Results
  <1>3. g[n] = r /\ \A k \in 1 .. n : k - 1 \in 0 .. n /\ k \in 0 .. n /\ g[k] = Load(g[k - 1], fs[k])
    BY <1>2 DEF Loading
  <1>4. ASSUME NEW k \in 1 .. n, ~g[k].refused
        PROVE  /\ ~g[k - 1].refused /\ fs[k].version = Current /\ g[k].initialized
               /\ LET q == IF g[k - 1].initialized THEN g[k - 1].s
                                                   ELSE TakeHeader(g[k - 1].s, fs[k])
                      w == IF g[k - 1].initialized THEN g[k - 1].weights
                                                   ELSE InitializeRegressor(q)
                  IN  g[k].s = q /\ g[k].weights = AddEntries(q, w, fs[k])
    <2> DEFINE b == g[k - 1]
               file == fs[k]
    <2>1. IsResult(b) /\ GoodFile(file) /\ g[k] = Load(b, file)
      BY <1>2, <1>3
    <2> HIDE DEF b, file
    <2>2. /\ ~b.refused /\ file.version = Current
          /\ Load(b, file).initialized
          /\ LET q == IF b.initialized THEN b.s ELSE TakeHeader(b.s, file)
                 w == IF b.initialized THEN b.weights ELSE InitializeRegressor(q)
             IN  Load(b, file).s = q /\ Load(b, file).weights = AddEntries(q, w, file)
      BY <1>4, <2>1, FileLoaded
    <2> QED BY <2>1, <2>2 DEF b, file
  <1>5. \A k \in 0 .. n : ~g[k].refused
    <2> DEFINE T == {k \in Nat : k <= n => ~g[n - k].refused}
    <2>1. 0 \in T
      BY <1>3
    <2>2. ASSUME NEW k \in Nat, k \in T PROVE k + 1 \in T
      <3> SUFFICES ASSUME k + 1 <= n PROVE ~g[n - (k + 1)].refused
        OBVIOUS
      <3>1. n - k \in 1 .. n /\ n - (k + 1) = (n - k) - 1 /\ k <= n
        OBVIOUS
      <3>2. ~g[n - k].refused
        BY <2>2, <3>1
      <3> QED BY <1>4, <3>1, <3>2
    <2>3. Nat \subseteq T
      <3> HIDE DEF T
      <3> QED BY <2>1, <2>2, SetInduction
    <2> SUFFICES ASSUME NEW k \in 0 .. n PROVE ~g[k].refused
      OBVIOUS
    <2>4. n - k \in Nat /\ n - k <= n /\ n - (n - k) = k
      OBVIOUS
    <2> QED BY <2>3, <2>4
  <1>6. n \in 1 .. n /\ n \in 0 .. n
    OBVIOUS
  <1>7. IsSettings(r.s) /\ r.weights \in Arrays(r.s)
    <2>1. IsResult(g[n]) /\ g[n].initialized
      BY <1>2, <1>4, <1>5, <1>6
    <2> QED BY <1>3, <2>1 DEF IsResult
  <1>8. \A k \in 1 .. n : /\ fs[k].version = Current
                          /\ fs[k].entries \in Seq(Pairs) /\ Distinct(fs[k].entries)
    <2> SUFFICES ASSUME NEW k \in 1 .. n
                 PROVE  /\ fs[k].version = Current
                        /\ fs[k].entries \in Seq(Pairs) /\ Distinct(fs[k].entries)
      OBVIOUS
    <2>1. fs[k].version = Current
      BY <1>3, <1>4, <1>5
    <2> QED BY <2>1 DEF GoodFile
  <1>9. ASSUME NEW h, OwnPlace(r.s, h)
        PROVE  r.weights[h % ThreadCount(r.s)][Place(r.s, h)] =
                 InitialValue(r.s, Place(r.s, h)) + SumOf(fs, h)
    <2>1. \A k \in 1 .. n : ValueIn(fs[k], h) \in Int
      BY <1>8, ValueInt
    <2>2. PICK d \in [0 .. n -> Int] : Sums(d, fs, n, h)
      <3>1. n \in Nat /\ DOMAIN fs = 1 .. n
        OBVIOUS
      <3> QED BY <2>1, <3>1, SumInTurn
    <2>3. /\ d[0] = 0 /\ d[n] = SumOf(fs, h)
          /\ \A k \in 1 .. n : d[k] = d[k - 1] + ValueIn(fs[k], h)
      BY <2>2 DEF Sums
    <2> DEFINE At(w, q) == w[h % ThreadCount(q)][Place(q, h)]
               Good(k) == OwnPlace(g[k].s, h) =>
                            At(g[k].weights, g[k].s) = InitialValue(g[k].s, Place(g[k].s, h)) + d[k]
               T == {k \in Nat : k \in 1 .. n => Good(k)}
    <2>4. ASSUME NEW k \in 1 .. n, NEW q, NEW w \in Arrays(q), SettingsFit(q),
                 OwnPlace(q, h), NEW before \in Int,
                 At(w, q) = InitialValue(q, Place(q, h)) + before,
                 g[k].s = q, g[k].weights = AddEntries(q, w, fs[k])
          PROVE  At(g[k].weights, g[k].s) =
                   InitialValue(q, Place(q, h)) + (before + ValueIn(fs[k], h))
      <3> DEFINE file == fs[k]
                 a == InitialValue(q, Place(q, h))
                 v == ValueIn(file, h)
      <3>1. a \in Int /\ v \in Int
        BY <2>1, <2>4, InitialInt
      <3>2. file.entries \in Seq(Pairs) /\ Distinct(file.entries)
        BY <1>8
      <3>3. At(AddEntries(q, w, file), q) = At(w, q) + v
        <4> HIDE DEF file
        <4> QED BY <2>4, <3>2, EntriesAdded
      <3>4. At(w, q) = a + before /\ At(g[k].weights, g[k].s) = At(AddEntries(q, w, file), q)
        BY <2>4
      <3> HIDE DEF At, a, v
      <3>5. At(g[k].weights, g[k].s) = a + (before + v)
        BY <3>1, <3>3, <3>4
      <3> QED BY <3>5 DEF a, v
    <2>5. ASSUME NEW k \in 1 .. n, d[k - 1] \in Int, ~g[k - 1].initialized, d[k - 1] = 0
          PROVE  Good(k)
      <3> DEFINE q == g[k].s
                 w == InitializeRegressor(q)
      <3>1. g[k].weights = AddEntries(q, w, fs[k])
        BY <1>3, <1>4, <1>5, <2>5
      <3>2. SettingsFit(q)
        BY <1>2, <1>3 DEF IsResult, IsSettings
      <3> SUFFICES ASSUME OwnPlace(q, h)
                   PROVE  At(g[k].weights, q) = InitialValue(q, Place(q, h)) + d[k]
        OBVIOUS
      <3>3. w \in Arrays(q) /\ At(w, q) = InitialValue(q, Place(q, h))
        BY <3>2, InitialArrays, PlaceBegins
      <3>4. InitialValue(q, Place(q, h)) \in Int
        BY <3>2, InitialInt
      <3> HIDE DEF w, At
      <3>5. At(w, q) = InitialValue(q, Place(q, h)) + 0 /\ 0 \in Int
        BY <3>3, <3>4
      <3>6. At(g[k].weights, g[k].s) = InitialValue(q, Place(q, h)) + (0 + ValueIn(fs[k], h))
        <4> HIDE DEF q
        <4>1. g[k].s = q
          BY DEF q
        <4> QED BY <2>4, <3>1, <3>2, <3>3, <3>5, <4>1
      <3> QED BY <2>3, <2>5, <3>6
    <2>6. ASSUME NEW k \in 1 .. n, k - 1 \in 1 .. n, Good(k - 1)
          PROVE  Good(k)
      <3> DEFINE q == g[k].s
                 b == g[k - 1]
      <3>1. b.initialized /\ IsResult(b)
        BY <1>2, <1>3, <1>4, <1>5, <2>6
      <3>2. q = b.s /\ g[k].weights = AddEntries(q, b.weights, fs[k])
        BY <1>3, <1>4, <1>5, <3>1
      <3>3. SettingsFit(q) /\ b.weights \in Arrays(q)
        BY <3>1, <3>2 DEF IsResult, IsSettings
      <3> SUFFICES ASSUME OwnPlace(q, h)
                   PROVE  At(g[k].weights, q) = InitialValue(q, Place(q, h)) + d[k]
        OBVIOUS
      <3>4. At(b.weights, q) = InitialValue(q, Place(q, h)) + d[k - 1] /\ d[k - 1] \in Int
        <4>1. k - 1 \in 0 .. n
          BY <2>6
        <4> QED BY <2>6, <3>2, <4>1
      <3> HIDE DEF At, b
      <3>5. At(g[k].weights, g[k].s)
              = InitialValue(q, Place(q, h)) + (d[k - 1] + ValueIn(fs[k], h))
        <4> DEFINE w == b.weights
                   e == d[k - 1]
        <4>1. w \in Arrays(q) /\ e \in Int /\ g[k].s = q /\ g[k].weights = AddEntries(q, w, fs[k])
              /\ At(w, q) = InitialValue(q, Place(q, h)) + e
          BY <3>2, <3>3, <3>4
        <4> HIDE DEF q, w, e
        <4> QED BY <2>4, <3>3, <4>1 DEF e
      <3> QED BY <2>3, <3>5
    <2>7. 0 \in T
      OBVIOUS
    <2>8. ASSUME NEW k \in Nat, k \in T PROVE k + 1 \in T
      <3> SUFFICES ASSUME k + 1 \in 1 .. n PROVE Good(k + 1)
        <4> HIDE DEF Good
        <4>1. k + 1 \in Nat
          OBVIOUS
        <4> QED BY <4>1
      <3>1. (k + 1) - 1 = k
        OBVIOUS
      <3>2. CASE k = 0
        <4>1. ~g[0].initialized
          BY <1>2 DEF Loading, NothingLoaded
        <4> HIDE DEF Good
        <4> QED BY <2>3, <2>5, <3>1, <3>2, <4>1
      <3>3. CASE k # 0
        <4>1. k \in 1 .. n
          BY <3>3
        <4> HIDE DEF Good
        <4> QED BY <2>6, <2>8, <3>1, <4>1
      <3> QED BY <3>2, <3>3
    <2>9. Good(n)
      <3> HIDE DEF Good
      <3>1. n \in Nat
        OBVIOUS
      <3>2. n \in T
        <4> HIDE DEF T
        <4> QED BY <2>7, <2>8, <3>1, SetInduction
      <3> QED BY <1>6, <3>2
    <2> QED BY <1>3, <1>9, <2>3, <2>9
  <1> QED BY <1>7, <1>9 DEF AddsUp

-----------------------------------------------------------------------------
(* Regressors: the settings of a command line                              *)

\* No command line asks for more threads than there are weights.
EnoughWeights ==
  \A s \in Scenarios : \A i \in DOMAIN s : s[i].thread_bits <= BitsOfSource(s[i])

LEMMA NextPower ==
  ASSUME NEW x \in Nat
  PROVE  NextPow2(x) \in Nat /\ NextPow2(x) >= x
  <1> DEFINE S == {i \in 0 .. x : Pow2[i] >= x}
             T == {m \in Nat : Pow2[m] \in Nat \ {0} /\ Pow2[m] >= m}
  <1>1. Nat \subseteq T
    <2>1. 0 \in T
      BY Pow2Step
    <2>2. ASSUME NEW m \in Nat, m \in T PROVE m + 1 \in T
      BY <2>2, Pow2Step
    <2> HIDE DEF T
    <2> QED BY <2>1, <2>2, SetInduction
  <1>2. x \in S
    BY <1>1
  <1>3. Min(S) \in S
    <2>1. \E j \in S : \A k \in S : j <= k
      <3>1. S \in SUBSET Nat /\ S # {}
        BY <1>2
      <3> HIDE DEF S
      <3> QED BY <3>1, Smallest
    <2> HIDE DEF S
    <2> QED BY <2>1 DEF Min
  <1>4. NextPow2(x) = Pow2[Min(S)]
    BY DEF NextPow2
  <1> QED BY <1>1, <1>3, <1>4

LEMMA SettingsOfCommand ==
  ASSUME NEW o \in Commands, o.thread_bits <= BitsOfSource(o)
  PROVE  IsSettings(Settings(o))
  <1> DEFINE s == Settings(o)
  <1>1. /\ o.lda \in Nat /\ o.bits \in Nat /\ o.cache_bits \in Nat
        /\ o.thread_bits \in Nat /\ o.initial_weight \in Nat
    BY DEF Commands
  <1>2. BitsOfSource(o) \in Nat
    BY <1>1, SizeAssumption DEF BitsOfSource
  <1>3. /\ Stride(o) \in Nat \ {0}
        /\ Given(o, "lda") => o.lda < Stride(o)
    <2>1. CASE Given(o, "lda")
      <3>1. 2 * o.lda + 1 \in Nat
        BY <1>1
      <3>2. NextPow2(2 * o.lda + 1) \in Nat /\ NextPow2(2 * o.lda + 1) >= 2 * o.lda + 1
        BY <3>1, NextPower
      <3>3. Stride(o) = NextPow2(2 * o.lda + 1)
        BY <2>1 DEF Stride
      <3> QED BY <1>1, <3>2, <3>3
    <2>2. CASE ~Given(o, "lda")
      BY <2>2 DEF Stride
    <2> QED BY <2>1, <2>2
  <1>4. /\ s.num_bits = BitsOfSource(o) /\ s.thread_bits = o.thread_bits
        /\ s.stride = Stride(o) /\ s.lda = (IF Given(o, "lda") THEN o.lda ELSE 0)
        /\ s.initial_weight = o.initial_weight
    BY DEF Settings
  <1>5. SettingsFit(s)
    <2> HIDE DEF s
    <2> QED BY <1>1, <1>2, <1>3, <1>4 DEF SettingsFit
  <1>6. s = [f \in DOMAIN s |-> s[f]]
    BY DEF Settings
  <1>7. /\ HeaderFields \subseteq DOMAIN s
        /\ {"stride", "lda", "initial_weight", "adaptive", "random_weights"}
             \subseteq DOMAIN s
    BY DEF Settings, HeaderFields
  <1> QED BY <1>5, <1>6, <1>7 DEF IsSettings

\* --sendto changes none of the settings the weights depend on.
LEMMA SplitKeeps ==
  ASSUME NEW o, NEW s, IsSettings(s), NEW q, q = SplitForHosts(o, s)
  PROVE  /\ SettingsFit(q) /\ Arrays(q) = Arrays(s)
         /\ \A w, fs : AddsUp(s, w, fs) => AddsUp(q, w, fs)
  <1>1. /\ q.num_bits = s.num_bits /\ q.thread_bits = s.thread_bits
        /\ q.stride = s.stride /\ q.lda = s.lda /\ q.initial_weight = s.initial_weight
        /\ q.adaptive = s.adaptive /\ q.random_weights = s.random_weights
    <2>1. /\ s = [f \in DOMAIN s |-> s[f]]
          /\ {"num_bits", "thread_bits", "stride", "lda", "initial_weight", "adaptive",
              "random_weights"} \subseteq DOMAIN s
      BY DEF IsSettings, HeaderFields
    <2> DEFINE v == FindSplit(o.hosts, s.pairs # <<>>).partition_bits
    <2>2. q = s \/ q = [s EXCEPT !.partition_bits = v]
      BY DEF SplitForHosts
    <2> HIDE DEF v
    <2>3. \A f \in DOMAIN s : f # "partition_bits" => q[f] = s[f]
      BY <2>1, <2>2
    <2> QED BY <2>1, <2>3
  <1>2. ThreadCount(q) = ThreadCount(s) /\ Length(q) = Length(s) /\ Size(q) = Size(s)
    BY <1>1 DEF ThreadCount, Length, Size
  <1>3. \A h : Place(q, h) = Place(s, h)
    BY <1>1, <1>2 DEF Place
  <1>4. \A j : InitialValue(q, j) = InitialValue(s, j)
    BY <1>1, <1>2 DEF InitialValue
  <1>5. SettingsFit(q) /\ Arrays(q) = Arrays(s)
    BY <1>1, <1>2 DEF IsSettings, SettingsFit, Arrays
  <1>6. \A h : OwnPlace(q, h) <=> OwnPlace(s, h)
    BY <1>2, <1>3 DEF OwnPlace
  <1>7. ASSUME NEW w, NEW fs, AddsUp(s, w, fs) PROVE AddsUp(q, w, fs)
    BY <1>2, <1>3, <1>4, <1>6, <1>7 DEF AddsUp
  <1> QED BY <1>5, <1>7

\* What the program starts from.
LEMMA StartResult ==
  ASSUME NEW s, IsSettings(s), NEW n \in Nat, NEW fs, DOMAIN fs = 1 .. n,
         fs = [k \in 1 .. n |-> fs[k]],
         \A k \in 1 .. n : GoodFile(fs[k]), NEW weightless \in BOOLEAN,
         NEW r, r = ParseRegressorArgs(s, fs, weightless), ~r.refused
  PROVE  /\ IsSettings(r.s) /\ (r.weights = NoWeights \/ r.weights \in Arrays(r.s))
         /\ n # 0 => r.weights \in Arrays(r.s) /\ AddsUp(r.s, r.weights, fs)
  <1>1. CASE n # 0
    <2>1. n \in Nat \ {0}
      BY <1>1
    <2> QED BY <2>1, FilesLoaded
  <1>2. CASE n = 0
    <2> DEFINE loaded == ParseRegressorArgs(s, fs, TRUE)
    <2>1. loaded = NothingLoaded(s)
      <3>1. PICK g : Results(g, s, n, fs, TRUE)
        BY LoadedInTurn
      <3> QED BY <1>2, <3>1 DEF Loading, Results
    <2>2. fs = <<>>
      BY <1>2
    <2>3. CASE weightless
      <3>1. r = loaded
        BY <2>3
      <3> HIDE DEF loaded
      <3>2. r.s = s /\ r.weights = NoWeights
        BY <2>1, <3>1 DEF NothingLoaded
      <3> QED BY <1>2, <3>2
    <2>4. CASE ~weightless
      <3>1. r = [loaded EXCEPT !.weights = InitializeRegressor(s)]
        BY <2>2, <2>4 DEF ParseRegressorArgs
      <3> HIDE DEF loaded
      <3>2. r.s = s /\ r.weights = InitializeRegressor(s)
        BY <2>1, <3>1 DEF NothingLoaded
      <3>3. InitializeRegressor(s) \in Arrays(s)
        BY InitialArrays DEF IsSettings
      <3> QED BY <1>2, <3>2, <3>3
    <2> QED BY <2>3, <2>4
  <1> QED BY <1>1, <1>2

-----------------------------------------------------------------------------
(* Regressors: the invariant                                               *)

Ends == {"end_parser", "dump", "dump_weights", "rename"}

\* Each model on the disk is a file a run can start from.
LoadInv ==
  /\ Running => /\ SettingsFit(global)
                /\ weights = NoWeights \/ weights \in Arrays(global)
  /\ pc \in {"dump_weights", "rename"} => weights # NoWeights
  /\ pc \in {"nb_backup", "nb_write"} => done
  /\ \A name \in Models : GoodFile(disk[Final(name)])

\* Until the input ends nothing but the files is in the weights.
AsLoaded ==
  Running /\ pc \notin Ends /\ ~done /\ opt.initial # <<>> =>
    AddsUp(global, weights, InitialFiles)

LEMMA WeightsFrame ==
  ASSUME [Next]_vars, ~Start
  PROVE  /\ Running' => /\ Running /\ UNCHANGED global
                        /\ UNCHANGED weights \/ weights' = TrainedWeights
         /\ pc' \in {"dump_weights", "rename"} =>
              /\ UNCHANGED weights
              /\ pc \in {"dump_weights", "rename"} \/ weights # NoWeights
         /\ pc' \in {"nb_backup", "nb_write"} =>
              /\ done => done'
              /\ pc \in {"nb_backup", "nb_write"} \/ done
         /\ Running' /\ pc' \notin Ends /\ ~done' =>
              \/ pc = "nb_backup" /\ UNCHANGED done
              \/ /\ pc \notin Ends /\ ~done
                 /\ UNCHANGED <<disk, scenario, session, weights>>
  <1> USE DEF Drives, Parser, files, driverVars, nbVars, ldaVars, queueVars, ParserRuns,
              CFree, CMemcpy, Running, Over, Ends
  <1>1. CASE UNCHANGED vars
    BY <1>1 DEF vars
  <1>2. CASE ParserStep
    BY <1>2 DEF ParserStep, Publish, SetDone, ParserExits
  <1>3. CASE Launch \/ Kill
    BY <1>3 DEF Launch, Kill, FreshMemory
  <1>4. CASE Learn \/ Learned \/ NbJoin
    <2>1. CASE Learn
      BY <2>1 DEF Learn
    <2>2. CASE Learned
      BY <2>2 DEF Learned
    <2>3. CASE NbJoin
      <3>1. /\ pc = "nb" /\ done /\ UNCHANGED <<disk, scenario, session, global, weights, done>>
            /\ pc' \in {"end_parser", "crashed", "nb_backup"}
        BY <2>3 DEF NbJoin
      <3> QED BY <3>1
    <2> QED BY <1>4, <2>1, <2>2, <2>3
  <1>5. CASE NbTrain \/ NbPredict
    BY <1>5 DEF NbTrain, NbPredict, Predict
  <1>6. CASE Noop \/ NoopEnds \/ Send \/ SenderEnds
    BY <1>6 DEF Noop, NoopEnds, Send, SenderEnds, ThreadDone
  <1>7. CASE CgExample \/ CgEnds
    BY <1>7 DEF CgExample, CgEnds, ThreadDone
  <1>8. CASE LdaTake \/ LdaCut \/ LdaProcess \/ LdaCheck
    BY <1>8 DEF LdaTake, LdaCut, LdaProcess, LdaCheck, ThreadDone
  <1>9. CASE NbBackup \/ NbWrite \/ DumpHeader \/ DumpWeights \/ Rename
    BY <1>9 DEF NbBackup, NbWrite, DumpHeader, DumpWeights, Rename
  <1>10. CASE EndParser \/ FinalizeSource
    BY <1>10 DEF EndParser, FinalizeSource
  <1> QED BY <1>1, <1>2, <1>3, <1>4, <1>5, <1>6, <1>7, <1>8, <1>9, <1>10
          DEF Next, MainStep

\* What training leaves is as large as what it began with.
LEMMA TrainedArrays ==
  ASSUME SettingsFit(global), weights = NoWeights \/ weights \in Arrays(global)
  PROVE  TrainedWeights = NoWeights \/ TrainedWeights \in Arrays(global)
  <1>1. CASE weights = NoWeights
    <2>1. DOMAIN weights = {}
      BY <1>1 DEF NoWeights
    <2>2. weights = <<>>
      BY <1>1 DEF NoWeights
    <2>3. TrainedWeights = <<>>
      BY <2>1, <2>2 DEF TrainedWeights
    <2> QED BY <2>3 DEF NoWeights
  <1>2. CASE weights \in Arrays(global)
    <2> DEFINE c == ThreadCount(global)
               B == 0 .. Size(global) - 1
    <2>1. c \in Nat
      BY ArraySize
    <2>2. DOMAIN weights = 0 .. c - 1 /\ \A t \in 0 .. c - 1 : DOMAIN weights[t] = B
      BY <1>2 DEF Arrays
    <2>3. \A t \in 0 .. c - 1, j \in B : Trained(t + c * j) \in Int
      <3> SUFFICES ASSUME NEW t \in 0 .. c - 1, NEW j \in B PROVE Trained(t + c * j) \in Int
        OBVIOUS
      <3>1. t \in Int /\ j \in Int /\ c \in Int
        BY <2>1
      <3> HIDE DEF c, B
      <3>2. c * j \in Int
        BY <3>1
      <3> QED BY <3>1, <3>2 DEF Trained
    <2>4. TrainedWeights = [t \in 0 .. c - 1 |-> [j \in B |-> Trained(t + c * j)]]
      BY <1>2, <2>2 DEF TrainedWeights
    <2> HIDE DEF c, B
    <2>5. TrainedWeights \in [0 .. c - 1 -> [B -> Int]]
      BY <2>3, <2>4
    <2> QED BY <2>5 DEF Arrays, c, B
  <1> QED BY <1>1, <1>2

\* A model that was written is one that can be read.
LEMMA DumpGood ==
  ASSUME NEW s, SettingsFit(s), NEW w \in Arrays(s)
  PROVE  GoodFile(Dump(s, w)) /\ GoodFile(Readable(Dump(s, w)))
  <1> DEFINE d == Dump(s, w)
  <1>1. /\ d.entries = Entries(s, w) /\ d.num_bits = s.num_bits
        /\ d.thread_bits = s.thread_bits
    BY DEF Dump, Header
  <1>2. Entries(s, w) \in Seq(Pairs) /\ Distinct(Entries(s, w))
    BY DumpEntries
  <1>3. Readable(d).version = "text"
    BY DEF Readable, Dump, Header
  <1> HIDE DEF d
  <1>4. GoodFile(d)
    BY <1>1, <1>2 DEF GoodFile, SettingsFit
  <1>5. GoodFile(Readable(d))
    BY <1>3 DEF GoodFile, Current
  <1> QED BY <1>4, <1>5 DEF d

\* parse_regressor_args at the start.
LEMMA LoadStart ==
  ASSUME EnoughWeights, SessionInv, FilesInv, LoadInv, Start
  PROVE  LoadInv' /\ AsLoaded'
  <1> DEFINE weightless == Given(opt, "noop") \/ Given(opt, "sendto")
             r == ParseRegressorArgs(Settings(opt), InitialFiles, weightless)
  <1>1. /\ pc = "start" /\ UNCHANGED <<disk, scenario, session>> /\ done' = FALSE
        /\ pc' \in {"exited", "crashed", "sender", "noop", "nb", "cg", "lda", "gd"}
        /\ pc' \notin {"exited", "crashed"} =>
             ~r.refused /\ global' = SplitForHosts(opt, r.s) /\ weights' = r.weights
    BY DEF Start, files, FreshMemory, DriverOf
  <1>2. opt' = opt /\ InitialFiles' = InitialFiles
    BY <1>1 DEF opt, InitialFiles
  <1>3. opt \in Commands /\ opt.thread_bits <= BitsOfSource(opt)
    <2>1. opt \in Commands
      BY <1>1, TheCommand DEF Over
    <2>2. session \in DOMAIN scenario
      <3>1. scenario \in Seq(Commands)
        BY ScenarioAssumption DEF SessionInv
      <3> QED BY <1>1, <3>1 DEF SessionInv, Over
    <2> QED BY <2>1, <2>2 DEF EnoughWeights, SessionInv, opt
  <1>4. CASE pc' \in {"exited", "crashed"}
    BY <1>1, <1>4 DEF LoadInv, AsLoaded, Running, Over
  <1>5. CASE pc' \notin {"exited", "crashed"}
    <2> DEFINE n == Len(opt.initial)
    <2>1. opt.initial \in Seq(Models)
      BY <1>3 DEF Commands
    <2>2. /\ n \in Nat /\ DOMAIN InitialFiles = 1 .. n
          /\ InitialFiles = [k \in 1 .. n |-> InitialFiles[k]]
          /\ opt.initial # <<>> => n # 0
      BY <2>1 DEF InitialFiles
    <2>3. \A k \in 1 .. n : GoodFile(InitialFiles[k])
      BY <2>1 DEF InitialFiles, LoadInv
    <2>4. IsSettings(Settings(opt)) /\ weightless \in BOOLEAN
      BY <1>3, SettingsOfCommand DEF Given
    <2> HIDE DEF n, weightless
    <2>5. /\ IsSettings(r.s) /\ (r.weights = NoWeights \/ r.weights \in Arrays(r.s))
          /\ n # 0 => AddsUp(r.s, r.weights, InitialFiles)
      BY <1>1, <1>5, <2>2, <2>3, <2>4, StartResult
    <2> HIDE DEF r
    <2>6. /\ SettingsFit(global')
          /\ weights' = NoWeights \/ weights' \in Arrays(global')
          /\ n # 0 => AddsUp(global', weights', InitialFiles)
      BY <1>1, <1>5, <2>5, SplitKeeps
    <2>7. LoadInv'
      <3>1. /\ SettingsFit(global)'
            /\ (weights = NoWeights \/ weights \in Arrays(global))'
        BY <2>6
      <3>2. \A name \in Models : GoodFile(disk'[Final(name)])
        BY <1>1 DEF LoadInv
      <3> QED BY <1>1, <3>1, <3>2 DEF LoadInv
    <2>8. AsLoaded'
      <3>1. (opt.initial # <<>>)' => AddsUp(global', weights', InitialFiles')
        BY <1>2, <2>2, <2>6
      <3> QED BY <3>1 DEF AsLoaded
    <2> QED BY <2>7, <2>8
  <1> QED BY <1>4, <1>5

LEMMA LoadStep ==
  ASSUME NamesApart, EnoughWeights, SessionInv, FilesInv, LoadInv, AsLoaded, [Next]_vars
  PROVE  LoadInv' /\ AsLoaded'
  <1>1. CASE Start
    BY <1>1, LoadStart
  <1>2. CASE ~Start
    <2>1. /\ Running' => /\ Running /\ UNCHANGED global
                         /\ UNCHANGED weights \/ weights' = TrainedWeights
          /\ pc' \in {"dump_weights", "rename"} =>
               /\ UNCHANGED weights
               /\ pc \in {"dump_weights", "rename"} \/ weights # NoWeights
          /\ pc' \in {"nb_backup", "nb_write"} =>
               /\ done => done'
               /\ pc \in {"nb_backup", "nb_write"} \/ done
          /\ Running' /\ pc' \notin Ends /\ ~done' =>
               \/ pc = "nb_backup" /\ UNCHANGED done
               \/ /\ pc \notin Ends /\ ~done
                  /\ UNCHANGED <<disk, scenario, session, weights>>
      BY <1>2, WeightsFrame
    <2>2. Running' => /\ SettingsFit(global')
                      /\ weights' = NoWeights \/ weights' \in Arrays(global')
      <3> SUFFICES ASSUME Running'
                   PROVE  /\ SettingsFit(global')
                          /\ weights' = NoWeights \/ weights' \in Arrays(global')
        OBVIOUS
      <3>1. /\ SettingsFit(global) /\ global' = global
            /\ weights = NoWeights \/ weights \in Arrays(global)
            /\ weights' = weights \/ weights' = TrainedWeights
        BY <2>1 DEF LoadInv
      <3>2. TrainedWeights = NoWeights \/ TrainedWeights \in Arrays(global)
        BY <3>1, TrainedArrays
      <3> QED BY <3>1, <3>2
    <2>3. pc' \in {"dump_weights", "rename"} => weights' # NoWeights
      BY <2>1 DEF LoadInv
    <2>4. pc' \in {"nb_backup", "nb_write"} => done'
      BY <2>1 DEF LoadInv
    <2>5. ASSUME NEW name \in Models
          PROVE  GoodFile(disk'[Final(name)])
      <3>1. GoodFile(disk[Final(name)])
        BY DEF LoadInv
      <3>2. CASE disk'[Final(name)] = disk[Final(name)]
        BY <3>1, <3>2
      <3>3. CASE disk'[Final(name)] # disk[Final(name)]
        <4>1. disk'[Final(name)] \in WholeModel /\ Rename
          BY <3>3, ModelNamed
        <4>2. SettingsFit(global) /\ weights \in Arrays(global)
          BY <4>1 DEF Rename, LoadInv, Running, Over
        <4> QED BY <4>1, <4>2, DumpGood DEF WholeModel
      <3> QED BY <3>2, <3>3
    <2>6. AsLoaded'
      <3> SUFFICES ASSUME Running', pc' \notin Ends, ~done', (opt.initial # <<>>)'
                   PROVE  AddsUp(global', weights', InitialFiles')
        BY DEF AsLoaded
      <3>1. ~(pc = "nb_backup" /\ UNCHANGED done)
        BY DEF LoadInv
      <3>2. /\ Running /\ pc \notin Ends /\ ~done
            /\ UNCHANGED <<disk, scenario, session, weights, global>>
        BY <2>1, <3>1
      <3>3. opt' = opt /\ InitialFiles' = InitialFiles
        BY <3>2 DEF opt, InitialFiles
      <3>4. AddsUp(global, weights, InitialFiles)
        BY <3>2, <3>3 DEF AsLoaded
      <3> QED BY <3>2, <3>3, <3>4
    <2> QED BY <2>2, <2>3, <2>4, <2>5, <2>6 DEF LoadInv
  <1> QED BY <1>1, <1>2

\* The weights a run starts from are those its files were written from, each
\* where the learner looks for it, added up, over what initialize_regressor put
\* there: whatever runs, with however many threads and bits, wrote the files,
\* were killed or wrote over them.  (A command line with more threads than
\* weights gives a thread no array.)
THEOREM ModelsAddUp ==
  ASSUME NamesApart, EnoughWeights
  PROVE  Spec => []LoadedWeights
  <1> DEFINE Inv == SessionInv /\ FilesInv
             More == LoadInv /\ AsLoaded
  <1>1. Init => More
    <2> SUFFICES ASSUME Init PROVE More
      OBVIOUS
    <2>1. pc = "over"
      BY DEF Init
    <2>2. ASSUME NEW name \in Models
          PROVE  GoodFile(disk[Final(name)])
      <3>1. name \notin DOMAIN Earlier
        BY DEF NamesApart
      <3>2. disk[Final(name)] = NoFile
        BY <3>1, FileNames DEF Init
      <3> QED BY <3>2 DEF GoodFile, NoFile, Current
    <2> QED BY <2>1, <2>2 DEF LoadInv, AsLoaded, Running, Over
  <1>2. Inv /\ More /\ [Next]_vars => More'
    BY LoadStep
  <1>3. More => LoadedWeights
    <2> SUFFICES ASSUME More, Running, pc \notin Ends, ~done, opt.initial # <<>>,
                        Alone \/ global.stride = 1,
                        NEW i \in 0 .. Length(global) - 1
                 PROVE  IF global.lda = 0
         THEN WeightOf(global, weights, i) =
                InitialValue(global, global.stride * (i \div ThreadCount(global)))
                  + SumOf(InitialFiles, i)
         ELSE \A k \in 0 .. global.lda - 1 :
                TopicOf(global, weights, i, k) =
                  InitialValue(global, global.stride * i + k)
                    + SumOf(InitialFiles, global.stride * i + k)
      BY DEF LoadedWeights, Ends
    <2>1. SettingsFit(global) /\ AddsUp(global, weights, InitialFiles)
      BY DEF LoadInv, AsLoaded
    <2>2. global.thread_bits = 0 \/ global.stride = 1
      BY DEF Alone
    <2>3. CASE global.lda = 0
      <3>1. /\ Place(global, i) = global.stride * (i \div ThreadCount(global))
            /\ OwnPlace(global, i)
        BY <2>1, <2>2, <2>3, PlacedBack
      <3>2. weights[i % ThreadCount(global)][Place(global, i)] =
              InitialValue(global, Place(global, i)) + SumOf(InitialFiles, i)
        BY <2>1, <3>1 DEF AddsUp
      <3> QED BY <2>3, <3>1, <3>2 DEF WeightOf
    <2>4. CASE global.lda # 0
      <3> SUFFICES ASSUME NEW k \in 0 .. global.lda - 1
                   PROVE  TopicOf(global, weights, i, k) =
                            InitialValue(global, global.stride * i + k)
                              + SumOf(InitialFiles, global.stride * i + k)
        BY <2>4
      <3> DEFINE h == global.stride * i + k
      <3>1. /\ OwnPlace(global, h)
            /\ h % ThreadCount(global) = i % ThreadCount(global)
            /\ Place(global, h) = h \div ThreadCount(global)
            /\ h \div ThreadCount(global) = h
        BY <2>1, <2>2, TopicPlacedBack
      <3>2. weights[h % ThreadCount(global)][Place(global, h)] =
              InitialValue(global, Place(global, h)) + SumOf(InitialFiles, h)
        BY <2>1, <3>1 DEF AddsUp
      <3>3. TopicOf(global, weights, i, k) = weights[i % ThreadCount(global)][h \div ThreadCount(global)]
        BY DEF TopicOf
      <3> HIDE DEF h
      <3>4. TopicOf(global, weights, i, k) = InitialValue(global, h) + SumOf(InitialFiles, h)
        BY <3>1, <3>2, <3>3
      <3> QED BY <3>4 DEF h
    <2> QED BY <2>3, <2>4
  <1> HIDE DEF Inv, More
  <1>4. Spec => []Inv
    BY FilesKnown DEF Inv
  <1> QED BY <1>1, <1>2, <1>3, <1>4, PTL DEF Spec
=============================================================================
