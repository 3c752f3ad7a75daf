------------------------------ MODULE InputPath ------------------------------
(***************************************************************************)
(* From the files to the learner: parse_source_args, the readers, the      *)
(* writing of a cache and reset_source, over several runs of the program   *)
(* ("sessions") on one disk.  The program may be killed at any step.       *)
(*                                                                         *)
(* A scenario is a text, the options of each session, and the caches an    *)
(* older version left on the disk.  One example slot is enough: the ring   *)
(* is the subject of ExampleRing, and so is initial_pass_length.           *)
(***************************************************************************)
EXTENDS FiniteSets, IoBuf, CacheFormat, TextExample, ExampleSetup

CONSTANTS
  Scenarios,    \* records [text, sessions, old]; a text is a sequence of lines,
                \* of one cell each, and terminals
  Line,         \* what is on a line
  CacheNames,
  DefaultBits   \* num_bits when neither option nor cache says otherwise

\* What a session may be asked for.  parse_args refuses more bits, and n-grams of
\* sorted features; bits are 0 if it is not told how many.
Session ==
  {s \in [caches : Seq(CacheNames), bits : 0 .. MaxBits, sort : BOOLEAN, ngram : Nat \ {0},
          skips : Nat, ignore : SUBSET Namespaces, add_constant : BOOLEAN,
          stride : Nat \ {0}, partition_bits : Nat, passes : Nat \ {0},
          writable : BOOLEAN] :
     s.sort => s.ngram = 1}

Channel == [ns : Namespaces \ {ConstantNamespace}, scale : Int,
            words : Seq([name : Int, x : Int])]

\* No line uses the namespace of the constant.
ASSUME LineAssumption ==
  /\ \A l \in DOMAIN Line : Line[l] \in [bar : BOOLEAN, words : Seq(Int),
                                       touching : BOOLEAN, channels : Seq(Channel)]
  /\ DOMAIN Line \subseteq Int /\ Newline \in Int \ DOMAIN Line
  /\ {FltMax, NaN, Constant, QuadraticConstant} \subseteq Int
  /\ NamespaceHash \in [Namespaces -> Int] /\ ConstantNamespace \in Namespaces
  /\ Namespaces \subseteq Int /\ DefaultBits \in 0 .. MaxBits

ASSUME ScenarioAssumption ==
  /\ Scenarios \subseteq [text : Seq(DOMAIN Line \cup {Newline}),
                          sessions : Seq(Session), old : SUBSET CacheNames]
  /\ \A s \in Scenarios : \A i \in 1 .. Len(s.text) - 1 :
       s.text[i] # Newline => s.text[i + 1] = Newline

VARIABLES
  disk,              \* what each file holds, <<>> if there is none
  scenario, session, \* what is given, and whose turn it is
  num_bits,          \* global.num_bits
  par,               \* reader, write_cache, sorted_cache, resettable
  opened,            \* the caches in input->files, <<>> when text is read
  out, finalname,    \* output: its buffer and file, and the name of the cache
  pc,                \* where the parser thread is
  ae,                \* the slot
  left, wanted,      \* of read_cached_features: num_indices, what it asked for,
  coded,             \* the cells it has to decode, and the index it counts from
  example_number, passes_complete

processVars == <<num_bits, par, opened, out, finalname, example_number, passes_complete>>
readerVars == <<ae, left, wanted, coded>>
vars == <<inputVars, disk, scenario, session, processVars, pc, readerVars>>

opt == scenario.sessions[session]
Mask == Pow2[num_bits] - 1

Final(name) == [name |-> name, writing |-> FALSE]
Temp(name) == [name |-> name, writing |-> TRUE]
Files == [name : CacheNames, writing : BOOLEAN]

EmptySlot ==
  [label |-> FltMax, weight |-> 1, initial |-> 0, tag |-> <<>>, indices |-> <<>>,
   atomics |-> [ns \in Namespaces |-> <<>>], subsets |-> [ns \in Namespaces |-> <<>>],
   sorted |-> FALSE]

Version == 1
OldVersion == 2
Header(bits) == <<Version, bits>>
Contents(d, name) == SubSeq(d[Final(name)], 3, Len(d[Final(name)]))

NothingCoded == [cells |-> <<>>, last |-> 0]
NewParser == [reader |-> "text", write_cache |-> FALSE, sorted_cache |-> FALSE,
              resettable |-> FALSE]
NewOutput == [space |-> <<>>, size |-> BufferSize, file |-> <<>>]

Init ==
  /\ scenario \in Scenarios
  /\ disk = [f \in Files |-> IF ~f.writing /\ f.name \in scenario.old
                               THEN <<OldVersion, DefaultBits>> ELSE <<>>]
  /\ session = 0
  /\ loaded = <<>> /\ end = 0 /\ end_array = BufferSize /\ files = <<>> /\ current = 1
  /\ call = NoCall /\ answer = <<>>
  /\ num_bits = DefaultBits /\ par = NewParser /\ opened = <<>>
  /\ out = NewOutput /\ finalname = "none"
  /\ pc = "done"
  /\ ae = EmptySlot /\ left = 0 /\ wanted = 0 /\ coded = NothingCoded
  /\ example_number = 0 /\ passes_complete = 0

-----------------------------------------------------------------------------
(* parse_cache and parse_source_args.                                      *)

\* The number of bits a cache was made with, 0 if another version made it.  Its header
\* is there: it is written to the temporary name, which a whole pass precedes the
\* renaming of.  So the branches for a length that is no version's and for a file
\* that ends in its header are not taken, by any file of this or an older version.
CacheNumbits(content) == IF content[1] = Version THEN content[2] ELSE 0

\* A second cache to write is not written; one that cannot be created neither.
MakeWriteCache(s, name) ==
  IF s.finalname # "none" \/ ~opt.writable THEN s
  ELSE [s EXCEPT !.finalname = name, !.out.file = Header(s.num_bits),
                 !.disk[Temp(name)] = Header(s.num_bits), !.par.write_cache = TRUE]

\* The features of a cache of more bits are not in order once they are masked.
TakesWord(c, bits) == TRUE
SortedCache(c, bits) == c = bits

\* A cache of fewer bits than asked for is made again.
OpenCache(s, name) ==
  LET c    == CacheNumbits(s.disk[Final(name)])
      bits == IF opt.bits = 0 THEN c ELSE s.num_bits
  IN  IF s.disk[Final(name)] = <<>> THEN MakeWriteCache(s, name)
      ELSE IF c < bits THEN MakeWriteCache([s EXCEPT !.num_bits = bits], name)
      ELSE [s EXCEPT !.num_bits = bits, !.opened = Append(@, name),
                     !.par.reader = "cache", !.par.sorted_cache = SortedCache(c, bits),
                     !.par.resettable = TRUE]

\* The state parse_cache leaves behind.
AfterCaches ==
  FoldLeft(OpenCache,
           [num_bits |-> IF opt.bits = 0 THEN DefaultBits ELSE opt.bits,
            par |-> NewParser, opened |-> <<>>, out |-> NewOutput,
            finalname |-> "none", disk |-> disk],
           opt.caches)

\* The program is started once the last session is over.
Launch ==
  /\ pc \in {"done", "exited", "killed"}
  /\ session < Len(scenario.sessions)
  /\ session' = session + 1
  /\ pc' = "start"
  /\ UNCHANGED <<inputVars, disk, scenario, processVars, readerVars>>

\* Caches are preferred to the text; several passes need something to rewind.
Start ==
  /\ pc = "start"
  /\ num_bits' = AfterCaches.num_bits
  /\ opened' = AfterCaches.opened
  /\ out' = AfterCaches.out /\ finalname' = AfterCaches.finalname
  /\ disk' = AfterCaches.disk
  /\ par' = [AfterCaches.par EXCEPT
               !.resettable = @ \/ AfterCaches.par.write_cache]
  /\ Rewound(IF opened' = <<>> THEN <<scenario.text>>
             ELSE [i \in DOMAIN opened' |-> Contents(disk, opened'[i])])
  /\ end_array' = BufferSize
  /\ pc' = IF opt.passes > 1 /\ ~par'.resettable THEN "exited" ELSE "fetch"
  /\ ae' = EmptySlot /\ left' = 0 /\ wanted' = 0 /\ coded' = NothingCoded
  /\ example_number' = 0 /\ passes_complete' = 0
  /\ UNCHANGED <<scenario, session, call, answer>>

-----------------------------------------------------------------------------
(* The readers.  Each asks for cells and goes on when it is answered.      *)

Same == UNCHANGED <<disk, scenario, session, processVars>>
Buffered == UNCHANGED <<loaded, end, end_array, files, current, answer>>

Want(n) == BufRead(n) /\ wanted' = n

\* parse_atomic_example clears the slot and calls the reader.
Fetch ==
  /\ pc = "fetch"
  /\ \/ /\ par.reader = "text"
        /\ ReadTo /\ pc' = "line" /\ ae' = Clear(ae) /\ UNCHANGED wanted
     \/ /\ par.reader = "cache"
        /\ Want(2) /\ pc' = "label"
        /\ ae' = [Clear(ae) EXCEPT !.sorted = par.sorted_cache]
  /\ UNCHANGED <<left, coded>>
  /\ Same /\ Buffered

\* The parser waits in a call of io_buf.
InCall == BufStep /\ UNCHANGED <<disk, scenario, session, processVars, pc, readerVars>>

\* read_features.  A line of no characters ends the pass.
GotLine ==
  /\ pc = "line" /\ call = NoCall
  /\ IF answer = <<>> THEN pc' = "reset" /\ UNCHANGED ae
     ELSE IF HasNaN(Line[answer[1]]) THEN pc' = "exited" /\ UNCHANGED ae
     ELSE pc' = "read" /\ ae' = ReadFeatures(ae, Line[answer[1]], Mask)
  /\ UNCHANGED <<inputVars, left, wanted, coded>> /\ Same

\* read_cached_features: a part of the example has arrived whole, or the
\* reader gives up.
Got(part, Then) ==
  /\ pc = part /\ call = NoCall
  /\ IF Len(answer) < wanted
       THEN pc' = "reset" /\ UNCHANGED <<call, readerVars>>
       ELSE Then
  /\ Same /\ Buffered

\* bufread_simple_label takes a third float from behind the two it asked for:
\* what is loaded there, or what the buffer was cleared to.
GotLabel ==
  Got("label",
    /\ ae' = [ae EXCEPT !.label = answer[1], !.weight = answer[2],
                        !.initial = IF end < Len(loaded) THEN loaded[end + 1] ELSE 0]
    /\ pc' = "tag_size" /\ Want(1) /\ UNCHANGED <<left, coded>>)

GotTagSize ==
  Got("tag_size", pc' = "tag" /\ Want(answer[1]) /\ UNCHANGED <<ae, left, coded>>)

GotTag ==
  Got("tag",
    /\ ae' = [ae EXCEPT !.tag = answer]
    /\ pc' = "num_indices" /\ Want(1) /\ UNCHANGED <<left, coded>>)

NextNamespace(n) ==
  /\ left' = n
  /\ IF n > 0 THEN pc' = "index" /\ Want(2)
              ELSE pc' = "read" /\ UNCHANGED <<call, wanted>>

GotNumIndices == Got("num_indices", NextNamespace(answer[1]) /\ UNCHANGED <<ae, coded>>)

GotIndex ==
  Got("index",
    /\ ae' = [ae EXCEPT !.indices = Append(@, answer[1])]
    /\ pc' = "features" /\ Want(answer[2]) /\ UNCHANGED <<left, coded>>)

GotFeatures ==
  Got("features",
    /\ coded' = [cells |-> answer, last |-> 0] /\ pc' = "decode"
    /\ UNCHANGED <<call, wanted, ae, left>>)

\* The index that is kept is masked, the one that is counted from is not.  A
\* step back in the order withdraws the promise of sorted_cache.
Decode ==
  /\ pc = "decode"
  /\ IF coded.cells = <<>>
       THEN NextNamespace(left - 1) /\ UNCHANGED <<ae, coded>>
       ELSE LET f == DecodeFeature(coded.cells, coded.last)
            IN  /\ ae' = [ae EXCEPT
                     !.atomics[Last(ae.indices)] =
                        Append(@, [x |-> f.x, weight_index |-> f.weight_index % (Mask + 1)]),
                     !.sorted = @ /\ ~f.backwards]
                /\ coded' = [cells |-> f.behind, last |-> f.weight_index]
                /\ UNCHANGED <<pc, call, left, wanted>>
  /\ Same /\ Buffered

-----------------------------------------------------------------------------
(* The rest of parse_atomic_example, and setup_example.                    *)

NeedsSort(e) == opt.sort /\ ~e.sorted

Sorted(e) == IF NeedsSort(e) THEN UniqueSortFeatures(e) ELSE {e}

\* The order of the three matters: a cache holds features in order, no grams.
Cached(e) == IF par.write_cache THEN FoldLeft(BufWrite, out, CacheExample(e)) ELSE out

Grams(e) == IF opt.ngram > 1 THEN GenerateGrams(e, opt.ngram, opt.skips, Mask) ELSE e

Prepare ==
  /\ pc = "read"
  /\ \E e \in Sorted(ae) :
       IF par.write_cache /\ CannotCache(e)
         THEN pc' = "exited" /\ UNCHANGED <<ae, out, disk, example_number>>
         ELSE /\ out' = Cached(e)
              /\ disk' = IF par.write_cache THEN [disk EXCEPT ![Temp(finalname)] = out'.file]
                                            ELSE disk
              /\ ae' = SetupExample(Grams(e), opt, Mask)
              /\ example_number' = example_number + 1
              /\ pc' = "fetch"
  /\ UNCHANGED <<inputVars, scenario, session, num_bits, par, opened, finalname,
                 passes_complete, left, wanted, coded>>

-----------------------------------------------------------------------------
(* The end of a pass: reset_source.                                        *)

\* The slip: the file is closed and renamed, but not flushed.
RenamedUnflushed(d) ==
  [d EXCEPT ![Final(finalname)] = out.file, ![Temp(finalname)] = <<>>]

\* The cache just written is flushed, takes its name and is read from now on.
Renamed(d) ==
  [d EXCEPT ![Final(finalname)] = Flush(out).file, ![Temp(finalname)] = <<>>]
EndPass ==
  /\ pc = "reset"
  /\ disk' = IF par.write_cache THEN Renamed(disk) ELSE disk
  /\ opened' = IF par.write_cache THEN <<finalname>> ELSE opened
  /\ out' = IF par.write_cache THEN Flush(out) ELSE out
  /\ finalname' = IF par.write_cache THEN "none" ELSE finalname
  /\ par' = IF par.write_cache THEN [par EXCEPT !.write_cache = FALSE, !.reader = "cache"]
                               ELSE par
  /\ IF par.resettable
       THEN Rewound([i \in DOMAIN opened' |-> Contents(disk', opened'[i])])
       ELSE current' = 1 /\ UNCHANGED <<loaded, end, files>>
  /\ passes_complete' = passes_complete + 1
  /\ example_number' = 0
  /\ pc' = IF par.resettable /\ \E i \in DOMAIN opened' :
                CacheNumbits(disk'[Final(opened'[i])]) < num_bits
             THEN "exited"    \* "argh, a bug in caching of some sort!"
             ELSE IF passes_complete' >= opt.passes THEN "done" ELSE "fetch"
  /\ UNCHANGED <<end_array, call, answer, scenario, session, num_bits, readerVars>>

Running == pc \notin {"start", "done", "exited", "killed"}

Kill ==
  /\ Running
  /\ pc' = "killed" /\ call' = NoCall
  /\ UNCHANGED readerVars /\ Same /\ Buffered

Over == session = Len(scenario.sessions) /\ pc \in {"done", "exited", "killed"}
Finished == Over /\ UNCHANGED vars

Step ==
  \/ Launch \/ Start \/ Fetch \/ InCall
  \/ GotLine \/ GotLabel \/ GotTagSize \/ GotTag \/ GotNumIndices \/ GotIndex
  \/ GotFeatures \/ Decode \/ Prepare \/ EndPass

Next == Step \/ Kill \/ Finished

Spec == Init /\ [][Next]_vars
FairSpec == Spec /\ WF_vars(Step)

-----------------------------------------------------------------------------
(* What is expected of all this.                                           *)

\* The lines a pass reads: up to an empty line; what no terminal ends is lost.
IsLine(t, k) == 2 * k <= Len(t) /\ t[2 * k - 1] # Newline /\ t[2 * k] = Newline
LineCount(t) ==
  CHOOSE n \in 0 .. Len(t) : (\A k \in 1 .. n : IsLine(t, k)) /\ ~IsLine(t, n + 1)
Lines == [k \in 1 .. LineCount(scenario.text) |-> scenario.text[2 * k - 1]]

FromText(line, bits, sort) ==
  LET e == ReadFeatures(EmptySlot, Line[line], Pow2[bits] - 1)
  IN  IF sort THEN UniqueSortFeatures(e) ELSE {e}

\* The examples the n-th of a pass may be.
Expected(n) ==
  {SetupExample(Grams(e), opt, Mask) :
     e \in FromText(Lines[((n - 1) % Len(Lines)) + 1], num_bits, opt.sort)}

Delivered == pc = "fetch" /\ example_number > 0

\* Whether an example was read from the text, in this pass or an earlier one,
\* or from a cache that this session or an earlier one wrote, with as many
\* bits or more, the learner gets the same: nothing of the slot's last example
\* is left, the codec loses nothing, no line is skipped or repeated.  (`initial`
\* is not in a cache, and sorted may differ.)
Transparent ==
  Delivered =>
    \E e \in Expected(example_number) :
      [e EXCEPT !.initial = ae.initial, !.sorted = ae.sorted] = ae

\* Every pass reads all lines, from whatever it reads them.
WholePass ==
  pc = "reset" =>
    example_number = Len(Lines) * (IF opened = <<>> THEN 1 ELSE Len(opened))

\* What has the name of a cache is a whole cache, wherever the program that
\* wrote it was killed.
WholeBodies(bits, sort) ==
  FoldLeft(LAMBDA bodies, line :
             {body \o FlattenSeq([i \in DOMAIN CacheExample(e) |-> CacheExample(e)[i].cells]) :
                body \in bodies, e \in FromText(line, bits, sort)},
           {<<>>}, Lines)
CacheWhole ==
  \A name \in CacheNames :
    LET content == disk[Final(name)]
    IN  content # <<>> /\ content[1] = Version =>
          \E sort \in BOOLEAN : Contents(disk, name) \in WholeBodies(content[2], sort)

InOrder ==
  \A ns \in ToSet(ae.indices) :
    \A i \in 1 .. Len(ae.atomics[ns]) - 1 :
      ae.atomics[ns][i].weight_index <= ae.atomics[ns][i + 1].weight_index

\* What parse_atomic_example does not sort because its reader claims that it is
\* sorted already is in order, whatever cache it was read from.
SortedWhenClaimed == pc = "read" /\ ae.sorted => InOrder

\* The cuts give every feature to one thread; with --sort_features, to the
\* thread that owns its weight, so that no two threads write the same weight.
ThreadsShareOut ==
  Delivered =>
    \A ns \in ToSet(ae.indices) :
      LET fs   == ae.atomics[ns]
          cuts == ae.subsets[ns]
          size == ExpertSize(Mask + 1, opt.stride, opt.partition_bits)
      IN  /\ Len(cuts) = Pow2[opt.partition_bits] + 1
          /\ cuts[1] = 1 /\ Last(cuts) = Len(fs) + 1
          /\ \A t \in 1 .. Len(cuts) - 1 :
               /\ cuts[t] <= cuts[t + 1]
               /\ opt.sort => \A i \in cuts[t] .. cuts[t + 1] - 1 :
                                fs[i].weight_index \div size = t - 1

\* The k-skip-n-grams of a namespace, from parse_atomic_example to the learner: its
\* words are followed by one feature for each choice of n of them, and no other,
\* with the index of those words joined.  A choice is the place of its first word
\* and the offsets of all from there.
Offsets(n, skips) ==
  {m \in [1 .. n -> 0 .. n - 1 + skips] :
     m[1] = 0 /\ \A i \in 1 .. n - 1 : m[i] < m[i + 1]}
GramsOver(fs, offsets) == {c \in (DOMAIN fs) \X offsets : c[1] + Last(c[2]) <= Len(fs)}
Followed(features, fs, offsets) ==
  LET chosen   == GramsOver(fs, offsets)
      index(c) == (Joined(fs, c[2], c[1]) % (Mask + 1)) * opt.stride
      grams    == Len(fs) + 1 .. Len(features)
  IN  /\ Len(features) = Len(fs) + Cardinality(chosen)
      /\ \A i \in DOMAIN fs :
           features[i] = [fs[i] EXCEPT !.weight_index = @ * opt.stride]
      /\ \A i \in grams : features[i].x = 1
      /\ \A c \in chosen :
           Cardinality({i \in grams : features[i].weight_index = index(c)})
             = Cardinality({d \in chosen : index(d) = index(c)})
FollowedByGrams ==
  \E e \in Sorted(ae) : \A ns \in ToSet(ae'.indices) \ {ConstantNamespace} :
    Followed(ae'.atomics[ns], e.atomics[ns],
             UNION {Offsets(n, opt.skips) : n \in 2 .. opt.ngram})

\* No gram is lost, made twice or reaches over its namespace, and all of one gram's
\* words together skip at most `skips`: addgrams takes one from skip_gram for each
\* (parser.cc:552) and passes the rest on.  This is not what the comment above
\* generateGrams says.  Its 1-skip-3-grams of a, b, c, d, e and f have ace and bdf
\* (parser.cc:564), one skip in each gap; the code makes neither of these, so here
\* the offsets <<0, 2, 4>> are none of Offsets(3, 1).
GramsWithinSkips ==
  [][pc = "read" /\ pc' = "fetch" => FollowedByGrams]_vars

\* A reader that needs more has an open file to read: after the last one is
\* exhausted, nothing is read before reset_source goes back to the first.
ReadsOpenFile == Short => current \in DOMAIN files

\* What is written to the buffer between buf_write and set fits in what was
\* asked for, whatever the differences and values of the features.
OutFits ==
  pc = "read" =>
    \A e \in Sorted(ae) : \A piece \in ToSet(CacheExample(e)) :
      Len(piece.cells) <= piece.room

\* However the buffer is cut, moved and grown, the readers are served from the
\* sequence of all cells of the open files.
Stream == INSTANCE ByteStream
            WITH rest <- Unread \o FlattenSeq(SubSeq(files, current, Len(files)))
ImplementsStream == Stream!Spec

\* Every session ends, if the operating system goes on.
SessionsEnd == <>Over
=============================================================================
