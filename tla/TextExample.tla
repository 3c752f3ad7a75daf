----------------------------- MODULE TextExample -----------------------------
(***************************************************************************)
(* A line of text becomes an example (parse_example.cc, tokenize, the text *)
(* half of simple_label.cc).  A line is what tokenize makes of it: whether *)
(* it starts with a bar; the words before the first bar, and whether the   *)
(* last of them touches it; for every channel the namespace, its scale and *)
(* its words.  Names are numbers, which hashstring adds to the hash of the *)
(* namespace (other names go through uniform_hash, a hash like any other). *)
(***************************************************************************)
EXTENDS Integers, Sequences, SequencesExt

CONSTANTS
  Namespaces,      \* first characters of namespaces, as numbers
  Anonymous,       \* ' '
  NamespaceHash,   \* the hash of each namespace's name
  FltMax,          \* the label of an unlabelled example
  NaN              \* a value float_of_substring does not understand

ASSUME AnonymousAssumption == Anonymous \in Namespaces

-----------------------------------------------------------------------------
(* Labels.                                                                 *)

\* `initial` keeps the value of the slot's last example.
DefaultLabel(ae) == [ae EXCEPT !.label = FltMax, !.weight = 1]

ParseLabel(ae, words) ==
  CASE Len(words) = 1 -> [ae EXCEPT !.label = words[1]]
    [] Len(words) = 2 -> [ae EXCEPT !.label = words[1], !.weight = words[2]]
    [] Len(words) = 3 -> [ae EXCEPT !.label = words[1], !.weight = words[2],
                                    !.initial = words[3]]
    [] OTHER -> ae    \* none, or a complaint

\* The last word before the bar is the tag if nothing is between them.
HasTag(line) == ~line.bar /\ line.words # <<>> /\ line.touching

LabelOf(ae, line) ==
  IF line.bar THEN ae
  ELSE IF HasTag(line)
    THEN ParseLabel([ae EXCEPT !.tag = <<Last(line.words)>>], Front(line.words))
    ELSE ParseLabel(ae, line.words)

-----------------------------------------------------------------------------
(* Features.                                                               *)

ChannelHash(ns) == IF ns = Anonymous THEN 0 ELSE NamespaceHash[ns]

HashString(name, hash) == name + hash

ChannelFeatures(channel, mask) ==
  [i \in 1 .. Len(channel.words) |->
     [x |-> channel.words[i].x * channel.scale,
      weight_index |->
        HashString(channel.words[i].name, ChannelHash(channel.ns)) % (mask + 1)]]

\* A namespace is listed once: when its first features arrive.
AddChannel(ae, channel, mask) ==
  LET fs == ChannelFeatures(channel, mask)
  IN  [ae EXCEPT
         !.atomics[channel.ns] = @ \o fs,
         !.indices = IF ae.atomics[channel.ns] = <<>> /\ fs # <<>>
                       THEN Append(@, channel.ns) ELSE @]

\* feature_value ends the program.
HasNaN(line) ==
  \E channel \in ToSet(line.channels) :
    channel.scale = NaN \/ \E word \in ToSet(channel.words) : word.x = NaN

ReadFeatures(ae, line, mask) ==
  FoldLeft(LAMBDA a, channel : AddChannel(a, channel, mask),
           LabelOf(DefaultLabel(ae), line), line.channels)
=============================================================================
