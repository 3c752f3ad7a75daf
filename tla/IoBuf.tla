-------------------------------- MODULE IoBuf --------------------------------
(***************************************************************************)
(* The buffered files of io.h and io.cc, through which the parser reads    *)
(* text and caches and writes caches.  A cell stands for a byte, a float   *)
(* or a size_t; read(2) may return any number of cells up to those asked   *)
(* for.  buf_read and readto call themselves until they have an answer:    *)
(* every round is an action.  comp_io.h differs in the files only, which   *)
(* it decompresses.                                                        *)
(***************************************************************************)
EXTENDS Integers, Sequences, SequencesExt

CONSTANTS
  BufferSize,   \* the initial size of space (1 << 16 in the code)
  Newline       \* the cell readto looks for

ASSUME BufferAssumption == BufferSize \in Nat \ {0}

VARIABLES
  loaded,      \* space.begin .. endloaded
  end,         \* space.end - space.begin: how much of it was handed out
  end_array,   \* space.end_array - space.begin
  files,       \* what is unread of each open file
  current,     \* the file being read (from 1)
  call, answer \* the call in progress and what the last one returned

inputVars == <<loaded, end, end_array, files, current, call, answer>>

NoCall == [op |-> "none", n |-> 0]

\* Rounds of a call that slip: the rest is not kept when it is moved to the
\* front, and a buffer that is full is filled from its beginning.
KeepNothing(op) == <<>>
NeverFull(kept) == FALSE

Unread == SubSeq(loaded, end + 1, Len(loaded))

BufRead(n) == call' = [op |-> "buf_read", n |-> n]
ReadTo == call' = [op |-> "readto", n |-> 0]

HasLine == \E i \in end + 1 .. Len(loaded) : loaded[i] = Newline
LineEnd == CHOOSE i \in end + 1 .. Len(loaded) :
             loaded[i] = Newline /\ \A j \in end + 1 .. i - 1 : loaded[j] # Newline

\* Enough is loaded: hand it out.
Serve ==
  /\ \/ /\ call.op = "buf_read"
        /\ end + call.n <= Len(loaded)
        /\ answer' = SubSeq(loaded, end + 1, end + call.n)
        /\ end' = end + call.n
     \/ /\ call.op = "readto"
        /\ HasLine
        /\ answer' = SubSeq(loaded, end + 1, LineEnd - 1)
        /\ end' = LineEnd
  /\ call' = NoCall
  /\ UNCHANGED <<loaded, end_array, files, current>>

Short ==
  \/ call.op = "buf_read" /\ end + call.n > Len(loaded)
  \/ call.op = "readto" /\ ~HasLine

\* What is unread is moved to the front: by buf_read always, by readto only
\* if there is no room behind it.
Shifts(op) == op = "buf_read" \/ Len(loaded) = end_array
Kept(op) == IF Shifts(op) THEN Unread ELSE loaded

Full(kept) == Len(kept) = end_array

\* fill: a full buffer is doubled first.
Room(kept) == IF Full(kept) THEN 2 * end_array ELSE end_array

MoveUp ==
  /\ end' = IF Shifts(call.op) THEN 0 ELSE end
  /\ end_array' = Room(Kept(call.op))

\* fill got something: another round.
Fill ==
  /\ Short
  /\ current <= Len(files)
  /\ MoveUp
  /\ \E k \in 1 .. Len(files[current]) :
       /\ Len(Kept(call.op)) + k <= Room(Kept(call.op))
       /\ loaded' = Kept(call.op) \o SubSeq(files[current], 1, k)
       /\ files' = [files EXCEPT ![current] = SubSeq(@, k + 1, Len(@))]
  /\ UNCHANGED <<current, call, answer>>

\* The file is at its end: go on with the next, or return what there is, a
\* whole number of cells for buf_read, nothing for readto.
EndOfFile ==
  /\ Short
  /\ current <= Len(files)
  /\ files[current] = <<>>
  /\ MoveUp
  /\ loaded' = Kept(call.op)
  /\ current' = current + 1
  /\ UNCHANGED files

NextFile == EndOfFile /\ current < Len(files) /\ UNCHANGED <<call, answer>>

NoMore ==
  /\ Short
  /\ current = Len(files)
  /\ files[current] = <<>>
  /\ end_array' = Room(Kept(call.op))
  /\ loaded' = Kept(call.op)
  /\ current' = current + 1
  /\ IF call.op = "buf_read"
       THEN answer' = Unread /\ end' = Len(Unread)
       ELSE answer' = <<>> /\ end' = IF Shifts(call.op) THEN 0 ELSE end
  /\ call' = NoCall
  /\ UNCHANGED files

\* init and reset_file: the buffer starts empty, the first file is current.
\* The slip: the files start over, but the last one stays current.
RewoundInPlace(contents) ==
  loaded' = <<>> /\ end' = 0 /\ files' = contents /\ UNCHANGED current
Rewound(contents) ==
  /\ loaded' = <<>>
  /\ end' = 0
  /\ files' = contents
  /\ current' = 1

BufStep == Serve \/ Fill \/ NextFile \/ NoMore

-----------------------------------------------------------------------------
(* The side that writes: out.space, of out.size cells, and what was written *)
(* to the file behind it.                                                   *)

Doubled(size, n) ==
  LET doubled[s \in Nat] == IF n <= s THEN s ELSE doubled[2 * s] IN doubled[size]

\* flush: all of space goes to the file.
Flush(out) == [out EXCEPT !.file = @ \o out.space, !.space = <<>>]

\* buf_write of piece.room cells, of which piece.cells are then filled and set:
\* what does not fit is preceded by a flush, and an empty buffer that is too
\* short is doubled.
BufWrite(out, piece) ==
  LET o == IF Len(out.space) + piece.room <= out.size THEN out ELSE Flush(out)
  IN  [o EXCEPT !.space = @ \o piece.cells, !.size = Doubled(@, piece.room)]
=============================================================================
