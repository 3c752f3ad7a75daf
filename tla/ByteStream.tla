----------------------------- MODULE ByteStream -----------------------------
(***************************************************************************)
(* What a reader of an io_buf may rely on, with no buffer in it: the cells *)
(* of all open files one after the other.  A read takes as many cells as   *)
(* it asks for, or, at the end, those that are left.  A line is what comes *)
(* before the next terminal; what has no terminal is never handed out.     *)
(***************************************************************************)
EXTENDS Integers, Sequences

CONSTANTS Newline   \* the terminal
VARIABLES
  rest,      \* what is still to be read
  call,      \* the call that is waiting for its answer, "none" if there is none
  answer     \* what the last call returned

stream == <<rest, call, answer>>

None == [op |-> "none", n |-> 0]

Newlines == {i \in 1 .. Len(rest) : rest[i] = Newline}
First(S) == CHOOSE i \in S : \A j \in S : i <= j

\* The reader asks for something, or is killed before it is answered, or the
\* files are opened or rewound.
Ask == call = None /\ call' # None /\ UNCHANGED <<rest, answer>>
Drop == call # None /\ call' = None /\ UNCHANGED <<rest, answer>>
Reopen == call = None /\ UNCHANGED <<call, answer>>

Read ==
  LET n == IF call.n <= Len(rest) THEN call.n ELSE Len(rest)
  IN  /\ call.op = "buf_read"
      /\ answer' = SubSeq(rest, 1, n)
      /\ rest' = SubSeq(rest, n + 1, Len(rest))
      /\ call' = None

ReadLine ==
  /\ call.op = "readto"
  /\ IF Newlines = {}
       THEN answer' = <<>> /\ UNCHANGED rest
       ELSE /\ answer' = SubSeq(rest, 1, First(Newlines) - 1)
            /\ rest' = SubSeq(rest, First(Newlines) + 1, Len(rest))
  /\ call' = None

Next == Ask \/ Drop \/ Read \/ ReadLine \/ Reopen

Spec == [][Next]_stream
=============================================================================
