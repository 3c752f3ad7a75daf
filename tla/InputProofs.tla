----------------------------- MODULE InputProofs -----------------------------
(***************************************************************************)
(* Proofs about the input path, for every buffer size, text, sequence of   *)
(* sessions and way in which read(2) cuts the files: the buffer of IoBuf   *)
(* is the stream of ByteStream, and the readers never ask it for more once *)
(* the last file has ended; what has the name of a cache is a whole one,   *)
(* every pass delivers the text, and the learner cannot tell from what an  *)
(* example was read.                                                       *)
(***************************************************************************)
EXTENDS ExampleProofs

\* What the types of the code say of the files, and of the sizes that are read
\* from a cache (size_t and char), in the model plain numbers.
Cells == \A f \in Files : disk[f] \in Seq(Int)
Sizes == call.n \in Nat

-----------------------------------------------------------------------------
(* The buffer                                                              *)

BufferInv ==
  /\ loaded \in Seq(Int) /\ files \in Seq(Seq(Int)) /\ answer \in Seq(Int)
  /\ end \in 0 .. Len(loaded)
  /\ current \in 1 .. Len(files) + 1
  /\ call = NoCall \/ call = [op |-> "readto", n |-> 0] \/ call.op = "buf_read"

\* What is still to be read: the rest of the buffer, then that of the files.
Behind == FlatFrom(files, current)
Rest == Unread \o Behind

LEMMA RestProperties ==
  ASSUME BufferInv
  PROVE  /\ Unread \in Seq(Int) /\ Len(Unread) = Len(loaded) - end
         /\ \A i \in 1 .. Len(loaded) - end : Unread[i] = loaded[end + i]
         /\ Behind \in Seq(Int)
         /\ Rest \in Seq(Int) /\ Len(Rest) = (Len(loaded) - end) + Len(Behind)
         /\ \A i \in 1 .. Len(loaded) - end : Rest[i] = loaded[end + i]
  <1>1. /\ Unread \in Seq(Int) /\ Len(Unread) = Len(loaded) - end
        /\ \A i \in 1 .. Len(loaded) - end : Unread[i] = loaded[end + i]
    BY SuffixProperties DEF BufferInv, Unread
  <1>2. Behind \in Seq(Int)
    BY FlatFromType DEF BufferInv, Behind
  <1>3. /\ Unread \o Behind \in Seq(Int)
        /\ Len(Unread \o Behind) = Len(Unread) + Len(Behind)
        /\ \A i \in 1 .. Len(Unread) + Len(Behind) :
             (Unread \o Behind)[i] = IF i <= Len(Unread) THEN Unread[i]
                                                        ELSE Behind[i - Len(Unread)]
    BY <1>1, <1>2, ConcatProperties
  <1>4. ASSUME NEW i \in 1 .. Len(loaded) - end PROVE Rest[i] = loaded[end + i]
    <2>1. Len(Unread) \in Nat /\ Len(Behind) \in Nat
      BY <1>1, <1>2
    <2>2. i \in 1 .. Len(Unread) + Len(Behind) /\ i <= Len(Unread)
      BY <1>1, <2>1 DEF BufferInv
    <2> QED BY <1>1, <1>3, <2>2 DEF Rest
  <1> QED BY <1>1, <1>2, <1>3, <1>4 DEF Rest

\* Where its lines end.
Terminals == {i \in 1 .. Len(Rest) : Rest[i] = Newline}

\* The rest is what the stream is mapped to.
LEMMA StreamMapping ==
  /\ (Stream!Read <=>
        LET n == IF call.n <= Len(Rest) THEN call.n ELSE Len(Rest)
        IN  /\ call.op = "buf_read"
            /\ answer' = SubSeq(Rest, 1, n)
            /\ Rest' = SubSeq(Rest, n + 1, Len(Rest))
            /\ call' = NoCall)
  /\ (Stream!ReadLine <=>
        /\ call.op = "readto"
        /\ IF Terminals = {}
             THEN answer' = <<>> /\ UNCHANGED Rest
             ELSE /\ answer' = SubSeq(Rest, 1, Stream!First(Terminals) - 1)
                  /\ Rest' = SubSeq(Rest, Stream!First(Terminals) + 1, Len(Rest))
        /\ call' = NoCall)
  /\ (Stream!stream' = Stream!stream <=> UNCHANGED <<Rest, call, answer>>)
  /\ (Stream!Ask <=> call = NoCall /\ call' # NoCall /\ UNCHANGED <<Rest, answer>>)
  /\ (Stream!Drop <=> call # NoCall /\ call' = NoCall /\ UNCHANGED <<Rest, answer>>)
  /\ (Stream!Reopen <=> call = NoCall /\ UNCHANGED <<call, answer>>)
  <1> USE DEF Rest, Behind, FlatFrom
  <1>1. Stream!Read <=>
          LET n == IF call.n <= Len(Rest) THEN call.n ELSE Len(Rest)
          IN  /\ call.op = "buf_read"
              /\ answer' = SubSeq(Rest, 1, n)
              /\ Rest' = SubSeq(Rest, n + 1, Len(Rest))
              /\ call' = NoCall
    BY DEF Stream!Read, Stream!None, NoCall
  <1>3. Stream!ReadLine <=>
          /\ call.op = "readto"
          /\ IF Terminals = {}
               THEN answer' = <<>> /\ UNCHANGED Rest
               ELSE /\ answer' = SubSeq(Rest, 1, Stream!First(Terminals) - 1)
                    /\ Rest' = SubSeq(Rest, Stream!First(Terminals) + 1, Len(Rest))
          /\ call' = NoCall
    BY DEF Stream!ReadLine, Stream!None, Stream!Newlines, Terminals, NoCall
  <1>2. Stream!stream' = Stream!stream <=> UNCHANGED <<Rest, call, answer>>
    BY DEF Stream!stream
  <1>4. /\ (Stream!Ask <=> call = NoCall /\ call' # NoCall /\ UNCHANGED <<Rest, answer>>)
        /\ (Stream!Drop <=> call # NoCall /\ call' = NoCall /\ UNCHANGED <<Rest, answer>>)
        /\ (Stream!Reopen <=> call = NoCall /\ UNCHANGED <<call, answer>>)
    BY DEF Stream!Ask, Stream!Drop, Stream!Reopen, Stream!None, NoCall
  <1> QED BY <1>1, <1>2, <1>3, <1>4

LEMMA ServeCells ==
  ASSUME BufferInv, Sizes, Serve, call.op = "buf_read"
  PROVE  BufferInv' /\ Stream!Read
  <1> DEFINE n == call.n
  <1>1. /\ n \in Nat /\ end + n <= Len(loaded) /\ loaded \in Seq(Int)
        /\ end \in Nat /\ end <= Len(loaded) /\ Len(loaded) \in Nat
    BY DEF BufferInv, Sizes, Serve
  <1>2. /\ answer' = SubSeq(loaded, end + 1, end + n) /\ end' = end + n
        /\ call' = NoCall /\ UNCHANGED <<loaded, files, current>>
    BY DEF Serve
  <1> HIDE DEF n
  <1>3. /\ Unread \in Seq(Int) /\ Len(Unread) = Len(loaded) - end
        /\ Behind \in Seq(Int) /\ Len(Rest) = (Len(loaded) - end) + Len(Behind)
    BY RestProperties
  <1>4. n \in 0 .. Len(Unread) /\ n \in 0 .. Len(loaded) - end /\ end \in 0 .. Len(loaded)
    BY <1>1, <1>3
  <1>5. /\ SubSeq(Rest, 1, n) = SubSeq(Unread, 1, n)
        /\ SubSeq(Rest, n + 1, Len(Rest)) = SubSeq(Unread, n + 1, Len(Unread)) \o Behind
    BY <1>3, <1>4, TakeFront DEF Rest
  <1>6. /\ SubSeq(Unread, 1, n) = SubSeq(loaded, end + 1, end + n)
        /\ SubSeq(Unread, n + 1, Len(Unread)) = SubSeq(loaded, (end + n) + 1, Len(loaded))
    BY <1>1, <1>4, TakeTwice DEF Unread
  <1>7. Behind' = Behind /\ Unread' = SubSeq(loaded, (end + n) + 1, Len(loaded))
    BY <1>2 DEF Behind, Unread
  <1>8. answer' = SubSeq(Rest, 1, n) /\ Rest' = SubSeq(Rest, n + 1, Len(Rest))
    BY <1>2, <1>5, <1>6, <1>7 DEF Rest
  <1>9. n <= Len(Rest)
    BY <1>3, <1>4
  <1>10. Stream!Read
    BY <1>2, <1>8, <1>9, StreamMapping DEF n
  <1>11. answer' \in Seq(Int)
    <2>1. SubSeq(Unread, 1, n) \in Seq(Int)
      BY <1>3, <1>4
    <2> QED BY <1>2, <1>6, <2>1
  <1>12. end + n \in 0 .. Len(loaded)
    BY <1>1
  <1> QED BY <1>2, <1>10, <1>11, <1>12 DEF BufferInv

\* LineEnd is the first end of a line.
LEMMA LineEndProperties ==
  ASSUME BufferInv, HasLine
  PROVE  /\ LineEnd \in end + 1 .. Len(loaded) /\ loaded[LineEnd] = Newline
         /\ \A j \in end + 1 .. LineEnd - 1 : loaded[j] # Newline
  <1> DEFINE T == {i \in end + 1 .. Len(loaded) : loaded[i] = Newline}
             IsEnd(i) == loaded[i] = Newline /\ \A j \in end + 1 .. i - 1 : loaded[j] # Newline
  <1>1. T \in SUBSET Nat /\ T # {}
    <2>1. T # {}
      BY DEF HasLine
    <2>2. end \in Nat /\ Len(loaded) \in Nat
      BY DEF BufferInv
    <2>3. T \in SUBSET Nat
      BY <2>2
    <2> QED BY <2>1, <2>3
  <1>2. PICK i \in T : \A j \in T : i <= j
    <2> HIDE DEF T
    <2> QED BY <1>1, Smallest
  <1>3. \A j \in end + 1 .. i - 1 : loaded[j] # Newline
    <2> SUFFICES ASSUME NEW j \in end + 1 .. i - 1, loaded[j] = Newline PROVE FALSE
      OBVIOUS
    <2>1. j \in T /\ j < i
      BY <1>2 DEF BufferInv
    <2> QED BY <1>2, <2>1 DEF BufferInv
  <1>4. i \in end + 1 .. Len(loaded) /\ IsEnd(i)
    BY <1>2, <1>3
  <1>5. LineEnd \in end + 1 .. Len(loaded) /\ IsEnd(LineEnd)
    <2>1. LineEnd = CHOOSE k \in end + 1 .. Len(loaded) : IsEnd(k)
      BY DEF LineEnd
    <2> HIDE DEF IsEnd
    <2> QED BY <1>4, <2>1
  <1> QED BY <1>5

LEMMA ServeLine ==
  ASSUME BufferInv, Serve, call.op = "readto"
  PROVE  BufferInv' /\ Stream!ReadLine
  <1> DEFINE m == LineEnd
             n == m - end
  <1>1. /\ loaded \in Seq(Int) /\ end \in Nat /\ end <= Len(loaded) /\ Len(loaded) \in Nat
        /\ end \in 0 .. Len(loaded)
    BY DEF BufferInv
  <1>2. /\ HasLine /\ answer' = SubSeq(loaded, end + 1, m - 1) /\ end' = m
        /\ call' = NoCall /\ UNCHANGED <<loaded, files, current>>
    BY DEF Serve
  <1>3. /\ m \in end + 1 .. Len(loaded) /\ loaded[m] = Newline
        /\ \A j \in end + 1 .. m - 1 : loaded[j] # Newline
    BY <1>2, LineEndProperties
  <1> HIDE DEF m
  <1>4. m \in Nat /\ n \in 1 .. Len(loaded) - end /\ end + n = m /\ n \in Nat
    BY <1>1, <1>3
  <1> HIDE DEF n
  <1>5. /\ Unread \in Seq(Int) /\ Len(Unread) = Len(loaded) - end
        /\ Behind \in Seq(Int) /\ Len(Rest) = (Len(loaded) - end) + Len(Behind)
        /\ \A i \in 1 .. Len(loaded) - end : Rest[i] = loaded[end + i]
    BY RestProperties
  <1>6. Len(Behind) \in Nat
    BY <1>5
  <1>7. n \in Terminals
    <2>1. n \in 1 .. Len(Rest)
      BY <1>1, <1>4, <1>5, <1>6
    <2>2. Rest[n] = Newline
      BY <1>3, <1>4, <1>5
    <2> QED BY <2>1, <2>2 DEF Terminals
  <1>8. ASSUME NEW j \in Terminals PROVE n <= j
    <2> SUFFICES ASSUME j < n PROVE FALSE
      BY <1>4 DEF Terminals
    <2>1. j \in 1 .. Len(loaded) - end /\ end + j \in end + 1 .. m - 1 /\ Rest[j] = Newline
      BY <1>1, <1>4 DEF Terminals
    <2> QED BY <1>3, <1>5, <2>1
  <1>9. Stream!First(Terminals) = n
    <2>1. \A k \in Terminals : (\A j \in Terminals : k <= j) => k = n
      BY <1>4, <1>7, <1>8 DEF Terminals
    <2> QED BY <1>7, <1>8, <2>1 DEF Stream!First
  <1>10. answer' = SubSeq(Rest, 1, n - 1)
    <2>1. n - 1 \in 0 .. Len(Unread) /\ n - 1 \in 0 .. Len(loaded) - end
          /\ end + (n - 1) = m - 1
      BY <1>1, <1>4, <1>5
    <2>2. SubSeq(Rest, 1, n - 1) = SubSeq(Unread, 1, n - 1)
      BY <1>5, <2>1, TakeFront DEF Rest
    <2>3. SubSeq(Unread, 1, n - 1) = SubSeq(loaded, end + 1, end + (n - 1))
      BY <1>1, <2>1, TakeTwice, SMTT(40) DEF Unread
    <2> QED BY <1>2, <2>1, <2>2, <2>3
  <1>11. Rest' = SubSeq(Rest, n + 1, Len(Rest))
    <2>1. n \in 0 .. Len(Unread) /\ n \in 0 .. Len(loaded) - end
      BY <1>4, <1>5
    <2>2. SubSeq(Rest, n + 1, Len(Rest)) = SubSeq(Unread, n + 1, Len(Unread)) \o Behind
      BY <1>5, <2>1, TakeFront DEF Rest
    <2>3. SubSeq(Unread, n + 1, Len(Unread)) = SubSeq(loaded, m + 1, Len(loaded))
      BY <1>1, <1>4, <2>1, TakeTwice DEF Unread
    <2>4. Behind' = Behind /\ Unread' = SubSeq(loaded, m + 1, Len(loaded))
      BY <1>2 DEF Behind, Unread
    <2> QED BY <2>2, <2>3, <2>4 DEF Rest
  <1>12. Stream!ReadLine
    BY <1>2, <1>7, <1>9, <1>10, <1>11, StreamMapping
  <1>13. answer' \in Seq(Int)
    <2>1. SubSeq(Rest, 1, n - 1) \in Seq(Int)
      <3>1. Rest \in Seq(Int) /\ n - 1 <= Len(Rest) /\ n - 1 \in Nat
        BY <1>1, <1>4, <1>5, <1>6, RestProperties
      <3> QED BY <3>1
    <2> QED BY <1>10, <2>1
  <1>14. m \in 0 .. Len(loaded)
    BY <1>1, <1>3
  <1> QED BY <1>2, <1>12, <1>13, <1>14 DEF BufferInv

\* What the buffer holds after it was moved.
LEMMA MovedUp ==
  ASSUME BufferInv, NEW op
  PROVE  LET start == IF Shifts(op) THEN 0 ELSE end
         IN  /\ Kept(op) \in Seq(Int) /\ start \in 0 .. Len(Kept(op))
             /\ SubSeq(Kept(op), start + 1, Len(Kept(op))) = Unread
             /\ \A a \in Seq(Int) :
                  SubSeq(Kept(op) \o a, start + 1, Len(Kept(op) \o a)) = Unread \o a
  <1> DEFINE start == IF Shifts(op) THEN 0 ELSE end
             kept == Kept(op)
  <1>1. Unread \in Seq(Int) /\ loaded \in Seq(Int) /\ end \in 0 .. Len(loaded)
    BY RestProperties DEF BufferInv
  <1>2. kept \in Seq(Int) /\ start \in 0 .. Len(kept)
    BY <1>1 DEF Kept
  <1>3. SubSeq(kept, start + 1, Len(kept)) = Unread
    <2>1. CASE Shifts(op)
      <3>1. kept = Unread /\ start + 1 = 1
        BY <2>1 DEF Kept
      <3>2. SubSeq(Unread, 1, Len(Unread)) = Unread
        BY <1>1, SubSeqFull
      <3> QED BY <3>1, <3>2
    <2>2. CASE ~Shifts(op)
      BY <2>2 DEF Kept, Unread
    <2> QED BY <2>1, <2>2
  <1> HIDE DEF start, kept
  <1>4. \A a \in Seq(Int) : SubSeq(kept \o a, start + 1, Len(kept \o a)) = Unread \o a
    BY <1>2, <1>3, TakeFront
  <1> QED BY <1>2, <1>3, <1>4 DEF start, kept

LEMMA FillStep ==
  ASSUME BufferInv, Fill
  PROVE  BufferInv' /\ Len(files') = Len(files) /\ UNCHANGED <<Rest, call, answer>>
  <1> DEFINE file == files[current]
             kept == Kept(call.op)
             start == IF Shifts(call.op) THEN 0 ELSE end
  <1>1. current \in 1 .. Len(files) /\ files \in Seq(Seq(Int)) /\ file \in Seq(Int)
    BY DEF BufferInv, Fill
  <1>2. PICK k \in 1 .. Len(file) :
          /\ loaded' = kept \o SubSeq(file, 1, k)
          /\ files' = [files EXCEPT ![current] = SubSeq(file, k + 1, Len(file))]
    BY DEF Fill
  <1>3. end' = start /\ UNCHANGED <<current, call, answer>>
    BY DEF Fill, MoveUp
  <1> DEFINE a == SubSeq(file, 1, k)
             b == SubSeq(file, k + 1, Len(file))
             later == FlatFrom(files, current + 1)
  <1>4. /\ kept \in Seq(Int) /\ start \in 0 .. Len(kept)
        /\ \A x \in Seq(Int) : SubSeq(kept \o x, start + 1, Len(kept \o x)) = Unread \o x
    BY MovedUp
  <1> HIDE DEF file, kept, start
  <1>5. a \in Seq(Int) /\ b \in Seq(Int) /\ file = a \o b
    <2>1. 1 \in 1 .. Len(file) + 1 /\ k \in (1 - 1) .. Len(file)
          /\ Len(file) \in k .. Len(file)
      BY <1>1
    <2>2. a \o b = SubSeq(file, 1, Len(file))
      BY <1>1, <2>1, ConcatAdjacentSubSeq
    <2>3. SubSeq(file, 1, Len(file)) = file
      BY <1>1, SubSeqFull
    <2>4. k \in 0 .. Len(file)
      BY <1>1
    <2>5. b \in Seq(Int)
      BY <1>1, <2>4, SuffixProperties
    <2>6. a \in Seq(Int)
      BY <1>1, <2>4
    <2> QED BY <2>2, <2>3, <2>5, <2>6
  <1> HIDE DEF a, b
  <1>6. /\ files' \in Seq(Seq(Int)) /\ Len(files') = Len(files) /\ files'[current] = b
        /\ \A i \in current + 1 .. Len(files) : files[i] = files'[i]
    <2>1. files' = [files EXCEPT ![current] = b]
      BY <1>2 DEF b
    <2>2. /\ [files EXCEPT ![current] = b] \in Seq(Seq(Int))
          /\ Len([files EXCEPT ![current] = b]) = Len(files)
          /\ \A i \in 1 .. Len(files) :
               [files EXCEPT ![current] = b][i] = IF i = current THEN b ELSE files[i]
      BY <1>1, <1>5, ExceptSeq
    <2>3. files'[current] = b
      BY <1>1, <2>1, <2>2
    <2>4. ASSUME NEW i \in current + 1 .. Len(files) PROVE files[i] = files'[i]
      <3>1. i \in 1 .. Len(files) /\ i # current
        BY <1>1
      <3> QED BY <2>1, <2>2, <3>1
    <2> QED BY <2>1, <2>2, <2>3, <2>4
  <1>7. later \in Seq(Int) /\ Unread \in Seq(Int)
    <2>1. current + 1 \in 1 .. Len(files) + 1
      BY <1>1
    <2> QED BY <1>1, <2>1, FlatFromType, RestProperties
  <1>8. Behind = (a \o b) \o later
    BY <1>1, <1>5, FlatFromFirst DEF Behind, file
  <1>9. Behind' = b \o later
    <2>1. FlatFrom(files', current) = files'[current] \o FlatFrom(files', current + 1)
      BY <1>1, <1>6, FlatFromFirst
    <2>2. current + 1 \in 1 .. Len(files) + 1
      BY <1>1
    <2>3. FlatFrom(files, current + 1) = FlatFrom(files', current + 1)
      BY <1>1, <1>6, <2>2, FlatFromSame
    <2> QED BY <1>3, <1>6, <2>1, <2>3 DEF Behind
  <1> HIDE DEF later
  <1>10. Unread' = Unread \o a
    BY <1>2, <1>3, <1>4, <1>5 DEF Unread, a
  <1>11. (Unread \o a) \o (b \o later) = Unread \o ((a \o b) \o later)
    <2>1. a \in Seq(Int) /\ b \in Seq(Int)
      BY <1>5
    <2> HIDE DEF Unread
    <2>2. Cat(Cat(Unread, a), Cat(b, later)) = Cat(Unread, Cat(Cat(a, b), later))
      BY <1>7, <2>1, CatAssociative
    <2> QED BY <2>2 DEF Cat
  <1>12. Rest' = Rest
    BY <1>8, <1>9, <1>10, <1>11 DEF Rest
  <1>13. loaded' \in Seq(Int) /\ start \in 0 .. Len(loaded')
    <2>1. loaded' = kept \o a
      BY <1>2 DEF a
    <2>2. kept \o a \in Seq(Int) /\ Len(kept \o a) = Len(kept) + Len(a)
      BY <1>4, <1>5, ConcatProperties
    <2>3. Len(a) \in Nat /\ Len(kept) \in Nat
      BY <1>4, <1>5
    <2> QED BY <1>4, <2>1, <2>2, <2>3
  <1> QED BY <1>3, <1>6, <1>12, <1>13 DEF BufferInv

LEMMA NextFileStep ==
  ASSUME BufferInv, NextFile
  PROVE  BufferInv' /\ UNCHANGED <<Rest, call, answer>>
  <1> DEFINE kept == Kept(call.op)
             start == IF Shifts(call.op) THEN 0 ELSE end
             later == FlatFrom(files, current + 1)
  <1>1. /\ current \in 1 .. Len(files) /\ current < Len(files)
        /\ files \in Seq(Seq(Int)) /\ files[current] = <<>>
    BY DEF BufferInv, NextFile, EndOfFile
  <1>2. /\ end' = start /\ loaded' = kept /\ current' = current + 1
        /\ UNCHANGED <<files, call, answer>>
    BY DEF NextFile, EndOfFile, MoveUp
  <1>3. /\ kept \in Seq(Int) /\ start \in 0 .. Len(kept)
        /\ SubSeq(kept, start + 1, Len(kept)) = Unread
    BY MovedUp
  <1> HIDE DEF kept, start
  <1>4. Unread' = Unread
    BY <1>2, <1>3 DEF Unread
  <1>5. current + 1 \in 1 .. Len(files) + 1
    BY <1>1
  <1>6. later \in Seq(Int)
    BY <1>1, <1>5, FlatFromType
  <1>7. Behind = <<>> \o later
    BY <1>1, FlatFromFirst DEF Behind
  <1>8. Behind' = later
    BY <1>2 DEF Behind
  <1>9. <<>> \o later = later
    BY <1>6, ConcatEmptySeq
  <1>10. Rest' = Rest
    BY <1>4, <1>7, <1>8, <1>9 DEF Rest
  <1> QED BY <1>2, <1>3, <1>5, <1>10 DEF BufferInv

\* After the last file, what is left of the buffer is handed out, or stays when
\* it is no whole line.
LEMMA NoMoreStep ==
  ASSUME BufferInv, Sizes, NoMore
  PROVE  BufferInv' /\ (Stream!Read \/ Stream!ReadLine)
  <1>1. /\ current \in 1 .. Len(files) /\ current = Len(files)
        /\ files \in Seq(Seq(Int)) /\ files[current] = <<>>
        /\ end \in 0 .. Len(loaded) /\ loaded \in Seq(Int)
    BY DEF BufferInv, NoMore
  <1>2. /\ current' = Len(files) + 1 /\ loaded' = Kept(call.op)
        /\ call' = NoCall /\ files' = files
    BY <1>1 DEF NoMore
  <1>3. Behind = <<>> /\ Behind' = <<>>
    <2>1. FlatFrom(files, Len(files) + 1) = <<>>
      BY <1>1, FlatFromEnd
    <2>2. FlatFrom(files, current) = <<>> \o <<>>
      BY <1>1, <2>1, FlatFromFirst
    <2>3. <<>> \o <<>> = <<>>
      BY ConcatEmptySeq, EmptySeq
    <2> QED BY <1>2, <2>1, <2>2, <2>3 DEF Behind
  <1>4. /\ Unread \in Seq(Int) /\ Len(Unread) = Len(loaded) - end
        /\ \A i \in 1 .. Len(loaded) - end : Unread[i] = loaded[end + i]
    BY RestProperties
  <1>5. Rest = Unread
    <2>1. Unread \o <<>> = Unread
      BY <1>4, ConcatEmptySeq
    <2> QED BY <1>3, <2>1 DEF Rest
  <1>6. CASE call.op = "buf_read"
    <2>1. /\ answer' = Unread /\ end' = Len(Unread) /\ loaded' = Unread
          /\ end + call.n > Len(loaded)
      BY <1>2, <1>6 DEF NoMore, Short, Kept, Shifts
    <2>2. call.n \in Nat /\ call.n > Len(Unread) /\ Len(Unread) \in Nat
      BY <1>1, <1>4, <2>1 DEF Sizes
    <2>3. SubSeq(Rest, 1, Len(Rest)) = Rest
      BY <1>4, <1>5, SubSeqFull
    <2>4. \A s \in Seq(Int) : SubSeq(s, Len(s) + 1, Len(s)) = <<>>
      BY SubSeqEmpty
    <2>5. Unread' = <<>>
      BY <1>4, <2>1, <2>4 DEF Unread
    <2>6. Rest' = <<>>
      <3>1. <<>> \o <<>> = <<>>
        BY ConcatEmptySeq, EmptySeq
      <3> QED BY <1>3, <2>5, <3>1 DEF Rest
    <2>7. Rest' = SubSeq(Rest, Len(Rest) + 1, Len(Rest))
      BY <1>4, <1>5, <2>4, <2>6
    <2>8. ~(call.n <= Len(Rest))
      BY <1>5, <2>2
    <2>9. Stream!Read
      BY <1>2, <1>5, <1>6, <2>1, <2>3, <2>7, <2>8, StreamMapping
    <2>10. end' \in 0 .. Len(loaded')
      BY <2>1, <2>2
    <2> QED BY <1>1, <1>2, <1>4, <2>1, <2>9, <2>10 DEF BufferInv
  <1>7. CASE call.op # "buf_read"
    <2> DEFINE start == IF Shifts(call.op) THEN 0 ELSE end
    <2>1. answer' = <<>> /\ end' = start /\ call.op = "readto" /\ ~HasLine
      BY <1>7 DEF NoMore, Short
    <2>2. /\ Kept(call.op) \in Seq(Int) /\ start \in 0 .. Len(Kept(call.op))
          /\ SubSeq(Kept(call.op), start + 1, Len(Kept(call.op))) = Unread
      BY MovedUp
    <2> HIDE DEF start
    <2>3. Unread' = Unread
      BY <1>2, <2>1, <2>2 DEF Unread
    <2>4. Rest' = Rest
      BY <1>3, <2>3 DEF Rest
    <2>5. Terminals = {}
      <3>1. ASSUME NEW i \in 1 .. Len(Rest), Rest[i] = Newline PROVE FALSE
        <4>1. /\ i \in 1 .. Len(loaded) - end /\ loaded[end + i] = Newline
          BY <1>4, <1>5, <3>1
        <4>2. end + i \in end + 1 .. Len(loaded)
          BY <1>1, <4>1
        <4> QED BY <2>1, <4>1, <4>2 DEF HasLine
      <3> QED BY <3>1 DEF Terminals
    <2>6. Stream!ReadLine
      BY <1>2, <2>1, <2>4, <2>5, StreamMapping
    <2>7. answer' \in Seq(Int)
      BY <2>1
    <2> QED BY <1>1, <1>2, <2>1, <2>2, <2>6, <2>7 DEF BufferInv
  <1> QED BY <1>6, <1>7

\* No round of a call is anything else than an answer of the stream, or nothing.
LEMMA BufferStep ==
  ASSUME BufferInv, Sizes, BufStep
  PROVE  /\ BufferInv' /\ Len(files') = Len(files)
         /\ Stream!Read \/ Stream!ReadLine \/ UNCHANGED Stream!stream
  <1>1. CASE Serve
    <2>1. call.op = "buf_read" \/ call.op = "readto"
      BY <1>1 DEF Serve
    <2> QED BY <1>1, <2>1, ServeCells, ServeLine DEF Serve
  <1>2. CASE Fill
    BY <1>2, FillStep, StreamMapping
  <1>3. CASE NextFile
    BY <1>3, NextFileStep, StreamMapping DEF NextFile, EndOfFile
  <1>4. CASE NoMore
    BY <1>4, NoMoreStep DEF NoMore
  <1> QED BY <1>1, <1>2, <1>3, <1>4 DEF BufStep

-----------------------------------------------------------------------------
(* What is asked for                                                       *)

LEMMA ScenarioTyped ==
  ASSUME NEW s \in Scenarios
  PROVE  /\ s.text \in Seq(DOMAIN Line \cup {Newline}) /\ s.text \in Seq(Int)
         /\ s.sessions \in Seq(Session) /\ s.old \subseteq CacheNames
  <1> DEFINE T == DOMAIN Line \cup {Newline}
  <1>1. s \in [text : Seq(T), sessions : Seq(Session), old : SUBSET CacheNames]
    BY ScenarioAssumption
  <1>2. T \subseteq Int
    BY LineAssumption
  <1> HIDE DEF T
  <1>3. Seq(T) \subseteq Seq(Int)
    BY <1>2, SeqMonotonic
  <1>4. s.text \in Seq(Int)
    BY <1>1, <1>3
  <1> QED BY <1>1, <1>4 DEF T

\* A program that was started has its options.
Asked ==
  /\ scenario \in Scenarios /\ session \in 0 .. Len(scenario.sessions)
  /\ session = 0 => pc = "done"

LEMMA OptionsTyped ==
  ASSUME Asked, pc # "done" \/ session # 0
  PROVE  opt \in Session /\ session \in DOMAIN scenario.sessions
  <1>1. scenario \in Scenarios /\ session \in 1 .. Len(scenario.sessions)
    BY DEF Asked
  <1>2. scenario.sessions \in Seq(Session)
    BY <1>1, ScenarioTyped
  <1> QED BY <1>1, <1>2 DEF opt

LEMMA AskedKept ==
  ASSUME Asked, [Next]_vars
  PROVE  Asked'
  <1>1. Len(scenario.sessions) \in Nat
    <2>1. scenario.sessions \in Seq(Session)
      BY ScenarioTyped DEF Asked
    <2> QED BY <2>1
  <1>2. CASE Launch
    BY <1>1, <1>2 DEF Launch, Asked
  <1>3. CASE UNCHANGED <<scenario, session, pc>>
    BY <1>3 DEF Asked
  <1>4. CASE UNCHANGED <<scenario, session>> /\ pc # "done"
    BY <1>4 DEF Asked
  <1>5. Start \/ Fetch \/ GotLine \/ GotLabel \/ GotTagSize \/ GotTag \/ GotNumIndices
          \/ GotIndex \/ GotFeatures \/ Decode \/ Prepare \/ EndPass \/ Kill
        => UNCHANGED <<scenario, session>> /\ pc # "done"
    BY DEF Start, Fetch, GotLine, GotLabel, GotTagSize, GotTag, GotNumIndices, GotIndex,
       GotFeatures, Got, Decode, Prepare, EndPass, Kill, Running, Same
  <1>6. InCall \/ UNCHANGED vars => UNCHANGED <<scenario, session, pc>>
    BY DEF InCall, vars
  <1> QED BY <1>2, <1>3, <1>4, <1>5, <1>6 DEF Next, Step, Finished

-----------------------------------------------------------------------------
(* The caches                                                              *)

\* What parse_cache may have made of its parser when it has looked at some of the
\* caches: it has not touched those that have their names, and a parser that it
\* made resettable has one of them open.
Bits == {0, DefaultBits, opt.bits} \cup {CacheNumbits(disk[Final(name)]) : name \in CacheNames}
Written == {<<>>} \cup {Header(b) : b \in Bits}
ParserStates ==
  [reader : {"text", "cache"}, write_cache : BOOLEAN, sorted_cache : BOOLEAN,
   resettable : BOOLEAN]
Outputs == [space : {<<>>}, size : {BufferSize}, file : Written]
Opening ==
  [num_bits : Bits, par : ParserStates, opened : Seq(CacheNames), out : Outputs,
   finalname : CacheNames \cup {"none"}, disk : [Files -> Written \cup {disk[f] : f \in Files}]]
Opened ==
  {v \in Opening :
     /\ \A name \in CacheNames : v.disk[Final(name)] = disk[Final(name)]
     /\ v.par.resettable => v.opened # <<>>
     /\ v.par.write_cache => v.finalname \in CacheNames}

LEMMA MakeWriteCacheStep ==
  ASSUME NEW v \in Opened, NEW name \in CacheNames
  PROVE  MakeWriteCache(v, name) \in Opened
  <1> DEFINE w == MakeWriteCache(v, name)
  <1>1. CASE w = v
    BY <1>1
  <1>2. CASE w # v
    <2> DEFINE h == Header(v.num_bits)
               p == [v.par EXCEPT !.write_cache = TRUE]
               o == [v.out EXCEPT !.file = h]
               d == [v.disk EXCEPT ![Temp(name)] = h]
    <2>1. v \in Opening /\ v.num_bits \in Bits /\ h \in Written /\ Temp(name) \in Files
      BY DEF Opened, Opening, Written, Temp, Files
    <2>2. w = [v EXCEPT !.finalname = name, !.out.file = h, !.disk[Temp(name)] = h,
                        !.par.write_cache = TRUE]
      BY <1>2 DEF MakeWriteCache
    <2> HIDE DEF h
    <2>3. w = [num_bits |-> v.num_bits, par |-> p, opened |-> v.opened, out |-> o,
               finalname |-> name, disk |-> d]
      <3> HIDE DEF w
      <3> QED BY <2>1, <2>2 DEF Opening
    <2>4. p \in ParserStates /\ p.resettable = v.par.resettable /\ p.write_cache = TRUE
      BY <2>1 DEF Opening, ParserStates
    <2>5. o \in Outputs
      BY <2>1 DEF Opening, Outputs
    <2>6. d \in [Files -> Written \cup {disk[f] : f \in Files}]
      BY <2>1 DEF Opening
    <2>7. \A n \in CacheNames : d[Final(n)] = disk[Final(n)]
      <3> SUFFICES ASSUME NEW n \in CacheNames PROVE d[Final(n)] = disk[Final(n)]
        OBVIOUS
      <3>1. Final(n) \in Files /\ Final(n) # Temp(name)
        BY DEF Final, Temp, Files
      <3>2. d[Final(n)] = v.disk[Final(n)]
        BY <2>1, <3>1 DEF Opening
      <3> QED BY <3>2 DEF Opened
    <2> HIDE DEF p, o, d, w
    <2>8. w \in Opening
      BY <2>1, <2>3, <2>4, <2>5, <2>6 DEF Opening
    <2>9. v.par.resettable => v.opened # <<>>
      BY DEF Opened
    <2> QED BY <2>3, <2>4, <2>7, <2>8, <2>9 DEF Opened, w
  <1> QED BY <1>1, <1>2

LEMMA OpenCacheStep ==
  ASSUME NEW v \in Opened, NEW name \in CacheNames
  PROVE  OpenCache(v, name) \in Opened
  <1> DEFINE c == CacheNumbits(v.disk[Final(name)])
             bits == IF opt.bits = 0 THEN c ELSE v.num_bits
             wide == [v EXCEPT !.num_bits = bits]
  <1>1. v \in Opening /\ c \in Bits /\ v.num_bits \in Bits
    <2>1. v.disk[Final(name)] = disk[Final(name)]
      BY DEF Opened
    <2> QED BY <2>1 DEF Opened, Opening, Bits
  <1>2. bits \in Bits
    BY <1>1
  <1>3. CASE v.disk[Final(name)] = <<>>
    BY <1>3, MakeWriteCacheStep DEF OpenCache
  <1>4. CASE v.disk[Final(name)] # <<>> /\ c < bits
    <2>1. OpenCache(v, name) = MakeWriteCache(wide, name)
      BY <1>4 DEF OpenCache
    <2> HIDE DEF c, bits
    <2>2. wide = [num_bits |-> bits, par |-> v.par, opened |-> v.opened, out |-> v.out,
                  finalname |-> v.finalname, disk |-> v.disk]
      BY <1>1 DEF Opening
    <2> HIDE DEF wide
    <2>3. wide \in Opening
      BY <1>1, <1>2, <2>2 DEF Opening
    <2>4. wide \in Opened
      BY <2>2, <2>3 DEF Opened
    <2> QED BY <2>1, <2>4, MakeWriteCacheStep
  <1>5. CASE v.disk[Final(name)] # <<>> /\ ~(c < bits)
    <2> DEFINE w == OpenCache(v, name)
               sorted == SortedCache(c, bits)
               p == [reader |-> "cache", write_cache |-> v.par.write_cache,
                     sorted_cache |-> sorted, resettable |-> TRUE]
               s == Append(v.opened, name)
    <2>1. w = [v EXCEPT !.num_bits = bits, !.opened = s, !.par.reader = "cache",
                        !.par.sorted_cache = sorted, !.par.resettable = TRUE]
      BY <1>5 DEF OpenCache
    <2>2. sorted \in BOOLEAN
      BY DEF SortedCache
    <2>3. s \in Seq(CacheNames) /\ s # <<>>
      <3>1. v.opened \in Seq(CacheNames)
        BY <1>1 DEF Opening
      <3> QED BY <3>1, AppendProperties
    <2> HIDE DEF c, bits, s, sorted
    <2>4. w = [num_bits |-> bits, par |-> p, opened |-> s, out |-> v.out,
               finalname |-> v.finalname, disk |-> v.disk]
      <3> HIDE DEF w
      <3> QED BY <1>1, <2>1 DEF Opening, ParserStates
    <2>5. p \in ParserStates
      BY <1>1, <2>2 DEF Opening, ParserStates
    <2>6. p.write_cache = v.par.write_cache
      OBVIOUS
    <2> HIDE DEF p, w
    <2>7. w \in Opening
      BY <1>1, <1>2, <2>3, <2>4, <2>5 DEF Opening
    <2>8. /\ v.par.write_cache => v.finalname \in CacheNames
          /\ \A n \in CacheNames : v.disk[Final(n)] = disk[Final(n)]
      BY DEF Opened
    <2> QED BY <2>3, <2>4, <2>6, <2>7, <2>8 DEF Opened, w
  <1> QED BY <1>3, <1>4, <1>5

\* parse_cache looks at the caches one after the other.
Begun ==
  [num_bits |-> IF opt.bits = 0 THEN DefaultBits ELSE opt.bits,
   par |-> NewParser, opened |-> <<>>, out |-> NewOutput,
   finalname |-> "none", disk |-> disk]

LEMMA CachesOpened ==
  ASSUME opt.caches \in Seq(CacheNames), DOMAIN disk = Files,
         disk = [f \in DOMAIN disk |-> disk[f]]
  PROVE  /\ AfterCaches \in Opened
         /\ Len(opt.caches) = 0 => AfterCaches = Begun
         /\ Len(opt.caches) = 1 => AfterCaches = OpenCache(Begun, opt.caches[1])
  <1> DEFINE n == Len(opt.caches)
             base == Begun
             G == [p \in (1 .. n) \X Opened |-> OpenCache(p[2], opt.caches[p[1]])]
             Is(f) == f = [T \in SUBSET DOMAIN opt.caches |->
                             IF T = {} THEN base
                             ELSE OpenCache(f[T \ {Max(T)}], opt.caches[Max(T)])]
             F == CHOOSE f : Is(f)
  <1>1. n \in Nat /\ DOMAIN opt.caches = 1 .. n /\ \A i \in 1 .. n : opt.caches[i] \in CacheNames
    OBVIOUS
  <1>2. AfterCaches = F[1 .. n]
    BY <1>1 DEF AfterCaches, FoldLeft, MapThenFoldSet, Begun
  <1>3. base \in Opened
    <2>1. base.num_bits \in Bits
      BY DEF Bits, Begun
    <2>2. NewParser \in ParserStates /\ NewParser.resettable = FALSE
          /\ NewParser.write_cache = FALSE
      BY DEF NewParser, ParserStates
    <2>3. NewOutput \in Outputs
      BY DEF NewOutput, Outputs, Written
    <2>4. disk \in [Files -> Written \cup {disk[f] : f \in Files}]
      OBVIOUS
    <2>5. base \in Opening
      BY <2>1, <2>2, <2>3, <2>4 DEF Opening, Begun
    <2> QED BY <2>2, <2>5 DEF Opened, Begun
  <1> HIDE DEF base
  <1>4. \A i \in 1 .. n, v \in Opened : OpenCache(v, opt.caches[i]) \in Opened
    BY <1>1, OpenCacheStep
  <1> HIDE DEF n
  <1>5. /\ G \in [(1 .. n) \X Opened -> Opened]
        /\ \A i \in 1 .. n, v \in Opened : G[<<i, v>>] = OpenCache(v, opt.caches[i])
    BY <1>4
  <1> HIDE DEF G
  <1>6. PICK f \in [SUBSET (1 .. n) -> Opened] : SetBySet(f, n, base, G)
    BY <1>1, <1>3, <1>5, SetRecursion
  <1>7. ASSUME NEW T \in SUBSET (1 .. n)
        PROVE  f[T] = IF T = {} THEN base
                      ELSE OpenCache(f[T \ {Max(T)}], opt.caches[Max(T)])
    <2>1. CASE T = {}
      BY <1>6, <2>1 DEF SetBySet
    <2>2. CASE T # {}
      <3>1. Max(T) \in 1 .. n
        BY <1>1, <2>2, Largest
      <3>2. f[T \ {Max(T)}] \in Opened
        OBVIOUS
      <3>3. f[T] = G[<<Max(T), f[T \ {Max(T)}]>>]
        BY <1>6, <2>2 DEF SetBySet
      <3> QED BY <1>5, <2>2, <3>1, <3>2, <3>3
    <2> QED BY <2>1, <2>2
  <1>8. Is(f)
    BY <1>1, <1>7
  <1>9. Is(F)
    <2> HIDE DEF Is
    <2> QED BY <1>8
  <1> HIDE DEF F
  <1>10. \A T \in SUBSET (1 .. n) :
           F[T] = IF T = {} THEN base ELSE OpenCache(F[T \ {Max(T)}], opt.caches[Max(T)])
    BY <1>1, <1>9
  <1> DEFINE S == {k \in Nat : k <= n => F[1 .. k] = f[1 .. k]}
  <1>11. 0 \in S
    <2>1. 1 .. 0 = {} /\ {} \in SUBSET (1 .. n)
      OBVIOUS
    <2>2. F[{}] = base /\ f[{}] = base
      BY <1>7, <1>10, <2>1
    <2> QED BY <2>1, <2>2
  <1>12. ASSUME NEW k \in Nat, k \in S PROVE k + 1 \in S
    <2> SUFFICES ASSUME k + 1 <= n PROVE F[1 .. k + 1] = f[1 .. k + 1]
      OBVIOUS
    <2>1. F[1 .. k] = f[1 .. k]
      BY <1>1, <1>12
    <2>2. Max(1 .. k + 1) = k + 1 /\ (1 .. k + 1) \ {k + 1} = 1 .. k
      <3>1. k + 1 \in Nat \ {0} /\ (k + 1) - 1 = k
        OBVIOUS
      <3>2. Max(1 .. k + 1) = k + 1 /\ (1 .. k + 1) \ {k + 1} = 1 .. (k + 1) - 1
        BY <3>1, LargestUpTo
      <3> QED BY <3>1, <3>2
    <2>3. 1 .. k + 1 \in SUBSET (1 .. n) /\ 1 .. k + 1 # {}
      BY <1>1
    <2>4. F[1 .. k + 1] = OpenCache(F[1 .. k], opt.caches[k + 1])
      BY <1>10, <2>2, <2>3
    <2>5. f[1 .. k + 1] = OpenCache(f[1 .. k], opt.caches[k + 1])
      BY <1>7, <2>2, <2>3
    <2> QED BY <2>1, <2>4, <2>5
  <1>13. n \in S
    <2> HIDE DEF S
    <2> QED BY <1>1, <1>11, <1>12, SetInduction
  <1>14. F[1 .. n] = f[1 .. n]
    BY <1>1, <1>13
  <1>15. f[1 .. n] \in Opened
    OBVIOUS
  <1>16. ASSUME n = 0 PROVE F[1 .. n] = base
    <2>1. 1 .. n = {} /\ {} \in SUBSET (1 .. n)
      BY <1>16
    <2>2. F[{}] = base
      BY <1>10, <2>1
    <2> QED BY <2>1, <2>2
  <1>17. ASSUME n = 1 PROVE F[1 .. n] = OpenCache(base, opt.caches[1])
    <2>1. Max(1 .. 1) = 1 /\ (1 .. 1) \ {1} = {}
      <3>1. 1 \in Nat \ {0} /\ 1 .. 1 - 1 = {}
        OBVIOUS
      <3> QED BY <3>1, LargestUpTo
    <2>2. 1 .. 1 \in SUBSET (1 .. n) /\ 1 .. 1 # {} /\ {} \in SUBSET (1 .. n)
      BY <1>17
    <2>3. F[{}] = base
      BY <1>10, <2>2
    <2>4. F[1 .. 1] = OpenCache(F[{}], opt.caches[1])
      BY <1>10, <2>1, <2>2
    <2> QED BY <1>17, <2>3, <2>4
  <1> QED BY <1>2, <1>14, <1>15, <1>16, <1>17 DEF base, n

-----------------------------------------------------------------------------
(* The reader and the program                                              *)

\* The parts of a cached example.
Parts == {"label", "tag_size", "tag", "num_indices", "index", "features"}

\* Who waits in which call, and that a reader which was answered in full is still
\* in an open file: it gives up when it was not.
CallInv ==
  /\ call.op = "readto" => pc = "line"
  /\ call.op = "buf_read" => pc \in Parts /\ call.n = wanted
  /\ call # NoCall => current \in DOMAIN files
  /\ pc \in {"fetch", "decode", "read"} => current \in DOMAIN files
  /\ pc \in Parts /\ call = NoCall /\ ~(Len(answer) < wanted) => current \in DOMAIN files
  /\ pc = "line" /\ call = NoCall /\ answer # <<>> => current \in DOMAIN files

\* A program that goes on reading has files to read, and something to rewind if it
\* makes more than one pass.
SourceInv ==
  /\ scenario \in Scenarios /\ session \in 0 .. Len(scenario.sessions)
  /\ session = 0 => pc = "done"
  /\ passes_complete \in Nat /\ opened \in Seq(CacheNames) /\ par \in ParserStates
  /\ disk = [f \in Files |-> disk[f]]
  /\ Running =>
       /\ files # <<>>
       /\ par.write_cache => finalname \in CacheNames
       /\ par.resettable => opened # <<>> \/ par.write_cache
       /\ ~par.resettable => opt.passes <= 1 /\ ~par.write_cache

IInv == BufferInv /\ CallInv /\ SourceInv

StreamStep == [Stream!Next]_(Stream!stream)

\* What a round of a call leaves: a reader that still waits has an open file, and
\* one that has been answered too, unless the answer is short.
LEMMA BufferCall ==
  ASSUME BufferInv, Sizes, CallInv, BufStep
  PROVE  /\ call # NoCall
         /\ \/ call' = call /\ current' \in DOMAIN files'
            \/ /\ call' = NoCall
               /\ \/ current' \in DOMAIN files'
                  \/ call.op = "buf_read" /\ Len(answer') < call.n
                  \/ call.op = "readto" /\ answer' = <<>>
  <1>1. call # NoCall /\ current \in 1 .. Len(files) /\ DOMAIN files = 1 .. Len(files)
    <2>1. call # NoCall
      BY DEF BufStep, Serve, Fill, NextFile, EndOfFile, NoMore, Short, NoCall
    <2> QED BY <2>1 DEF CallInv, BufferInv
  <1>2. Len(files') = Len(files) /\ DOMAIN files' = 1 .. Len(files')
    BY BufferStep DEF BufferInv
  <1>3. CASE Serve
    BY <1>1, <1>2, <1>3 DEF Serve
  <1>4. CASE Fill
    BY <1>1, <1>2, <1>4 DEF Fill
  <1>5. CASE NextFile
    <2>1. current < Len(files) /\ current' = current + 1 /\ call' = call
      BY <1>5 DEF NextFile, EndOfFile
    <2> QED BY <1>1, <1>2, <2>1
  <1>6. CASE NoMore /\ call.op = "buf_read"
    <2>1. answer' = Unread /\ call' = NoCall /\ end + call.n > Len(loaded)
      BY <1>6 DEF NoMore, Short
    <2>2. Len(Unread) = Len(loaded) - end
      BY RestProperties
    <2>3. Len(answer') < call.n
      BY <2>1, <2>2 DEF BufferInv, Sizes
    <2> QED BY <1>1, <1>6, <2>1, <2>3
  <1>7. CASE NoMore /\ call.op # "buf_read"
    BY <1>1, <1>7 DEF NoMore, Short
  <1> QED BY <1>1, <1>3, <1>4, <1>5, <1>6, <1>7 DEF BufStep

\* A running program whose options and caches stay.
LEMMA SourceKept ==
  ASSUME SourceInv, Running, Same, files # <<>> => files' # <<>>
  PROVE  SourceInv'
  <1>1. opt' = opt /\ UNCHANGED <<scenario, session, passes_complete, opened, par, disk, finalname>>
    BY DEF Same, processVars, opt
  <1>2. session # 0
    BY DEF SourceInv, Running
  <1> QED BY <1>1, <1>2 DEF SourceInv, Running

LEMMA InCallStep ==
  ASSUME IInv, Sizes, InCall
  PROVE  IInv' /\ StreamStep
  <1>1. BufStep /\ Same /\ UNCHANGED <<pc, wanted>>
    BY DEF InCall, Same, readerVars
  <1>2. /\ BufferInv' /\ Len(files') = Len(files)
        /\ Stream!Read \/ Stream!ReadLine \/ UNCHANGED Stream!stream
    BY <1>1, BufferStep DEF IInv
  <1>3. /\ call # NoCall
        /\ \/ call' = call /\ current' \in DOMAIN files'
           \/ /\ call' = NoCall
              /\ \/ current' \in DOMAIN files'
                 \/ call.op = "buf_read" /\ Len(answer') < call.n
                 \/ call.op = "readto" /\ answer' = <<>>
    BY <1>1, BufferCall DEF IInv
  <1>4. \/ call.op = "readto" /\ pc = "line"
        \/ call.op = "buf_read" /\ pc \in Parts /\ call.n = wanted
    BY <1>3 DEF IInv, BufferInv, CallInv
  <1>5. CallInv'
    <2>1. pc' = pc /\ wanted' = wanted /\ pc \notin {"fetch", "decode", "read"}
          /\ (pc \in Parts => pc # "line")
      BY <1>1, <1>4 DEF Parts
    <2>2. NoCall.op = "none" /\ NoCall' = NoCall
      BY DEF NoCall
    <2>3. CASE call' = call /\ current' \in DOMAIN files'
      BY <1>4, <2>1, <2>3 DEF CallInv
    <2>4. CASE call' = NoCall /\ current' \in DOMAIN files'
      BY <1>4, <2>1, <2>2, <2>4 DEF CallInv
    <2>5. CASE call' = NoCall /\ call.op = "buf_read" /\ Len(answer') < call.n
      BY <1>4, <2>1, <2>2, <2>5 DEF CallInv
    <2>6. CASE call' = NoCall /\ call.op = "readto" /\ answer' = <<>>
      BY <1>4, <2>1, <2>2, <2>6 DEF CallInv, Parts
    <2> QED BY <1>3, <2>3, <2>4, <2>5, <2>6
  <1>6. SourceInv'
    <2>1. Running
      BY <1>4 DEF Running, Parts
    <2>2. files # <<>> => files' # <<>>
      <3>1. files \in Seq(Seq(Int)) /\ files' \in Seq(Seq(Int))
        BY <1>2 DEF IInv, BufferInv
      <3> QED BY <1>2, <3>1
    <2> QED BY <1>1, <2>1, <2>2, SourceKept DEF IInv
  <1> QED BY <1>2, <1>5, <1>6 DEF IInv, StreamStep, Stream!Next
\* Nothing is read outside a call.
LEMMA NotReading ==
  ASSUME UNCHANGED <<loaded, end, files, current>>
  PROVE  UNCHANGED Rest
  BY DEF Rest, Behind, Unread

\* A reader asks for n cells of the next part.
LEMMA Asks ==
  ASSUME IInv, Running, Same, Buffered, call = NoCall, current \in DOMAIN files,
         NEW n, Want(n), pc' \in Parts
  PROVE  IInv' /\ Stream!Ask
  <1>1. /\ call' = [op |-> "buf_read", n |-> n] /\ wanted' = n
        /\ UNCHANGED <<loaded, end, files, current, answer>>
    BY DEF Want, BufRead, Buffered
  <1>2. BufferInv'
    BY <1>1 DEF IInv, BufferInv, NoCall
  <1>3. CallInv'
    BY <1>1 DEF CallInv, Parts, NoCall
  <1>4. SourceInv'
    BY <1>1, SourceKept DEF IInv
  <1>5. Stream!Ask
    BY <1>1, StreamMapping, NotReading DEF NoCall
  <1> QED BY <1>2, <1>3, <1>4, <1>5 DEF IInv

\* A reader goes on without a call, or gives up.
LEMMA GoesOn ==
  ASSUME IInv, Running, Same, Buffered, call = NoCall, UNCHANGED call,
         \/ pc' \in {"decode", "read"} /\ current \in DOMAIN files
         \/ pc' \in {"reset", "exited"}
  PROVE  IInv' /\ UNCHANGED Stream!stream
  <1>1. UNCHANGED <<loaded, end, files, current, answer>>
    BY DEF Buffered
  <1>2. BufferInv'
    BY <1>1 DEF IInv, BufferInv, NoCall
  <1>3. CallInv'
    BY <1>1 DEF CallInv, Parts, NoCall
  <1>4. SourceInv'
    BY <1>1, SourceKept DEF IInv
  <1>5. UNCHANGED Stream!stream
    BY <1>1, StreamMapping, NotReading
  <1> QED BY <1>2, <1>3, <1>4, <1>5 DEF IInv

LEMMA FetchStep ==
  ASSUME IInv, Fetch
  PROVE  IInv' /\ StreamStep
  <1>1. /\ pc = "fetch" /\ Running /\ Same /\ Buffered /\ current \in DOMAIN files
        /\ call = NoCall
    BY DEF Fetch, Running, IInv, CallInv, BufferInv, Parts
  <1>2. CASE Want(2) /\ pc' = "label"
    BY <1>1, <1>2, Asks DEF Parts, StreamStep, Stream!Next
  <1>3. CASE ReadTo /\ pc' = "line"
    <2>1. /\ call' = [op |-> "readto", n |-> 0]
          /\ UNCHANGED <<loaded, end, files, current, answer>>
      BY <1>1, <1>3 DEF ReadTo, Buffered
    <2>2. BufferInv'
      BY <2>1 DEF IInv, BufferInv, NoCall
    <2>3. CallInv'
      BY <1>1, <1>3, <2>1 DEF CallInv, Parts, NoCall
    <2>4. SourceInv'
      BY <1>1, <2>1, SourceKept DEF IInv
    <2>5. Stream!Ask
      BY <1>1, <2>1, StreamMapping, NotReading DEF NoCall
    <2> QED BY <2>2, <2>3, <2>4, <2>5 DEF IInv, StreamStep, Stream!Next
  <1> QED BY <1>2, <1>3 DEF Fetch

LEMMA GotLineStep ==
  ASSUME IInv, GotLine
  PROVE  IInv' /\ StreamStep
  <1>1. /\ pc = "line" /\ call = NoCall /\ Same /\ Buffered /\ UNCHANGED call
        /\ Running
    BY DEF GotLine, inputVars, Buffered, Running
  <1>2. \/ pc' \in {"reset", "exited"}
        \/ pc' = "read" /\ answer # <<>>
    BY DEF GotLine
  <1>3. answer # <<>> => current \in DOMAIN files
    BY <1>1 DEF IInv, CallInv
  <1> QED BY <1>1, <1>2, <1>3, GoesOn DEF StreamStep

\* A part of a cached example has arrived: the reader asks for the next, goes on
\* without a call, or gives up.
LEMMA PartStep ==
  ASSUME IInv, pc \in Parts, call = NoCall, Same, Buffered,
         \/ Len(answer) < wanted /\ pc' = "reset" /\ UNCHANGED call
         \/ ~(Len(answer) < wanted) /\ pc' \in {"decode", "read"} /\ UNCHANGED call
         \/ ~(Len(answer) < wanted) /\ pc' \in Parts /\ \E n \in {wanted'} : Want(n)
  PROVE  IInv' /\ StreamStep
  <1>1. Running
    BY DEF Parts, Running
  <1>2. ~(Len(answer) < wanted) => current \in DOMAIN files
    BY DEF IInv, CallInv
  <1>3. CASE UNCHANGED call /\ pc' \in {"reset", "decode", "read"}
    BY <1>1, <1>2, <1>3, GoesOn DEF StreamStep, Parts
  <1>4. CASE ~(Len(answer) < wanted) /\ pc' \in Parts /\ \E n \in {wanted'} : Want(n)
    BY <1>1, <1>2, <1>4, Asks DEF StreamStep, Stream!Next
  <1> QED BY <1>3, <1>4

LEMMA GotStep ==
  ASSUME IInv,
         GotLabel \/ GotTagSize \/ GotTag \/ GotNumIndices \/ GotIndex \/ GotFeatures
  PROVE  IInv' /\ StreamStep
  <1>1. CASE GotLabel
    <2>1. pc = "label" /\ call = NoCall /\ Same /\ Buffered
      BY <1>1 DEF GotLabel, Got
    <2>2. \/ Len(answer) < wanted /\ pc' = "reset" /\ UNCHANGED call
          \/ ~(Len(answer) < wanted) /\ pc' = "tag_size" /\ Want(1)
      BY <1>1 DEF GotLabel, Got
    <2> QED BY <2>1, <2>2, PartStep DEF Parts, Want
  <1>2. CASE GotTagSize
    <2>1. pc = "tag_size" /\ call = NoCall /\ Same /\ Buffered
      BY <1>2 DEF GotTagSize, Got
    <2>2. \/ Len(answer) < wanted /\ pc' = "reset" /\ UNCHANGED call
          \/ ~(Len(answer) < wanted) /\ pc' = "tag" /\ Want(answer[1])
      BY <1>2 DEF GotTagSize, Got
    <2> QED BY <2>1, <2>2, PartStep DEF Parts, Want
  <1>3. CASE GotTag
    <2>1. pc = "tag" /\ call = NoCall /\ Same /\ Buffered
      BY <1>3 DEF GotTag, Got
    <2>2. \/ Len(answer) < wanted /\ pc' = "reset" /\ UNCHANGED call
          \/ ~(Len(answer) < wanted) /\ pc' = "num_indices" /\ Want(1)
      BY <1>3 DEF GotTag, Got
    <2> QED BY <2>1, <2>2, PartStep DEF Parts, Want
  <1>4. CASE GotNumIndices
    <2>1. pc = "num_indices" /\ call = NoCall /\ Same /\ Buffered
      BY <1>4 DEF GotNumIndices, Got
    <2>2. \/ Len(answer) < wanted /\ pc' = "reset" /\ UNCHANGED call
          \/ ~(Len(answer) < wanted) /\ pc' = "index" /\ Want(2)
          \/ ~(Len(answer) < wanted) /\ pc' = "read" /\ UNCHANGED call
      BY <1>4 DEF GotNumIndices, Got, NextNamespace
    <2> QED BY <2>1, <2>2, PartStep DEF Parts, Want
  <1>5. CASE GotIndex
    <2>1. pc = "index" /\ call = NoCall /\ Same /\ Buffered
      BY <1>5 DEF GotIndex, Got
    <2>2. \/ Len(answer) < wanted /\ pc' = "reset" /\ UNCHANGED call
          \/ ~(Len(answer) < wanted) /\ pc' = "features" /\ Want(answer[2])
      BY <1>5 DEF GotIndex, Got
    <2> QED BY <2>1, <2>2, PartStep DEF Parts, Want
  <1>6. CASE GotFeatures
    <2>1. pc = "features" /\ call = NoCall /\ Same /\ Buffered
      BY <1>6 DEF GotFeatures, Got
    <2>2. \/ Len(answer) < wanted /\ pc' = "reset" /\ UNCHANGED call
          \/ ~(Len(answer) < wanted) /\ pc' = "decode" /\ UNCHANGED call
      BY <1>6 DEF GotFeatures, Got
    <2> QED BY <2>1, <2>2, PartStep DEF Parts
  <1> QED BY <1>1, <1>2, <1>3, <1>4, <1>5, <1>6

LEMMA DecodeStep ==
  ASSUME IInv, Decode
  PROVE  IInv' /\ StreamStep
  <1>1. /\ pc = "decode" /\ Same /\ Buffered /\ Running
        /\ current \in DOMAIN files /\ call = NoCall
    BY DEF Decode, IInv, CallInv, BufferInv, Parts, Running
  <1>2. \/ pc' = "index" /\ Want(2)
        \/ pc' \in {"decode", "read"} /\ UNCHANGED call
    BY <1>1 DEF Decode, NextNamespace
  <1>3. CASE pc' = "index" /\ Want(2)
    BY <1>1, <1>3, Asks DEF Parts, StreamStep, Stream!Next
  <1>4. CASE pc' \in {"decode", "read"} /\ UNCHANGED call
    BY <1>1, <1>4, GoesOn DEF StreamStep
  <1> QED BY <1>2, <1>3, <1>4
\* Features are sorted and cached without the buffer that is read.
LEMMA PrepareStep ==
  ASSUME IInv, Prepare
  PROVE  IInv' /\ StreamStep
  <1>1. /\ pc = "read" /\ pc' \in {"exited", "fetch"} /\ Running
        /\ current \in DOMAIN files /\ call = NoCall
        /\ UNCHANGED <<loaded, end, files, current, call, answer, wanted>>
        /\ UNCHANGED <<scenario, session, par, opened, finalname, passes_complete>>
    BY DEF Prepare, IInv, CallInv, BufferInv, Parts, Running, inputVars
  <1>2. disk' = [f \in Files |-> disk'[f]]
    <2>1. disk = [f \in Files |-> disk[f]]
      BY DEF IInv, SourceInv
    <2>2. disk' = disk \/ disk' = [disk EXCEPT ![Temp(finalname)] = out'.file]
      BY DEF Prepare
    <2> QED BY <2>1, <2>2
  <1>3. BufferInv'
    BY <1>1 DEF IInv, BufferInv
  <1>4. CallInv'
    BY <1>1 DEF CallInv, Parts, NoCall
  <1>5. SourceInv'
    <2>1. opt' = opt /\ session # 0
      BY <1>1 DEF opt, IInv, SourceInv
    <2> QED BY <1>1, <1>2, <2>1 DEF IInv, SourceInv, Running
  <1>6. UNCHANGED Stream!stream
    BY <1>1, StreamMapping, NotReading
  <1> QED BY <1>3, <1>4, <1>5, <1>6 DEF IInv, StreamStep

LEMMA KillStep ==
  ASSUME IInv, Kill
  PROVE  IInv' /\ StreamStep
  <1>1. /\ Running /\ pc' = "killed" /\ call' = NoCall /\ Same
        /\ UNCHANGED <<loaded, end, files, current, answer>>
    BY DEF Kill, Buffered
  <1>2. BufferInv' /\ CallInv'
    BY <1>1 DEF IInv, BufferInv, CallInv, NoCall, Parts
  <1>3. SourceInv'
    BY <1>1, SourceKept DEF IInv
  <1>4. Stream!Drop \/ UNCHANGED Stream!stream
    BY <1>1, StreamMapping, NotReading
  <1> QED BY <1>2, <1>3, <1>4 DEF IInv, StreamStep, Stream!Next

LEMMA LaunchStep ==
  ASSUME IInv, Launch
  PROVE  IInv' /\ StreamStep
  <1>1. /\ pc \in {"done", "exited", "killed"} /\ pc' = "start"
        /\ session < Len(scenario.sessions) /\ session' = session + 1
        /\ UNCHANGED <<loaded, end, files, current, call, answer, wanted>>
        /\ UNCHANGED <<scenario, disk, par, opened, passes_complete>>
    BY DEF Launch, inputVars, processVars, readerVars
  <1>2. call = NoCall
    BY <1>1 DEF IInv, CallInv, BufferInv, Parts
  <1>3. BufferInv' /\ CallInv'
    BY <1>1, <1>2 DEF IInv, BufferInv, CallInv, NoCall, Parts
  <1>4. SourceInv'
    <2>1. Len(scenario.sessions) \in Nat
      BY ScenarioAssumption DEF IInv, SourceInv
    <2> QED BY <1>1, <2>1 DEF IInv, SourceInv, Running
  <1>5. UNCHANGED Stream!stream
    BY <1>1, StreamMapping, NotReading
  <1> QED BY <1>3, <1>4, <1>5 DEF IInv, StreamStep

\* What there is to read after the files are opened or rewound.
LEMMA ContentsTyped ==
  ASSUME NEW d, \A f \in Files : d[f] \in Seq(Int), NEW names \in Seq(CacheNames)
  PROVE  /\ [i \in DOMAIN names |-> Contents(d, names[i])] \in Seq(Seq(Int))
         /\ names # <<>> => [i \in DOMAIN names |-> Contents(d, names[i])] # <<>>
  <1> DEFINE s == [i \in DOMAIN names |-> Contents(d, names[i])]
  <1>1. Len(names) \in Nat /\ DOMAIN names = 1 .. Len(names)
    OBVIOUS
  <1>2. ASSUME NEW i \in 1 .. Len(names) PROVE Contents(d, names[i]) \in Seq(Int)
    <2>1. Final(names[i]) \in Files
      BY DEF Final, Files
    <2>2. d[Final(names[i])] \in Seq(Int)
      BY <2>1
    <2>3. ASSUME NEW c \in Seq(Int) PROVE SubSeq(c, 3, Len(c)) \in Seq(Int)
      <3>1. \A j \in 3 .. Len(c) : c[j] \in Int
        OBVIOUS
      <3> QED BY <3>1, SubSeqProperties
    <2> QED BY <2>2, <2>3 DEF Contents
  <1>3. s \in Seq(Seq(Int)) /\ Len(s) = Len(names)
    <2>1. s \in [1 .. Len(names) -> Seq(Int)]
      BY <1>1, <1>2
    <2> HIDE DEF s
    <2> QED BY <1>1, <2>1
  <1>4. names # <<>> => Len(names) # 0
    OBVIOUS
  <1> QED BY <1>3, <1>4

LEMMA StartStep ==
  ASSUME IInv, Cells, Start
  PROVE  IInv' /\ StreamStep
  <1>1. /\ pc = "start" /\ call = NoCall /\ UNCHANGED <<scenario, session, call, answer>>
        /\ opened' = AfterCaches.opened /\ disk' = AfterCaches.disk
        /\ finalname' = AfterCaches.finalname
        /\ par' = [AfterCaches.par EXCEPT !.resettable = @ \/ AfterCaches.par.write_cache]
        /\ passes_complete' = 0
        /\ loaded' = <<>> /\ end' = 0 /\ current' = 1
        /\ files' = IF opened' = <<>> THEN <<scenario.text>>
                    ELSE [i \in DOMAIN opened' |-> Contents(disk, opened'[i])]
        /\ pc' = IF opt.passes > 1 /\ ~par'.resettable THEN "exited" ELSE "fetch"
    BY DEF Start, Rewound, IInv, BufferInv, CallInv, Parts
  <1>2. /\ scenario.text \in Seq(Int) /\ session # 0 /\ session \in DOMAIN scenario.sessions
        /\ opt \in Session
    <2>1. scenario \in Scenarios /\ session \in 1 .. Len(scenario.sessions)
      BY <1>1 DEF IInv, SourceInv
    <2>2. scenario.text \in Seq(Int) /\ scenario.sessions \in Seq(Session)
      BY <2>1, ScenarioTyped
    <2> QED BY <1>1, <2>1, <2>2 DEF IInv, SourceInv, opt
  <1>3. AfterCaches \in Opened
    <2>1. DOMAIN disk = Files /\ disk = [f \in DOMAIN disk |-> disk[f]]
      BY DEF IInv, SourceInv
    <2>2. opt.caches \in Seq(CacheNames)
      BY <1>2 DEF Session
    <2> QED BY <2>1, <2>2, CachesOpened
  <1> DEFINE v == AfterCaches
  <1>4. /\ v.opened \in Seq(CacheNames) /\ v.par \in ParserStates
        /\ v.disk = [f \in Files |-> v.disk[f]]
        /\ v.par.resettable => v.opened # <<>>
        /\ v.par.write_cache => v.finalname \in CacheNames
    <2> HIDE DEF v
    <2> QED BY <1>3 DEF Opened, Opening, v
  <1> HIDE DEF v
  <1>5. /\ par' \in ParserStates
        /\ par'.resettable = (v.par.resettable \/ v.par.write_cache)
        /\ par'.write_cache = v.par.write_cache
    BY <1>1, <1>4 DEF v, ParserStates
  <1>6. /\ files' \in Seq(Seq(Int)) /\ files' # <<>>
    <2>1. CASE opened' = <<>>
      BY <1>1, <1>2, <2>1
    <2>2. CASE opened' # <<>>
      <3>1. opened' \in Seq(CacheNames)
        BY <1>1, <1>4 DEF v
      <3>2. \A f \in Files : disk[f] \in Seq(Int)
        BY DEF Cells
      <3> DEFINE names == opened'
      <3>3. /\ [i \in DOMAIN names |-> Contents(disk, names[i])] \in Seq(Seq(Int))
            /\ [i \in DOMAIN names |-> Contents(disk, names[i])] # <<>>
        <4>1. names \in Seq(CacheNames) /\ names # <<>>
          BY <2>2, <3>1
        <4> HIDE DEF names
        <4> QED BY <3>2, <4>1, ContentsTyped
      <3> QED BY <1>1, <2>2, <3>3
    <2> QED BY <2>1, <2>2
  <1>7. 1 \in DOMAIN files' /\ Len(files') \in Nat
    BY <1>6
  <1>8. BufferInv'
    <2>1. loaded' \in Seq(Int) /\ end' \in 0 .. Len(loaded')
      BY <1>1
    <2>2. current' \in 1 .. Len(files') + 1
      BY <1>1, <1>7
    <2> QED BY <1>1, <1>6, <2>1, <2>2 DEF IInv, BufferInv
  <1>9. CallInv'
    BY <1>1, <1>7 DEF CallInv, NoCall, Parts
  <1>10. SourceInv'
    <2>1. opt' = opt /\ opt.passes \in Nat
      BY <1>1, <1>2 DEF opt, Session
    <2>2. Running' => par'.resettable \/ opt.passes <= 1
      BY <1>1, <2>1 DEF Running
    <2>3. /\ opened' \in Seq(CacheNames) /\ disk' = [f \in Files |-> disk'[f]]
          /\ par'.resettable => opened' # <<>> \/ par'.write_cache
          /\ par'.write_cache => finalname' \in CacheNames
          /\ par'.write_cache => par'.resettable
      BY <1>1, <1>4, <1>5 DEF v
    <2> QED BY <1>1, <1>2, <1>5, <1>6, <2>1, <2>2, <2>3 DEF IInv, SourceInv
  <1>11. Stream!Reopen
    BY <1>1, StreamMapping
  <1> QED BY <1>8, <1>9, <1>10, <1>11 DEF IInv, StreamStep, Stream!Next
LEMMA EndPassStep ==
  ASSUME IInv, Cells', EndPass
  PROVE  IInv' /\ StreamStep
  <1>1. /\ pc = "reset" /\ Running /\ UNCHANGED <<scenario, session, call, answer>>
        /\ opened' = IF par.write_cache THEN <<finalname>> ELSE opened
        /\ disk' = IF par.write_cache THEN Renamed(disk) ELSE disk
        /\ par' = IF par.write_cache
                    THEN [par EXCEPT !.write_cache = FALSE, !.reader = "cache"] ELSE par
        /\ passes_complete' = passes_complete + 1
        /\ current' = 1
    BY DEF EndPass, Rewound, Running
  <1>2. /\ call = NoCall /\ session # 0 /\ par \in ParserStates /\ opt \in Session
        /\ passes_complete \in Nat /\ opened \in Seq(CacheNames)
    <2>1. call = NoCall /\ session # 0
      BY <1>1 DEF IInv, CallInv, BufferInv, SourceInv, Parts
    <2>2. scenario \in Scenarios /\ session \in 1 .. Len(scenario.sessions)
      BY <2>1 DEF IInv, SourceInv
    <2>3. scenario.text \in Seq(Int) /\ scenario.sessions \in Seq(Session)
      BY <2>2, ScenarioTyped
    <2> QED BY <2>1, <2>2, <2>3 DEF IInv, SourceInv, opt
  <1>3. /\ files # <<>>
        /\ par.write_cache => finalname \in CacheNames
        /\ par.resettable => opened # <<>> \/ par.write_cache
        /\ ~par.resettable => opt.passes <= 1 /\ ~par.write_cache
    BY <1>1 DEF IInv, SourceInv
  <1>4. /\ par' \in ParserStates /\ par'.write_cache = FALSE
        /\ par'.resettable = par.resettable
    BY <1>1, <1>2 DEF ParserStates
  <1>5. opened' \in Seq(CacheNames) /\ (par.resettable => opened' # <<>>)
    BY <1>1, <1>2, <1>3
  <1>6. disk' = [f \in Files |-> disk'[f]]
    <2>1. disk = [f \in Files |-> disk[f]]
      BY DEF IInv, SourceInv
    <2> QED BY <1>1, <2>1 DEF Renamed
  <1>7. /\ loaded' \in Seq(Int) /\ end' \in 0 .. Len(loaded')
        /\ files' \in Seq(Seq(Int)) /\ files' # <<>>
    <2>1. CASE par.resettable
      <3> DEFINE names == opened'
                 d == disk'
                 all == [i \in DOMAIN names |-> Contents(d, names[i])]
      <3>1. loaded' = <<>> /\ end' = 0 /\ files' = all
        BY <2>1 DEF EndPass, Rewound
      <3>2. names \in Seq(CacheNames) /\ names # <<>> /\ \A f \in Files : d[f] \in Seq(Int)
        BY <1>5, <2>1 DEF Cells
      <3>3. all \in Seq(Seq(Int)) /\ all # <<>>
        <4> HIDE DEF names, d
        <4> QED BY <3>2, ContentsTyped
      <3> QED BY <3>1, <3>3
    <2>2. CASE ~par.resettable
      BY <1>3, <2>2 DEF EndPass, IInv, BufferInv
    <2> QED BY <2>1, <2>2
  <1>8. 1 \in DOMAIN files' /\ Len(files') \in Nat
    BY <1>7
  <1>9. BufferInv'
    BY <1>1, <1>7, <1>8 DEF IInv, BufferInv
  <1>10. CallInv'
    BY <1>1, <1>2, <1>8 DEF CallInv, NoCall, Parts, EndPass
  <1>11. SourceInv'
    <2>1. opt' = opt
      BY <1>1 DEF opt
    <2>2. pc' \in {"exited", "done", "fetch"}
      BY DEF EndPass
    <2> QED BY <1>1, <1>2, <1>3, <1>4, <1>5, <1>6, <1>7, <2>1, <2>2 DEF IInv, SourceInv
  <1>12. Stream!Reopen
    BY <1>1, <1>2, StreamMapping
  <1> QED BY <1>9, <1>10, <1>11, <1>12 DEF IInv, StreamStep, Stream!Next

LEMMA InitInv ==
  ASSUME Init
  PROVE  IInv
  <1>1. BufferInv
    BY DEF Init, BufferInv, NoCall
  <1>2. CallInv
    BY DEF Init, CallInv, NoCall, Parts
  <1>3. SourceInv
    <2>1. Len(scenario.sessions) \in Nat /\ scenario \in Scenarios
      BY ScenarioAssumption DEF Init
    <2> QED BY <2>1 DEF Init, SourceInv, Running, NewParser, ParserStates
  <1> QED BY <1>1, <1>2, <1>3 DEF IInv

LEMMA NextStep ==
  ASSUME IInv, Cells, Cells', Sizes, [Next]_vars
  PROVE  IInv' /\ StreamStep
  <1>1. CASE UNCHANGED vars
    <2>1. UNCHANGED <<loaded, end, files, current, call, answer, wanted>>
      BY <1>1 DEF vars, inputVars, readerVars
    <2>2. UNCHANGED <<scenario, session, pc, disk, par, opened, finalname, passes_complete>>
      BY <1>1 DEF vars, processVars
    <2>3. BufferInv' /\ CallInv'
      BY <2>1, <2>2 DEF IInv, BufferInv, CallInv
    <2>4. SourceInv'
      BY <2>1, <2>2 DEF IInv, SourceInv, Running, opt
    <2>5. UNCHANGED Stream!stream
      BY <2>1, StreamMapping, NotReading
    <2> QED BY <2>3, <2>4, <2>5 DEF IInv, StreamStep
  <1>2. CASE Kill
    BY <1>2, KillStep
  <1>3. CASE Step
    BY <1>3, LaunchStep, StartStep, FetchStep, InCallStep, GotLineStep, GotStep, DecodeStep,
       PrepareStep, EndPassStep DEF Step
  <1> QED BY <1>1, <1>2, <1>3 DEF Next, Finished

-----------------------------------------------------------------------------
(* The buffer that is written to                                           *)

\* The doubles of s that are enough for n.
Doubles(s, n) == {x \in Nat : n <= x /\ \E k \in Nat : x = s * Pow2[k]}
Least(T) == CHOOSE x \in T : \A y \in T : x <= y

LEMMA DoublesAgain ==
  ASSUME NEW s \in Nat, NEW n \in Nat, s < n
  PROVE  Doubles(s, n) = Doubles(2 * s, n)
  <1>1. \A k \in Nat : Pow2[k] \in Nat
    BY Pow2Step
  <1>2. ASSUME NEW k \in Nat PROVE (2 * s) * Pow2[k] = s * Pow2[k + 1]
    <2> DEFINE p == Pow2[k]
    <2>1. p \in Nat /\ Pow2[k + 1] = 2 * p
      BY Pow2Step
    <2> HIDE DEF p
    <2>2. (2 * s) * p = s * (2 * p)
      BY <2>1
    <2> QED BY <2>1, <2>2 DEF p
  <1>3. ASSUME NEW x \in Doubles(s, n) PROVE x \in Doubles(2 * s, n)
    <2>1. PICK k \in Nat : x = s * Pow2[k]
      BY DEF Doubles
    <2>2. x \in Nat /\ n <= x
      BY DEF Doubles
    <2>3. k # 0
      <3> SUFFICES ASSUME k = 0 PROVE FALSE
        OBVIOUS
      <3>1. Pow2[0] = 1
        BY Pow2Step
      <3>2. x = s
        BY <2>1, <3>1
      <3> QED BY <2>2, <3>2
    <2>4. k - 1 \in Nat /\ (k - 1) + 1 = k
      BY <2>3
    <2>5. x = (2 * s) * Pow2[k - 1]
      BY <1>2, <2>1, <2>4
    <2> QED BY <2>2, <2>4, <2>5 DEF Doubles
  <1>4. ASSUME NEW x \in Doubles(2 * s, n) PROVE x \in Doubles(s, n)
    <2>1. PICK k \in Nat : x = (2 * s) * Pow2[k]
      BY DEF Doubles
    <2>2. x = s * Pow2[k + 1] /\ k + 1 \in Nat
      BY <1>2, <2>1
    <2> QED BY <2>2 DEF Doubles
  <1> QED BY <1>3, <1>4

\* A buffer that is doubled until it has enough.
LEMMA DoubledTyped ==
  ASSUME NEW size \in Nat \ {0}, NEW n \in Nat
  PROVE  Doubled(size, n) \in Nat \ {0} /\ Doubled(size, n) >= n
  <1> DEFINE Is(f) == f = [s \in Nat |-> IF n <= s THEN s ELSE f[2 * s]]
             D == CHOOSE f : Is(f)
             g == [s \in Nat |-> IF n <= s THEN s ELSE Least(Doubles(s, n))]
  <1>1. Doubled(size, n) = D[size]
    BY DEF Doubled
  <1>2. ASSUME NEW s \in Nat PROVE g[s] = IF n <= s THEN s ELSE g[2 * s]
    <2>1. CASE n <= s
      BY <2>1
    <2>2. CASE ~(n <= s)
      <3>1. 2 * s \in Nat /\ s < n
        BY <2>2
      <3>2. g[s] = Least(Doubles(2 * s, n))
        BY <2>2, <3>1, DoublesAgain
      <3>3. CASE ~(n <= 2 * s)
        BY <2>2, <3>1, <3>2, <3>3
      <3>4. CASE n <= 2 * s
        <4> DEFINE u == 2 * s
                   T == Doubles(u, n)
        <4>1. u \in T
          <5>1. u = u * Pow2[0] /\ 0 \in Nat
            BY Pow2Step
          <5> QED BY <3>1, <3>4, <5>1 DEF Doubles
        <4>2. ASSUME NEW y \in T PROVE y \in Nat /\ u <= y
          <5>1. PICK k \in Nat : y = u * Pow2[k]
            BY DEF Doubles
          <5> DEFINE p == Pow2[k]
          <5>2. p \in Nat \ {0}
            BY Pow2Step
          <5> HIDE DEF p, u
          <5>3. u * p >= u /\ u * p \in Nat
            <6>1. u \in Nat /\ 1 <= p /\ p \in Nat
              BY <3>1, <5>2 DEF u
            <6>2. p * u \in Nat /\ 1 * u <= p * u
              BY <6>1, Times
            <6>3. p * u = u * p /\ 1 * u = u
              BY <6>1
            <6> QED BY <6>2, <6>3
          <5>4. u \in Nat
            BY <3>1 DEF u
          <5> QED BY <5>1, <5>3, <5>4 DEF p
        <4> HIDE DEF T, u
        <4>3. Least(T) = u
          <5>1. \A x \in T : (\A y \in T : x <= y) => x = u
            BY <4>1, <4>2
          <5> QED BY <4>1, <4>2, <5>1 DEF Least
        <4>4. g[s] = u /\ g[u] = u
          <5>1. u \in Nat /\ n <= u
            BY <3>1, <3>4 DEF u
          <5> QED BY <3>2, <4>3, <5>1 DEF T, u
        <4> QED BY <2>2, <4>4 DEF u
      <3> QED BY <3>3, <3>4
    <2> QED BY <2>1, <2>2
  <1>3. Is(g)
    <2>1. g = [s \in Nat |-> g[s]]
      OBVIOUS
    <2> HIDE DEF g
    <2> QED BY <1>2, <2>1
  <1>4. Is(D)
    <2> HIDE DEF Is
    <2> QED BY <1>3
  <1> HIDE DEF D, g
  <1>5. \A s \in Nat : D[s] = IF n <= s THEN s ELSE D[2 * s]
    BY <1>4
  <1> DEFINE S == {m \in Nat : \A s \in Nat \ {0} : n - s <= m => D[s] \in Nat \ {0} /\ D[s] >= n}
  <1>6. 0 \in S
    <2> SUFFICES ASSUME NEW s \in Nat \ {0}, n - s <= 0 PROVE D[s] \in Nat \ {0} /\ D[s] >= n
      OBVIOUS
    <2>1. n <= s
      OBVIOUS
    <2> QED BY <1>5, <2>1
  <1>7. ASSUME NEW m \in Nat, m \in S PROVE m + 1 \in S
    <2> SUFFICES ASSUME NEW s \in Nat \ {0}, n - s <= m + 1
                 PROVE  D[s] \in Nat \ {0} /\ D[s] >= n
      OBVIOUS
    <2>1. CASE n <= s
      BY <1>5, <2>1
    <2>2. CASE ~(n <= s)
      <3>1. 2 * s \in Nat \ {0} /\ n - 2 * s <= m
        OBVIOUS
      <3>2. D[s] = D[2 * s]
        BY <1>5, <2>2
      <3> QED BY <1>7, <3>1, <3>2
    <2> QED BY <2>1, <2>2
  <1>8. n \in S
    <2> HIDE DEF S
    <2> QED BY <1>6, <1>7, SetInduction
  <1>9. n - size <= n
    OBVIOUS
  <1> QED BY <1>1, <1>8, <1>9

\* The buffer and the file behind it: all that was written.
Outs == [space : Seq(Int), size : Nat \ {0}, file : Seq(Int)]
Given(o) == Cat(o.file, o.space)
Piece == [room : Nat, cells : Seq(Int)]

LEMMA Flushed ==
  ASSUME NEW o \in Outs
  PROVE  /\ Flush(o) \in Outs /\ Flush(o).file = Given(o) /\ Given(Flush(o)) = Given(o)
         /\ Flush(o).space = <<>> /\ Flush(o).size = o.size /\ Given(o) \in Seq(Int)
  <1> DEFINE g == Given(o)
  <1>1. o.file \in Seq(Int) /\ o.space \in Seq(Int) /\ o.size \in Nat \ {0}
        /\ o = [space |-> o.space, size |-> o.size, file |-> o.file]
    BY DEF Outs
  <1>2. g \in Seq(Int)
    BY <1>1, CatProperties DEF Given
  <1>3. Flush(o) = [space |-> <<>>, size |-> o.size, file |-> g]
    <2>1. Flush(o) = [o EXCEPT !.file = g, !.space = <<>>]
      BY DEF Flush, Given, Cat
    <2> HIDE DEF g
    <2> QED BY <1>1, <2>1
  <1> HIDE DEF g
  <1>4. <<>> \in Seq(Int)
    OBVIOUS
  <1>5. Flush(o) \in Outs
    BY <1>1, <1>2, <1>3, <1>4 DEF Outs
  <1>6. Cat(g, <<>>) = g
    BY <1>2, ConcatEmptySeq DEF Cat
  <1>7. Given(Flush(o)) = g
    BY <1>3, <1>6 DEF Given
  <1> QED BY <1>2, <1>3, <1>5, <1>7 DEF g

\* buf_write loses nothing, whether it flushes and grows the buffer or not.
LEMMA PieceWritten ==
  ASSUME NEW o \in Outs, NEW piece \in Piece
  PROVE  /\ BufWrite(o, piece) \in Outs
         /\ Given(BufWrite(o, piece)) = Cat(Given(o), piece.cells)
  <1> DEFINE p == IF Len(o.space) + piece.room <= o.size THEN o ELSE Flush(o)
             s == Cat(p.space, piece.cells)
             z == Doubled(p.size, piece.room)
             cs == piece.cells
  <1>1. p \in Outs /\ Given(p) = Given(o)
    BY Flushed
  <1>2. BufWrite(o, piece) = [p EXCEPT !.space = s, !.size = z]
    BY DEF BufWrite, Cat
  <1>3. cs \in Seq(Int) /\ piece.room \in Nat
    BY DEF Piece
  <1> HIDE DEF p, cs
  <1>4. /\ p.file \in Seq(Int) /\ p.space \in Seq(Int) /\ p.size \in Nat \ {0}
        /\ p = [space |-> p.space, size |-> p.size, file |-> p.file]
    BY <1>1 DEF Outs
  <1>5. s \in Seq(Int)
    BY <1>3, <1>4, CatProperties DEF cs
  <1>6. z \in Nat \ {0}
    BY <1>3, <1>4, DoubledTyped
  <1>7. Cat(p.file, s) = Cat(Given(o), cs)
    <2>1. Cat(Cat(p.file, p.space), cs) = Cat(p.file, Cat(p.space, cs))
      BY <1>3, <1>4, CatAssociative
    <2> QED BY <1>1, <2>1 DEF Given, cs
  <1> HIDE DEF s, z
  <1>8. BufWrite(o, piece) = [space |-> s, size |-> z, file |-> p.file]
    BY <1>2, <1>4
  <1>9. BufWrite(o, piece) \in Outs
    BY <1>4, <1>5, <1>6, <1>8 DEF Outs
  <1>10. Given(BufWrite(o, piece)) = Cat(p.file, s)
    BY <1>8 DEF Given
  <1> QED BY <1>7, <1>9, <1>10 DEF cs

\* What an example asks buf_write for.
LEMMA PiecesTyped ==
  ASSUME NEW c \in 0 .. MaxBits, NEW e \in Filled(c)
  PROVE  /\ CacheExample(e) \in Seq(Piece)
         /\ \A i \in 1 .. Len(CacheExample(e)) :
              Len(CacheExample(e)[i].cells) <= CacheExample(e)[i].room
  <1> DEFINE n == Len(e.indices)
             P == CacheExample(e)
             t == e.tag
             O(j) == OutputFeatures(e.indices[j], e.atomics[e.indices[j]])
             B(j) == Body(e.atomics[e.indices[j]])
             R(j) == Storage(e.atomics[e.indices[j]])
  <1>1. /\ n \in Nat /\ Len(P) = n + 3 /\ P = [i \in 1 .. n + 3 |-> P[i]]
        /\ P[1] = CacheLabel(e) /\ P[2] = CacheTag(e) /\ P[3] = OutputByte(n)
        /\ \A j \in 1 .. n : P[j + 3] = O(j)
    BY Pieces
  <1>2. c \in Nat
    BY WidthAssumption
  <1>3. /\ e.label \in Int /\ e.weight \in Int /\ t \in Seq(Int)
        /\ \A j \in 1 .. n : e.indices[j] \in Namespaces /\ e.indices[j] \in Int
    BY <1>2, FilledFields
  <1>5. /\ P[1] = [room |-> 2, cells |-> <<e.label, e.weight>>]
        /\ P[2] = [room |-> 1 + Len(t), cells |-> Cat(<<Len(t)>>, t)]
        /\ P[3] = [room |-> 1, cells |-> <<n>>]
        /\ \A j \in 1 .. n :
             O(j) = [room |-> 2 + R(j), cells |-> Cat(<<e.indices[j], Len(B(j))>>, B(j))]
    BY <1>1 DEF CacheLabel, CacheTag, OutputByte, OutputFeatures, Cat
  <1>6. ASSUME NEW j \in 1 .. n PROVE B(j) \in Seq(Int) /\ Len(B(j)) <= R(j) /\ R(j) \in Nat
    <2> DEFINE ns == e.indices[j]
    <2>1. ns \in Namespaces
      BY <1>3
    <2> HIDE DEF ns
    <2>2. e.atomics[ns] \in Seq(CachedFeature)
      BY <2>1, Cacheable
    <2> QED BY <2>2, BodyFits DEF ns
  <1> HIDE DEF P, B, R, O, n
  <1>7. P[1] \in Piece /\ Len(P[1].cells) <= P[1].room
    <2> DEFINE q == <<e.label, e.weight>>
    <2>1. q \in Seq(Int) /\ Len(q) = 2
      BY <1>3
    <2> HIDE DEF q
    <2> QED BY <1>5, <2>1 DEF q, Piece
  <1>8. P[2] \in Piece /\ Len(P[2].cells) <= P[2].room
    <2> DEFINE q == <<Len(t)>>
               r == Cat(q, t)
    <2>1. q \in Seq(Int) /\ Len(q) = 1 /\ Len(t) \in Nat
      BY <1>3
    <2> HIDE DEF q
    <2>2. r \in Seq(Int) /\ Len(r) = Len(q) + Len(t)
      BY <1>3, <2>1, CatProperties
    <2> HIDE DEF r
    <2>3. P[2] = [room |-> 1 + Len(t), cells |-> r]
      BY <1>5 DEF r, q
    <2> QED BY <2>1, <2>2, <2>3 DEF Piece
  <1>9. P[3] \in Piece /\ Len(P[3].cells) <= P[3].room
    <2> DEFINE q == <<n>>
    <2>1. q \in Seq(Int) /\ Len(q) = 1
      BY <1>1
    <2> HIDE DEF q
    <2> QED BY <1>5, <2>1 DEF q, Piece
  <1>10. ASSUME NEW j \in 1 .. n PROVE O(j) \in Piece /\ Len(O(j).cells) <= O(j).room
    <2> DEFINE q == <<e.indices[j], Len(B(j))>>
               b == B(j)
               r == Cat(q, b)
    <2>1. q \in Seq(Int) /\ Len(q) = 2 /\ b \in Seq(Int) /\ Len(b) \in Nat
      BY <1>3, <1>6
    <2>2. R(j) \in Nat /\ Len(b) <= R(j)
      BY <1>6
    <2> HIDE DEF q, b
    <2>3. r \in Seq(Int) /\ Len(r) = Len(q) + Len(b)
      BY <2>1, CatProperties
    <2> HIDE DEF r
    <2>4. O(j) = [room |-> 2 + R(j), cells |-> r]
      BY <1>5 DEF r, q, b
    <2> QED BY <2>1, <2>2, <2>3, <2>4 DEF Piece
  <1>11. ASSUME NEW i \in 1 .. n + 3 PROVE P[i] \in Piece /\ Len(P[i].cells) <= P[i].room
    <2>1. CASE i <= 3
      <3>1. i = 1 \/ i = 2 \/ i = 3
        BY <1>1, <2>1
      <3> QED BY <1>7, <1>8, <1>9, <3>1
    <2>2. CASE i > 3
      <3>1. i - 3 \in 1 .. n /\ (i - 3) + 3 = i
        BY <1>1, <2>2
      <3>2. P[(i - 3) + 3] = O(i - 3)
        BY <1>1, <3>1
      <3> QED BY <1>10, <3>1, <3>2
    <2> QED BY <2>1, <2>2
  <1>12. P \in Seq(Piece)
    <2> DEFINE W == Piece
    <2>1. P \in [1 .. n + 3 -> W] /\ n + 3 \in Nat
      BY <1>1, <1>11
    <2> HIDE DEF W
    <2>2. P \in Seq(W)
      BY <2>1
    <2> QED BY <2>2 DEF W
  <1> QED BY <1>1, <1>11, <1>12 DEF P

\* output_features and what comes before it append the cells of the example.
LEMMA ExampleWritten ==
  ASSUME NEW o \in Outs, NEW c \in 0 .. MaxBits, NEW e \in Filled(c)
  PROVE  /\ FoldLeft(BufWrite, o, CacheExample(e)) \in Outs
         /\ Given(FoldLeft(BufWrite, o, CacheExample(e))) = Cat(Given(o), Enc(e))
  <1> DEFINE s == CacheExample(e)
  <1>0. s \in Seq(Piece)
    BY PiecesTyped
  <1> DEFINE n == Len(s)
             V == Outs
             More(x, y) == BufWrite(x, y)
             G == [p \in (1 .. n) \X V |-> More(p[2], s[p[1]])]
             Is(f) == f = [T \in SUBSET DOMAIN s |->
                             IF T = {} THEN o ELSE More(f[T \ {Max(T)}], s[Max(T)])]
             F == CHOOSE f : Is(f)
  <1>1. n \in Nat /\ DOMAIN s = 1 .. n /\ \A i \in 1 .. n : s[i] \in Piece
    <2> DEFINE W == Piece
    <2>1. s \in Seq(W)
      BY <1>0
    <2> HIDE DEF W, s
    <2>2. n \in Nat /\ DOMAIN s = 1 .. n /\ \A i \in 1 .. n : s[i] \in W
      BY <2>1
    <2> QED BY <2>2 DEF W
  <1>2. FoldLeft(BufWrite, o, s) = F[1 .. n]
    BY <1>1 DEF FoldLeft, MapThenFoldSet
  <1>3. \A i \in 1 .. n, x \in V : More(x, s[i]) \in V
    BY <1>1, PieceWritten
  <1>4. o \in V
    OBVIOUS
  <1> HIDE DEF n, V, More
  <1>5. /\ G \in [(1 .. n) \X V -> V]
        /\ \A i \in 1 .. n, x \in V : G[<<i, x>>] = More(x, s[i])
    BY <1>3
  <1> HIDE DEF G
  <1>6. PICK f \in [SUBSET (1 .. n) -> V] : SetBySet(f, n, o, G)
    BY <1>1, <1>4, <1>5, SetRecursion
  <1>7. ASSUME NEW T \in SUBSET (1 .. n)
        PROVE  f[T] = IF T = {} THEN o ELSE More(f[T \ {Max(T)}], s[Max(T)])
    <2>1. CASE T = {}
      BY <1>6, <2>1 DEF SetBySet
    <2>2. CASE T # {}
      <3>1. Max(T) \in 1 .. n
        BY <1>1, <2>2, Largest
      <3>2. f[T \ {Max(T)}] \in V
        OBVIOUS
      <3>3. f[T] = G[<<Max(T), f[T \ {Max(T)}]>>]
        BY <1>6, <2>2 DEF SetBySet
      <3> QED BY <1>5, <2>2, <3>1, <3>2, <3>3
    <2> QED BY <2>1, <2>2
  <1>8. Is(f)
    BY <1>1, <1>7
  <1>9. Is(F)
    <2> HIDE DEF Is
    <2> QED BY <1>8
  <1> HIDE DEF F
  <1>10. \A T \in SUBSET (1 .. n) :
           F[T] = IF T = {} THEN o ELSE More(F[T \ {Max(T)}], s[Max(T)])
    BY <1>1, <1>9
  <1>11. Follows(F, n, o, G, V)
    <2>1. F[{}] = o
      BY <1>10
    <2>2. ASSUME NEW T \in SUBSET (1 .. n), T # {}, F[T \ {Max(T)}] \in V
          PROVE  F[T] = G[<<Max(T), F[T \ {Max(T)}]>>]
      <3>1. Max(T) \in 1 .. n
        BY <1>1, <2>2, Largest
      <3> QED BY <1>5, <1>10, <2>2, <3>1
    <2> QED BY <2>1, <2>2 DEF Follows
  <1>12. PICK h \in [0 .. n -> V] : InTurn(h, F, n, o, G)
    BY <1>1, <1>4, <1>5, <1>11, PlacesInTurn
  <1>13. /\ h[0] = o /\ h[n] = F[1 .. n]
         /\ \A k \in 1 .. n : h[k] = More(h[k - 1], s[k])
    <2> SUFFICES ASSUME NEW k \in 1 .. n PROVE h[k] = More(h[k - 1], s[k])
      BY <1>12 DEF InTurn
    <2>1. k - 1 \in 0 .. n
      BY <1>1
    <2>2. h[k] = G[<<k, h[k - 1]>>]
      BY <1>12 DEF InTurn
    <2> QED BY <1>5, <2>1, <2>2
  <1> DEFINE C == [i \in DOMAIN s |-> s[i].cells]
             S == {k \in Nat : k <= n =>
                     Cat(Given(h[k]), FlatFrom(C, k + 1)) = Cat(Given(o), FlatFrom(C, 1))}
  <1>14. /\ C \in Seq(Seq(Int)) /\ Len(C) = n /\ \A i \in 1 .. n : C[i] = s[i].cells
         /\ \A i \in 1 .. n : C[i] \in Seq(Int)
    <2> DEFINE W == Seq(Int)
    <2>1. \A i \in 1 .. n : s[i].cells \in W
      BY <1>1 DEF Piece
    <2>2. C = [i \in 1 .. n |-> s[i].cells]
      BY <1>1
    <2> HIDE DEF W, C
    <2>3. C \in [1 .. n -> W] /\ \A i \in 1 .. n : C[i] = s[i].cells
      BY <2>1, <2>2
    <2>4. C \in Seq(W) /\ Len(C) = n
      BY <1>1, <2>3
    <2> QED BY <2>1, <2>3, <2>4 DEF W
  <1> HIDE DEF C, s
  <1>15. \A i \in 1 .. n + 1 : FlatFrom(C, i) \in Seq(Int)
    BY <1>14, FlatFromType
  <1>16. \A x \in V : Given(x) \in Seq(Int)
    BY Flushed DEF V
  <1>17. 0 \in S
    BY <1>13
  <1>18. ASSUME NEW k \in Nat, k \in S PROVE k + 1 \in S
    <2> SUFFICES ASSUME k + 1 <= n
                 PROVE  Cat(Given(h[k + 1]), FlatFrom(C, (k + 1) + 1)) =
                          Cat(Given(o), FlatFrom(C, 1))
      OBVIOUS
    <2>1. k + 1 \in 1 .. n /\ (k + 1) - 1 = k /\ k \in 0 .. n /\ (k + 1) + 1 \in 1 .. n + 1
      BY <1>1
    <2>2. h[k + 1] = BufWrite(h[k], s[k + 1])
      <3>1. h[k + 1] = More(h[(k + 1) - 1], s[k + 1])
        BY <1>13, <2>1
      <3> QED BY <2>1, <3>1 DEF More
    <2>3. h[k] \in Outs /\ s[k + 1] \in Piece
      BY <1>1, <2>1 DEF V
    <2> DEFINE x == Given(h[k])
               y == C[k + 1]
               r == FlatFrom(C, (k + 1) + 1)
    <2>4. Given(h[k + 1]) = Cat(x, y)
      BY <1>14, <2>1, <2>2, <2>3, PieceWritten
    <2>5. FlatFrom(C, k + 1) = Cat(y, r)
      BY <1>14, <2>1, FlatFromFirst DEF Cat
    <2>6. x \in Seq(Int) /\ y \in Seq(Int) /\ r \in Seq(Int)
      BY <1>14, <1>15, <1>16, <2>1
    <2> HIDE DEF x, y, r
    <2>7. Cat(Cat(x, y), r) = Cat(x, Cat(y, r))
      BY <2>6, CatAssociative
    <2>8. Cat(x, FlatFrom(C, k + 1)) = Cat(Given(o), FlatFrom(C, 1))
      BY <1>18, <2>1 DEF x
    <2>9. Cat(Cat(x, y), r) = Cat(Given(o), FlatFrom(C, 1))
      BY <2>5, <2>7, <2>8
    <2> QED BY <2>4, <2>9 DEF r
  <1>19. n \in S
    <2> HIDE DEF S
    <2> QED BY <1>1, <1>17, <1>18, SetInduction
  <1>20. FlatFrom(C, n + 1) = <<>>
    <2>1. FlatFrom(C, Len(C) + 1) = <<>>
      BY <1>14, FlatFromEnd
    <2> QED BY <1>14, <2>1
  <1>21. Given(h[n]) \in Seq(Int) /\ h[n] \in V
    BY <1>1, <1>16
  <1>22. Cat(Given(h[n]), <<>>) = Given(h[n])
    BY <1>21, ConcatEmptySeq DEF Cat
  <1>23. FlatFrom(C, 1) = Enc(e)
    <2>1. SubSeq(C, 1, Len(C)) = C
      BY <1>14, SubSeqFull
    <2> QED BY <2>1 DEF FlatFrom, Enc, C, s
  <1>24. Cat(Given(h[n]), FlatFrom(C, n + 1)) = Cat(Given(o), FlatFrom(C, 1))
    BY <1>1, <1>19
  <1>25. Given(h[n]) = Cat(Given(o), Enc(e))
    BY <1>20, <1>22, <1>23, <1>24
  <1>26. FoldLeft(BufWrite, o, s) = h[n]
    BY <1>2, <1>13
  <1> QED BY <1>21, <1>25, <1>26 DEF V, s

-----------------------------------------------------------------------------
(* The lines of a text and the cache of them                               *)

LEMMA LineCounted ==
  ASSUME NEW t, Len(t) \in Nat
  PROVE  /\ LineCount(t) \in 0 .. Len(t) /\ \A k \in 1 .. LineCount(t) : IsLine(t, k)
         /\ ~IsLine(t, LineCount(t) + 1)
  <1> DEFINE T == {k \in Nat : ~IsLine(t, k + 1)}
             Counts(n) == (\A k \in 1 .. n : IsLine(t, k)) /\ ~IsLine(t, n + 1)
  <1>1. Len(t) \in T
    BY DEF IsLine
  <1>2. PICK m \in T : \A y \in T : m <= y
    <2>1. T \in SUBSET Nat /\ T # {}
      BY <1>1
    <2> HIDE DEF T
    <2> QED BY <2>1, Smallest
  <1>3. m \in 0 .. Len(t)
    BY <1>1, <1>2
  <1>4. ASSUME NEW k \in 1 .. m PROVE IsLine(t, k)
    <2> SUFFICES ASSUME ~IsLine(t, k) PROVE FALSE
      OBVIOUS
    <2>1. k - 1 \in Nat /\ (k - 1) + 1 = k /\ k - 1 < m
      BY <1>3
    <2>2. k - 1 \in T
      BY <2>1
    <2> QED BY <1>2, <1>3, <2>1, <2>2
  <1>5. Counts(m)
    BY <1>2, <1>4
  <1>6. LineCount(t) = CHOOSE n \in 0 .. Len(t) : Counts(n)
    BY DEF LineCount
  <1> HIDE DEF Counts
  <1>7. LineCount(t) \in 0 .. Len(t) /\ Counts(LineCount(t))
    BY <1>3, <1>5, <1>6
  <1> QED BY <1>7 DEF Counts

\* The text of a scenario, as it is read: what is not the end of a line is one cell
\* that is followed by one.
Legible(t) ==
  /\ t \in Seq(DOMAIN Line \cup {Newline}) /\ t \in Seq(Int)
  /\ \A i \in 1 .. Len(t) - 1 : t[i] # Newline => t[i + 1] = Newline

LEMMA TextLegible ==
  ASSUME NEW s \in Scenarios
  PROVE  Legible(s.text)
  <1>1. \A i \in 1 .. Len(s.text) - 1 : s.text[i] # Newline => s.text[i + 1] = Newline
    BY ScenarioAssumption
  <1> DEFINE T == DOMAIN Line \cup {Newline}
  <1>2. s \in [text : Seq(T), sessions : Seq(Session), old : SUBSET CacheNames]
    BY ScenarioAssumption
  <1>3. T \subseteq Int
    BY LineAssumption
  <1> HIDE DEF T
  <1>4. s.text \in Seq(T)
    BY <1>2
  <1>5. s.text \in Seq(Int)
    BY <1>3, <1>4, SeqMonotonic
  <1> QED BY <1>1, <1>4, <1>5 DEF Legible, T

LEMMA LineThere ==
  ASSUME NEW t, Legible(t), NEW k \in Nat \ {0}, IsLine(t, k)
  PROVE  t[2 * k - 1] \in DOMAIN Line
  <1> DEFINE T == DOMAIN Line \cup {Newline}
             i == 2 * k - 1
  <1>1. t \in Seq(T)
    BY DEF Legible
  <1>2. 2 * k <= Len(t) /\ t[i] # Newline
    BY DEF IsLine
  <1>3. Len(t) \in Nat
    BY <1>1
  <1>4. i \in 1 .. Len(t)
    BY <1>2, <1>3
  <1> HIDE DEF i
  <1>5. t[i] \in T
    <2> HIDE DEF T
    <2> QED BY <1>1, <1>4
  <1>6. t[i] \in DOMAIN Line
    BY <1>2, <1>5
  <1> QED BY <1>6 DEF i

LEMMA LinesTyped ==
  ASSUME Legible(scenario.text)
  PROVE  /\ LineCount(scenario.text) \in Nat /\ Len(Lines) = LineCount(scenario.text)
         /\ Lines \in Seq(DOMAIN Line)
         /\ \A k \in 1 .. LineCount(scenario.text) :
              Lines[k] \in DOMAIN Line /\ Lines[k] = scenario.text[2 * k - 1]
  <1> DEFINE t == scenario.text
             n == LineCount(t)
             D == DOMAIN Line
  <1>1. Len(t) \in Nat
    BY DEF Legible
  <1>2. n \in Nat /\ \A k \in 1 .. n : IsLine(t, k)
    BY <1>1, LineCounted
  <1>3. \A k \in 1 .. n : t[2 * k - 1] \in D
    BY <1>2, LineThere
  <1>4. Lines = [k \in 1 .. n |-> t[2 * k - 1]]
    BY DEF Lines
  <1> HIDE DEF n, D, t
  <1>5. Lines \in [1 .. n -> D] /\ \A k \in 1 .. n : Lines[k] = t[2 * k - 1]
    BY <1>3, <1>4
  <1>6. Lines \in Seq(D) /\ Len(Lines) = n
    BY <1>2, <1>5
  <1> QED BY <1>2, <1>3, <1>5, <1>6 DEF n, D, t

\* What is written of the first n lines of a text: an example of each.
Examples(t, n, bits, sort) ==
  {es \in Seq(Filled(bits)) :
     /\ Len(es) = n
     /\ \A k \in 1 .. n : es[k] \in FromText(t[2 * k - 1], bits, sort) /\ es[k].tag # <<>>}

\* The cells of them, and those behind the first k.
EachEnc(es) == [k \in 1 .. Len(es) |-> Enc(es[k])]
Later(es, k) == FlatFrom(EachEnc(es), k + 1)
Book(es) == FlattenSeq(EachEnc(es))

LEMMA BookTyped ==
  ASSUME NEW bits \in 0 .. MaxBits, NEW es \in Seq(Filled(bits))
  PROVE  /\ EachEnc(es) \in Seq(Seq(Int)) /\ Len(EachEnc(es)) = Len(es) /\ Len(es) \in Nat
         /\ Book(es) \in Seq(Int) /\ Book(es) = Later(es, 0) /\ Later(es, Len(es)) = <<>>
         /\ \A k \in 0 .. Len(es) : Later(es, k) \in Seq(Int)
         /\ \A k \in 1 .. Len(es) : Later(es, k - 1) = Cat(Enc(es[k]), Later(es, k))
         /\ \A k \in 1 .. Len(es) : es[k] \in Filled(bits) /\ EachEnc(es)[k] = Enc(es[k])
  <1> DEFINE n == Len(es)
             F == Filled(bits)
             C == EachEnc(es)
             W == Seq(Int)
  <1>1. n \in Nat /\ \A k \in 1 .. n : es[k] \in F
    <2>1. es \in Seq(F)
      OBVIOUS
    <2> HIDE DEF F
    <2> QED BY <2>1
  <1>2. \A k \in 1 .. n : Enc(es[k]) \in W
    BY <1>1, EncParts
  <1>3. C = [k \in 1 .. n |-> Enc(es[k])]
    BY DEF EachEnc
  <1>4. C \in Seq(W) /\ Len(C) = n /\ \A k \in 1 .. n : C[k] = Enc(es[k])
    <2> HIDE DEF W, C, n
    <2>1. C \in [1 .. n -> W] /\ \A k \in 1 .. n : C[k] = Enc(es[k])
      BY <1>2, <1>3
    <2> QED BY <1>1, <2>1
  <1>5. C \in Seq(Seq(Int))
    BY <1>4
  <1> HIDE DEF C, F, W
  <1>6. FlatFrom(C, 1) = FlattenSeq(C)
    <2>1. SubSeq(C, 1, Len(C)) = C
      BY <1>5, SubSeqFull
    <2> QED BY <2>1 DEF FlatFrom
  <1>7. \A k \in 0 .. n : FlatFrom(C, k + 1) \in Seq(Int)
    <2> SUFFICES ASSUME NEW k \in 0 .. n PROVE FlatFrom(C, k + 1) \in Seq(Int)
      OBVIOUS
    <2>1. k + 1 \in 1 .. Len(C) + 1
      BY <1>1, <1>4
    <2> QED BY <1>5, <2>1, FlatFromType
  <1>8. FlatFrom(C, n + 1) = <<>>
    BY <1>4, <1>5, FlatFromEnd
  <1>9. ASSUME NEW k \in 1 .. n
        PROVE  FlatFrom(C, (k - 1) + 1) = Cat(Enc(es[k]), FlatFrom(C, k + 1))
    <2>1. k \in 1 .. Len(C) /\ (k - 1) + 1 = k
      BY <1>4
    <2>2. FlatFrom(C, k) = Cat(C[k], FlatFrom(C, k + 1))
      BY <1>5, <2>1, FlatFromFirst DEF Cat
    <2> QED BY <1>4, <2>1, <2>2
  <1>10. Book(es) = FlatFrom(C, 1) /\ \A k \in 0 .. n : Later(es, k) = FlatFrom(C, k + 1)
    BY <1>6 DEF Book, Later, C
  <1>11. Book(es) = Later(es, 0) /\ Book(es) \in Seq(Int)
    <2>1. 0 \in 0 .. n /\ 0 + 1 = 1
      BY <1>1
    <2> QED BY <1>7, <1>10, <2>1
  <1>12. Later(es, n) = <<>>
    <2>1. n \in 0 .. n
      BY <1>1
    <2> QED BY <1>8, <1>10, <2>1
  <1>13. ASSUME NEW k \in 1 .. n PROVE Later(es, k - 1) = Cat(Enc(es[k]), Later(es, k))
    <2>1. k - 1 \in 0 .. n /\ k \in 0 .. n
      BY <1>1
    <2> QED BY <1>9, <1>10, <2>1
  <1> QED BY <1>1, <1>4, <1>5, <1>7, <1>10, <1>11, <1>12, <1>13 DEF C, F

LEMMA BookAppended ==
  ASSUME NEW bits \in 0 .. MaxBits, NEW es \in Seq(Filled(bits)), NEW e \in Filled(bits)
  PROVE  /\ Append(es, e) \in Seq(Filled(bits)) /\ Len(Append(es, e)) = Len(es) + 1
         /\ Append(es, e)[Len(es) + 1] = e
         /\ \A k \in 1 .. Len(es) : Append(es, e)[k] = es[k]
         /\ Book(Append(es, e)) = Cat(Book(es), Enc(e))
  <1> DEFINE F == Filled(bits)
             n == Len(es)
             fs == Append(es, e)
             C == EachEnc(es)
             D == EachEnc(fs)
             x == Enc(e)
  <1>1. /\ fs \in Seq(F) /\ Len(fs) = n + 1 /\ fs[n + 1] = e
        /\ \A k \in 1 .. n : fs[k] = es[k]
    <2>1. es \in Seq(F) /\ e \in F
      OBVIOUS
    <2> HIDE DEF F
    <2> QED BY <2>1, AppendProperties
  <1>2. /\ C \in Seq(Seq(Int)) /\ Len(C) = n /\ n \in Nat
        /\ \A k \in 1 .. n : C[k] = Enc(es[k])
    BY BookTyped
  <1> HIDE DEF fs
  <1>3. /\ D \in Seq(Seq(Int)) /\ Len(D) = n + 1
        /\ \A k \in 1 .. n + 1 : D[k] = Enc(fs[k])
    BY <1>1, BookTyped
  <1> HIDE DEF C, D
  <1>4. x \in Seq(Int)
    BY EncParts
  <1> HIDE DEF x
  <1>5. Append(C, x) \in Seq(Seq(Int)) /\ FlattenSeq(Append(C, x)) = Cat(FlattenSeq(C), x)
    BY <1>2, <1>4, FlattenLast
  <1>6. D = Append(C, x)
    <2> DEFINE A == Append(C, x)
               W == Seq(Int)
    <2>1. C \in Seq(W) /\ x \in W
      BY <1>2, <1>4
    <2> HIDE DEF W
    <2>2. A \in Seq(W) /\ Len(A) = n + 1 /\ A[n + 1] = x /\ \A k \in 1 .. n : A[k] = C[k]
      BY <1>2, <2>1, AppendProperties
    <2> HIDE DEF A
    <2>3. ASSUME NEW k \in 1 .. n + 1 PROVE D[k] = A[k]
      <3>1. CASE k = n + 1
        BY <1>1, <1>2, <1>3, <2>2, <3>1 DEF x
      <3>2. CASE k # n + 1
        <4>1. k \in 1 .. n
          BY <1>2, <3>2
        <4> QED BY <1>1, <1>2, <1>3, <2>2, <4>1
      <3> QED BY <3>1, <3>2
    <2>4. D \in Seq(W)
      BY <1>3 DEF W
    <2>5. D = A
      BY <1>3, <2>2, <2>3, <2>4, SeqEqual
    <2> QED BY <2>5 DEF A
  <1>7. Book(fs) = Cat(Book(es), x)
    BY <1>5, <1>6 DEF Book, C, D
  <1> QED BY <1>1, <1>7 DEF fs, x

\* The example of the next line is added.
LEMMA ExamplesMore ==
  ASSUME NEW t, NEW bits \in 0 .. MaxBits, NEW n \in Nat, NEW sort,
         NEW es \in Examples(t, n, bits, sort), NEW e \in Filled(bits),
         e \in FromText(t[2 * (n + 1) - 1], bits, sort), e.tag # <<>>
  PROVE  /\ Append(es, e) \in Examples(t, n + 1, bits, sort)
         /\ Book(Append(es, e)) = Cat(Book(es), Enc(e))
  <1> DEFINE fs == Append(es, e)
  <1>1. /\ es \in Seq(Filled(bits)) /\ Len(es) = n
        /\ \A k \in 1 .. n : es[k] \in FromText(t[2 * k - 1], bits, sort) /\ es[k].tag # <<>>
    BY DEF Examples
  <1>2. /\ fs \in Seq(Filled(bits)) /\ Len(fs) = n + 1 /\ fs[n + 1] = e
        /\ \A k \in 1 .. n : fs[k] = es[k]
        /\ Book(fs) = Cat(Book(es), Enc(e))
    BY <1>1, BookAppended
  <1> HIDE DEF fs
  <1>3. ASSUME NEW k \in 1 .. n + 1
        PROVE  fs[k] \in FromText(t[2 * k - 1], bits, sort) /\ fs[k].tag # <<>>
    <2>1. CASE k = n + 1
      BY <1>2, <2>1
    <2>2. CASE k # n + 1
      <3>1. k \in 1 .. n
        BY <2>2
      <3> QED BY <1>1, <1>2, <3>1
    <2> QED BY <2>1, <2>2
  <1>4. fs \in Examples(t, n + 1, bits, sort)
    BY <1>2, <1>3 DEF Examples
  <1> QED BY <1>2, <1>4 DEF fs

\* A cache of an example of each line is a whole one.
LEMMA BookWhole ==
  ASSUME Legible(scenario.text), NEW bits \in 0 .. MaxBits, NEW sort \in BOOLEAN,
         NEW es \in Examples(scenario.text, LineCount(scenario.text), bits, sort)
  PROVE  Book(es) \in WholeBodies(bits, sort)
  <1> DEFINE s == Lines
             base == {<<>>}
  <1>0. s \in Seq(DOMAIN Line) /\ Len(s) = LineCount(scenario.text)
    BY LinesTyped
  <1> DEFINE n == Len(s)
             V == SUBSET Seq(Int)
             More(x, y) == {body \o FlattenSeq([j \in DOMAIN CacheExample(e) |->
                                                  CacheExample(e)[j].cells]) :
                             body \in x, e \in FromText(y, bits, sort)}
             G == [p \in (1 .. n) \X V |-> More(p[2], s[p[1]])]
             Is(f) == f = [T \in SUBSET DOMAIN s |->
                             IF T = {} THEN base ELSE More(f[T \ {Max(T)}], s[Max(T)])]
             F == CHOOSE f : Is(f)
  <1>1. n \in Nat /\ DOMAIN s = 1 .. n /\ \A i \in 1 .. n : s[i] \in DOMAIN Line
    <2> DEFINE W == DOMAIN Line
    <2>1. s \in Seq(W)
      BY <1>0
    <2> HIDE DEF W, s
    <2>2. n \in Nat /\ DOMAIN s = 1 .. n /\ \A i \in 1 .. n : s[i] \in W
      BY <2>1
    <2> QED BY <2>2 DEF W
  <1>2. WholeBodies(bits, sort) = F[1 .. n]
    BY <1>1 DEF WholeBodies, FoldLeft, MapThenFoldSet
  <1>3. \A i \in 1 .. n, x \in V : More(x, s[i]) \in V
    <2>1. bits \in Nat
      BY WidthAssumption
    <2>2. ASSUME NEW i \in 1 .. n, NEW x \in V PROVE More(x, s[i]) \in V
      <3>1. ASSUME NEW body \in x, NEW e \in FromText(s[i], bits, sort)
            PROVE  body \o FlattenSeq([j \in DOMAIN CacheExample(e) |-> CacheExample(e)[j].cells])
                     \in Seq(Int)
        <4>1. e \in Filled(bits)
          BY <1>1, <2>1, FromTextFilled
        <4>2. Enc(e) \in Seq(Int) /\ body \in Seq(Int)
          BY <4>1, EncParts
        <4>3. Cat(body, Enc(e)) \in Seq(Int)
          BY <4>2, CatProperties
        <4> QED BY <4>3 DEF Enc, Cat
      <3>2. ASSUME NEW z \in More(x, s[i]) PROVE z \in Seq(Int)
        <4>1. PICK body \in x, e \in FromText(s[i], bits, sort) :
                z = body \o FlattenSeq([j \in DOMAIN CacheExample(e) |-> CacheExample(e)[j].cells])
          BY SMTT(40)
        <4> QED BY <3>1, <4>1
      <3> HIDE DEF More
      <3> QED BY <3>2
    <2> HIDE DEF More, V
    <2> QED BY <2>2
  <1>4. base \in V
    OBVIOUS
  <1> HIDE DEF n, V, More
  <1>5. /\ G \in [(1 .. n) \X V -> V]
        /\ \A i \in 1 .. n, x \in V : G[<<i, x>>] = More(x, s[i])
    BY <1>3
  <1> HIDE DEF G
  <1>6. PICK f \in [SUBSET (1 .. n) -> V] : SetBySet(f, n, base, G)
    BY <1>1, <1>4, <1>5, SetRecursion
  <1>7. ASSUME NEW T \in SUBSET (1 .. n)
        PROVE  f[T] = IF T = {} THEN base ELSE More(f[T \ {Max(T)}], s[Max(T)])
    <2>1. CASE T = {}
      BY <1>6, <2>1 DEF SetBySet
    <2>2. CASE T # {}
      <3>1. Max(T) \in 1 .. n
        BY <1>1, <2>2, Largest
      <3>2. f[T \ {Max(T)}] \in V
        OBVIOUS
      <3>3. f[T] = G[<<Max(T), f[T \ {Max(T)}]>>]
        BY <1>6, <2>2 DEF SetBySet
      <3> QED BY <1>5, <2>2, <3>1, <3>2, <3>3
    <2> QED BY <2>1, <2>2
  <1>8. Is(f)
    BY <1>1, <1>7
  <1>9. Is(F)
    <2> HIDE DEF Is
    <2> QED BY <1>8
  <1> HIDE DEF F
  <1>10. \A T \in SUBSET (1 .. n) :
           F[T] = IF T = {} THEN base ELSE More(F[T \ {Max(T)}], s[Max(T)])
    BY <1>1, <1>9
  <1>11. Follows(F, n, base, G, V)
    <2>1. F[{}] = base
      BY <1>10
    <2>2. ASSUME NEW T \in SUBSET (1 .. n), T # {}, F[T \ {Max(T)}] \in V
          PROVE  F[T] = G[<<Max(T), F[T \ {Max(T)}]>>]
      <3>1. Max(T) \in 1 .. n
        BY <1>1, <2>2, Largest
      <3> QED BY <1>5, <1>10, <2>2, <3>1
    <2> QED BY <2>1, <2>2 DEF Follows
  <1>12. PICK h \in [0 .. n -> V] : InTurn(h, F, n, base, G)
    BY <1>1, <1>4, <1>5, <1>11, PlacesInTurn
  <1>13. /\ h[0] = base /\ h[n] = F[1 .. n]
         /\ \A k \in 1 .. n : h[k] = More(h[k - 1], s[k])
    <2> SUFFICES ASSUME NEW k \in 1 .. n PROVE h[k] = More(h[k - 1], s[k])
      BY <1>12 DEF InTurn
    <2>1. k - 1 \in 0 .. n
      BY <1>1
    <2>2. h[k] = G[<<k, h[k - 1]>>]
      BY <1>12 DEF InTurn
    <2> QED BY <1>5, <2>1, <2>2
  <1>14. /\ es \in Seq(Filled(bits)) /\ Len(es) = n
         /\ \A k \in 1 .. n : es[k] \in FromText(s[k], bits, sort)
    <2>1. n = LineCount(scenario.text)
      BY <1>0 DEF n
    <2>2. /\ es \in Seq(Filled(bits)) /\ Len(es) = n
          /\ \A k \in 1 .. n : es[k] \in FromText(scenario.text[2 * k - 1], bits, sort)
      BY <2>1 DEF Examples
    <2>3. \A k \in 1 .. n : s[k] = scenario.text[2 * k - 1]
      BY <2>1, LinesTyped
    <2> QED BY <2>2, <2>3
  <1> DEFINE C == EachEnc(es)
  <1>15. /\ C \in Seq(Seq(Int)) /\ Len(C) = n /\ \A k \in 1 .. n : C[k] = Enc(es[k])
    BY <1>14, BookTyped
  <1> HIDE DEF C
  <1> DEFINE Q(k) == SubSeq(C, 1, k)
             S == {k \in Nat : k <= n => FlattenSeq(Q(k)) \in h[k]}
  <1>16. 0 \in S
    <2>1. Q(0) = <<>>
      BY <1>15, SubSeqEmpty
    <2> QED BY <1>13, <2>1, FlattenNone
  <1>17. ASSUME NEW k \in Nat, k \in S PROVE k + 1 \in S
    <2> SUFFICES ASSUME k + 1 <= n PROVE FlattenSeq(Q(k + 1)) \in h[k + 1]
      OBVIOUS
    <2>1. k + 1 \in 1 .. n /\ (k + 1) - 1 = k /\ k \in 0 .. n
      BY <1>1
    <2>2. Q(k) \in Seq(Seq(Int)) /\ Q(k + 1) = Append(Q(k), C[k + 1]) /\ C[k + 1] \in Seq(Int)
      <3> DEFINE W == Seq(Int)
      <3>1. C \in Seq(W)
        BY <1>15
      <3> HIDE DEF W
      <3>2. Q(k) \in Seq(W) /\ Q(k + 1) \in Seq(W) /\ C[k + 1] \in W
            /\ Len(Q(k)) = k /\ Len(Q(k + 1)) = k + 1
            /\ (\A i \in 1 .. k : Q(k)[i] = C[i]) /\ \A i \in 1 .. k + 1 : Q(k + 1)[i] = C[i]
        BY <1>1, <1>15, <2>1, <3>1
      <3> DEFINE A == Append(Q(k), C[k + 1])
                 B == Q(k + 1)
                 P == Q(k)
                 c == C[k + 1]
      <3> HIDE DEF Q
      <3>3. A \in Seq(W) /\ Len(A) = k + 1 /\ A[k + 1] = C[k + 1]
            /\ \A i \in 1 .. k : A[i] = Q(k)[i]
        BY <3>2, AppendProperties
      <3> HIDE DEF A
      <3>4. ASSUME NEW i \in 1 .. k + 1 PROVE A[i] = Q(k + 1)[i]
        <4>1. CASE i = k + 1
          BY <3>2, <3>3, <4>1
        <4>2. CASE i # k + 1
          <5>1. i \in 1 .. k
            BY <4>2
          <5> QED BY <3>2, <3>3, <5>1
        <4> QED BY <4>1, <4>2
      <3>5. A = Q(k + 1)
        BY <3>2, <3>3, <3>4, SeqEqual
      <3> QED BY <3>2, <3>5 DEF A, W
    <2> HIDE DEF Q
    <2>3. FlattenSeq(Q(k + 1)) = Cat(FlattenSeq(Q(k)), C[k + 1])
      BY <2>2, FlattenLast
    <2>4. h[k + 1] = More(h[k], s[k + 1])
      <3>1. h[k + 1] = More(h[(k + 1) - 1], s[k + 1])
        BY <1>13, <2>1
      <3> QED BY <2>1, <3>1
    <2>5. FlattenSeq(Q(k)) \in h[k]
      BY <1>17, <2>1
    <2>6. C[k + 1] = Enc(es[k + 1]) /\ es[k + 1] \in FromText(s[k + 1], bits, sort)
      BY <1>14, <1>15, <2>1
    <2>7. \A e \in FromText(s[k + 1], bits, sort) : \A body \in h[k] :
            Cat(body, Enc(e)) \in More(h[k], s[k + 1])
      BY SMTT(40) DEF More, Cat, Enc
    <2> QED BY <2>3, <2>4, <2>5, <2>6, <2>7
  <1>18. n \in S
    <2> HIDE DEF S
    <2> QED BY <1>1, <1>16, <1>17, SetInduction
  <1>19. Q(n) = C
    <2>1. SubSeq(C, 1, Len(C)) = C
      BY <1>15, SubSeqFull
    <2> QED BY <1>15, <2>1
  <1>20. FlattenSeq(C) \in h[n]
    <2>1. FlattenSeq(Q(n)) \in h[n]
      BY <1>1, <1>18
    <2> HIDE DEF Q
    <2> QED BY <1>19, <2>1
  <1> QED BY <1>2, <1>13, <1>20 DEF Book, C

-----------------------------------------------------------------------------
(* Text, line by line                                                      *)

\* A text behind its first k lines.
TextFrom(t, k) == SubSeq(t, 2 * k + 1, Len(t))

LEMMA TextFromProperties ==
  ASSUME NEW t, Legible(t), NEW k \in Nat, 2 * k <= Len(t)
  PROVE  /\ TextFrom(t, k) \in Seq(Int) /\ Len(TextFrom(t, k)) = Len(t) - 2 * k
         /\ \A i \in 1 .. Len(t) - 2 * k : TextFrom(t, k)[i] = t[2 * k + i]
  <1>1. t \in Seq(Int)
    BY DEF Legible
  <1>2. 2 * k \in 0 .. Len(t)
    BY <1>1
  <1> QED BY <1>1, <1>2, SuffixProperties DEF TextFrom

\* The ends of lines in cells, and the first of them.
LineEnds(R) == {i \in 1 .. Len(R) : R[i] = Newline}
FirstEnd(R) == CHOOSE i \in LineEnds(R) : \A j \in LineEnds(R) : i <= j

LEMMA FirstEndIs ==
  ASSUME NEW R \in Seq(Int), NEW n \in LineEnds(R), \A j \in 1 .. n - 1 : R[j] # Newline
  PROVE  FirstEnd(R) = n
  <1> DEFINE T == LineEnds(R)
  <1>1. T \subseteq Nat /\ n \in T
    BY DEF LineEnds
  <1>2. ASSUME NEW j \in T PROVE n <= j
    BY <1>1, <1>2 DEF LineEnds
  <1>3. ASSUME NEW i \in T, \A j \in T : i <= j PROVE i = n
    BY <1>1, <1>2, <1>3
  <1> QED BY <1>1, <1>2, <1>3 DEF FirstEnd

\* The next line is the first cell of the rest, if there is one at all.
LEMMA NextLine ==
  ASSUME NEW t, Legible(t), NEW k \in Nat, 2 * k <= Len(t)
  PROVE  LET R == TextFrom(t, k)
         IN  IF IsLine(t, k + 1)
               THEN /\ LineEnds(R) # {} /\ FirstEnd(R) = 2 /\ R \in Seq(Int)
                    /\ SubSeq(R, 1, FirstEnd(R) - 1) = <<t[2 * k + 1]>>
                    /\ SubSeq(R, FirstEnd(R) + 1, Len(R)) = TextFrom(t, k + 1)
               ELSE LineEnds(R) = {} \/ SubSeq(R, 1, FirstEnd(R) - 1) = <<>>
  <1> DEFINE R == TextFrom(t, k)
  <1>0. t \in Seq(Int) /\ Len(t) \in Nat
    BY DEF Legible
  <1>1. /\ R \in Seq(Int) /\ Len(R) = Len(t) - 2 * k /\ Len(t) \in Nat /\ Len(R) \in Nat
        /\ \A i \in 1 .. Len(t) - 2 * k : R[i] = t[2 * k + i]
    BY <1>0, TextFromProperties
  <1>2. 2 * (k + 1) = 2 * k + 2 /\ 2 * (k + 1) - 1 = 2 * k + 1
    OBVIOUS
  <1>3. CASE IsLine(t, k + 1)
    <2>1. 2 * k + 2 <= Len(t) /\ t[2 * k + 1] # Newline /\ t[2 * k + 2] = Newline
      BY <1>2, <1>3 DEF IsLine
    <2>2. 1 \in 1 .. Len(R) /\ 2 \in 1 .. Len(R) /\ R[1] = t[2 * k + 1] /\ R[2] = t[2 * k + 2]
      BY <1>1, <2>1
    <2> HIDE DEF R
    <2>3. 2 \in LineEnds(R) /\ \A j \in 1 .. 2 - 1 : R[j] # Newline
      BY <2>1, <2>2 DEF LineEnds
    <2>4. FirstEnd(R) = 2
      BY <1>1, <2>3, FirstEndIs
    <2>5. SubSeq(R, 1, 1) = <<t[2 * k + 1]>>
      <3> DEFINE Q == SubSeq(R, 1, 1)
      <3>1. Q \in Seq(Int) /\ Len(Q) = 1 /\ Q[1] = R[1]
        BY <1>1, <2>2
      <3> HIDE DEF Q
      <3>2. Q = <<Q[1]>>
        BY <3>1
      <3> QED BY <2>2, <3>1, <3>2 DEF Q
    <2>6. SubSeq(R, 3, Len(R)) = TextFrom(t, k + 1)
      <3> DEFINE Q == SubSeq(R, 2 + 1, Len(R))
                 P == TextFrom(t, k + 1)
      <3>1. 2 \in 0 .. Len(R)
        BY <2>2
      <3>2. Q \in Seq(Int) /\ Len(Q) = Len(R) - 2 /\ \A i \in 1 .. Len(R) - 2 : Q[i] = R[2 + i]
        BY <1>1, <3>1, SuffixProperties
      <3>3. k + 1 \in Nat /\ 2 * (k + 1) <= Len(t)
        BY <1>2, <2>1
      <3>4. /\ P \in Seq(Int) /\ Len(P) = Len(t) - 2 * (k + 1)
            /\ \A i \in 1 .. Len(t) - 2 * (k + 1) : P[i] = t[2 * (k + 1) + i]
        BY <3>3, TextFromProperties
      <3> HIDE DEF Q, P
      <3>5. Len(P) = Len(Q) /\ Len(Q) \in Nat
        BY <1>1, <1>2, <3>2, <3>4
      <3>6. ASSUME NEW i \in 1 .. Len(Q) PROVE Q[i] = P[i]
        <4>1. i \in 1 .. Len(R) - 2 /\ 2 + i \in 1 .. Len(t) - 2 * k
          BY <1>1, <3>2, <3>6
        <4>2. 2 * k + (2 + i) = 2 * (k + 1) + i /\ i \in 1 .. Len(t) - 2 * (k + 1)
          BY <1>1, <3>2, <3>6
        <4>3. Q[i] = t[2 * k + (2 + i)]
          BY <1>1, <3>2, <4>1 DEF R
        <4> QED BY <3>4, <4>2, <4>3
      <3>7. Q = P
        BY <3>2, <3>4, <3>5, <3>6, SeqEqual
      <3> QED BY <3>7 DEF Q, P
    <2> QED BY <1>1, <1>3, <2>3, <2>4, <2>5, <2>6 DEF R
  <1>4. CASE ~IsLine(t, k + 1)
    <2>0. Len(R) # 0 => 1 \in 1 .. Len(R) /\ 1 \in 1 .. Len(t) - 2 * k
      <3> DEFINE n == Len(R)
                 m == Len(t)
      <3>1. n \in Nat /\ m \in Nat /\ n = m - 2 * k
        BY <1>1
      <3> HIDE DEF n, m
      <3>2. n # 0 => 1 \in 1 .. n /\ 1 \in 1 .. m - 2 * k
        BY <3>1
      <3> QED BY <3>2 DEF n, m
    <2>1. CASE Len(R) = 0
      <3>1. LineEnds(R) = {}
        BY <2>1 DEF LineEnds
      <3> QED BY <1>4, <3>1
    <2>2. CASE Len(R) # 0 /\ R[1] = Newline
      <3>0. 1 \in 1 .. Len(R)
        BY <2>0, <2>2
      <3>1. 1 \in LineEnds(R)
        BY <2>2, <3>0 DEF LineEnds
      <3> HIDE DEF R
      <3>2. FirstEnd(R) = 1
        BY <1>1, <3>1, FirstEndIs
      <3>3. SubSeq(R, 1, 0) = <<>>
        BY <1>1, SubSeqEmpty
      <3> QED BY <1>4, <3>2, <3>3 DEF R
    <2>3. CASE Len(R) # 0 /\ R[1] # Newline
      <3>0. 1 \in 1 .. Len(t) - 2 * k
        BY <2>0, <2>3
      <3>1. 2 * k + 1 <= Len(t) /\ t[2 * k + 1] # Newline
        BY <1>1, <2>3, <3>0
      <3>2. Len(R) = 1
        <4> SUFFICES ASSUME Len(R) # 1 PROVE FALSE
          OBVIOUS
        <4>1. 2 * k + 1 \in 1 .. Len(t) - 1 /\ 2 * k + 2 <= Len(t)
          <5> DEFINE n == Len(R)
                     m == Len(t)
          <5>1. n \in Nat /\ m \in Nat /\ n = m - 2 * k /\ n # 0 /\ n # 1
            BY <1>1, <2>3
          <5> HIDE DEF n, m
          <5>2. 2 * k + 1 \in 1 .. m - 1 /\ 2 * k + 2 <= m
            BY <5>1
          <5> QED BY <5>2 DEF m
        <4>2. t[(2 * k + 1) + 1] = Newline
          BY <3>1, <4>1 DEF Legible
        <4>3. (2 * k + 1) + 1 = 2 * k + 2
          OBVIOUS
        <4> QED BY <1>2, <1>4, <3>1, <4>1, <4>2, <4>3 DEF IsLine
      <3>3. LineEnds(R) = {}
        BY <2>3, <3>2 DEF LineEnds
      <3> QED BY <1>4, <3>3
    <2> QED BY <2>1, <2>2, <2>3
  <1> QED BY <1>3, <1>4

\* readto takes it.
LEMMA LineServed ==
  ASSUME NEW t, Legible(t), NEW k \in Nat, 2 * k <= Len(t), Rest = TextFrom(t, k),
         Stream!ReadLine
  PROVE  IF IsLine(t, k + 1) THEN answer' = <<t[2 * k + 1]>> /\ Rest' = TextFrom(t, k + 1)
                             ELSE answer' = <<>>
  <1> DEFINE R == Rest
  <1>1. Terminals = LineEnds(R)
    BY DEF Terminals, LineEnds
  <1>2. Terminals # {} => Stream!First(Terminals) = FirstEnd(R)
    BY <1>1 DEF FirstEnd, Stream!First
  <1>3. IF Terminals = {}
          THEN answer' = <<>> /\ UNCHANGED Rest
          ELSE /\ answer' = SubSeq(Rest, 1, Stream!First(Terminals) - 1)
               /\ Rest' = SubSeq(Rest, Stream!First(Terminals) + 1, Len(Rest))
    BY StreamMapping
  <1>4. IF LineEnds(R) = {}
          THEN answer' = <<>>
          ELSE answer' = SubSeq(R, 1, FirstEnd(R) - 1) /\ Rest' = SubSeq(R, FirstEnd(R) + 1, Len(R))
    BY <1>1, <1>2, <1>3
  <1>5. R = TextFrom(t, k)
    OBVIOUS
  <1> HIDE DEF R
  <1> QED BY <1>4, <1>5, NextLine

-----------------------------------------------------------------------------
(* The caches on the disk                                                  *)

Sorts(s) == {s.sessions[i].sort : i \in DOMAIN s.sessions}

\* A cache of an example of each line, one that an older version left, and a disk
\* where what has the name of a cache is one or the other.
Complete(s, content, bits, es, sort) ==
  /\ bits \in 0 .. MaxBits /\ sort \in Sorts(s)
  /\ es \in Examples(s.text, LineCount(s.text), bits, sort)
  /\ content = Cat(Header(bits), Book(es))
Outdated(s, content, bits, es) ==
  s.old # {} /\ content = <<OldVersion, DefaultBits>> /\ bits = 0 /\ es = <<>>
Held(s, content, bits, es, sort) ==
  Complete(s, content, bits, es, sort) \/ Outdated(s, content, bits, es)
IsCache(s, content) == \E bits, es, sort : Held(s, content, bits, es, sort)
CachesKept(s, d) ==
  /\ d = [f \in Files |-> d[f]] /\ \A f \in Files : d[f] \in Seq(Int)
  /\ \A name \in CacheNames : d[Final(name)] = <<>> \/ IsCache(s, d[Final(name)])

LEMMA FileNames ==
  /\ \A a, b : Final(a) # Temp(b) /\ (Final(a) = Final(b) => a = b)
  /\ \A a \in CacheNames : Final(a) \in Files /\ Temp(a) \in Files
  BY DEF Final, Temp, Files

LEMMA SortsAsked ==
  ASSUME NEW s \in Scenarios
  PROVE  /\ Sorts(s) \subseteq BOOLEAN
         /\ \A i \in DOMAIN s.sessions : s.sessions[i].sort \in Sorts(s)
  <1>1. s.sessions \in Seq(Session)
    BY ScenarioTyped
  <1>2. ASSUME NEW i \in DOMAIN s.sessions PROVE s.sessions[i].sort \in BOOLEAN
    <2>1. s.sessions[i] \in Session
      <3> HIDE DEF Session
      <3> QED BY <1>1
    <2> QED BY <2>1 DEF Session
  <1> QED BY <1>2 DEF Sorts

LEMMA NothingHeld ==
  <<>> \in Seq(Filled(0)) /\ Book(<<>>) = <<>>
  <1> DEFINE es == <<>>
             F == Filled(0)
  <1>1. es \in Seq(F)
    <2> HIDE DEF F
    <2> QED OBVIOUS
  <1>2. 0 \in 0 .. MaxBits
    BY WidthAssumption
  <1>3. Len(es) = 0
    OBVIOUS
  <1> HIDE DEF es
  <1>4. Book(es) = Later(es, 0) /\ Later(es, Len(es)) = <<>>
    BY <1>1, <1>2, BookTyped DEF F
  <1>5. Book(es) = <<>>
    BY <1>3, <1>4
  <1> QED BY <1>1, <1>5 DEF es, F

\* What is in a cache.
LEMMA HeldProperties ==
  ASSUME NEW s \in Scenarios, NEW content, NEW bits, NEW es, NEW sort,
         Held(s, content, bits, es, sort)
  PROVE  /\ content \in Seq(Int) /\ content # <<>> /\ CacheNumbits(content) = bits
         /\ SubSeq(content, 3, Len(content)) = Book(es)
         /\ bits \in 0 .. MaxBits /\ es \in Seq(Filled(bits))
         /\ content[1] = Version => Complete(s, content, bits, es, sort)
  <1>1. CASE Complete(s, content, bits, es, sort)
    <2> DEFINE h == Header(bits)
               b == Book(es)
    <2>1. bits \in 0 .. MaxBits /\ content = Cat(h, b) /\ es \in Seq(Filled(bits))
      BY <1>1 DEF Complete, Examples
    <2>2. bits \in Int /\ h = <<1, bits>>
      BY <2>1 DEF Header, Version
    <2>3. h \in Seq(Int) /\ Len(h) = 2 /\ h[1] = 1 /\ h[2] = bits
      BY <2>2
    <2>4. b \in Seq(Int) /\ Len(b) \in Nat
      <3>1. b \in Seq(Int)
        BY <2>1, BookTyped
      <3> QED BY <3>1
    <2> HIDE DEF h, b
    <2>5. /\ content \in Seq(Int) /\ Len(content) = 2 + Len(b)
          /\ \A i \in 1 .. 2 + Len(b) : content[i] = IF i <= 2 THEN h[i] ELSE b[i - 2]
      <3>1. /\ Cat(h, b) \in Seq(Int) /\ Len(Cat(h, b)) = Len(h) + Len(b)
            /\ \A i \in 1 .. Len(h) + Len(b) :
                 Cat(h, b)[i] = IF i <= Len(h) THEN h[i] ELSE b[i - Len(h)]
        BY <2>3, <2>4, CatProperties
      <3> QED BY <2>1, <2>3, <3>1
    <2>6. 1 \in 1 .. 2 + Len(b) /\ 2 \in 1 .. 2 + Len(b)
      BY <2>4
    <2>7. content # <<>> /\ content[1] = 1 /\ content[2] = bits
      BY <2>3, <2>5, <2>6
    <2>8. SubSeq(content, 3, Len(content)) = b
      <3> DEFINE Q == SubSeq(content, 2 + 1, Len(content))
      <3>1. 2 \in 0 .. Len(content)
        BY <2>4, <2>5
      <3>2. /\ Q \in Seq(Int) /\ Len(Q) = Len(content) - 2
            /\ \A i \in 1 .. Len(content) - 2 : Q[i] = content[2 + i]
        BY <2>5, <3>1, SuffixProperties
      <3> HIDE DEF Q
      <3>3. Len(Q) = Len(b)
        BY <2>4, <2>5, <3>2
      <3>4. ASSUME NEW i \in 1 .. Len(b) PROVE Q[i] = b[i]
        <4>1. 2 + i \in 1 .. 2 + Len(b) /\ ~(2 + i <= 2) /\ (2 + i) - 2 = i
          BY <2>4
        <4>2. i \in 1 .. Len(content) - 2
          BY <2>4, <2>5
        <4> QED BY <2>5, <3>2, <4>1, <4>2
      <3>5. Q = b
        BY <2>4, <3>2, <3>3, <3>4, SeqEqual
      <3> QED BY <3>5 DEF Q
    <2>9. CacheNumbits(content) = bits
      BY <2>7 DEF CacheNumbits, Version
    <2> QED BY <1>1, <2>1, <2>5, <2>7, <2>8, <2>9 DEF b
  <1>2. CASE Outdated(s, content, bits, es)
    <2>1. content = <<2, DefaultBits>> /\ bits = 0 /\ es = <<>>
      BY <1>2 DEF Outdated, OldVersion
    <2>2. DefaultBits \in Int /\ 0 \in 0 .. MaxBits
      BY WidthAssumption, LineAssumption
    <2>3. content \in Seq(Int) /\ Len(content) = 2 /\ content[1] = 2 /\ content # <<>>
      BY <2>1, <2>2
    <2>4. SubSeq(content, 3, Len(content)) = <<>>
      BY <2>3, SubSeqEmpty
    <2>5. Book(es) = <<>> /\ es \in Seq(Filled(bits))
      BY <2>1, NothingHeld
    <2>6. CacheNumbits(content) = bits
      BY <2>1, <2>3 DEF CacheNumbits, Version
    <2>7. content[1] # Version
      BY <2>3 DEF Version
    <2> QED BY <2>1, <2>2, <2>3, <2>4, <2>5, <2>6, <2>7
  <1> QED BY <1>1, <1>2 DEF Held

\* A temporary file is written.
LEMMA TempWritten ==
  ASSUME NEW s, NEW d, CachesKept(s, d), NEW name \in CacheNames, NEW c \in Seq(Int)
  PROVE  CachesKept(s, [d EXCEPT ![Temp(name)] = c])
  <1> DEFINE e == [d EXCEPT ![Temp(name)] = c]
  <1>1. d = [f \in Files |-> d[f]] /\ \A f \in Files : d[f] \in Seq(Int)
    BY DEF CachesKept
  <1>2. e = [f \in Files |-> e[f]] /\ \A f \in Files : e[f] = IF f = Temp(name) THEN c ELSE d[f]
    BY <1>1
  <1>3. \A f \in Files : e[f] \in Seq(Int)
    BY <1>1, <1>2
  <1>4. \A n \in CacheNames : e[Final(n)] = d[Final(n)]
    BY <1>2, FileNames
  <1> HIDE DEF e
  <1>5. CachesKept(s, e)
    BY <1>2, <1>3, <1>4 DEF CachesKept
  <1> QED BY <1>5 DEF e

\* It takes the name of the cache.
LEMMA CachePublished ==
  ASSUME NEW s, NEW d, CachesKept(s, d), NEW name \in CacheNames, NEW c \in Seq(Int),
         IsCache(s, c), NEW e, e = [f \in Files |-> e[f]],
         \A f \in Files : e[f] = IF f = Temp(name) THEN <<>>
                                 ELSE IF f = Final(name) THEN c ELSE d[f]
  PROVE  CachesKept(s, e) /\ e[Final(name)] = c
  <1>1. d = [f \in Files |-> d[f]] /\ \A f \in Files : d[f] \in Seq(Int)
    BY DEF CachesKept
  <1>3. \A f \in Files : e[f] \in Seq(Int)
    <2> DEFINE W == Seq(Int)
    <2>1. <<>> \in W /\ c \in W /\ \A f \in Files : d[f] \in W
      BY <1>1
    <2> HIDE DEF W
    <2>2. \A f \in Files : e[f] \in W
      BY <2>1
    <2> QED BY <2>2 DEF W
  <1>4. \A n \in CacheNames : e[Final(n)] = IF n = name THEN c ELSE d[Final(n)]
    BY FileNames
  <1> QED BY <1>3, <1>4 DEF CachesKept

\* So no cache on the disk is a part of one.
LEMMA KeptWhole ==
  ASSUME Asked, CachesKept(scenario, disk)
  PROVE  CacheWhole
  <1>1. scenario \in Scenarios /\ Legible(scenario.text)
    BY TextLegible DEF Asked
  <1> SUFFICES ASSUME NEW name \in CacheNames, disk[Final(name)] # <<>>,
                      disk[Final(name)][1] = Version
               PROVE  \E sort \in BOOLEAN :
                        Contents(disk, name) \in WholeBodies(disk[Final(name)][2], sort)
    BY DEF CacheWhole
  <1> DEFINE content == disk[Final(name)]
  <1>2. IsCache(scenario, content)
    BY DEF CachesKept
  <1>3. Contents(disk, name) = SubSeq(content, 3, Len(content))
    BY DEF Contents
  <1>4. content[1] = Version
    OBVIOUS
  <1> HIDE DEF content
  <1>5. PICK bits, es, sort : Held(scenario, content, bits, es, sort)
    BY <1>2 DEF IsCache
  <1>6. /\ CacheNumbits(content) = bits /\ SubSeq(content, 3, Len(content)) = Book(es)
        /\ Complete(scenario, content, bits, es, sort)
    BY <1>1, <1>4, <1>5, HeldProperties
  <1>7. /\ bits \in 0 .. MaxBits /\ sort \in Sorts(scenario)
        /\ es \in Examples(scenario.text, LineCount(scenario.text), bits, sort)
    BY <1>6 DEF Complete
  <1>8. sort \in BOOLEAN
    BY <1>1, <1>7, SortsAsked
  <1>9. Book(es) \in WholeBodies(bits, sort)
    BY <1>1, <1>7, <1>8, BookWhole
  <1>10. content[2] = bits
    BY <1>4, <1>6 DEF CacheNumbits
  <1>11. Contents(disk, name) \in WholeBodies(content[2], sort)
    BY <1>3, <1>6, <1>9, <1>10
  <1> QED BY <1>8, <1>11 DEF content

-----------------------------------------------------------------------------
(* A pass over the text                                                    *)

\* Where a program reads from and what it writes, if there is no more than one
\* cache.
Mode ==
  /\ num_bits \in 0 .. MaxBits /\ passes_complete \in Nat /\ par \in ParserStates
  /\ IF par.reader = "text"
       THEN /\ opened = <<>> /\ par.resettable = par.write_cache
            /\ par.write_cache => finalname \in CacheNames
            /\ ~par.write_cache => opt.passes <= 1
       ELSE /\ ~par.write_cache /\ par.resettable
            /\ \E name \in CacheNames : opened = <<name>>

\* What it has written: an example of each of the first k lines.
Writes(t, k) ==
  /\ out \in Outs
  /\ \E es \in Examples(t, k, num_bits, opt.sort) :
       Given(out) = Cat(Header(num_bits), Book(es))

\* Where the reader of text is after k lines.
AtFetch(t, k) ==
  pc = "fetch" /\ call = NoCall /\ Rest = TextFrom(t, k) /\ Tidy(ae)
AtLine(t, k) ==
  /\ pc = "line" /\ ae \in Blank /\ ~ae.sorted
  /\ \/ call = [op |-> "readto", n |-> 0] /\ Rest = TextFrom(t, k)
     \/ /\ call = NoCall
        /\ IF IsLine(t, k + 1) THEN answer = <<t[2 * k + 1]>> /\ Rest = TextFrom(t, k + 1)
                               ELSE answer = <<>>
AtRead(t, k) ==
  /\ pc = "read" /\ call = NoCall /\ k < LineCount(t) /\ Rest = TextFrom(t, k + 1)
  /\ ae \in Filled(num_bits) /\ ~ae.sorted /\ Delivers(t[2 * k + 1], num_bits, opt.sort, ae)
AtReset(t, k) == pc = "reset" /\ call = NoCall /\ k = LineCount(t) /\ ae \in Blank
TextPlace(t, k) ==
  /\ BufferInv /\ k \in 0 .. LineCount(t)
  /\ AtFetch(t, k) \/ AtLine(t, k) \/ AtRead(t, k) \/ AtReset(t, k)

Reading == Running /\ par.reader = "text"
TextInv ==
  Reading => /\ TextPlace(scenario.text, example_number)
             /\ par.write_cache => Writes(scenario.text, example_number)

LEMMA ModeKept ==
  ASSUME Mode, UNCHANGED <<scenario, session, num_bits, passes_complete, par, opened, finalname>>
  PROVE  Mode'
  BY DEF Mode, opt

LEMMA WritesKept ==
  ASSUME Writes(scenario.text, example_number), Same
  PROVE  Writes(scenario.text, example_number)'
  BY DEF Writes, Same, processVars, opt

\* The lines of a legible text are where they are counted.
LEMMA TextPlaced ==
  ASSUME NEW t, Legible(t), NEW k \in 0 .. LineCount(t)
  PROVE  /\ k \in Nat /\ 2 * k <= Len(t) /\ LineCount(t) \in Nat
         /\ k < LineCount(t) <=> IsLine(t, k + 1)
         /\ k < LineCount(t) => t[2 * k + 1] \in DOMAIN Line
  <1> DEFINE N == LineCount(t)
  <1>1. t \in Seq(Int)
    BY DEF Legible
  <1>2. Len(t) \in Nat
    BY <1>1
  <1>3. /\ N \in 0 .. Len(t) /\ \A i \in 1 .. N : IsLine(t, i)
        /\ ~IsLine(t, N + 1)
    BY <1>2, LineCounted
  <1> HIDE DEF N
  <1>4. k \in Nat /\ N \in Nat /\ k <= N
    BY <1>2, <1>3 DEF N
  <1>5. 2 * k <= Len(t)
    <2>1. CASE k = 0
      BY <1>2, <2>1
    <2>2. CASE k # 0
      <3>1. IsLine(t, k)
        BY <1>3, <1>4, <2>2
      <3> QED BY <3>1 DEF IsLine
    <2> QED BY <2>1, <2>2
  <1>6. k < N => k + 1 \in 1 .. N
    BY <1>4
  <1>7. k < N <=> IsLine(t, k + 1)
    BY <1>3, <1>4, <1>6
  <1>8. k < N => t[2 * k + 1] \in DOMAIN Line
    <2> SUFFICES ASSUME k < N PROVE t[2 * k + 1] \in DOMAIN Line
      OBVIOUS
    <2>1. k + 1 \in Nat \ {0} /\ 2 * (k + 1) - 1 = 2 * k + 1
      BY <1>4
    <2>2. t[2 * (k + 1) - 1] \in DOMAIN Line
      BY <1>7, <2>1, LineThere
    <2> QED BY <2>1, <2>2
  <1> QED BY <1>4, <1>5, <1>7, <1>8 DEF N

LEMMA TextFetches ==
  ASSUME NEW t, NEW k, TextPlace(t, k), par.reader = "text", Fetch
  PROVE  TextPlace(t, k)'
  <1>1. /\ pc = "fetch" /\ pc' = "line" /\ ae' = Clear(ae)
        /\ call' = [op |-> "readto", n |-> 0]
        /\ UNCHANGED <<loaded, end, files, current, answer>>
    BY DEF Fetch, ReadTo, Buffered
  <1>2. BufferInv /\ k \in 0 .. LineCount(t) /\ AtFetch(t, k)
    BY <1>1 DEF TextPlace, AtLine, AtRead, AtReset
  <1>3. ae' \in Blank /\ ~ae'.sorted
    BY <1>1, <1>2, ClearedBlank DEF AtFetch
  <1>4. Rest' = TextFrom(t, k)
    BY <1>1, <1>2, NotReading DEF AtFetch
  <1>5. BufferInv'
    BY <1>1, <1>2 DEF BufferInv
  <1>6. AtLine(t, k)'
    BY <1>1, <1>3, <1>4 DEF AtLine
  <1> QED BY <1>2, <1>5, <1>6 DEF TextPlace

LEMMA TextWaits ==
  ASSUME NEW t, Legible(t), NEW k, TextPlace(t, k), InCall
  PROVE  TextPlace(t, k)'
  <1>1. BufStep /\ UNCHANGED <<pc, ae, num_bits, scenario, session>>
    BY DEF InCall, processVars, readerVars
  <1>2. call.op = "buf_read" \/ call.op = "readto"
    BY <1>1 DEF BufStep, Serve, Fill, NextFile, NoMore, Short, EndOfFile
  <1>3. BufferInv /\ k \in 0 .. LineCount(t)
    BY DEF TextPlace
  <1>4. AtLine(t, k) /\ call = [op |-> "readto", n |-> 0] /\ Rest = TextFrom(t, k)
    <2>1. call # NoCall
      BY <1>2 DEF NoCall
    <2> QED BY <2>1 DEF TextPlace, AtFetch, AtLine, AtRead, AtReset
  <1>5. k \in Nat /\ 2 * k <= Len(t)
    BY <1>3, TextPlaced
  <1>6. Sizes
    BY <1>4 DEF Sizes
  <1>7. BufferInv' /\ (Stream!Read \/ Stream!ReadLine \/ UNCHANGED Stream!stream)
    BY <1>1, <1>3, <1>6, BufferStep
  <1>8. pc' = "line" /\ ae' \in Blank /\ ~ae'.sorted
    BY <1>1, <1>4 DEF AtLine
  <1>9. CASE Stream!Read
    BY <1>4, <1>9, StreamMapping
  <1>10. CASE Stream!ReadLine
    <2>1. call' = NoCall
      BY <1>10, StreamMapping
    <2>2. IF IsLine(t, k + 1) THEN answer' = <<t[2 * k + 1]>> /\ Rest' = TextFrom(t, k + 1)
                              ELSE answer' = <<>>
      BY <1>4, <1>5, <1>10, LineServed
    <2>3. AtLine(t, k)'
      BY <1>8, <2>1, <2>2 DEF AtLine
    <2> QED BY <1>3, <1>7, <2>3 DEF TextPlace
  <1>11. CASE UNCHANGED Stream!stream
    <2>1. UNCHANGED <<Rest, call, answer>>
      BY <1>11, StreamMapping
    <2>2. AtLine(t, k)'
      BY <1>4, <1>8, <2>1 DEF AtLine
    <2> QED BY <1>3, <1>7, <2>2 DEF TextPlace
  <1> QED BY <1>7, <1>9, <1>10, <1>11

LEMMA TextGotLine ==
  ASSUME NEW t, Legible(t), NEW k, TextPlace(t, k), num_bits \in 0 .. MaxBits, opt \in Session,
         GotLine, pc' # "exited"
  PROVE  TextPlace(t, k)'
  <1>1. /\ pc = "line" /\ call = NoCall
        /\ UNCHANGED <<loaded, end, files, current, call, answer, num_bits, scenario, session>>
    BY DEF GotLine, inputVars, Same, processVars
  <1>2. BufferInv /\ k \in 0 .. LineCount(t) /\ AtLine(t, k)
    BY <1>1 DEF TextPlace, AtFetch, AtRead, AtReset
  <1>3. /\ ae \in Blank /\ ~ae.sorted
        /\ IF IsLine(t, k + 1) THEN answer = <<t[2 * k + 1]>> /\ Rest = TextFrom(t, k + 1)
                               ELSE answer = <<>>
    BY <1>1, <1>2 DEF AtLine, NoCall
  <1>4. /\ k \in Nat /\ LineCount(t) \in Nat /\ (k < LineCount(t) <=> IsLine(t, k + 1))
        /\ k < LineCount(t) => t[2 * k + 1] \in DOMAIN Line
    BY <1>2, TextPlaced
  <1>5. BufferInv' /\ Rest' = Rest
    BY <1>1, <1>2, NotReading DEF BufferInv
  <1>6. CASE ~IsLine(t, k + 1)
    <2>1. answer = <<>> /\ k = LineCount(t)
      BY <1>2, <1>3, <1>4, <1>6
    <2>2. pc' = "reset" /\ ae' = ae
      BY <2>1 DEF GotLine
    <2>3. AtReset(t, k)'
      BY <1>1, <1>3, <2>1, <2>2 DEF AtReset
    <2> QED BY <1>2, <1>5, <2>3 DEF TextPlace
  <1>7. CASE IsLine(t, k + 1)
    <2> DEFINE l == t[2 * k + 1]
    <2>1. answer = <<l>> /\ Rest = TextFrom(t, k + 1) /\ k < LineCount(t) /\ l \in DOMAIN Line
      BY <1>3, <1>4, <1>7
    <2> HIDE DEF l
    <2>2. answer # <<>> /\ answer[1] = l
      BY <2>1
    <2>3. pc' = "read" /\ ae' = ReadFeatures(ae, Line[l], Mask)
      BY <2>2 DEF GotLine
    <2>4. Mask = Pow2[num_bits] - 1 /\ num_bits \in Nat /\ opt.sort \in BOOLEAN
      BY WidthAssumption DEF Mask, Session
    <2>5. /\ ReadFeatures(ae, Line[l], Pow2[num_bits] - 1) \in Filled(num_bits)
          /\ ~ReadFeatures(ae, Line[l], Pow2[num_bits] - 1).sorted
          /\ Delivers(l, num_bits, opt.sort, ReadFeatures(ae, Line[l], Pow2[num_bits] - 1))
      BY <1>3, <2>1, <2>4, TextDelivers
    <2>6. ae' \in Filled(num_bits) /\ ~ae'.sorted /\ Delivers(l, num_bits, opt.sort, ae')
      BY <2>3, <2>4, <2>5
    <2>7. num_bits' = num_bits /\ opt' = opt
      BY <1>1 DEF opt
    <2>8. AtRead(t, k)'
      BY <1>1, <1>5, <2>1, <2>3, <2>6, <2>7 DEF AtRead, l
    <2> QED BY <1>2, <1>5, <2>8 DEF TextPlace
  <1> QED BY <1>6, <1>7

\* The place of the text and of the line in it.
LEMMA PlaceNow ==
  ASSUME NEW t, t = scenario'.text, NEW k, k = example_number'
  PROVE  /\ TextPlace(t, k)' => TextPlace(scenario.text, example_number)'
         /\ Writes(t, k)' => Writes(scenario.text, example_number)'
  BY DEF TextPlace, AtFetch, AtLine, AtRead, AtReset, Writes

-----------------------------------------------------------------------------
(* What is written of a text                                               *)

LEMMA LineWritten ==
  ASSUME NEW t, NEW k \in Nat, Writes(t, k), num_bits \in 0 .. MaxBits, opt.sort \in BOOLEAN,
         t[2 * k + 1] \in DOMAIN Line,
         NEW e \in Filled(num_bits), NEW f \in FromText(t[2 * k + 1], num_bits, opt.sort),
         Agree(f, e), e.tag # <<>>
  PROVE  LET o == FoldLeft(BufWrite, out, CacheExample(e))
         IN  /\ o \in Outs
             /\ \E es \in Examples(t, k + 1, num_bits, opt.sort) :
                  Given(o) = Cat(Header(num_bits), Book(es))
  <1> DEFINE o == FoldLeft(BufWrite, out, CacheExample(e))
             b == num_bits
             sort == opt.sort
             H == Header(b)
  <1>1. out \in Outs
    BY DEF Writes
  <1>2. PICK es \in Examples(t, k, b, sort) : Given(out) = Cat(H, Book(es))
    BY DEF Writes
  <1>3. o \in Outs /\ Given(o) = Cat(Given(out), Enc(e))
    BY <1>1, ExampleWritten
  <1>4. f \in Filled(b) /\ Enc(f) = Enc(e) /\ f.tag = e.tag /\ Enc(e) \in Seq(Int)
    <2>1. b \in Nat
      BY WidthAssumption
    <2>2. f \in Filled(b)
      BY <2>1, FromTextFilled
    <2>3. Enc(f) = Enc(e)
      BY EncAgree
    <2>4. f.tag = e.tag
      BY DEF Agree
    <2> QED BY <2>2, <2>3, <2>4, EncParts
  <1> DEFINE fs == Append(es, f)
  <1>5. fs \in Examples(t, k + 1, b, sort) /\ Book(fs) = Cat(Book(es), Enc(f))
    <2>1. 2 * (k + 1) - 1 = 2 * k + 1
      OBVIOUS
    <2> QED BY <1>4, <2>1, ExamplesMore
  <1>6. Book(es) \in Seq(Int) /\ H \in Seq(Int)
    <2>1. es \in Seq(Filled(b))
      BY DEF Examples
    <2>2. b \in Int
      BY WidthAssumption
    <2>3. H \in Seq(Int)
      BY <2>2 DEF Header, Version
    <2> QED BY <2>1, <2>3, BookTyped
  <1> HIDE DEF o, fs, H
  <1>7. Given(o) = Cat(H, Book(fs))
    <2>1. Cat(Cat(H, Book(es)), Enc(e)) = Cat(H, Cat(Book(es), Enc(e)))
      BY <1>4, <1>6, CatAssociative
    <2> QED BY <1>2, <1>3, <1>4, <1>5, <2>1
  <1> QED BY <1>3, <1>5, <1>7 DEF o, H

LEMMA TextPrepares ==
  ASSUME NEW t, Legible(t), t = scenario.text, NEW k, k = example_number,
         TextPlace(t, k), Mode, opt \in Session, par.reader = "text",
         par.write_cache => Writes(t, k), CachesKept(scenario, disk), Prepare
  PROVE  /\ CachesKept(scenario', disk')
         /\ pc' # "exited" => /\ TextPlace(t, k + 1)' /\ example_number' = k + 1
                              /\ par.write_cache => Writes(t, k + 1)'
  <1>1. /\ pc = "read"
        /\ UNCHANGED <<loaded, end, files, current, call, answer, scenario, session, num_bits,
                       par, opened, finalname>>
    BY DEF Prepare, inputVars
  <1>2. BufferInv /\ k \in 0 .. LineCount(t) /\ AtRead(t, k)
    BY <1>1 DEF TextPlace, AtFetch, AtLine, AtReset
  <1>3. /\ call = NoCall /\ k < LineCount(t) /\ Rest = TextFrom(t, k + 1)
        /\ ae \in Filled(num_bits) /\ ~ae.sorted
        /\ Delivers(t[2 * k + 1], num_bits, opt.sort, ae)
    BY <1>2 DEF AtRead
  <1>4. k \in Nat /\ LineCount(t) \in Nat /\ t[2 * k + 1] \in DOMAIN Line
    BY <1>2, <1>3, TextPlaced
  <1>5. PICK e \in Sorted(ae) :
          IF par.write_cache /\ CannotCache(e)
            THEN pc' = "exited" /\ UNCHANGED <<ae, out, disk, example_number>>
            ELSE /\ out' = Cached(e)
                 /\ disk' = IF par.write_cache THEN [disk EXCEPT ![Temp(finalname)] = out'.file]
                                               ELSE disk
                 /\ ae' = SetupExample(Grams(e), opt, Mask)
                 /\ example_number' = example_number + 1
                 /\ pc' = "fetch"
    BY DEF Prepare
  <1>6. CASE par.write_cache /\ CannotCache(e)
    BY <1>1, <1>5, <1>6
  <1>7. CASE ~(par.write_cache /\ CannotCache(e))
    <2>1. /\ out' = Cached(e)
          /\ disk' = IF par.write_cache THEN [disk EXCEPT ![Temp(finalname)] = out'.file]
                                        ELSE disk
          /\ ae' = SetupExample(Grams(e), opt, Mask)
          /\ example_number' = k + 1
          /\ pc' = "fetch"
      BY <1>5, <1>7
    <2>2. /\ e \in Filled(num_bits)
          /\ \E f \in FromText(t[2 * k + 1], num_bits, opt.sort) : Agree(f, e)
      BY <1>3 DEF Sorted, NeedsSort, Delivers
    <2>3. num_bits \in Nat /\ num_bits \in 0 .. MaxBits /\ opt.sort \in BOOLEAN
          /\ Mask = Pow2[num_bits] - 1
      BY WidthAssumption DEF Mode, Mask, Session
    <2>4. ae' = Made(e, opt, Pow2[num_bits] - 1)
      BY <2>1, <2>3 DEF Made, Grammed, Grams
    <2>5. Tidy(ae')
      BY <2>2, <2>3, <2>4, MadeArranged
    <2>6. BufferInv' /\ Rest' = Rest
      BY <1>1, <1>2, NotReading DEF BufferInv
    <2>7. AtFetch(t, k + 1)'
      BY <1>1, <1>3, <2>1, <2>5, <2>6 DEF AtFetch
    <2>8. k + 1 \in 0 .. LineCount(t)
      BY <1>3, <1>4
    <2>9. TextPlace(t, k + 1)'
      BY <2>6, <2>7, <2>8 DEF TextPlace
    <2>10. CASE ~par.write_cache
      BY <1>1, <2>1, <2>9, <2>10
    <2>11. CASE par.write_cache
      <3>1. e.tag # <<>>
        BY <1>7, <2>11 DEF CannotCache
      <3>2. PICK f \in FromText(t[2 * k + 1], num_bits, opt.sort) : Agree(f, e)
        BY <2>2
      <3>3. out' = FoldLeft(BufWrite, out, CacheExample(e))
        BY <2>1, <2>11 DEF Cached
      <3>4. /\ out' \in Outs
            /\ \E es \in Examples(t, k + 1, num_bits, opt.sort) :
                 Given(out') = Cat(Header(num_bits), Book(es))
        BY <1>4, <2>2, <2>3, <2>11, <3>1, <3>2, <3>3, LineWritten
      <3>5. num_bits' = num_bits /\ opt' = opt
        BY <1>1 DEF opt
      <3>6. Writes(t, k + 1)'
        BY <3>4, <3>5 DEF Writes
      <3>7. finalname \in CacheNames /\ out'.file \in Seq(Int)
        BY <2>11, <3>4 DEF Mode, Outs
      <3>8. CachesKept(scenario, disk')
        <4>1. disk' = [disk EXCEPT ![Temp(finalname)] = out'.file]
          BY <2>1, <2>11
        <4> DEFINE c == out'.file
        <4>2. c \in Seq(Int) /\ disk' = [disk EXCEPT ![Temp(finalname)] = c]
          BY <3>7, <4>1
        <4> HIDE DEF c
        <4>3. CachesKept(scenario, [disk EXCEPT ![Temp(finalname)] = c])
          BY <3>7, <4>2, TempWritten
        <4> QED BY <4>2, <4>3
      <3> QED BY <1>1, <2>1, <2>9, <2>11, <3>6, <3>8
    <2> QED BY <2>10, <2>11
  <1> QED BY <1>6, <1>7

-----------------------------------------------------------------------------
(* The ends of the passes, and the start                                   *)

\* The cache that was written takes its name.
LEMMA CacheEnds ==
  ASSUME NEW t, t = scenario.text, NEW k, k = example_number, TextPlace(t, k), Mode,
         scenario \in Scenarios, opt.sort \in Sorts(scenario),
         par.write_cache, Writes(t, k), CachesKept(scenario, disk), EndPass
  PROVE  /\ CachesKept(scenario', disk') /\ finalname \in CacheNames
         /\ \E es : Complete(scenario, disk'[Final(finalname)], num_bits, es, opt.sort)
  <1>1. pc = "reset" /\ scenario' = scenario /\ disk' = Renamed(disk)
    BY DEF EndPass
  <1>2. k = LineCount(t)
    BY <1>1 DEF TextPlace, AtFetch, AtLine, AtRead, AtReset
  <1>3. finalname \in CacheNames /\ num_bits \in 0 .. MaxBits
    BY DEF Mode, ParserStates
  <1>4. out \in Outs
    BY DEF Writes
  <1>5. PICK es \in Examples(t, k, num_bits, opt.sort) :
          Given(out) = Cat(Header(num_bits), Book(es))
    BY DEF Writes
  <1> DEFINE c == Flush(out).file
  <1>6. c = Given(out) /\ c \in Seq(Int)
    BY <1>4, Flushed
  <1>7. disk' = [disk EXCEPT ![Final(finalname)] = c, ![Temp(finalname)] = <<>>]
    BY <1>1 DEF Renamed
  <1> HIDE DEF c
  <1>8. Complete(scenario, c, num_bits, es, opt.sort)
    BY <1>2, <1>3, <1>5, <1>6 DEF Complete
  <1>9. IsCache(scenario, c)
    BY <1>8 DEF IsCache, Held
  <1>10. CachesKept(scenario, disk') /\ disk'[Final(finalname)] = c
    <2> DEFINE e == [disk EXCEPT ![Final(finalname)] = c, ![Temp(finalname)] = <<>>]
    <2>1. CachesKept(scenario, e) /\ e[Final(finalname)] = c
      <3>0. disk = [f \in Files |-> disk[f]]
        BY DEF CachesKept
      <3>1. /\ e = [f \in Files |-> e[f]]
            /\ \A f \in Files : e[f] = IF f = Temp(finalname) THEN <<>>
                                       ELSE IF f = Final(finalname) THEN c ELSE disk[f]
        BY <3>0
      <3> HIDE DEF e
      <3> QED BY <1>3, <1>6, <1>9, <3>1, CachePublished
    <2>2. disk' = e
      BY <1>7
    <2> HIDE DEF e
    <2> QED BY <2>1, <2>2
  <1> QED BY <1>1, <1>3, <1>8, <1>10

LEMMA ModeEnds ==
  ASSUME Mode, Running, EndPass, opt \in Session
  PROVE  Running' => Mode' /\ par'.reader = "cache"
  <1>1. /\ opened' = IF par.write_cache THEN <<finalname>> ELSE opened
        /\ par' = IF par.write_cache THEN [par EXCEPT !.write_cache = FALSE, !.reader = "cache"]
                                     ELSE par
        /\ passes_complete' = passes_complete + 1
        /\ UNCHANGED <<num_bits, scenario, session>>
    BY DEF EndPass
  <1>2. num_bits \in 0 .. MaxBits /\ passes_complete \in Nat /\ par \in ParserStates
        /\ par.reader \in {"text", "cache"}
    BY DEF Mode, ParserStates
  <1>3. CASE par.write_cache
    <2>1. par.reader = "text" /\ par.resettable /\ finalname \in CacheNames
      BY <1>2, <1>3 DEF Mode
    <2>2. /\ par' \in ParserStates /\ par'.reader = "cache" /\ ~par'.write_cache
          /\ par'.resettable
      BY <1>1, <1>2, <1>3, <2>1 DEF ParserStates
    <2>3. \E name \in CacheNames : opened' = <<name>>
      BY <1>1, <1>3, <2>1
    <2>4. num_bits' \in 0 .. MaxBits /\ passes_complete' \in Nat /\ par'.reader # "text"
      BY <1>1, <1>2, <2>2
    <2>5. Mode'
      BY <2>2, <2>3, <2>4 DEF Mode
    <2> QED BY <2>2, <2>5
  <1>4. CASE ~par.write_cache /\ par.reader = "text"
    <2>1. opt.passes <= 1 /\ opt.passes \in Nat /\ ~par.resettable
      BY <1>2, <1>4 DEF Mode, ParserStates, Session
    <2>2. passes_complete' >= opt.passes
      BY <1>1, <1>2, <2>1
    <2>3. pc' = "done"
      BY <2>1, <2>2 DEF EndPass
    <2> QED BY <2>3 DEF Running
  <1>5. CASE ~par.write_cache /\ par.reader = "cache"
    <2>1. par' = par /\ opened' = opened /\ opt' = opt
      BY <1>1, <1>5 DEF opt
    <2> QED BY <1>1, <1>2, <1>5, <2>1 DEF Mode
  <1> QED BY <1>2, <1>3, <1>4, <1>5

-----------------------------------------------------------------------------
(* parse_cache with one cache or none                                      *)

\* No session uses more than one cache.
OneCache == \A i \in DOMAIN scenario.sessions : Len(scenario.sessions[i].caches) <= 1

\* The bits asked for.
BitsAsked == IF opt.bits = 0 THEN DefaultBits ELSE opt.bits

\* The text is read and no cache is written; one is; or one is read.
OnlyText == AfterCaches = Begun
WritesCache(name) ==
  /\ disk[Final(name)] = <<>> \/ CacheNumbits(disk[Final(name)]) < BitsAsked
  /\ AfterCaches = [num_bits |-> BitsAsked,
                    par |-> [reader |-> "text", write_cache |-> TRUE, sorted_cache |-> FALSE,
                             resettable |-> FALSE],
                    opened |-> <<>>,
                    out |-> [space |-> <<>>, size |-> BufferSize, file |-> Header(BitsAsked)],
                    finalname |-> name, disk |-> [disk EXCEPT ![Temp(name)] = Header(BitsAsked)]]
BitsOf(name) == IF opt.bits = 0 THEN CacheNumbits(disk[Final(name)]) ELSE opt.bits
ReadsCache(name) ==
  LET c == CacheNumbits(disk[Final(name)])
  IN  /\ disk[Final(name)] # <<>> /\ ~(c < BitsOf(name))
      /\ AfterCaches = [num_bits |-> BitsOf(name),
                        par |-> [reader |-> "cache", write_cache |-> FALSE,
                                 sorted_cache |-> c = BitsOf(name), resettable |-> TRUE],
                        opened |-> <<name>>, out |-> NewOutput, finalname |-> "none",
                        disk |-> disk]

LEMMA CacheMade ==
  ASSUME NEW v, v = Begun, NEW name,
         disk[Final(name)] = <<>> \/ CacheNumbits(disk[Final(name)]) < BitsAsked,
         AfterCaches = MakeWriteCache(v, name)
  PROVE  OnlyText \/ WritesCache(name)
  <1> DEFINE b == BitsAsked
  <1>1. v = [num_bits |-> b, par |-> NewParser, opened |-> <<>>, out |-> NewOutput,
             finalname |-> "none", disk |-> disk]
    BY DEF Begun, BitsAsked
  <1>2. CASE ~opt.writable
    BY <1>2 DEF MakeWriteCache, OnlyText
  <1>3. CASE opt.writable
    <2> DEFINE h == Header(b)
               p == [v.par EXCEPT !.write_cache = TRUE]
               o == [v.out EXCEPT !.file = h]
               d == [v.disk EXCEPT ![Temp(name)] = h]
               w == AfterCaches
    <2>1. w = [v EXCEPT !.finalname = name, !.out.file = h, !.disk[Temp(name)] = h,
                        !.par.write_cache = TRUE]
      BY <1>1, <1>3 DEF MakeWriteCache
    <2> HIDE DEF h, b
    <2>2. p = [reader |-> "text", write_cache |-> TRUE, sorted_cache |-> FALSE,
               resettable |-> FALSE]
      <3>1. v.par \in ParserStates /\ v.par = NewParser
        BY <1>1 DEF NewParser, ParserStates
      <3>2. p \in ParserStates /\ p.write_cache = TRUE
        BY <3>1 DEF ParserStates
      <3>3. p.reader = "text" /\ p.sorted_cache = FALSE /\ p.resettable = FALSE
        BY <3>1 DEF NewParser, ParserStates
      <3> HIDE DEF p
      <3> QED BY <3>2, <3>3 DEF ParserStates
    <2>3. o = [space |-> <<>>, size |-> BufferSize, file |-> h]
      BY <1>1 DEF NewOutput
    <2>4. d = [disk EXCEPT ![Temp(name)] = h]
      BY <1>1
    <2>5. w = [num_bits |-> b, par |-> p, opened |-> <<>>, out |-> o, finalname |-> name,
               disk |-> d]
      <3>1. w = [v EXCEPT !.finalname = name, !.out = o, !.disk = d, !.par = p]
        BY <2>1
      <3>2. v = [num_bits |-> b, par |-> NewParser, opened |-> <<>>, out |-> NewOutput,
                 finalname |-> "none", disk |-> disk]
        BY <1>1
      <3> HIDE DEF w, p, o, d
      <3>3. /\ w.num_bits = b /\ w.par = p /\ w.opened = <<>> /\ w.out = o
            /\ w.finalname = name /\ w.disk = d
        BY <3>1, <3>2
      <3>4. DOMAIN w = {"num_bits", "par", "opened", "out", "finalname", "disk"}
        BY <3>1, <3>2
      <3>5. w = [x \in DOMAIN w |-> w[x]]
        BY <3>1
      <3>6. w = [num_bits |-> w.num_bits, par |-> w.par, opened |-> w.opened, out |-> w.out,
                 finalname |-> w.finalname, disk |-> w.disk]
        BY <3>4, <3>5
      <3> QED BY <3>3, <3>6
    <2> HIDE DEF p, o, d
    <2>6. AfterCaches =
            [num_bits |-> b,
             par |-> [reader |-> "text", write_cache |-> TRUE, sorted_cache |-> FALSE,
                      resettable |-> FALSE],
             opened |-> <<>>, out |-> [space |-> <<>>, size |-> BufferSize, file |-> h],
             finalname |-> name, disk |-> [disk EXCEPT ![Temp(name)] = h]]
      BY <2>2, <2>3, <2>4, <2>5
    <2> QED BY <2>6 DEF WritesCache, b, h
  <1> QED BY <1>2, <1>3

LEMMA OneLooked ==
  ASSUME opt.caches \in Seq(CacheNames), Len(opt.caches) <= 1, opt.bits \in 0 .. MaxBits,
         disk = [f \in Files |-> disk[f]],
         \A name \in CacheNames :
           disk[Final(name)] # <<>> => CacheNumbits(disk[Final(name)]) \in Nat
  PROVE  OnlyText \/ \E name \in CacheNames : WritesCache(name) \/ ReadsCache(name)
  <1>1. /\ Len(opt.caches) = 0 => AfterCaches = Begun
        /\ Len(opt.caches) = 1 => AfterCaches = OpenCache(Begun, opt.caches[1])
    <2>1. DOMAIN disk = Files /\ disk = [f \in DOMAIN disk |-> disk[f]]
      OBVIOUS
    <2> QED BY <2>1, CachesOpened
  <1>2. CASE Len(opt.caches) = 0
    BY <1>1, <1>2 DEF OnlyText
  <1>3. CASE Len(opt.caches) = 1
    <2>1. PICK name \in CacheNames : name = opt.caches[1]
      BY <1>3
    <2> DEFINE v == Begun
               c == CacheNumbits(disk[Final(name)])
    <2>2. AfterCaches = OpenCache(v, name)
      BY <1>1, <1>3, <2>1
    <2>3. v = [num_bits |-> BitsAsked, par |-> NewParser, opened |-> <<>>, out |-> NewOutput,
               finalname |-> "none", disk |-> disk]
      BY DEF Begun, BitsAsked
    <2> HIDE DEF v
    <2>4. v.num_bits = BitsAsked /\ v.disk = disk /\ v.opened = <<>>
      BY <2>3
    <2>5. (IF opt.bits = 0 THEN c ELSE v.num_bits) = BitsOf(name)
      BY <2>4 DEF BitsAsked, BitsOf
    <2>6. CASE disk[Final(name)] = <<>>
      <3>1. AfterCaches = MakeWriteCache(v, name)
        BY <2>2, <2>4, <2>6 DEF OpenCache
      <3> QED BY <2>6, <3>1, CacheMade DEF v
    <2>7. CASE disk[Final(name)] # <<>> /\ c < BitsOf(name)
      <3>1. AfterCaches = MakeWriteCache([v EXCEPT !.num_bits = BitsOf(name)], name)
        BY <2>2, <2>4, <2>5, <2>7 DEF OpenCache
      <3>2. opt.bits # 0
        <4> SUFFICES ASSUME opt.bits = 0 PROVE FALSE
          OBVIOUS
        <4>1. BitsOf(name) = c
          BY DEF BitsOf
        <4>2. c < c
          BY <2>7, <4>1
        <4>3. c \in Int
          BY <2>7
        <4> HIDE DEF c
        <4> QED BY <4>2, <4>3
      <3>3. BitsOf(name) = BitsAsked
        BY <3>2 DEF BitsOf, BitsAsked
      <3>4. [v EXCEPT !.num_bits = BitsOf(name)] = v
        BY <2>3, <3>3
      <3>5. AfterCaches = MakeWriteCache(v, name)
        BY <3>1, <3>4
      <3>6. c < BitsAsked
        BY <2>7, <3>3
      <3> QED BY <3>5, <3>6, CacheMade DEF v
    <2>8. CASE disk[Final(name)] # <<>> /\ ~(c < BitsOf(name))
      <3>1. AfterCaches =
              [v EXCEPT !.num_bits = BitsOf(name), !.opened = Append(@, name),
                        !.par.reader = "cache", !.par.sorted_cache = SortedCache(c, BitsOf(name)),
                        !.par.resettable = TRUE]
        BY <2>2, <2>4, <2>5, <2>8 DEF OpenCache
      <3> DEFINE b == BitsOf(name)
                 sorted == c = b
                 one == Append(<<>>, name)
      <3>2. one = <<name>>
        OBVIOUS
      <3> HIDE DEF b, c, one
      <3>3. AfterCaches =
              [num_bits |-> b,
               par |-> [NewParser EXCEPT !.reader = "cache", !.sorted_cache = sorted,
                                         !.resettable = TRUE],
               opened |-> one, out |-> NewOutput, finalname |-> "none", disk |-> disk]
        BY <2>3, <3>1 DEF SortedCache, b, one
      <3>4. [NewParser EXCEPT !.reader = "cache", !.sorted_cache = sorted, !.resettable = TRUE] =
              [reader |-> "cache", write_cache |-> FALSE, sorted_cache |-> sorted,
               resettable |-> TRUE]
        <4> DEFINE q == NewParser
                   p == [q EXCEPT !.reader = "cache", !.sorted_cache = sorted,
                                  !.resettable = TRUE]
        <4>1. q = [reader |-> "text", write_cache |-> FALSE, sorted_cache |-> FALSE,
                   resettable |-> FALSE]
          BY DEF NewParser
        <4>2. p = [q EXCEPT !.reader = "cache", !.sorted_cache = sorted, !.resettable = TRUE]
          OBVIOUS
        <4>3. sorted \in BOOLEAN
          OBVIOUS
        <4> HIDE DEF p, q, sorted
        <4>4. p = [reader |-> "cache", write_cache |-> FALSE, sorted_cache |-> sorted,
                   resettable |-> TRUE]
          BY <4>1, <4>2, <4>3
        <4> QED BY <4>4 DEF p, q
      <3> QED BY <2>8, <3>2, <3>3, <3>4 DEF ReadsCache, b, c
    <2> QED BY <2>6, <2>7, <2>8
  <1>4. Len(opt.caches) = 0 \/ Len(opt.caches) = 1
    <2> DEFINE n == Len(opt.caches)
    <2>1. n \in Nat /\ n <= 1
      OBVIOUS
    <2> HIDE DEF n
    <2>2. n = 0 \/ n = 1
      BY <2>1
    <2> QED BY <2>2 DEF n
  <1> QED BY <1>2, <1>3, <1>4

-----------------------------------------------------------------------------
(* The parts of a cached example.                                          *)

\* What is behind each part of an example that others follow.
BehindFeatures(e, j, later) == Cat(NsFrom(e, j + 1), later)
BehindTag(e, later) == Cat(<<Len(e.indices)>>, BehindFeatures(e, 0, later))
BehindTagSize(e, later) == Cat(e.tag, BehindTag(e, later))
BehindLabel(e, later) == Cat(<<Len(e.tag)>>, BehindTagSize(e, later))
BodyOf(e, j) == Body(e.atomics[e.indices[j]])

LEMMA PartsTyped ==
  ASSUME NEW c \in 0 .. MaxBits, NEW e \in Filled(c), NEW later \in Seq(Int)
  PROVE  /\ \A j \in 0 .. Len(e.indices) : BehindFeatures(e, j, later) \in Seq(Int)
         /\ BehindTag(e, later) \in Seq(Int) /\ BehindTagSize(e, later) \in Seq(Int)
         /\ BehindLabel(e, later) \in Seq(Int)
         /\ Cat(Enc(e), later) = Cat(<<e.label, e.weight>>, BehindLabel(e, later))
         /\ BehindFeatures(e, Len(e.indices), later) = later
         /\ \A j \in 1 .. Len(e.indices) :
              /\ BodyOf(e, j) \in Seq(Int)
              /\ BehindFeatures(e, j - 1, later) =
                   Cat(<<e.indices[j], Len(BodyOf(e, j))>>,
                       Cat(BodyOf(e, j), BehindFeatures(e, j, later)))
  <1> DEFINE W == Seq(Int)
             n == Len(e.indices)
             a == <<e.label, e.weight>>
             b == <<Len(e.tag)>>
             g == e.tag
             d == <<n>>
             f == NsFrom(e, 1)
  <1>1. /\ e.label \in Int /\ e.weight \in Int /\ e.tag \in W /\ n \in Nat
        /\ \A j \in 1 .. n : e.indices[j] \in Int
    <2>1. c \in Nat
      BY WidthAssumption
    <2> QED BY <2>1, FilledFields
  <1>2. a \in W /\ b \in W /\ g \in W /\ d \in W
    <2>1. Len(g) \in Int
      BY <1>1
    <2> HIDE DEF n
    <2> QED BY <1>1, <2>1
  <1>3. /\ NsFrom(e, n + 1) = <<>>
        /\ \A j \in 1 .. n + 1 : NsFrom(e, j) \in W
        /\ \A j \in 1 .. n :
             Cat(NsFrom(e, j), later) =
               Cat(<<e.indices[j], Len(BodyOf(e, j))>>,
                   Cat(BodyOf(e, j), Cat(NsFrom(e, j + 1), later)))
    BY NamespacesFrom DEF BodyOf
  <1>4. Enc(e) = Cat(a, Cat(b, Cat(g, Cat(d, f))))
    BY EncParts
  <1>5. \A j \in 1 .. n : BodyOf(e, j) \in W
    BY NamespaceCells DEF BodyOf
  <1>6. \A x, y, z \in W : Cat(x, y) \in W /\ Cat(Cat(x, y), z) = Cat(x, Cat(y, z))
    BY CatAssociative
  <1>7. \A x \in W : Cat(<<>>, x) = x
    BY DEF Cat
  <1>8. later \in W
    OBVIOUS
  <1>9. f \in W
    BY <1>1, <1>3
  <1> HIDE DEF W, a, b, g, d, f, n
  <1>10. \A j \in 0 .. n : BehindFeatures(e, j, later) \in W
    <2> SUFFICES ASSUME NEW j \in 0 .. n PROVE BehindFeatures(e, j, later) \in W
      OBVIOUS
    <2>1. j + 1 \in 1 .. n + 1
      BY <1>1
    <2> QED BY <1>3, <1>6, <1>8, <2>1 DEF BehindFeatures
  <1>11. BehindFeatures(e, 0, later) = Cat(f, later)
    BY DEF BehindFeatures, f
  <1>12. /\ BehindTag(e, later) = Cat(d, Cat(f, later)) /\ BehindTag(e, later) \in W
         /\ BehindTagSize(e, later) = Cat(g, Cat(d, Cat(f, later)))
         /\ BehindTagSize(e, later) \in W
         /\ BehindLabel(e, later) = Cat(b, Cat(g, Cat(d, Cat(f, later))))
         /\ BehindLabel(e, later) \in W
    <2>1. BehindTag(e, later) = Cat(d, BehindFeatures(e, 0, later))
      BY DEF BehindTag, d, n
    <2>2. BehindTagSize(e, later) = Cat(g, BehindTag(e, later))
      BY DEF BehindTagSize, g
    <2>3. BehindLabel(e, later) = Cat(b, BehindTagSize(e, later))
      BY DEF BehindLabel, b, g
    <2>4. /\ Cat(f, later) \in W /\ Cat(d, Cat(f, later)) \in W
          /\ Cat(g, Cat(d, Cat(f, later))) \in W
          /\ Cat(b, Cat(g, Cat(d, Cat(f, later)))) \in W
      BY <1>2, <1>6, <1>8, <1>9
    <2> QED BY <1>11, <2>1, <2>2, <2>3, <2>4
  <1>13. Cat(Enc(e), later) = Cat(a, BehindLabel(e, later))
    <2>1. Cat(d, f) \in W /\ Cat(g, Cat(d, f)) \in W /\ Cat(b, Cat(g, Cat(d, f))) \in W
      BY <1>2, <1>6, <1>9
    <2>2. Cat(Cat(a, Cat(b, Cat(g, Cat(d, f)))), later)
            = Cat(a, Cat(Cat(b, Cat(g, Cat(d, f))), later))
      BY <1>2, <1>6, <1>8, <2>1
    <2>3. Cat(Cat(b, Cat(g, Cat(d, f))), later) = Cat(b, Cat(Cat(g, Cat(d, f)), later))
      BY <1>2, <1>6, <1>8, <2>1
    <2>4. Cat(Cat(g, Cat(d, f)), later) = Cat(g, Cat(Cat(d, f), later))
      BY <1>2, <1>6, <1>8, <2>1
    <2>5. Cat(Cat(d, f), later) = Cat(d, Cat(f, later))
      BY <1>2, <1>6, <1>8, <1>9
    <2> QED BY <1>4, <1>12, <2>2, <2>3, <2>4, <2>5
  <1>14. BehindFeatures(e, n, later) = later
    BY <1>3, <1>7, <1>8 DEF BehindFeatures
  <1>15. ASSUME NEW j \in 1 .. n
         PROVE  BehindFeatures(e, j - 1, later) =
                  Cat(<<e.indices[j], Len(BodyOf(e, j))>>,
                      Cat(BodyOf(e, j), BehindFeatures(e, j, later)))
    <2>1. (j - 1) + 1 = j
      BY <1>1
    <2> QED BY <1>3, <2>1 DEF BehindFeatures
  <1> QED BY <1>5, <1>10, <1>12, <1>13, <1>14, <1>15 DEF W, n, a

-----------------------------------------------------------------------------
(* The call for a part.                                                    *)

\* The reader asked for a part, and was given it or not yet.
Awaits(part, later) ==
  /\ wanted = Len(part)
  /\ \/ call = NoCall /\ answer = part /\ Rest = later
     \/ call = [op |-> "buf_read", n |-> wanted] /\ Rest = Cat(part, later)

\* A reader that was given a part has all of it.
LEMMA PartGiven ==
  ASSUME NEW part \in Seq(Int), NEW later, Awaits(part, later), call = NoCall
  PROVE  answer = part /\ Rest = later /\ ~(Len(answer) < wanted)
  <1>1. answer = part /\ Rest = later /\ wanted = Len(part)
    BY DEF Awaits, NoCall
  <1> DEFINE n == Len(part)
  <1>2. n \in Nat
    OBVIOUS
  <1>3. wanted = n /\ Len(answer) = n
    BY <1>1
  <1> HIDE DEF n
  <1> QED BY <1>1, <1>2, <1>3

\* io_buf gives it.
LEMMA PartServed ==
  ASSUME NEW part \in Seq(Int), NEW later \in Seq(Int), Awaits(part, later), BufferInv,
         InCall
  PROVE  Awaits(part, later)' /\ BufferInv'
  <1>1. BufStep /\ wanted' = wanted
    BY DEF InCall, readerVars
  <1>2. call # NoCall
    BY <1>1 DEF BufStep, Serve, Fill, NextFile, NoMore, Short, EndOfFile, NoCall
  <1> DEFINE n == Len(part)
             m == Len(Cat(part, later))
  <1>3. n \in Nat /\ Len(later) \in Nat /\ m = n + Len(later)
    <2>1. m = n + Len(later)
      BY CatProperties
    <2> QED BY <2>1
  <1>4. wanted = n /\ call = [op |-> "buf_read", n |-> n] /\ Rest = Cat(part, later)
    BY <1>2 DEF Awaits
  <1> HIDE DEF n
  <1>5. Sizes /\ call.n = n /\ call.op = "buf_read"
    BY <1>3, <1>4 DEF Sizes
  <1>6. BufferInv' /\ (Stream!Read \/ Stream!ReadLine \/ UNCHANGED Stream!stream)
    BY <1>1, <1>5, BufferStep
  <1>7. CASE Stream!Read
    <2> DEFINE R == Rest
    <2>1. LET k == IF n <= Len(R) THEN n ELSE Len(R)
          IN  /\ answer' = SubSeq(R, 1, k) /\ Rest' = SubSeq(R, k + 1, Len(R))
              /\ call' = NoCall
      BY <1>5, <1>7, StreamMapping
    <2>2. R = Cat(part, later) /\ n <= Len(R)
      BY <1>3, <1>4 DEF m
    <2> HIDE DEF R
    <2>3. /\ answer' = SubSeq(Cat(part, later), 1, n)
          /\ Rest' = SubSeq(Cat(part, later), n + 1, Len(Cat(part, later)))
      BY <2>1, <2>2
    <2>4. /\ SubSeq(Cat(part, later), 1, n) = SubSeq(part, 1, n)
          /\ SubSeq(Cat(part, later), n + 1, Len(Cat(part, later)))
               = Cat(SubSeq(part, n + 1, Len(part)), later)
      <3>1. n \in 0 .. Len(part)
        BY <1>3 DEF n
      <3> QED BY <3>1, TakeFront DEF Cat
    <2>5. SubSeq(part, 1, n) = part /\ SubSeq(part, n + 1, Len(part)) = <<>>
      BY SubSeqFull, SubSeqEmpty DEF n
    <2>6. Cat(<<>>, later) = later
      BY DEF Cat
    <2>7. answer' = part /\ Rest' = later /\ call' = NoCall
      BY <2>1, <2>3, <2>4, <2>5, <2>6
    <2>8. wanted' = Len(part)
      BY <1>1, <1>4 DEF n
    <2> QED BY <1>6, <2>7, <2>8 DEF Awaits
  <1>8. CASE Stream!ReadLine
    BY <1>5, <1>8, StreamMapping
  <1>9. CASE UNCHANGED Stream!stream
    <2>1. UNCHANGED <<Rest, call, answer>>
      BY <1>9, StreamMapping
    <2> QED BY <1>1, <1>6, <2>1 DEF Awaits
  <1> QED BY <1>6, <1>7, <1>8, <1>9

\* A reader asks for the next part.
LEMMA PartAsked ==
  ASSUME NEW part \in Seq(Int), NEW later, BufferInv, Rest = Cat(part, later), Buffered,
         NEW n, n = Len(part), Want(n)
  PROVE  Awaits(part, later)' /\ BufferInv'
  <1>1. /\ call' = [op |-> "buf_read", n |-> n] /\ wanted' = n
        /\ UNCHANGED <<loaded, end, files, current, answer>>
    BY DEF Want, BufRead, Buffered
  <1>2. Rest' = Rest
    BY <1>1, NotReading
  <1>3. BufferInv'
    BY <1>1 DEF BufferInv
  <1> QED BY <1>1, <1>2, <1>3 DEF Awaits

-----------------------------------------------------------------------------
(* The slot that a cached example is read into.                            *)

FeaturesOf(e, p) == e.atomics[e.indices[p]]

\* The first i features of fs, cut to as many bits; and whether those are in order.
Begins(gs, fs, i, bits) == Len(gs) = i /\ \A q \in 1 .. i : gs[q] = Narrower(fs[q], bits)
RisesTo(fs, i) == \A q \in 1 .. i - 1 : fs[q].weight_index <= fs[q + 1].weight_index

\* How many features of the p-th namespace are in the slot when the first d
\* namespaces are, and i features of the next.
Taken(e, p, d, i) ==
  IF p <= d THEN Len(FeaturesOf(e, p)) ELSE IF p = d + 1 THEN i ELSE 0

\* The slot lists the first j namespaces of the example, and has those features.
Fills(a, bits, c, e, j, d, i) ==
  /\ a \in Slots(bits)
  /\ Len(a.indices) = j /\ \A p \in 1 .. j : a.indices[p] = e.indices[p]
  /\ \A p \in 1 .. Len(e.indices) :
       Begins(a.atomics[e.indices[p]], FeaturesOf(e, p), Taken(e, p, d, i), bits)
  /\ \A ns \in Namespaces : ~Listed(e.indices, ns) => a.atomics[ns] = <<>>
  /\ a.sorted => /\ bits = c
                 /\ \A p \in 1 .. Len(e.indices) : RisesTo(FeaturesOf(e, p), Taken(e, p, d, i))

LEMMA NothingFilled ==
  ASSUME NEW bits \in Nat, NEW c \in Nat, NEW e \in Filled(c), NEW a \in Blank,
         a.sorted => bits = c
  PROVE  Fills(a, bits, c, e, 0, 0, 0)
  <1>1. a \in Slots(bits) /\ a.indices = <<>> /\ \A ns \in Namespaces : a.atomics[ns] = <<>>
    <2>1. a \in Filled(bits)
      BY LabelledFilled DEF Blank
    <2> QED BY <2>1 DEF Filled, Blank, Labelled
  <1>2. Len(e.indices) \in Nat /\ \A p \in 1 .. Len(e.indices) : e.indices[p] \in Namespaces
    BY FilledFields
  <1>3. \A p \in 1 .. Len(e.indices) : Taken(e, p, 0, 0) = 0
    BY <1>2 DEF Taken
  <1>4. \A gs, fs : gs = <<>> => Begins(gs, fs, 0, bits) /\ RisesTo(fs, 0)
    BY DEF Begins, RisesTo
  <1>5. \A p \in 1 .. Len(e.indices) :
          /\ Begins(a.atomics[e.indices[p]], FeaturesOf(e, p), Taken(e, p, 0, 0), bits)
          /\ RisesTo(FeaturesOf(e, p), Taken(e, p, 0, 0))
    BY <1>1, <1>2, <1>3, <1>4
  <1> QED BY <1>1, <1>5 DEF Fills

\* The label and the tag are elsewhere in the slot.
LEMMA OtherLabel ==
  ASSUME NEW bits, NEW c, NEW e, NEW j, NEW d, NEW i, NEW a, Fills(a, bits, c, e, j, d, i),
         NEW w, w \in Slots(bits), w.indices = a.indices, w.atomics = a.atomics,
         w.sorted = a.sorted
  PROVE  Fills(w, bits, c, e, j, d, i)
  BY DEF Fills

\* A namespace is listed.
LEMMA NamespaceListed ==
  ASSUME NEW bits \in Nat, NEW c \in Nat, NEW e \in Filled(c), NEW j \in 0 .. Len(e.indices) - 1,
         NEW a, Fills(a, bits, c, e, j, j, 0)
  PROVE  LET w == [a EXCEPT !.indices = Append(@, e.indices[j + 1])]
         IN  Fills(w, bits, c, e, j + 1, j, 0) /\ SameLabel(w, a)
  <1> DEFINE w == [a EXCEPT !.indices = Append(@, e.indices[j + 1])]
  <1>1. a \in Slots(bits) /\ Len(a.indices) = j /\ a.indices \in Seq(Namespaces)
    BY DEF Fills, Slots
  <1>2. Len(e.indices) \in Nat /\ \A p \in 1 .. Len(e.indices) : e.indices[p] \in Namespaces
    BY FilledFields
  <1>3. j + 1 \in 1 .. Len(e.indices) /\ e.indices[j + 1] \in Namespaces /\ j \in Nat
    BY <1>2
  <1> DEFINE x == e.indices[j + 1]
             s == Append(a.indices, x)
  <1>4. s \in Seq(Namespaces) /\ Len(s) = j + 1 /\ s[j + 1] = x
        /\ \A p \in 1 .. j : s[p] = a.indices[p]
    BY <1>1, <1>3
  <1>5. w = [a EXCEPT !.indices = s]
    OBVIOUS
  <1> HIDE DEF s
  <1>6. w \in Slots(bits) /\ w.indices = s /\ w.atomics = a.atomics /\ w.sorted = a.sorted
        /\ SameLabel(w, a)
    <2> HIDE DEF w
    <2> QED BY <1>1, <1>4, <1>5 DEF Slots, SameLabel
  <1> HIDE DEF w
  <1>7. \A p \in 1 .. j + 1 : s[p] = e.indices[p]
    <2>1. \A p \in 1 .. j : s[p] = e.indices[p]
      BY <1>4 DEF Fills
    <2> QED BY <1>3, <1>4, <2>1 DEF x
  <1>8. Fills(w, bits, c, e, j + 1, j, 0)
    BY <1>4, <1>6, <1>7 DEF Fills
  <1> QED BY <1>6, <1>8 DEF w, x

\* All features of a namespace are there.
LEMMA NamespaceFilled ==
  ASSUME NEW bits \in Nat, NEW c \in Nat, NEW e \in Filled(c), NEW j \in 1 .. Len(e.indices),
         NEW a, Fills(a, bits, c, e, j, j - 1, Len(FeaturesOf(e, j)))
  PROVE  Fills(a, bits, c, e, j, j, 0)
  <1>1. Len(e.indices) \in Nat
    BY FilledFields
  <1>2. \A p \in 1 .. Len(e.indices) :
          Taken(e, p, j - 1, Len(FeaturesOf(e, j))) = Taken(e, p, j, 0)
    BY <1>1 DEF Taken
  <1> QED BY <1>2 DEF Fills

\* One more feature.
LEMMA FeatureFilled ==
  ASSUME NEW bits \in Nat, NEW c \in Nat, NEW e \in Filled(c), NEW j \in 1 .. Len(e.indices),
         NEW i \in 0 .. Len(FeaturesOf(e, j)) - 1,
         NEW a, Fills(a, bits, c, e, j, j - 1, i), NEW back \in BOOLEAN,
         ~back /\ i > 0 =>
           FeaturesOf(e, j)[i].weight_index <= FeaturesOf(e, j)[i + 1].weight_index
  PROVE  LET w == [a EXCEPT !.atomics[e.indices[j]] =
                              Append(@, Narrower(FeaturesOf(e, j)[i + 1], bits)),
                            !.sorted = @ /\ ~back]
         IN  Fills(w, bits, c, e, j, j - 1, i + 1) /\ SameLabel(w, a)
  <1> DEFINE ns == e.indices[j]
             fs == FeaturesOf(e, j)
             f  == Narrower(fs[i + 1], bits)
             gs == Append(a.atomics[ns], f)
             w  == [a EXCEPT !.atomics[ns] = Append(@, f), !.sorted = @ /\ ~back]
             At == [a.atomics EXCEPT ![ns] = gs]
             n  == Len(e.indices)
  <1>1. /\ n \in Nat /\ \A p \in 1 .. n : e.indices[p] \in Namespaces
        /\ \A p, q \in 1 .. n : e.indices[p] = e.indices[q] => p = q
        /\ e.atomics \in [Namespaces -> Seq(Within(c))]
    <2>1. n \in Nat /\ \A p \in 1 .. n : e.indices[p] \in Namespaces
      BY FilledFields
    <2> QED BY <2>1 DEF Filled, Slots, ListedOnce
  <1>2. a \in Slots(bits) /\ a.atomics \in [Namespaces -> Seq(Within(bits))]
        /\ a.sorted \in BOOLEAN
    BY DEF Fills, Slots
  <1>3. ns \in Namespaces /\ fs \in Seq(Within(c)) /\ i \in Nat /\ i + 1 \in 1 .. Len(fs)
        /\ fs[i + 1] \in Within(c)
    <2>1. ns \in Namespaces
      BY <1>1
    <2>2. fs \in Seq(Within(c))
      BY <1>1, <2>1 DEF FeaturesOf
    <2>3. Len(fs) \in Nat
      BY <2>2
    <2> HIDE DEF fs
    <2> QED BY <2>1, <2>2, <2>3 DEF fs
  <1> HIDE DEF fs, ns, n
  <1>4. f \in Within(bits)
    BY <1>3, OneNarrowed
  <1>5. Begins(a.atomics[ns], fs, i, bits)
    <2>1. Taken(e, j, j - 1, i) = i
      BY <1>1 DEF Taken, n
    <2> QED BY <2>1 DEF Fills, ns, fs
  <1> HIDE DEF f
  <1>6. gs \in Seq(Within(bits)) /\ Begins(gs, fs, i + 1, bits)
    <2>1. a.atomics[ns] \in Seq(Within(bits))
      BY <1>2, <1>3
    <2>2. gs \in Seq(Within(bits)) /\ Len(gs) = i + 1 /\ gs[i + 1] = f
          /\ \A q \in 1 .. i : gs[q] = Narrower(fs[q], bits)
      BY <1>3, <1>4, <1>5, <2>1 DEF Begins
    <2> HIDE DEF gs
    <2>3. \A q \in 1 .. i + 1 : q \in 1 .. i \/ q = i + 1
      BY <1>3
    <2> QED BY <2>2, <2>3 DEF Begins, f
  <1> HIDE DEF gs
  <1>7. At \in [Namespaces -> Seq(Within(bits))] /\ At[ns] = gs
        /\ \A m \in Namespaces : m # ns => At[m] = a.atomics[m]
    BY <1>2, <1>3, <1>6
  <1>8. w = [a EXCEPT !.atomics = At, !.sorted = a.sorted /\ ~back]
    BY <1>2 DEF Slots, gs
  <1> HIDE DEF At, w
  <1>9. /\ w \in Slots(bits) /\ w.indices = a.indices /\ w.atomics = At
        /\ w.sorted = (a.sorted /\ ~back) /\ SameLabel(w, a)
    <2> DEFINE z == a.sorted /\ ~back
    <2>1. z \in BOOLEAN
      OBVIOUS
    <2> HIDE DEF z
    <2>2. w = [a EXCEPT !.atomics = At, !.sorted = z]
      BY <1>8 DEF z
    <2>3. /\ w \in Slots(bits) /\ w.indices = a.indices /\ w.atomics = At
          /\ w.sorted = z /\ SameLabel(w, a)
      BY <1>2, <1>7, <2>1, <2>2 DEF Slots, SameLabel
    <2> QED BY <2>3 DEF z
  <1>10. ASSUME NEW p \in 1 .. n
         PROVE  /\ Begins(At[e.indices[p]], FeaturesOf(e, p), Taken(e, p, j - 1, i + 1), bits)
                /\ w.sorted => RisesTo(FeaturesOf(e, p), Taken(e, p, j - 1, i + 1))
    <2>0. j \in 1 .. n /\ e.indices[p] \in Namespaces
      BY <1>1 DEF n
    <2>1. CASE p = j
      <3>1. Taken(e, p, j - 1, i + 1) = i + 1 /\ Taken(e, p, j - 1, i) = i
        BY <1>1, <2>0, <2>1 DEF Taken
      <3>2. Begins(At[e.indices[p]], FeaturesOf(e, p), i + 1, bits)
        BY <1>6, <1>7, <2>1 DEF ns, fs
      <3>3. ASSUME w.sorted PROVE RisesTo(FeaturesOf(e, p), i + 1)
        <4>1. a.sorted /\ ~back
          BY <1>9, <3>3
        <4>2. RisesTo(FeaturesOf(e, p), i)
          BY <3>1, <4>1 DEF Fills, n
        <4>3. i > 0 => fs[i].weight_index <= fs[i + 1].weight_index
          BY <4>1 DEF fs
        <4>4. \A q \in 1 .. (i + 1) - 1 : q \in 1 .. i - 1 \/ (q = i /\ i > 0)
          BY <1>3
        <4> QED BY <2>1, <4>2, <4>3, <4>4 DEF RisesTo, fs
      <3> QED BY <3>1, <3>2, <3>3
    <2>2. CASE p # j
      <3>1. Taken(e, p, j - 1, i + 1) = Taken(e, p, j - 1, i)
        BY <1>1, <2>0, <2>2 DEF Taken
      <3>2. At[e.indices[p]] = a.atomics[e.indices[p]]
        BY <1>1, <1>7, <2>0, <2>2 DEF ns
      <3>3. a.sorted => RisesTo(FeaturesOf(e, p), Taken(e, p, j - 1, i))
        BY DEF Fills, n
      <3>4. Begins(a.atomics[e.indices[p]], FeaturesOf(e, p), Taken(e, p, j - 1, i), bits)
        BY DEF Fills, n
      <3> QED BY <1>9, <3>1, <3>2, <3>3, <3>4
    <2> QED BY <2>1, <2>2
  <1>11. \A m \in Namespaces : ~Listed(e.indices, m) => At[m] = <<>>
    <2>1. Listed(e.indices, ns)
      BY DEF Listed, ns
    <2> QED BY <1>7, <2>1 DEF Fills
  <1>12. w.sorted => bits = c
    BY <1>9 DEF Fills
  <1>13. /\ Len(w.indices) = j /\ \A p \in 1 .. j : w.indices[p] = e.indices[p]
    BY <1>9 DEF Fills
  <1>14. Fills(w, bits, c, e, j, j - 1, i + 1)
    BY <1>9, <1>10, <1>11, <1>12, <1>13 DEF Fills, n
  <1> QED BY <1>9, <1>14 DEF w, f, fs, ns

\* The slot that has all of an example delivers what the example does.
LEMMA ExampleFilled ==
  ASSUME NEW c \in Nat, NEW bits \in Nat, NEW e \in Filled(c),
         NEW a, Fills(a, bits, c, e, Len(e.indices), Len(e.indices), 0), SameLabel(e, a)
  PROVE  /\ a \in Filled(bits) /\ Alike(e, a, bits)
         /\ a.sorted => bits = c /\ AllRising(a)
  <1> DEFINE n == Len(e.indices)
  <1>1. /\ n \in Nat /\ \A p \in 1 .. n : e.indices[p] \in Namespaces
        /\ e.indices \in Seq(Namespaces)
        /\ e.atomics \in [Namespaces -> Seq(Within(c))] /\ ListedOnce(e.indices)
        /\ \A ns \in Namespaces : Listed(e.indices, ns) <=> e.atomics[ns] # <<>>
        /\ e.atomics[ConstantNamespace] = <<>>
    <2>1. n \in Nat /\ \A p \in 1 .. n : e.indices[p] \in Namespaces
      BY FilledFields
    <2> QED BY <2>1 DEF Filled, Slots
  <1>2. a \in Slots(bits) /\ a.atomics \in [Namespaces -> Seq(Within(bits))]
        /\ a.indices \in Seq(Namespaces)
    BY DEF Fills, Slots
  <1> HIDE DEF n
  <1>3. a.indices = e.indices
    <2>1. Len(a.indices) = n /\ \A p \in 1 .. n : a.indices[p] = e.indices[p]
      BY DEF Fills, n
    <2> QED BY <1>1, <1>2, <2>1, SeqEqual DEF n
  <1>4. ASSUME NEW ns \in Namespaces
        PROVE  /\ a.atomics[ns] = Narrowed(e.atomics[ns], bits)
               /\ a.sorted => Rising(a.atomics[ns])
    <2>1. e.atomics[ns] \in Seq(Within(c)) /\ a.atomics[ns] \in Seq(Within(bits))
      BY <1>1, <1>2
    <2> DEFINE fs == e.atomics[ns]
               gs == a.atomics[ns]
    <2>2. /\ Narrowed(fs, bits) \in Seq(Within(bits)) /\ Len(Narrowed(fs, bits)) = Len(fs)
          /\ \A i \in 1 .. Len(fs) : Narrowed(fs, bits)[i] = Narrower(fs[i], bits)
          /\ Narrowed(fs, bits) = <<>> <=> fs = <<>>
          /\ c = bits => Narrowed(fs, bits) = fs
      BY <2>1, NarrowedProperties
    <2>3. CASE ~Listed(e.indices, ns)
      <3>1. fs = <<>> /\ gs = <<>>
        BY <1>1, <2>3 DEF Fills
      <3> QED BY <2>2, <3>1, EmptyRises
    <2>4. CASE Listed(e.indices, ns)
      <3>1. PICK p \in 1 .. n : e.indices[p] = ns
        BY <2>4 DEF Listed, n
      <3>2. FeaturesOf(e, p) = fs /\ Taken(e, p, n, 0) = Len(fs)
        BY <1>1, <3>1 DEF FeaturesOf, Taken
      <3>3. Begins(gs, fs, Len(fs), bits) /\ (a.sorted => bits = c /\ RisesTo(fs, Len(fs)))
        <4>1. /\ Begins(a.atomics[e.indices[p]], FeaturesOf(e, p), Taken(e, p, n, 0), bits)
              /\ a.sorted => bits = c /\ RisesTo(FeaturesOf(e, p), Taken(e, p, n, 0))
          BY DEF Fills, n
        <4> QED BY <3>1, <3>2, <4>1
      <3>4. gs = Narrowed(fs, bits)
        <4> DEFINE ws == Narrowed(fs, bits)
                   us == gs
                   vs == fs
        <4>1. us \in Seq(Within(bits)) /\ ws \in Seq(Within(bits)) /\ Len(us) = Len(vs)
              /\ Len(ws) = Len(vs)
              /\ \A i \in 1 .. Len(vs) :
                   us[i] = Narrower(vs[i], bits) /\ ws[i] = Narrower(vs[i], bits)
          BY <2>1, <2>2, <3>3 DEF Begins
        <4> HIDE DEF ws, us, vs
        <4>2. us = ws
          BY <4>1, SeqEqual
        <4> QED BY <4>2 DEF ws, us
      <3>5. a.sorted => Rising(gs)
        BY <2>2, <3>3, <3>4 DEF Rising, RisesTo
      <3> QED BY <3>4, <3>5
    <2> QED BY <2>3, <2>4
  <1>5. a \in Filled(bits)
    <2>1. \A ns \in Namespaces : a.atomics[ns] # <<>> <=> e.atomics[ns] # <<>>
      <3> SUFFICES ASSUME NEW ns \in Namespaces
                   PROVE  a.atomics[ns] # <<>> <=> e.atomics[ns] # <<>>
        OBVIOUS
      <3>1. e.atomics[ns] \in Seq(Within(c))
        BY <1>1
      <3>2. Narrowed(e.atomics[ns], bits) = <<>> <=> e.atomics[ns] = <<>>
        BY <3>1, NarrowedProperties
      <3> QED BY <1>4, <3>2
    <2>2. ConstantNamespace \in Namespaces
      BY LineAssumption
    <2>3. /\ ListedOnce(a.indices)
          /\ \A ns \in Namespaces : Listed(a.indices, ns) <=> a.atomics[ns] # <<>>
          /\ a.atomics[ConstantNamespace] = <<>>
      BY <1>1, <1>3, <2>1, <2>2
    <2> QED BY <1>2, <2>3 DEF Filled
  <1>6. Alike(e, a, bits)
    BY <1>3, <1>4 DEF Alike, SameLabel
  <1>7. a.sorted => bits = c /\ AllRising(a)
    BY <1>4 DEF Fills, AllRising
  <1> QED BY <1>5, <1>6, <1>7

-----------------------------------------------------------------------------
(* Where the reader of a cache is, with an example before those that come  *)
(* later.                                                                  *)

AtLabel(e, c, later) ==
  /\ pc = "label" /\ Fills(ae, num_bits, c, e, 0, 0, 0)
  /\ Awaits(<<e.label, e.weight>>, BehindLabel(e, later))
AtTagSize(e, c, later) ==
  /\ pc = "tag_size" /\ Fills(ae, num_bits, c, e, 0, 0, 0)
  /\ ae.label = e.label /\ ae.weight = e.weight
  /\ Awaits(<<Len(e.tag)>>, BehindTagSize(e, later))
AtTag(e, c, later) ==
  /\ pc = "tag" /\ Fills(ae, num_bits, c, e, 0, 0, 0)
  /\ ae.label = e.label /\ ae.weight = e.weight
  /\ Awaits(e.tag, BehindTag(e, later))
AtNumIndices(e, c, later) ==
  /\ pc = "num_indices" /\ Fills(ae, num_bits, c, e, 0, 0, 0) /\ SameLabel(e, ae)
  /\ Awaits(<<Len(e.indices)>>, BehindFeatures(e, 0, later))
AtIndex(e, c, later, j) ==
  /\ pc = "index" /\ j \in 1 .. Len(e.indices) /\ left = (Len(e.indices) - j) + 1
  /\ Fills(ae, num_bits, c, e, j - 1, j - 1, 0) /\ SameLabel(e, ae)
  /\ Awaits(<<e.indices[j], Len(BodyOf(e, j))>>, Cat(BodyOf(e, j), BehindFeatures(e, j, later)))
AtFeatures(e, c, later, j) ==
  /\ pc = "features" /\ j \in 1 .. Len(e.indices) /\ left = (Len(e.indices) - j) + 1
  /\ Fills(ae, num_bits, c, e, j, j - 1, 0) /\ SameLabel(e, ae)
  /\ Awaits(BodyOf(e, j), BehindFeatures(e, j, later))
AtDecode(e, c, later, j, i) ==
  /\ pc = "decode" /\ j \in 1 .. Len(e.indices) /\ left = (Len(e.indices) - j) + 1
  /\ i \in 0 .. Len(FeaturesOf(e, j))
  /\ Fills(ae, num_bits, c, e, j, j - 1, i) /\ SameLabel(e, ae)
  /\ coded = [cells |-> FlatFrom(Coded(FeaturesOf(e, j)), i + 1),
              last |-> Last0(FeaturesOf(e, j), i + 1)]
  /\ call = NoCall /\ Rest = BehindFeatures(e, j, later)
AtCached(e, c, later) ==
  /\ pc = "read" /\ call = NoCall /\ Rest = later /\ SameLabel(e, ae)
  /\ Fills(ae, num_bits, c, e, Len(e.indices), Len(e.indices), 0)

ExamplePlace(e, c, later) ==
  \/ AtLabel(e, c, later) \/ AtTagSize(e, c, later) \/ AtTag(e, c, later)
  \/ AtNumIndices(e, c, later)
  \/ \E j \in 1 .. Len(e.indices) : AtIndex(e, c, later, j) \/ AtFeatures(e, c, later, j)
  \/ \E j \in 1 .. Len(e.indices) :
       \E i \in 0 .. Len(FeaturesOf(e, j)) : AtDecode(e, c, later, j, i)
  \/ AtCached(e, c, later)

\* Behind the first j namespaces is the next, or the example is whole.
LEMMA NextPlace ==
  ASSUME NEW c \in 0 .. MaxBits, NEW e \in Filled(c), NEW later \in Seq(Int), BufferInv,
         NEW j \in 0 .. Len(e.indices), Fills(ae, num_bits, c, e, j, j, 0), SameLabel(e, ae),
         Rest = BehindFeatures(e, j, later), call = NoCall, Buffered,
         UNCHANGED <<ae, num_bits>>, NEW n, n = Len(e.indices) - j, NextNamespace(n)
  PROVE  BufferInv' /\ ExamplePlace(e, c, later)'
  <1>1. Len(e.indices) \in Nat
    <2>1. c \in Nat
      BY WidthAssumption
    <2> QED BY <2>1, FilledFields
  <1>2. left' = n
    BY DEF NextNamespace
  <1>3. CASE j = Len(e.indices)
    <2>1. pc' = "read" /\ UNCHANGED call
      BY <1>1, <1>3 DEF NextNamespace
    <2>2. Rest' = Rest /\ BufferInv'
      BY <2>1, NotReading DEF Buffered, BufferInv
    <2>3. Rest = later
      BY <1>3, PartsTyped
    <2>4. AtCached(e, c, later)'
      BY <1>3, <2>1, <2>2, <2>3 DEF AtCached
    <2> QED BY <2>2, <2>4 DEF ExamplePlace
  <1>4. CASE j # Len(e.indices)
    <2>1. pc' = "index" /\ Want(2)
      BY <1>1, <1>4 DEF NextNamespace
    <2> DEFINE k == j + 1
               part == <<e.indices[k], Len(BodyOf(e, k))>>
               behind == Cat(BodyOf(e, k), BehindFeatures(e, k, later))
    <2>2. k \in 1 .. Len(e.indices) /\ k - 1 = j /\ n = (Len(e.indices) - k) + 1
      BY <1>1, <1>4
    <2> HIDE DEF k
    <2>3. Rest = Cat(part, behind) /\ BodyOf(e, k) \in Seq(Int)
      BY <2>2, PartsTyped
    <2>4. part \in Seq(Int) /\ 2 = Len(part)
      <3>1. c \in Nat
        BY WidthAssumption
      <3>2. e.indices[k] \in Int
        BY <2>2, <3>1, FilledFields
      <3>3. Len(BodyOf(e, k)) \in Int
        BY <2>3
      <3> QED BY <3>2, <3>3
    <2> HIDE DEF part, behind
    <2>5. Awaits(part, behind)' /\ BufferInv'
      BY <2>1, <2>3, <2>4, PartAsked
    <2>6. AtIndex(e, c, later, k)'
      BY <1>2, <2>1, <2>2, <2>5 DEF AtIndex, part, behind
    <2> QED BY <2>2, <2>5, <2>6 DEF ExamplePlace
  <1> QED BY <1>3, <1>4

-----------------------------------------------------------------------------
(* The parts of a cached example arrive                                    *)

\* Where the reader is tells what it is waiting for.
LEMMA PlaceCases ==
  ASSUME NEW e, NEW c, NEW later, ExamplePlace(e, c, later)
  PROVE  /\ pc = "label" => AtLabel(e, c, later)
         /\ pc = "tag_size" => AtTagSize(e, c, later)
         /\ pc = "tag" => AtTag(e, c, later)
         /\ pc = "num_indices" => AtNumIndices(e, c, later)
         /\ pc = "index" => \E j \in 1 .. Len(e.indices) : AtIndex(e, c, later, j)
         /\ pc = "features" => \E j \in 1 .. Len(e.indices) : AtFeatures(e, c, later, j)
         /\ pc = "decode" => \E j \in 1 .. Len(e.indices) :
                               \E i \in 0 .. Len(FeaturesOf(e, j)) : AtDecode(e, c, later, j, i)
         /\ pc = "read" => AtCached(e, c, later)
         /\ pc \in Parts \cup {"decode", "read"}
  BY DEF ExamplePlace, AtLabel, AtTagSize, AtTag, AtNumIndices, AtIndex, AtFeatures, AtDecode,
         AtCached, Parts

LEMMA ExampleTyped ==
  ASSUME NEW c \in 0 .. MaxBits, NEW e \in Filled(c)
  PROVE  /\ c \in Nat /\ e.label \in Int /\ e.weight \in Int /\ e.tag \in Seq(Int)
         /\ Len(e.tag) \in Nat /\ Len(e.indices) \in Nat
         /\ \A j \in 1 .. Len(e.indices) :
              e.indices[j] \in Namespaces /\ e.indices[j] \in Int /\ BodyOf(e, j) \in Seq(Int)
              /\ FeaturesOf(e, j) \in Seq(CachedFeature) /\ FeaturesOf(e, j) \in Seq(Within(c))
              /\ Len(FeaturesOf(e, j)) \in Nat /\ Len(BodyOf(e, j)) \in Nat
  <1>1. c \in Nat
    BY WidthAssumption
  <1>2. /\ e.label \in Int /\ e.weight \in Int /\ e.tag \in Seq(Int)
        /\ Len(e.indices) \in Nat
        /\ \A j \in 1 .. Len(e.indices) : e.indices[j] \in Namespaces /\ e.indices[j] \in Int
    BY <1>1, FilledFields
  <1>3. Len(e.tag) \in Nat
    BY <1>2
  <1>4. ASSUME NEW j \in 1 .. Len(e.indices)
        PROVE  BodyOf(e, j) \in Seq(Int) /\ FeaturesOf(e, j) \in Seq(CachedFeature)
               /\ FeaturesOf(e, j) \in Seq(Within(c)) /\ Len(FeaturesOf(e, j)) \in Nat
               /\ Len(BodyOf(e, j)) \in Nat
    <2>1. BodyOf(e, j) \in Seq(Int)
      BY NamespaceCells DEF BodyOf
    <2>2. FeaturesOf(e, j) \in Seq(CachedFeature)
      BY <1>2, Cacheable DEF FeaturesOf
    <2>3. FeaturesOf(e, j) \in Seq(Within(c))
      BY <1>2 DEF FeaturesOf, Filled, Slots
    <2> QED BY <2>1, <2>2, <2>3
  <1> QED BY <1>1, <1>2, <1>3, <1>4

\* The label is whole.
LEMMA LabelGot ==
  ASSUME NEW c \in 0 .. MaxBits, NEW e \in Filled(c), NEW later \in Seq(Int), BufferInv,
         ExamplePlace(e, c, later), GotLabel
  PROVE  BufferInv' /\ ExamplePlace(e, c, later)'
  <1>1. pc = "label" /\ call = NoCall /\ Same /\ Buffered
    BY DEF GotLabel, Got
  <1>2. AtLabel(e, c, later)
    BY <1>1, PlaceCases
  <1> DEFINE part == <<e.label, e.weight>>
             next == <<Len(e.tag)>>
  <1>3. part \in Seq(Int) /\ next \in Seq(Int) /\ Len(next) = 1
    BY ExampleTyped
  <1>4. Awaits(part, BehindLabel(e, later))
    BY <1>2 DEF AtLabel
  <1> HIDE DEF part, next
  <1>5. answer = part /\ Rest = BehindLabel(e, later) /\ ~(Len(answer) < wanted)
    BY <1>1, <1>3, <1>4, PartGiven
  <1> DEFINE x == IF end < Len(loaded) THEN loaded[end + 1] ELSE 0
             w == [ae EXCEPT !.label = answer[1], !.weight = answer[2], !.initial = x]
  <1>6. /\ ae' = w /\ pc' = "tag_size" /\ Want(1) /\ num_bits' = num_bits
    BY <1>1, <1>5 DEF GotLabel, Got, Same, processVars
  <1>7. x \in Int
    <2>1. end \in 0 .. Len(loaded) /\ loaded \in Seq(Int)
      BY DEF BufferInv
    <2> QED BY <2>1
  <1>8. answer[1] = e.label /\ answer[2] = e.weight
    BY <1>5 DEF part
  <1> HIDE DEF x
  <1>9. /\ w \in Slots(num_bits) /\ w.indices = ae.indices /\ w.atomics = ae.atomics
        /\ w.sorted = ae.sorted /\ w.label = e.label /\ w.weight = e.weight
    <2>1. w = [ae EXCEPT !.label = e.label, !.weight = e.weight, !.initial = x]
      BY <1>8
    <2>2. ae \in Slots(num_bits) /\ e.label \in Int /\ e.weight \in Int
      BY <1>2, ExampleTyped DEF AtLabel, Fills
    <2> HIDE DEF w
    <2> QED BY <1>7, <2>1, <2>2 DEF Slots
  <1> HIDE DEF w
  <1>10. Fills(w, num_bits, c, e, 0, 0, 0)
    BY <1>2, <1>9, OtherLabel DEF AtLabel
  <1>11. Awaits(next, BehindTagSize(e, later))' /\ BufferInv'
    <2>1. Rest = Cat(next, BehindTagSize(e, later))
      BY <1>5 DEF BehindLabel, next
    <2> QED BY <1>1, <1>3, <1>6, <2>1, PartAsked
  <1>12. AtTagSize(e, c, later)'
    BY <1>6, <1>9, <1>10, <1>11 DEF AtTagSize, next
  <1> QED BY <1>11, <1>12 DEF ExamplePlace

LEMMA TagSizeGot ==
  ASSUME NEW c \in 0 .. MaxBits, NEW e \in Filled(c), NEW later \in Seq(Int), BufferInv,
         ExamplePlace(e, c, later), GotTagSize
  PROVE  BufferInv' /\ ExamplePlace(e, c, later)'
  <1>1. pc = "tag_size" /\ call = NoCall /\ Same /\ Buffered
    BY DEF GotTagSize, Got
  <1>2. AtTagSize(e, c, later)
    BY <1>1, PlaceCases
  <1>3. Len(e.tag) \in Int /\ e.tag \in Seq(Int)
    BY ExampleTyped
  <1> DEFINE n == Len(e.tag)
             part == <<n>>
  <1>4. part \in Seq(Int)
    BY <1>3
  <1>5. answer = part /\ Rest = BehindTagSize(e, later) /\ ~(Len(answer) < wanted)
    BY <1>1, <1>2, <1>4, PartGiven DEF AtTagSize
  <1>6. answer[1] = n
    BY <1>5
  <1>7. /\ ae' = ae /\ pc' = "tag" /\ Want(n) /\ num_bits' = num_bits
    BY <1>1, <1>5, <1>6 DEF GotTagSize, Got, Same, processVars
  <1>8. Awaits(e.tag, BehindTag(e, later))' /\ BufferInv'
    <2>1. Rest = Cat(e.tag, BehindTag(e, later))
      BY <1>5 DEF BehindTagSize
    <2> HIDE DEF part
    <2> QED BY <1>1, <1>3, <1>7, <2>1, PartAsked
  <1>9. AtTag(e, c, later)'
    BY <1>2, <1>7, <1>8 DEF AtTag, AtTagSize
  <1> QED BY <1>8, <1>9 DEF ExamplePlace

LEMMA TagGot ==
  ASSUME NEW c \in 0 .. MaxBits, NEW e \in Filled(c), NEW later \in Seq(Int), BufferInv,
         ExamplePlace(e, c, later), GotTag
  PROVE  BufferInv' /\ ExamplePlace(e, c, later)'
  <1>1. pc = "tag" /\ call = NoCall /\ Same /\ Buffered
    BY DEF GotTag, Got
  <1>2. AtTag(e, c, later)
    BY <1>1, PlaceCases
  <1>3. Len(e.indices) \in Int /\ e.tag \in Seq(Int)
    BY ExampleTyped
  <1> DEFINE next == <<Len(e.indices)>>
             w == [ae EXCEPT !.tag = e.tag]
  <1>4. next \in Seq(Int) /\ Len(next) = 1
    BY <1>3
  <1>5. answer = e.tag /\ Rest = BehindTag(e, later) /\ ~(Len(answer) < wanted)
    BY <1>1, <1>2, <1>3, PartGiven DEF AtTag
  <1> HIDE DEF next
  <1>6. /\ ae' = w /\ pc' = "num_indices" /\ Want(1) /\ num_bits' = num_bits
    BY <1>1, <1>5 DEF GotTag, Got, Same, processVars
  <1>7. /\ w \in Slots(num_bits) /\ w.indices = ae.indices /\ w.atomics = ae.atomics
        /\ w.sorted = ae.sorted /\ SameLabel(e, w)
    <2>1. ae \in Slots(num_bits) /\ ae.label = e.label /\ ae.weight = e.weight
      BY <1>2 DEF AtTag, Fills
    <2> QED BY <1>3, <2>1 DEF Slots, SameLabel
  <1> HIDE DEF w
  <1>8. Fills(w, num_bits, c, e, 0, 0, 0)
    BY <1>2, <1>7, OtherLabel DEF AtTag
  <1>9. Awaits(next, BehindFeatures(e, 0, later))' /\ BufferInv'
    <2>1. Rest = Cat(next, BehindFeatures(e, 0, later))
      BY <1>5 DEF BehindTag, next
    <2> QED BY <1>1, <1>4, <1>6, <2>1, PartAsked
  <1>10. AtNumIndices(e, c, later)'
    BY <1>6, <1>7, <1>8, <1>9 DEF AtNumIndices, next
  <1> QED BY <1>9, <1>10 DEF ExamplePlace

LEMMA NumIndicesGot ==
  ASSUME NEW c \in 0 .. MaxBits, NEW e \in Filled(c), NEW later \in Seq(Int), BufferInv,
         ExamplePlace(e, c, later), GotNumIndices
  PROVE  BufferInv' /\ ExamplePlace(e, c, later)'
  <1>1. pc = "num_indices" /\ call = NoCall /\ Same /\ Buffered
    BY DEF GotNumIndices, Got
  <1>2. AtNumIndices(e, c, later)
    BY <1>1, PlaceCases
  <1>3. Len(e.indices) \in Nat
    BY ExampleTyped
  <1> DEFINE n == Len(e.indices)
             part == <<n>>
  <1>4. part \in Seq(Int)
    BY <1>3
  <1>5. answer = part /\ Rest = BehindFeatures(e, 0, later) /\ ~(Len(answer) < wanted)
    BY <1>1, <1>2, <1>4, PartGiven DEF AtNumIndices
  <1>6. answer[1] = n
    BY <1>5
  <1>7. ae' = ae /\ NextNamespace(n) /\ num_bits' = num_bits
    BY <1>1, <1>5, <1>6 DEF GotNumIndices, Got, Same, processVars
  <1>8. Fills(ae, num_bits, c, e, 0, 0, 0) /\ SameLabel(e, ae)
    BY <1>2 DEF AtNumIndices
  <1>9. n = Len(e.indices) - 0 /\ 0 \in 0 .. Len(e.indices)
    BY <1>3
  <1> HIDE DEF n
  <1> QED BY <1>1, <1>5, <1>7, <1>8, <1>9, NextPlace

LEMMA IndexGot ==
  ASSUME NEW c \in 0 .. MaxBits, NEW e \in Filled(c), NEW later \in Seq(Int), BufferInv,
         num_bits \in Nat, ExamplePlace(e, c, later), GotIndex
  PROVE  BufferInv' /\ ExamplePlace(e, c, later)'
  <1>1. pc = "index" /\ call = NoCall /\ Same /\ Buffered
    BY DEF GotIndex, Got
  <1>2. PICK j \in 1 .. Len(e.indices) : AtIndex(e, c, later, j)
    BY <1>1, PlaceCases
  <1>3. /\ e.indices[j] \in Int /\ BodyOf(e, j) \in Seq(Int) /\ Len(BodyOf(e, j)) \in Nat
        /\ Len(e.indices) \in Nat /\ c \in Nat
    BY ExampleTyped
  <1> DEFINE body == BodyOf(e, j)
             n == Len(body)
             part == <<e.indices[j], n>>
             behind == Cat(body, BehindFeatures(e, j, later))
             w == [ae EXCEPT !.indices = Append(@, e.indices[j])]
  <1>4. part \in Seq(Int)
    BY <1>3
  <1>5. Awaits(part, behind) /\ Fills(ae, num_bits, c, e, j - 1, j - 1, 0) /\ SameLabel(e, ae)
        /\ left = (Len(e.indices) - j) + 1
    BY <1>2 DEF AtIndex
  <1>6. part[1] = e.indices[j] /\ part[2] = n
    OBVIOUS
  <1> HIDE DEF part, behind, n
  <1>7. answer = part /\ Rest = behind /\ ~(Len(answer) < wanted)
    BY <1>1, <1>4, <1>5, PartGiven
  <1>8. /\ ae' = w /\ pc' = "features" /\ Want(n) /\ left' = left /\ num_bits' = num_bits
    BY <1>1, <1>6, <1>7 DEF GotIndex, Got, Same, processVars
  <1>9. Fills(w, num_bits, c, e, j, j - 1, 0) /\ SameLabel(e, w)
    <2>1. j - 1 \in 0 .. Len(e.indices) - 1 /\ (j - 1) + 1 = j
      BY <1>3
    <2> DEFINE k == j - 1
    <2>2. k \in 0 .. Len(e.indices) - 1 /\ k + 1 = j /\ Fills(ae, num_bits, c, e, k, k, 0)
      BY <1>5, <2>1
    <2> HIDE DEF k
    <2>3. LET v == [ae EXCEPT !.indices = Append(@, e.indices[k + 1])]
          IN  Fills(v, num_bits, c, e, k + 1, k, 0) /\ SameLabel(v, ae)
      BY <1>3, <2>2, NamespaceListed
    <2>4. Fills(w, num_bits, c, e, j, k, 0) /\ SameLabel(w, ae)
      BY <2>2, <2>3
    <2> QED BY <1>5, <2>4 DEF SameLabel, k
  <1> HIDE DEF w
  <1>10. Awaits(body, BehindFeatures(e, j, later))' /\ BufferInv'
    <2>1. Rest = Cat(body, BehindFeatures(e, j, later)) /\ body \in Seq(Int) /\ n = Len(body)
      BY <1>3, <1>7 DEF behind, n
    <2> HIDE DEF body
    <2> QED BY <1>1, <1>8, <2>1, PartAsked
  <1>11. AtFeatures(e, c, later, j)'
    BY <1>5, <1>8, <1>9, <1>10 DEF AtFeatures
  <1> QED BY <1>10, <1>11 DEF ExamplePlace

LEMMA FeaturesGot ==
  ASSUME NEW c \in 0 .. MaxBits, NEW e \in Filled(c), NEW later \in Seq(Int), BufferInv,
         ExamplePlace(e, c, later), GotFeatures
  PROVE  BufferInv' /\ ExamplePlace(e, c, later)'
  <1>1. pc = "features" /\ call = NoCall /\ Same /\ Buffered
    BY DEF GotFeatures, Got
  <1>2. PICK j \in 1 .. Len(e.indices) : AtFeatures(e, c, later, j)
    BY <1>1, PlaceCases
  <1>3. /\ BodyOf(e, j) \in Seq(Int) /\ FeaturesOf(e, j) \in Seq(CachedFeature)
        /\ Len(FeaturesOf(e, j)) \in Nat
    BY ExampleTyped
  <1>4. answer = BodyOf(e, j) /\ Rest = BehindFeatures(e, j, later) /\ ~(Len(answer) < wanted)
    BY <1>1, <1>2, <1>3, PartGiven DEF AtFeatures
  <1>5. /\ coded' = [cells |-> answer, last |-> 0] /\ pc' = "decode"
        /\ UNCHANGED <<call, ae, left, num_bits>>
    BY <1>1, <1>4 DEF GotFeatures, Got, Same, processVars
  <1>6. BodyOf(e, j) = FlatFrom(Coded(FeaturesOf(e, j)), 0 + 1)
        /\ Last0(FeaturesOf(e, j), 0 + 1) = 0
    BY <1>3, NamespaceDecoded DEF BodyOf, FeaturesOf, Last0
  <1>7. BufferInv' /\ Rest' = Rest
    BY <1>1, <1>5, NotReading DEF Buffered, BufferInv
  <1>8. 0 \in 0 .. Len(FeaturesOf(e, j))
    BY <1>3
  <1>9. AtDecode(e, c, later, j, 0)'
    BY <1>1, <1>2, <1>4, <1>5, <1>6, <1>7, <1>8 DEF AtFeatures, AtDecode
  <1> QED BY <1>7, <1>8, <1>9 DEF ExamplePlace

\* A round of the loop takes the next feature, or the next namespace.
LEMMA FeatureTaken ==
  ASSUME NEW c \in 0 .. MaxBits, NEW e \in Filled(c), NEW later \in Seq(Int), BufferInv,
         num_bits \in Nat, ExamplePlace(e, c, later), Decode
  PROVE  BufferInv' /\ ExamplePlace(e, c, later)'
  <1>1. pc = "decode" /\ Same /\ Buffered /\ num_bits' = num_bits
    BY DEF Decode, Same, processVars
  <1>0. PICK j \in 1 .. Len(e.indices) :
          \E i \in 0 .. Len(FeaturesOf(e, j)) : AtDecode(e, c, later, j, i)
    BY <1>1, PlaceCases
  <1>2. PICK i \in 0 .. Len(FeaturesOf(e, j)) : AtDecode(e, c, later, j, i)
    BY <1>0
  <1> DEFINE fs == FeaturesOf(e, j)
  <1>3. /\ Len(fs) \in Nat /\ Len(e.indices) \in Nat /\ c \in Nat
        /\ fs \in Seq(CachedFeature) /\ fs \in Seq(Within(c)) /\ i \in 0 .. Len(fs)
        /\ e.indices[j] \in Namespaces
    BY ExampleTyped
  <1>4. /\ coded = [cells |-> FlatFrom(Coded(fs), i + 1), last |-> Last0(fs, i + 1)]
        /\ left = (Len(e.indices) - j) + 1
        /\ Fills(ae, num_bits, c, e, j, j - 1, i) /\ SameLabel(e, ae)
        /\ call = NoCall /\ Rest = BehindFeatures(e, j, later)
    BY <1>2 DEF AtDecode
  <1>5. /\ coded.cells = FlatFrom(Coded(fs), i + 1) /\ coded.last = Last0(fs, i + 1)
    BY <1>4
  <1>6. CASE i = Len(fs)
    <2>1. coded.cells = <<>>
      BY <1>3, <1>5, <1>6, NamespaceDecoded
    <2> DEFINE n == left - 1
    <2>2. NextNamespace(n) /\ UNCHANGED ae
      BY <2>1 DEF Decode
    <2>3. n = Len(e.indices) - j /\ j \in 0 .. Len(e.indices)
      BY <1>3, <1>4
    <2>4. Fills(ae, num_bits, c, e, j, j, 0)
      BY <1>3, <1>4, <1>6, NamespaceFilled
    <2> HIDE DEF n, fs
    <2>5. UNCHANGED <<ae, num_bits>>
      BY <1>1, <2>2
    <2> QED BY <1>1, <1>4, <2>2, <2>3, <2>4, <2>5, NextPlace
  <1>7. CASE i # Len(fs)
    <2> DEFINE k == i + 1
               f == DecodeFeature(coded.cells, coded.last)
               back == fs[k].weight_index < Last0(fs, k)
               w == [ae EXCEPT !.atomics[e.indices[j]] = Append(@, Narrower(fs[k], num_bits)),
                               !.sorted = @ /\ ~back]
    <2>1. k \in 1 .. Len(fs) /\ i \in 0 .. Len(fs) - 1 /\ i \in Nat
      BY <1>3, <1>7
    <2>2. /\ coded.cells # <<>>
          /\ f = [x |-> fs[k].x, weight_index |-> fs[k].weight_index, backwards |-> back,
                  behind |-> FlatFrom(Coded(fs), k + 1)]
      BY <1>3, <1>5, <2>1, NamespaceDecoded
    <2>3. Last(ae.indices) = e.indices[j]
      BY <1>3, <1>4 DEF Fills, Last
    <2>4. Mask + 1 = Pow2[num_bits]
      BY Masked DEF Mask
    <2> HIDE DEF f, k
    <2>5. [x |-> f.x, weight_index |-> f.weight_index % (Mask + 1)] = Narrower(fs[k], num_bits)
      BY <2>2, <2>4 DEF Narrower
    <2>6. f.backwards = back /\ f.weight_index = fs[k].weight_index
          /\ f.behind = FlatFrom(Coded(fs), k + 1)
      BY <2>2
    <2> HIDE DEF back
    <2>7. /\ ae' = w
          /\ coded' = [cells |-> f.behind, last |-> f.weight_index]
          /\ UNCHANGED <<pc, call, left>>
      <3>1. /\ ae' = [ae EXCEPT
                 !.atomics[Last(ae.indices)] =
                    Append(@, [x |-> f.x, weight_index |-> f.weight_index % (Mask + 1)]),
                 !.sorted = @ /\ ~f.backwards]
            /\ coded' = [cells |-> f.behind, last |-> f.weight_index]
            /\ UNCHANGED <<pc, call, left>>
        BY <2>2 DEF Decode, f
      <3> QED BY <2>3, <2>5, <2>6, <3>1
    <2>8. Last0(fs, k + 1) = fs[k].weight_index
      BY <2>1 DEF Last0
    <2>9. Fills(w, num_bits, c, e, j, j - 1, k) /\ SameLabel(w, ae)
      <3>1. back \in BOOLEAN
        BY DEF back
      <3>2. ~back /\ i > 0 =>
              FeaturesOf(e, j)[i].weight_index <= FeaturesOf(e, j)[i + 1].weight_index
        <4> SUFFICES ASSUME ~back, i > 0
                     PROVE  fs[i].weight_index <= fs[i + 1].weight_index
          OBVIOUS
        <4>1. Last0(fs, k) = fs[i].weight_index
          BY <2>1 DEF Last0, k
        <4>2. fs[i] \in Within(c) /\ fs[k] \in Within(c)
          BY <1>3, <2>1
        <4>3. fs[i].weight_index \in Int /\ fs[k].weight_index \in Int
          BY <4>2 DEF Within
        <4> QED BY <4>1, <4>3 DEF back, k
      <3>3. LET v == [ae EXCEPT !.atomics[e.indices[j]] =
                                   Append(@, Narrower(FeaturesOf(e, j)[i + 1], num_bits)),
                                !.sorted = @ /\ ~back]
            IN  Fills(v, num_bits, c, e, j, j - 1, i + 1) /\ SameLabel(v, ae)
        <4>1. /\ num_bits \in Nat /\ c \in Nat /\ e \in Filled(c) /\ j \in 1 .. Len(e.indices)
              /\ i \in 0 .. Len(FeaturesOf(e, j)) - 1
              /\ Fills(ae, num_bits, c, e, j, j - 1, i)
          BY <1>3, <1>4, <2>1
        <4> QED BY <3>1, <3>2, <4>1, FeatureFilled, ZenonT(40)
      <3> QED BY <3>3 DEF k
    <2> HIDE DEF w
    <2>10. BufferInv' /\ Rest' = Rest
      BY <1>1, <2>7, NotReading DEF Buffered, BufferInv
    <2>11. SameLabel(e, w)
      BY <1>4, <2>9 DEF SameLabel
    <2>12. k \in 0 .. Len(FeaturesOf(e, j))
      BY <2>1
    <2> HIDE DEF fs
    <2>13. coded' = [cells |-> FlatFrom(Coded(fs), k + 1), last |-> Last0(fs, k + 1)]
      BY <2>6, <2>7, <2>8
    <2>14. AtDecode(e, c, later, j, k)'
      BY <1>1, <1>4, <2>7, <2>9, <2>10, <2>11, <2>12, <2>13 DEF AtDecode, fs
    <2> QED BY <2>10, <2>12, <2>14 DEF ExamplePlace
  <1> QED BY <1>6, <1>7

\* The call for a part goes on.
LEMMA PartWaits ==
  ASSUME NEW c \in 0 .. MaxBits, NEW e \in Filled(c), NEW later \in Seq(Int), BufferInv,
         ExamplePlace(e, c, later), InCall
  PROVE  BufferInv' /\ ExamplePlace(e, c, later)'
  <1>1. BufStep /\ UNCHANGED <<pc, ae, left, coded, num_bits>>
    BY DEF InCall, readerVars, processVars
  <1>2. call # NoCall
    BY <1>1 DEF BufStep, Serve, Fill, NextFile, NoMore, Short, EndOfFile, NoCall
  <1>3. pc \in Parts \cup {"decode", "read"}
    BY PlaceCases
  <1>4. /\ e.label \in Int /\ e.weight \in Int /\ e.tag \in Seq(Int) /\ Len(e.tag) \in Int
        /\ Len(e.indices) \in Int
        /\ \A j \in 1 .. Len(e.indices) :
             e.indices[j] \in Int /\ BodyOf(e, j) \in Seq(Int) /\ Len(BodyOf(e, j)) \in Int
    BY ExampleTyped, SMTT(40)
  <1>5. /\ BehindLabel(e, later) \in Seq(Int) /\ BehindTagSize(e, later) \in Seq(Int)
        /\ BehindTag(e, later) \in Seq(Int)
        /\ \A j \in 0 .. Len(e.indices) : BehindFeatures(e, j, later) \in Seq(Int)
    BY PartsTyped
  <1>6. CASE pc = "label"
    <2>1. AtLabel(e, c, later)
      BY <1>6, PlaceCases
    <2> DEFINE part == <<e.label, e.weight>>
    <2>2. part \in Seq(Int)
      BY <1>4
    <2>3. Awaits(part, BehindLabel(e, later))' /\ BufferInv'
      BY <1>5, <2>1, <2>2, PartServed DEF AtLabel
    <2>4. AtLabel(e, c, later)'
      BY <1>1, <2>1, <2>3 DEF AtLabel
    <2> QED BY <2>3, <2>4 DEF ExamplePlace
  <1>7. CASE pc = "tag_size"
    <2>1. AtTagSize(e, c, later)
      BY <1>7, PlaceCases
    <2> DEFINE part == <<Len(e.tag)>>
    <2>2. part \in Seq(Int)
      BY <1>4
    <2>3. Awaits(part, BehindTagSize(e, later))' /\ BufferInv'
      BY <1>5, <2>1, <2>2, PartServed DEF AtTagSize
    <2>4. AtTagSize(e, c, later)'
      BY <1>1, <2>1, <2>3 DEF AtTagSize
    <2> QED BY <2>3, <2>4 DEF ExamplePlace
  <1>8. CASE pc = "tag"
    <2>1. AtTag(e, c, later)
      BY <1>8, PlaceCases
    <2>3. Awaits(e.tag, BehindTag(e, later))' /\ BufferInv'
      BY <1>4, <1>5, <2>1, PartServed DEF AtTag
    <2>4. AtTag(e, c, later)'
      BY <1>1, <2>1, <2>3 DEF AtTag
    <2> QED BY <2>3, <2>4 DEF ExamplePlace
  <1>9. CASE pc = "num_indices"
    <2>1. AtNumIndices(e, c, later)
      BY <1>9, PlaceCases
    <2> DEFINE part == <<Len(e.indices)>>
    <2>2. part \in Seq(Int)
      BY <1>4
    <2>3. 0 \in 0 .. Len(e.indices)
      BY ExampleTyped
    <2>4. Awaits(part, BehindFeatures(e, 0, later))' /\ BufferInv'
      BY <1>5, <2>1, <2>2, <2>3, PartServed DEF AtNumIndices
    <2>5. AtNumIndices(e, c, later)'
      BY <1>1, <2>1, <2>4 DEF AtNumIndices
    <2> QED BY <2>4, <2>5 DEF ExamplePlace
  <1>10. CASE pc = "index"
    <2>1. PICK j \in 1 .. Len(e.indices) : AtIndex(e, c, later, j)
      BY <1>10, PlaceCases
    <2> DEFINE part == <<e.indices[j], Len(BodyOf(e, j))>>
               behind == Cat(BodyOf(e, j), BehindFeatures(e, j, later))
    <2>2. part \in Seq(Int)
      BY <1>4
    <2>3. behind \in Seq(Int)
      <3>1. j \in 0 .. Len(e.indices)
        BY ExampleTyped
      <3> QED BY <1>4, <1>5, <3>1, CatProperties
    <2>4. Awaits(part, behind)
      BY <2>1 DEF AtIndex
    <2> HIDE DEF part, behind
    <2>5. Awaits(part, behind)' /\ BufferInv'
      BY <2>2, <2>3, <2>4, PartServed
    <2>6. AtIndex(e, c, later, j)'
      BY <1>1, <2>1, <2>5 DEF AtIndex, part, behind
    <2> QED BY <2>5, <2>6 DEF ExamplePlace
  <1>11. CASE pc = "features"
    <2>1. PICK j \in 1 .. Len(e.indices) : AtFeatures(e, c, later, j)
      BY <1>11, PlaceCases
    <2>2. j \in 0 .. Len(e.indices)
      BY ExampleTyped
    <2>3. Awaits(BodyOf(e, j), BehindFeatures(e, j, later))' /\ BufferInv'
      BY <1>4, <1>5, <2>1, <2>2, PartServed DEF AtFeatures
    <2>4. AtFeatures(e, c, later, j)'
      BY <1>1, <2>1, <2>3 DEF AtFeatures
    <2> QED BY <2>3, <2>4 DEF ExamplePlace
  <1>12. CASE pc \in {"decode", "read"}
    BY <1>2, <1>12, PlaceCases DEF AtDecode, AtCached
  <1> QED BY <1>3, <1>6, <1>7, <1>8, <1>9, <1>10, <1>11, <1>12 DEF Parts

-----------------------------------------------------------------------------
(* Where the reader of a cache is after k of its examples.                 *)

AtStart(es, k) ==
  pc = "fetch" /\ call = NoCall /\ Rest = Later(es, k) /\ Tidy(ae)
AtEnd ==
  /\ ae \in Blank
  /\ \/ /\ pc = "label" /\ wanted = 2 /\ Rest = <<>>
        /\ \/ call = [op |-> "buf_read", n |-> wanted]
           \/ call = NoCall /\ answer = <<>>
     \/ pc = "reset" /\ call = NoCall
CachePlace(es, c, k) ==
  /\ BufferInv /\ k \in 0 .. Len(es)
  /\ \/ AtStart(es, k)
     \/ k = Len(es) /\ AtEnd
     \/ k < Len(es) /\ ExamplePlace(es[k + 1], c, Later(es, k + 1))

LEMMA CacheTyped ==
  ASSUME NEW c \in 0 .. MaxBits, NEW es \in Seq(Filled(c)), NEW k \in 0 .. Len(es)
  PROVE  /\ c \in Nat /\ Len(es) \in Nat /\ k \in Nat
         /\ k = Len(es) => Later(es, k) = <<>>
         /\ k < Len(es) => /\ es[k + 1] \in Filled(c) /\ Later(es, k + 1) \in Seq(Int)
                           /\ Later(es, k) = Cat(Enc(es[k + 1]), Later(es, k + 1))
  <1>1. c \in Nat
    BY WidthAssumption
  <1>2. /\ Len(es) \in Nat /\ Later(es, Len(es)) = <<>>
        /\ \A i \in 0 .. Len(es) : Later(es, i) \in Seq(Int)
        /\ \A i \in 1 .. Len(es) : Later(es, i - 1) = Cat(Enc(es[i]), Later(es, i))
        /\ \A i \in 1 .. Len(es) : es[i] \in Filled(c)
    BY BookTyped
  <1> DEFINE i == k + 1
  <1>3. k < Len(es) => i \in 1 .. Len(es) /\ i \in 0 .. Len(es) /\ i - 1 = k
    BY <1>2
  <1> HIDE DEF i
  <1>4. k < Len(es) => /\ es[i] \in Filled(c) /\ Later(es, i) \in Seq(Int)
                       /\ Later(es, k) = Cat(Enc(es[i]), Later(es, i))
    BY <1>2, <1>3
  <1> QED BY <1>1, <1>2, <1>4 DEF i

LEMMA CacheFetches ==
  ASSUME NEW c \in 0 .. MaxBits, NEW es \in Seq(Filled(c)), NEW k, CachePlace(es, c, k),
         par.reader = "cache", par.sorted_cache => num_bits = c, par.sorted_cache \in BOOLEAN,
         num_bits \in Nat, Fetch
  PROVE  CachePlace(es, c, k)'
  <1> DEFINE s == par.sorted_cache
             w == [Clear(ae) EXCEPT !.sorted = s]
  <1>1. /\ pc = "fetch" /\ pc' = "label" /\ Want(2) /\ Buffered /\ num_bits' = num_bits
        /\ ae' = w
    BY DEF Fetch, Same, processVars
  <1>2. BufferInv /\ k \in 0 .. Len(es) /\ AtStart(es, k)
    BY <1>1, PlaceCases DEF CachePlace, AtEnd, Parts
  <1>3. w \in Blank /\ w.sorted = s
    BY <1>2, ClearedBlank DEF AtStart
  <1> HIDE DEF w
  <1>4. /\ call' = [op |-> "buf_read", n |-> 2] /\ wanted' = 2
        /\ UNCHANGED <<loaded, end, files, current, answer>>
    BY <1>1 DEF Want, BufRead, Buffered
  <1>5. BufferInv' /\ Rest' = Later(es, k)
    BY <1>2, <1>4, NotReading DEF BufferInv, AtStart
  <1>6. CASE k = Len(es)
    <2>1. Rest' = <<>>
      BY <1>2, <1>5, <1>6, CacheTyped
    <2>2. AtEnd'
      BY <1>1, <1>3, <1>4, <2>1 DEF AtEnd
    <2> QED BY <1>2, <1>5, <1>6, <2>2 DEF CachePlace
  <1>7. CASE k # Len(es)
    <2> DEFINE e == es[k + 1]
               later == Later(es, k + 1)
               part == <<e.label, e.weight>>
    <2>1. /\ k < Len(es) /\ e \in Filled(c) /\ later \in Seq(Int) /\ c \in Nat
          /\ Rest = Cat(Enc(e), later)
      <3>1. k < Len(es)
        BY <1>2, <1>7, CacheTyped
      <3> QED BY <1>2, <3>1, CacheTyped DEF AtStart
    <2> HIDE DEF e, later
    <2>2. Rest = Cat(part, BehindLabel(e, later))
      BY <2>1, PartsTyped
    <2>3. part \in Seq(Int) /\ 2 = Len(part)
      BY <2>1, ExampleTyped
    <2> HIDE DEF part
    <2>4. Awaits(part, BehindLabel(e, later))'
      BY <1>1, <1>2, <2>2, <2>3, PartAsked
    <2>5. Fills(w, num_bits, c, e, 0, 0, 0)
      BY <1>3, <2>1, NothingFilled
    <2>6. AtLabel(e, c, later)'
      BY <1>1, <2>4, <2>5 DEF AtLabel, part
    <2>7. ExamplePlace(es[k + 1], c, Later(es, k + 1))'
      BY <2>6 DEF ExamplePlace, e, later
    <2> QED BY <1>2, <1>5, <2>1, <2>7 DEF CachePlace
  <1> QED BY <1>6, <1>7

\* A reader behind the last example gets nothing and gives up.
LEMMA EndWaits ==
  ASSUME BufferInv, AtEnd, InCall
  PROVE  BufferInv' /\ AtEnd'
  <1>1. BufStep /\ UNCHANGED <<pc, ae, wanted>>
    BY DEF InCall, readerVars
  <1>2. call # NoCall
    BY <1>1 DEF BufStep, Serve, Fill, NextFile, NoMore, Short, EndOfFile, NoCall
  <1>3. /\ ae \in Blank /\ pc = "label" /\ wanted = 2 /\ Rest = <<>>
        /\ call = [op |-> "buf_read", n |-> wanted]
    BY <1>2 DEF AtEnd
  <1>4. Sizes /\ call.n = 2 /\ call.op = "buf_read"
    BY <1>3 DEF Sizes
  <1>5. BufferInv' /\ (Stream!Read \/ Stream!ReadLine \/ UNCHANGED Stream!stream)
    BY <1>1, <1>4, BufferStep
  <1>6. CASE Stream!Read
    <2>1. LET k == IF 2 <= Len(Rest) THEN 2 ELSE Len(Rest)
          IN  /\ answer' = SubSeq(Rest, 1, k) /\ Rest' = SubSeq(Rest, k + 1, Len(Rest))
              /\ call' = NoCall
      BY <1>4, <1>6, StreamMapping
    <2>2. Len(Rest) = 0
      BY <1>3
    <2>3. answer' = SubSeq(Rest, 1, 0) /\ Rest' = SubSeq(Rest, 1, 0)
      BY <2>1, <2>2
    <2>4. SubSeq(Rest, 1, 0) = <<>>
      BY <1>3
    <2>5. answer' = <<>> /\ Rest' = <<>> /\ call' = NoCall
      BY <2>1, <2>3, <2>4
    <2> QED BY <1>1, <1>3, <1>5, <2>5 DEF AtEnd
  <1>7. CASE Stream!ReadLine
    BY <1>4, <1>7, StreamMapping
  <1>8. CASE UNCHANGED Stream!stream
    <2>1. UNCHANGED <<Rest, call, answer>>
      BY <1>8, StreamMapping
    <2> QED BY <1>1, <1>3, <1>5, <2>1 DEF AtEnd
  <1> QED BY <1>5, <1>6, <1>7, <1>8

\* A part of an example is waited for, arrives, or is decoded.
PartReads ==
  \/ InCall \/ GotLabel \/ GotTagSize \/ GotTag \/ GotNumIndices \/ GotIndex \/ GotFeatures
  \/ Decode

LEMMA ExampleReads ==
  ASSUME NEW c \in 0 .. MaxBits, NEW e \in Filled(c), NEW later \in Seq(Int), BufferInv,
         num_bits \in Nat, ExamplePlace(e, c, later), PartReads
  PROVE  BufferInv' /\ ExamplePlace(e, c, later)'
  BY PartWaits, LabelGot, TagSizeGot, TagGot, NumIndicesGot, IndexGot, FeaturesGot, FeatureTaken
     DEF PartReads

LEMMA CacheReads ==
  ASSUME NEW c \in 0 .. MaxBits, NEW es \in Seq(Filled(c)), NEW k, CachePlace(es, c, k),
         num_bits \in Nat, PartReads
  PROVE  CachePlace(es, c, k)'
  <1>1. BufferInv /\ k \in 0 .. Len(es)
    BY DEF CachePlace
  <1>2. CASE AtStart(es, k)
    <2>1. pc = "fetch" /\ call = NoCall
      BY <1>2 DEF AtStart
    <2>2. ~(GotLabel \/ GotTagSize \/ GotTag \/ GotNumIndices \/ GotIndex \/ GotFeatures \/ Decode)
      BY <2>1 DEF GotLabel, GotTagSize, GotTag, GotNumIndices, GotIndex, GotFeatures, Decode, Got
    <2>3. ~InCall
      BY <2>1 DEF InCall, BufStep, Serve, Fill, NextFile, NoMore, Short, EndOfFile, NoCall
    <2> QED BY <2>2, <2>3 DEF PartReads
  <1>3. CASE k = Len(es) /\ AtEnd
    <2>1. CASE InCall
      <3>1. BufferInv' /\ AtEnd'
        BY <1>1, <1>3, <2>1, EndWaits
      <3> QED BY <1>1, <1>3, <3>1 DEF CachePlace
    <2>2. CASE ~InCall
      <3>1. GotLabel
        BY <1>3, <2>2 DEF PartReads, AtEnd, GotLabel, GotTagSize, GotTag, GotNumIndices,
           GotIndex, GotFeatures, Decode, Got
      <3>2. call = NoCall /\ pc = "label"
        BY <3>1 DEF GotLabel, Got
      <3>3. wanted = 2 /\ answer = <<>>
        BY <1>3, <3>2 DEF AtEnd, NoCall
      <3>4. Len(answer) < wanted
        BY <3>3
      <3>5. pc' = "reset" /\ UNCHANGED <<call, ae>> /\ Buffered
        BY <3>1, <3>4 DEF GotLabel, Got, readerVars
      <3>6. BufferInv' /\ AtEnd'
        BY <1>1, <1>3, <3>2, <3>5 DEF BufferInv, AtEnd, Buffered
      <3> QED BY <1>1, <1>3, <3>6 DEF CachePlace
    <2> QED BY <2>1, <2>2
  <1>4. CASE k < Len(es) /\ ExamplePlace(es[k + 1], c, Later(es, k + 1))
    <2> DEFINE e == es[k + 1]
               later == Later(es, k + 1)
    <2>1. e \in Filled(c) /\ later \in Seq(Int) /\ ExamplePlace(e, c, later)
      BY <1>1, <1>4, CacheTyped
    <2> HIDE DEF e, later
    <2>2. BufferInv' /\ ExamplePlace(e, c, later)'
      BY <1>1, <2>1, ExampleReads
    <2> QED BY <1>1, <1>4, <2>2 DEF CachePlace, e, later
  <1> QED BY <1>2, <1>3, <1>4 DEF CachePlace

-----------------------------------------------------------------------------
(* Files are rewound                                                       *)

LEMMA BlankTidy ==
  ASSUME NEW a \in Blank
  PROVE  Tidy(a)
  BY DEF Blank, Labelled, Tidy, Kin, With

\* What is in a cache that is opened or rewound is what is to be read.
LEMMA Rewinds ==
  ASSUME NEW content \in Seq(Int), Rewound(<<content>>), answer \in Seq(Int), call = NoCall,
         UNCHANGED <<call, answer>>
  PROVE  BufferInv' /\ Rest' = content
  <1> DEFINE s == <<content>>
  <1>1. loaded' = <<>> /\ end' = 0 /\ files' = s /\ current' = 1
    BY DEF Rewound
  <1>2. s \in Seq(Seq(Int)) /\ Len(s) = 1 /\ s[1] = content
    OBVIOUS
  <1> HIDE DEF s
  <1>3. BufferInv'
    BY <1>1, <1>2 DEF BufferInv
  <1>4. FlatFrom(s, 1) = content
    <2> DEFINE one == 1
    <2>1. one \in 1 .. Len(s) /\ one + 1 = Len(s) + 1
      BY <1>2
    <2>2. FlatFrom(s, one) = s[one] \o FlatFrom(s, one + 1)
      <3> HIDE DEF one
      <3> QED BY <1>2, <2>1, FlatFromFirst
    <2>3. FlatFrom(s, Len(s) + 1) = <<>>
      BY <1>2, FlatFromEnd
    <2>4. FlatFrom(s, one) = content \o <<>>
      <3> HIDE DEF one
      <3>1. s[one] = content
        BY <1>2 DEF one
      <3> QED BY <2>1, <2>2, <2>3, <3>1
    <2> QED BY <2>4
  <1>5. Unread' = <<>>
    BY <1>1 DEF Unread
  <1>6. Rest' = <<>> \o content
    BY <1>1, <1>4, <1>5 DEF Rest, Behind
  <1> QED BY <1>3, <1>6

\* The example is delivered.
LEMMA CachePrepares ==
  ASSUME NEW c \in 0 .. MaxBits, NEW es \in Seq(Filled(c)), NEW k, CachePlace(es, c, k),
         num_bits \in Nat, opt \in Session, ~par.write_cache, Prepare
  PROVE  /\ CachePlace(es, c, k + 1)' /\ example_number' = example_number + 1
         /\ UNCHANGED disk
  <1>1. /\ pc = "read"
        /\ UNCHANGED <<loaded, end, files, current, call, answer>>
    BY DEF Prepare, inputVars
  <1>2. BufferInv /\ k \in 0 .. Len(es)
    BY DEF CachePlace
  <1>3. k < Len(es) /\ AtCached(es[k + 1], c, Later(es, k + 1))
    BY <1>1, PlaceCases DEF CachePlace, AtStart, AtEnd
  <1> DEFINE e == es[k + 1]
             later == Later(es, k + 1)
  <1>4. e \in Filled(c) /\ later \in Seq(Int) /\ c \in Nat /\ Len(es) \in Nat /\ k \in Nat
    BY <1>2, <1>3, CacheTyped
  <1> HIDE DEF e, later
  <1>5. /\ call = NoCall /\ Rest = later /\ SameLabel(e, ae)
        /\ Fills(ae, num_bits, c, e, Len(e.indices), Len(e.indices), 0)
    BY <1>3 DEF AtCached, e, later
  <1>6. ae \in Filled(num_bits)
    BY <1>4, <1>5, ExampleFilled
  <1>7. PICK f \in Sorted(ae) :
          /\ ae' = SetupExample(Grams(f), opt, Mask)
          /\ example_number' = example_number + 1
          /\ pc' = "fetch" /\ disk' = disk
    BY DEF Prepare
  <1>8. f \in Filled(num_bits)
    BY <1>6, <1>7, SortedFilled DEF Sorted
  <1>9. ae' = Made(f, opt, Pow2[num_bits] - 1)
    BY <1>7 DEF Made, Grammed, Grams, Mask
  <1>10. Tidy(ae')
    BY <1>8, <1>9, MadeArranged
  <1>11. BufferInv' /\ Rest' = Rest
    BY <1>1, <1>2, NotReading DEF BufferInv
  <1>12. AtStart(es, k + 1)'
    BY <1>1, <1>5, <1>7, <1>10, <1>11 DEF AtStart, later
  <1>13. k + 1 \in 0 .. Len(es)
    BY <1>3, <1>4
  <1> QED BY <1>7, <1>11, <1>12, <1>13 DEF CachePlace

\* The cache is read from its beginning.
LEMMA CacheBegins ==
  ASSUME NEW c \in 0 .. MaxBits, NEW es \in Seq(Filled(c)), Rewound(<<Book(es)>>),
         answer \in Seq(Int), call = NoCall, UNCHANGED <<call, answer>>, Tidy(ae'), pc' = "fetch"
  PROVE  CachePlace(es, c, 0)'
  <1>1. Book(es) \in Seq(Int) /\ Book(es) = Later(es, 0) /\ Len(es) \in Nat
    BY BookTyped
  <1>2. BufferInv' /\ Rest' = Book(es)
    BY <1>1, Rewinds
  <1>3. AtStart(es, 0)'
    BY <1>1, <1>2 DEF AtStart
  <1> QED BY <1>1, <1>2, <1>3 DEF CachePlace

\* A pass over a cache is over.
LEMMA CacheEnded ==
  ASSUME NEW es, NEW c, NEW k, CachePlace(es, c, k), EndPass
  PROVE  /\ k = Len(es) /\ call = NoCall /\ UNCHANGED <<call, answer>> /\ answer \in Seq(Int)
         /\ Tidy(ae')
  <1>1. pc = "reset" /\ UNCHANGED <<ae, call, answer>>
    BY DEF EndPass, readerVars
  <1>2. k = Len(es) /\ AtEnd
    BY <1>1, PlaceCases DEF CachePlace, AtStart, Parts
  <1>3. ae \in Blank /\ call = NoCall
    BY <1>1, <1>2 DEF AtEnd
  <1>4. Tidy(ae)
    BY <1>3, BlankTidy
  <1> QED BY <1>1, <1>2, <1>3, <1>4 DEF CachePlace, BufferInv
LEMMA TextEnded ==
  ASSUME NEW t, NEW k, TextPlace(t, k), EndPass
  PROVE  /\ k = LineCount(t) /\ call = NoCall /\ UNCHANGED <<call, answer>> /\ answer \in Seq(Int)
         /\ Tidy(ae')
  <1>1. pc = "reset" /\ UNCHANGED <<ae, call, answer>>
    BY DEF EndPass, readerVars
  <1>2. AtReset(t, k)
    BY <1>1 DEF TextPlace, AtFetch, AtLine, AtRead
  <1>3. ae \in Blank /\ call = NoCall /\ k = LineCount(t)
    BY <1>1, <1>2 DEF AtReset
  <1>4. Tidy(ae)
    BY <1>3, BlankTidy
  <1> QED BY <1>1, <1>3, <1>4 DEF TextPlace, BufferInv

\* It starts over with the file that is open.
LEMMA PassRewinds ==
  ASSUME EndPass, Mode, Running', NEW name, opened' = <<name>>,
         NEW es, Contents(disk', name) = Book(es)
  PROVE  Rewound(<<Book(es)>>) /\ pc' = "fetch"
  <1>1. par.resettable
    <2>1. par.reader = "text" /\ ~par.write_cache => opened' = <<>>
      BY DEF Mode, EndPass
    <2>2. <<name>> # <<>>
      OBVIOUS
    <2> QED BY <2>1, <2>2 DEF Mode
  <1> DEFINE d == disk'
             s == [i \in DOMAIN opened' |-> Contents(d, opened'[i])]
  <1>2. Rewound(s)
    BY <1>1 DEF EndPass
  <1>3. s = <<Contents(d, name)>>
    <2> HIDE DEF d
    <2>1. DOMAIN opened' = {1} /\ opened'[1] = name
      OBVIOUS
    <2>2. s = [i \in {1} |-> Contents(d, name)]
      BY <2>1
    <2> QED BY <2>2
  <1>4. pc' = "fetch"
    BY DEF EndPass, Running
  <1> QED BY <1>2, <1>3, <1>4

-----------------------------------------------------------------------------
(* What holds all the time.                                                *)

\* The cache that is open, of c bits.  One of an older version is only read when no
\* bits were asked for.
Reads(name, c, es, sort) ==
  /\ name \in CacheNames /\ opened = <<name>>
  /\ \/ Complete(scenario, disk[Final(name)], c, es, sort)
     \/ Outdated(scenario, disk[Final(name)], c, es) /\ opt.bits = 0
  /\ num_bits <= c /\ (par.sorted_cache => num_bits = c)
FromCache(name, c, es, sort) ==
  Reads(name, c, es, sort) /\ CachePlace(es, c, example_number)
CacheInv ==
  Running /\ par.reader = "cache" => \E name, c, es, sort : FromCache(name, c, es, sort)
ModeInv == Running => Mode
PassInv == CachesKept(scenario, disk) /\ ModeInv /\ TextInv /\ CacheInv

LEMMA RunningTyped ==
  ASSUME SourceInv, Running \/ pc = "start"
  PROVE  /\ scenario \in Scenarios /\ opt \in Session /\ opt.sort \in Sorts(scenario)
         /\ session \in DOMAIN scenario.sessions /\ Legible(scenario.text)
  <1>1. Asked /\ session # 0
    BY DEF SourceInv, Asked, Running
  <1>2. opt \in Session /\ session \in DOMAIN scenario.sessions /\ scenario \in Scenarios
    BY <1>1, OptionsTyped DEF Asked
  <1> QED BY <1>2, SortsAsked, TextLegible DEF opt

LEMMA ReadsTyped ==
  ASSUME scenario \in Scenarios, NEW name, NEW c, NEW es, NEW sort, Reads(name, c, es, sort)
  PROVE  /\ c \in 0 .. MaxBits /\ es \in Seq(Filled(c))
         /\ Contents(disk, name) = Book(es) /\ CacheNumbits(disk[Final(name)]) = c
  <1>1. Held(scenario, disk[Final(name)], c, es, sort)
    BY DEF Reads, Held
  <1> DEFINE content == disk[Final(name)]
  <1> HIDE DEF content
  <1>2. Held(scenario, content, c, es, sort)
    BY <1>1 DEF content
  <1>3. /\ CacheNumbits(content) = c /\ SubSeq(content, 3, Len(content)) = Book(es)
        /\ c \in 0 .. MaxBits /\ es \in Seq(Filled(c))
    BY <1>2, HeldProperties
  <1> QED BY <1>3 DEF content, Contents

LEMMA CacheNow ==
  ASSUME NEW es, NEW c, NEW k, k = example_number', CachePlace(es, c, k)'
  PROVE  CachePlace(es, c, example_number)'
  BY DEF CachePlace, AtStart, AtEnd, ExamplePlace, AtLabel, AtTagSize, AtTag, AtNumIndices,
     AtIndex, AtFeatures, AtDecode, AtCached

\* A round of a reader.
LEMMA TextGoesOn ==
  ASSUME PassInv, Running, par.reader = "text", Same, NEW t, t = scenario.text,
         NEW k, k = example_number, Running' => TextPlace(t, k)'
  PROVE  PassInv'
  <1>1. /\ UNCHANGED <<disk, scenario, session, num_bits, passes_complete, par, opened, finalname,
                       example_number>>
    BY DEF Same, processVars
  <1>2. CachesKept(scenario, disk)'
    BY <1>1 DEF PassInv
  <1>3. ModeInv'
    BY <1>1, ModeKept DEF PassInv, ModeInv
  <1>4. TextInv'
    <2> SUFFICES ASSUME Running'
                 PROVE  TextInv'
      BY DEF TextInv, Reading
    <2>1. TextPlace(scenario.text, example_number)'
      BY <1>1, PlaceNow
    <2>2. par.write_cache' => Writes(scenario.text, example_number)'
      BY <1>1, WritesKept DEF PassInv, TextInv, Reading
    <2> QED BY <2>1, <2>2 DEF TextInv
  <1>5. CacheInv'
    BY <1>1 DEF CacheInv
  <1> QED BY <1>2, <1>3, <1>4, <1>5 DEF PassInv

LEMMA CacheGoesOn ==
  ASSUME PassInv, Running, par.reader = "cache", Same,
         NEW name, NEW c, NEW es, NEW sort, Reads(name, c, es, sort),
         NEW k, k = example_number, CachePlace(es, c, k)'
  PROVE  PassInv'
  <1>1. /\ UNCHANGED <<disk, scenario, session, num_bits, passes_complete, par, opened, finalname,
                       example_number>>
    BY DEF Same, processVars
  <1>2. CachesKept(scenario, disk)'
    BY <1>1 DEF PassInv
  <1>3. ModeInv'
    BY <1>1, ModeKept DEF PassInv, ModeInv
  <1>4. TextInv'
    BY <1>1 DEF TextInv, Reading
  <1>5. CacheInv'
    <2>1. Reads(name, c, es, sort)'
      BY <1>1 DEF Reads, opt
    <2>2. CachePlace(es, c, example_number)'
      BY <1>1, CacheNow
    <2>3. FromCache(name, c, es, sort)'
      BY <2>1, <2>2 DEF FromCache
    <2> QED BY <2>3 DEF CacheInv
  <1> QED BY <1>2, <1>3, <1>4, <1>5 DEF PassInv

\* The sizes that are asked for are those of parts.
LEMMA AskedSizes ==
  ASSUME IInv, PassInv
  PROVE  Sizes /\ Cells
  <1>1. Cells
    BY DEF PassInv, CachesKept, Cells
  <1>2. CASE call = NoCall \/ call = [op |-> "readto", n |-> 0]
    BY <1>1, <1>2 DEF Sizes, NoCall
  <1>3. CASE call.op = "buf_read" /\ call # NoCall
    <2>1. pc \in Parts /\ call.n = wanted
      BY <1>3 DEF IInv, CallInv
    <2>2. Running
      BY <2>1 DEF Parts, Running
    <2>3. par.reader # "text"
      BY <2>1, <2>2 DEF PassInv, TextInv, Reading, TextPlace, AtFetch, AtLine, AtRead, AtReset,
         Parts
    <2>4. par.reader = "cache" /\ scenario \in Scenarios
      BY <2>2, <2>3 DEF IInv, SourceInv, ParserStates
    <2>5. PICK name, c, es, sort : FromCache(name, c, es, sort)
      BY <2>2, <2>4 DEF PassInv, CacheInv
    <2>6. c \in 0 .. MaxBits /\ es \in Seq(Filled(c)) /\ CachePlace(es, c, example_number)
      BY <2>4, <2>5, ReadsTyped DEF FromCache
    <2> DEFINE k == example_number
    <2>7. CASE AtStart(es, k)
      BY <2>1, <2>7 DEF AtStart, Parts
    <2>8. CASE AtEnd
      BY <1>1, <2>1, <2>8 DEF AtEnd, Sizes, Parts
    <2>9. CASE k < Len(es) /\ ExamplePlace(es[k + 1], c, Later(es, k + 1))
      <3> DEFINE e == es[k + 1]
                 later == Later(es, k + 1)
      <3>1. e \in Filled(c) /\ ExamplePlace(e, c, later)
        BY <2>6, <2>9, CacheTyped DEF CachePlace
      <3> HIDE DEF e, later
      <3>2. /\ e.tag \in Seq(Int) /\ Len(e.tag) \in Nat
            /\ \A j \in 1 .. Len(e.indices) : Len(BodyOf(e, j)) \in Nat
        BY <2>6, <3>1, ExampleTyped
      <3>3. wanted \in Nat
        <4>1. \A a, b : Len(<<a, b>>) \in Nat /\ Len(<<a>>) \in Nat
          OBVIOUS
        <4>2. CASE pc = "label"
          <5>1. wanted = Len(<<e.label, e.weight>>)
            BY <3>1, <4>2, PlaceCases DEF AtLabel, Awaits
          <5> QED BY <4>1, <5>1
        <4>3. CASE pc = "tag_size"
          <5>1. wanted = Len(<<Len(e.tag)>>)
            BY <3>1, <4>3, PlaceCases DEF AtTagSize, Awaits
          <5> QED BY <4>1, <5>1
        <4>4. CASE pc = "tag"
          BY <3>1, <3>2, <4>4, PlaceCases DEF AtTag, Awaits
        <4>5. CASE pc = "num_indices"
          <5>1. wanted = Len(<<Len(e.indices)>>)
            BY <3>1, <4>5, PlaceCases DEF AtNumIndices, Awaits
          <5> QED BY <4>1, <5>1
        <4>6. CASE pc = "index"
          <5>1. PICK j \in 1 .. Len(e.indices) : AtIndex(e, c, later, j)
            BY <3>1, <4>6, PlaceCases
          <5>2. wanted = Len(<<e.indices[j], Len(BodyOf(e, j))>>)
            BY <5>1 DEF AtIndex, Awaits
          <5> QED BY <4>1, <5>2
        <4>7. CASE pc = "features"
          <5>1. PICK j \in 1 .. Len(e.indices) : AtFeatures(e, c, later, j)
            BY <3>1, <4>7, PlaceCases
          <5> QED BY <3>2, <5>1 DEF AtFeatures, Awaits
        <4> QED BY <2>1, <4>2, <4>3, <4>4, <4>5, <4>6, <4>7 DEF Parts
      <3> QED BY <1>1, <2>1, <3>3 DEF Sizes
    <2> QED BY <2>6, <2>7, <2>8, <2>9 DEF CachePlace
  <1> QED BY <1>2, <1>3 DEF IInv, BufferInv

-----------------------------------------------------------------------------
(* The start of the program                                                *)

\* What a program that starts finds.
LEMMA StartFinds ==
  ASSUME OneCache, IInv, PassInv, Start
  PROVE  /\ scenario \in Scenarios /\ opt \in Session /\ Legible(scenario.text)
         /\ session \in DOMAIN scenario.sessions
         /\ call = NoCall /\ answer \in Seq(Int)
         /\ UNCHANGED <<scenario, session, call, answer>> /\ opt' = opt /\ Tidy(ae')
         /\ BitsAsked \in 0 .. MaxBits /\ opt.sort \in BOOLEAN
         /\ OnlyText \/ \E name \in CacheNames : WritesCache(name) \/ ReadsCache(name)
  <1>1. pc = "start" /\ UNCHANGED <<scenario, session, call, answer>> /\ ae' = EmptySlot
    BY DEF Start
  <1>2. /\ scenario \in Scenarios /\ opt \in Session /\ Legible(scenario.text)
        /\ session \in DOMAIN scenario.sessions
    BY <1>1, RunningTyped DEF IInv
  <1>3. call = NoCall /\ answer \in Seq(Int)
    BY <1>1 DEF IInv, CallInv, BufferInv, Parts
  <1>4. /\ opt.caches \in Seq(CacheNames) /\ opt.bits \in 0 .. MaxBits /\ opt.sort \in BOOLEAN
        /\ DefaultBits \in 0 .. MaxBits
    BY <1>2, LineAssumption DEF Session
  <1>5. BitsAsked \in 0 .. MaxBits
    BY <1>4 DEF BitsAsked
  <1>6. Len(opt.caches) <= 1
    BY <1>2 DEF OneCache, opt
  <1>7. ASSUME NEW name \in CacheNames, disk[Final(name)] # <<>>
        PROVE  CacheNumbits(disk[Final(name)]) \in Nat
    <2> DEFINE content == disk[Final(name)]
    <2>1. IsCache(scenario, content)
      BY <1>7 DEF PassInv, CachesKept
    <2> HIDE DEF content
    <2>2. PICK b, es, sort : Held(scenario, content, b, es, sort)
      BY <2>1 DEF IsCache
    <2>3. CacheNumbits(content) = b /\ b \in 0 .. MaxBits
      BY <1>2, <2>2, HeldProperties
    <2>4. CacheNumbits(content) \in Nat
      BY <2>3, WidthAssumption
    <2> QED BY <2>4 DEF content
  <1>8. OnlyText \/ \E name \in CacheNames : WritesCache(name) \/ ReadsCache(name)
    <2>1. disk = [f \in Files |-> disk[f]]
      BY DEF PassInv, CachesKept
    <2> QED BY <1>4, <1>6, <1>7, <2>1, OneLooked
  <1>9. Tidy(ae') /\ opt' = opt
    BY <1>1, EmptyTidy DEF opt
  <1> QED BY <1>1, <1>2, <1>3, <1>4, <1>5, <1>8, <1>9

\* The text is open.
LEMMA TextBegins ==
  ASSUME NEW t, Legible(t), Rewound(<<t>>), answer \in Seq(Int), call = NoCall,
         UNCHANGED <<call, answer>>, Tidy(ae'), pc' = "fetch"
  PROVE  TextPlace(t, 0)'
  <1>1. t \in Seq(Int)
    BY DEF Legible
  <1>2. BufferInv' /\ Rest' = t
    BY <1>1, Rewinds
  <1>3. TextFrom(t, 0) = t
    <2> DEFINE z == 0
    <2>1. z \in Nat /\ 2 * z <= Len(t) /\ Len(t) - 2 * z = Len(t) /\ 2 * z = 0
      BY <1>1
    <2>2. /\ TextFrom(t, z) \in Seq(Int) /\ Len(TextFrom(t, z)) = Len(t) - 2 * z
          /\ \A i \in 1 .. Len(t) - 2 * z : TextFrom(t, z)[i] = t[2 * z + i]
      <3> HIDE DEF z
      <3> QED BY <2>1, TextFromProperties
    <2>3. Len(TextFrom(t, z)) = Len(t) /\ \A i \in 1 .. Len(t) : TextFrom(t, z)[i] = t[i]
      <3> HIDE DEF z
      <3>1. \A i \in 1 .. Len(t) : 2 * z + i = i
        BY <2>1
      <3> QED BY <2>1, <2>2, <3>1
    <2> QED BY <1>1, <2>2, <2>3, SeqEqual
  <1>4. AtFetch(t, 0)'
    BY <1>2, <1>3 DEF AtFetch
  <1>5. 0 \in 0 .. LineCount(t)
    <2>1. Len(t) \in Nat
      BY <1>1
    <2> QED BY <2>1, LineCounted
  <1> QED BY <1>2, <1>4, <1>5 DEF TextPlace

\* Nothing was written of it yet.
LEMMA NothingWritten ==
  ASSUME NEW t, NEW b \in 0 .. MaxBits, num_bits' = b, NEW o,
         o = [space |-> <<>>, size |-> BufferSize, file |-> Header(b)], out' = o
  PROVE  Writes(t, 0)'
  <1>1. Header(b) \in Seq(Int)
    BY WidthAssumption DEF Header, Version
  <1>2. o \in Outs /\ Given(o) = Cat(Header(b), <<>>)
    BY <1>1, BufferAssumption DEF Outs, Given
  <1> DEFINE es == <<>>
             F == Filled(b)
  <1>3. es \in Seq(F) /\ Len(es) = 0
    <2> HIDE DEF F
    <2> QED OBVIOUS
  <1> HIDE DEF es
  <1>4. Book(es) = <<>>
    BY NothingHeld DEF es
  <1>5. \A sort : es \in Examples(t, 0, b, sort)
    BY <1>3 DEF Examples, F
  <1>6. Given(o) = Cat(Header(b), Book(es))
    BY <1>2, <1>4
  <1> HIDE DEF F
  <1>7. \E x \in Examples(t, 0, num_bits', opt'.sort) :
          Given(out') = Cat(Header(num_bits'), Book(x))
    BY <1>5, <1>6
  <1> QED BY <1>2, <1>7 DEF Writes

\* What several passes need is there when a cache is written or read.
LEMMA Resettable ==
  ASSUME NEW a, NEW w, NEW s, NEW x, NEW r,
         r = [reader |-> a, write_cache |-> w, sorted_cache |-> s, resettable |-> x],
         NEW b, b = (r.resettable \/ r.write_cache)
  PROVE  [r EXCEPT !.resettable = @ \/ r.write_cache] =
           [reader |-> a, write_cache |-> w, sorted_cache |-> s, resettable |-> b]
  <1>1. [r EXCEPT !.resettable = @ \/ r.write_cache] = [r EXCEPT !.resettable = b]
    OBVIOUS
  <1>2. \A y : [r EXCEPT !.resettable = y] =
                [reader |-> a, write_cache |-> w, sorted_cache |-> s, resettable |-> y]
    OBVIOUS
  <1>3. [r EXCEPT !.resettable = b] =
          [reader |-> a, write_cache |-> w, sorted_cache |-> s, resettable |-> b]
    BY <1>2
  <1> QED BY <1>1, <1>3

LEMMA StartReads ==
  ASSUME OneCache, IInv, PassInv, Start
  PROVE  PassInv'
  <1>1. /\ scenario \in Scenarios /\ opt \in Session /\ Legible(scenario.text)
        /\ call = NoCall /\ answer \in Seq(Int)
        /\ UNCHANGED <<scenario, session, call, answer>> /\ opt' = opt /\ Tidy(ae')
        /\ BitsAsked \in 0 .. MaxBits /\ opt.sort \in BOOLEAN
    BY StartFinds
  <1> DEFINE v == AfterCaches
             contents == IF opened' = <<>> THEN <<scenario.text>>
                         ELSE [i \in DOMAIN opened' |-> Contents(disk, opened'[i])]
  <1>2. /\ num_bits' = v.num_bits /\ opened' = v.opened /\ out' = v.out
        /\ finalname' = v.finalname /\ disk' = v.disk
        /\ par' = [v.par EXCEPT !.resettable = @ \/ v.par.write_cache]
        /\ pc' = IF opt.passes > 1 /\ ~par'.resettable THEN "exited" ELSE "fetch"
        /\ Rewound(contents) /\ example_number' = 0 /\ passes_complete' = 0
    BY DEF Start
  <1> HIDE DEF contents
  <1>3. CASE OnlyText
    <2>1. /\ num_bits' = BitsAsked /\ opened' = <<>> /\ disk' = disk
          /\ par' = [reader |-> "text", write_cache |-> FALSE, sorted_cache |-> FALSE,
                     resettable |-> FALSE]
      BY <1>2, <1>3 DEF OnlyText, Begun, BitsAsked, NewParser
    <2>2. CachesKept(scenario', disk')
      BY <1>1, <2>1 DEF PassInv
    <2>3. /\ par'.reader = "text" /\ ~par'.write_cache /\ ~par'.resettable
          /\ par'.resettable = par'.write_cache /\ par' \in ParserStates
      BY <2>1 DEF ParserStates
    <2>4. ASSUME Running' PROVE Mode' /\ TextPlace(scenario.text, example_number)'
      <3>1. opt.passes <= 1 /\ pc' = "fetch"
        <4>1. opt.passes \in Nat
          BY <1>1 DEF Session
        <4> QED BY <1>2, <2>3, <2>4, <4>1 DEF Running
      <3>2. Mode'
        BY <1>1, <1>2, <2>1, <2>3, <3>1 DEF Mode
      <3>3. Rewound(<<scenario.text>>)
        BY <1>2, <2>1 DEF contents
      <3>4. PICK t : t = scenario.text
        OBVIOUS
      <3>5. TextPlace(t, 0)'
        BY <1>1, <3>1, <3>3, <3>4, TextBegins
      <3>6. TextPlace(scenario.text, example_number)'
        BY <1>1, <1>2, <3>4, <3>5, PlaceNow
      <3> QED BY <3>2, <3>6
    <2>5. ModeInv' /\ TextInv' /\ CacheInv'
      BY <2>3, <2>4 DEF ModeInv, TextInv, CacheInv, Reading
    <2> QED BY <2>2, <2>5 DEF PassInv
  <1>4. ASSUME NEW name \in CacheNames, WritesCache(name) PROVE PassInv'
    <2>1. /\ num_bits' = BitsAsked /\ opened' = <<>> /\ finalname' = name
          /\ disk' = [disk EXCEPT ![Temp(name)] = Header(BitsAsked)]
          /\ out' = [space |-> <<>>, size |-> BufferSize, file |-> Header(BitsAsked)]
          /\ par' = [reader |-> "text", write_cache |-> TRUE, sorted_cache |-> FALSE,
                     resettable |-> TRUE]
      <3>1. v.par = [reader |-> "text", write_cache |-> TRUE, sorted_cache |-> FALSE,
                     resettable |-> FALSE]
        BY <1>4 DEF WritesCache
      <3>2. par' = [reader |-> "text", write_cache |-> TRUE, sorted_cache |-> FALSE,
                    resettable |-> TRUE]
        <4> DEFINE r == v.par
        <4>1. r = [reader |-> "text", write_cache |-> TRUE, sorted_cache |-> FALSE,
                   resettable |-> FALSE]
          BY <3>1
        <4>2. par' = [r EXCEPT !.resettable = @ \/ r.write_cache]
          BY <1>2
        <4> HIDE DEF r
        <4>3. TRUE = (r.resettable \/ r.write_cache)
          BY <4>1
        <4> QED BY <4>1, <4>2, <4>3, Resettable
      <3> QED BY <1>2, <1>4, <3>2 DEF WritesCache
    <2> DEFINE b == BitsAsked
               h == Header(b)
    <2>2. CachesKept(scenario', disk')
      <3>1. h \in Seq(Int)
        BY <1>1, WidthAssumption DEF Header, Version
      <3>2. CachesKept(scenario, disk) /\ disk' = [disk EXCEPT ![Temp(name)] = h]
        BY <2>1 DEF PassInv
      <3> HIDE DEF h
      <3>3. CachesKept(scenario, [disk EXCEPT ![Temp(name)] = h])
        BY <3>1, <3>2, TempWritten
      <3> QED BY <1>1, <3>2, <3>3
    <2>3. /\ par'.reader = "text" /\ par'.write_cache /\ par'.resettable
          /\ par'.resettable = par'.write_cache /\ par' \in ParserStates
      BY <2>1 DEF ParserStates
    <2>4. pc' = "fetch"
      BY <1>2, <2>3
    <2>5. Mode'
      BY <1>1, <1>2, <2>1, <2>3, <2>4 DEF Mode
    <2>6. Rewound(<<scenario.text>>)
      BY <1>2, <2>1 DEF contents
    <2>7. PICK t : t = scenario.text
      OBVIOUS
    <2>8. TextPlace(t, 0)'
      BY <1>1, <2>4, <2>6, <2>7, TextBegins
    <2>9. Writes(t, 0)'
      <3>1. PICK o : o = [space |-> <<>>, size |-> BufferSize, file |-> Header(b)]
        OBVIOUS
      <3>2. PICK c : c = b
        OBVIOUS
      <3>3. c \in 0 .. MaxBits /\ num_bits' = c /\ out' = o
            /\ o = [space |-> <<>>, size |-> BufferSize, file |-> Header(c)]
        BY <1>1, <2>1, <3>1, <3>2
      <3> QED BY <3>3, NothingWritten
    <2>10. TextPlace(scenario.text, example_number)' /\ Writes(scenario.text, example_number)'
      BY <1>1, <1>2, <2>7, <2>8, <2>9, PlaceNow
    <2>11. ModeInv' /\ TextInv' /\ CacheInv'
      BY <2>3, <2>5, <2>10 DEF ModeInv, TextInv, CacheInv, Reading
    <2> QED BY <2>2, <2>11 DEF PassInv
  <1>5. ASSUME NEW name \in CacheNames, ReadsCache(name) PROVE PassInv'
    <2> DEFINE content == disk[Final(name)]
               n == BitsOf(name)
    <2>1. /\ num_bits' = n /\ opened' = <<name>> /\ disk' = disk
          /\ par' = [reader |-> "cache", write_cache |-> FALSE,
                     sorted_cache |-> CacheNumbits(content) = n, resettable |-> TRUE]
          /\ content # <<>> /\ ~(CacheNumbits(content) < n)
      <3> DEFINE z == CacheNumbits(content) = n
      <3>0. z \in BOOLEAN
        OBVIOUS
      <3> HIDE DEF z
      <3>1. v.par = [reader |-> "cache", write_cache |-> FALSE, sorted_cache |-> z,
                     resettable |-> TRUE]
        BY <1>5 DEF ReadsCache, z
      <3>2. par' = [reader |-> "cache", write_cache |-> FALSE, sorted_cache |-> z,
                    resettable |-> TRUE]
        <4> DEFINE r == v.par
        <4>1. r = [reader |-> "cache", write_cache |-> FALSE, sorted_cache |-> z,
                   resettable |-> TRUE]
          BY <3>1
        <4>2. par' = [r EXCEPT !.resettable = @ \/ r.write_cache]
          BY <1>2
        <4> HIDE DEF r
        <4>3. TRUE = (r.resettable \/ r.write_cache)
          BY <4>1
        <4> QED BY <4>1, <4>2, <4>3, Resettable
      <3>3. /\ num_bits' = n /\ opened' = <<name>> /\ disk' = disk
            /\ content # <<>> /\ ~(CacheNumbits(content) < n)
        BY <1>2, <1>5 DEF ReadsCache
      <3> QED BY <3>2, <3>3 DEF z
    <2>2. PICK c, es, sort : Held(scenario, content, c, es, sort)
      <3>1. IsCache(scenario, content)
        BY <2>1 DEF PassInv, CachesKept
      <3> HIDE DEF content
      <3> QED BY <3>1 DEF IsCache
    <2>3. CacheNumbits(content) = c /\ c \in 0 .. MaxBits /\ es \in Seq(Filled(c))
          /\ SubSeq(content, 3, Len(content)) = Book(es)
      <3> HIDE DEF content
      <3> QED BY <1>1, <2>2, HeldProperties
    <2>4. /\ n \in 0 .. MaxBits /\ n <= c /\ (opt.bits = 0 => n = c)
          /\ opt.bits # 0 => n = opt.bits
      <3>1. opt.bits \in 0 .. MaxBits
        BY <1>1 DEF Session
      <3>2. n = IF opt.bits = 0 THEN c ELSE opt.bits
        BY <2>3 DEF BitsOf
      <3>3. ~(c < n)
        BY <2>1, <2>3
      <3> HIDE DEF n
      <3> QED BY <2>3, <3>1, <3>2, <3>3, WidthAssumption
    <2>5. /\ par'.reader = "cache" /\ ~par'.write_cache /\ par'.resettable
          /\ par' \in ParserStates /\ (par'.sorted_cache => c = n)
      <3> HIDE DEF content, n
      <3> QED BY <2>1, <2>3 DEF ParserStates
    <2>6. Mode'
      BY <1>2, <2>1, <2>4, <2>5 DEF Mode
    <2>7. Complete(scenario, content, c, es, sort) \/
            (Outdated(scenario, content, c, es) /\ opt.bits = 0)
      <3>1. ASSUME Outdated(scenario, content, c, es) PROVE opt.bits = 0
        <4>1. c = 0
          BY <3>1 DEF Outdated
        <4>2. opt.bits \in 0 .. MaxBits
          BY <1>1 DEF Session
        <4> HIDE DEF n
        <4> QED BY <2>4, <4>1, <4>2, WidthAssumption
      <3> QED BY <2>2, <3>1 DEF Held
    <2>8. Reads(name, c, es, sort)'
      <3>1. /\ disk'[Final(name)] = content /\ opened' = <<name>> /\ num_bits' = n
            /\ scenario' = scenario /\ opt' = opt
        BY <1>1, <2>1
      <3> HIDE DEF n, content
      <3> QED BY <2>4, <2>5, <2>7, <3>1 DEF Reads
    <2>9. pc' = "fetch"
      BY <1>2, <2>5
    <2>10. Rewound(<<Book(es)>>)
      <3>1. contents = [i \in DOMAIN opened' |-> Contents(disk, opened'[i])]
        BY <2>1 DEF contents
      <3>2. Contents(disk, name) = Book(es)
        BY <2>3 DEF Contents
      <3>3. DOMAIN opened' = {1} /\ opened'[1] = name
        BY <2>1
      <3>4. contents = [i \in {1} |-> Book(es)]
        BY <3>1, <3>2, <3>3
      <3>5. contents = <<Book(es)>>
        BY <3>4
      <3> QED BY <1>2, <3>5
    <2>11. CachePlace(es, c, 0)'
      BY <1>1, <2>3, <2>9, <2>10, CacheBegins
    <2>12. FromCache(name, c, es, sort)'
      BY <1>2, <2>8, <2>11, CacheNow DEF FromCache
    <2>13. ModeInv' /\ TextInv' /\ CacheInv'
      BY <2>5, <2>6, <2>12 DEF ModeInv, TextInv, CacheInv, Reading
    <2>14. CachesKept(scenario', disk')
      BY <1>1, <2>1 DEF PassInv
    <2> QED BY <2>13, <2>14 DEF PassInv
  <1> QED BY <1>3, <1>4, <1>5, StartFinds

-----------------------------------------------------------------------------
(* The steps of the two readers                                            *)

LEMMA InitPasses ==
  ASSUME Init
  PROVE  PassInv
  <1>1. /\ scenario \in Scenarios /\ ~Running
        /\ disk = [f \in Files |-> IF ~f.writing /\ f.name \in scenario.old
                                     THEN <<OldVersion, DefaultBits>> ELSE <<>>]
    BY DEF Init, Running
  <1> DEFINE old == <<OldVersion, DefaultBits>>
             none == <<>>
  <1>2. old \in Seq(Int) /\ none \in Seq(Int)
    BY LineAssumption, WidthAssumption DEF OldVersion
  <1>3. old = <<OldVersion, DefaultBits>> /\ none = <<>>
    OBVIOUS
  <1> HIDE DEF old, none
  <1>4. \A f \in Files : disk[f] \in {old, none}
    BY <1>1, <1>3
  <1>5. disk = [f \in Files |-> disk[f]] /\ \A f \in Files : disk[f] \in Seq(Int)
    BY <1>1, <1>2, <1>4
  <1>6. ASSUME NEW name \in CacheNames, disk[Final(name)] # <<>>
        PROVE  IsCache(scenario, disk[Final(name)])
    <2>1. Final(name) \in Files /\ Final(name).name = name
      BY FileNames DEF Final
    <2>2. disk[Final(name)] = old /\ name \in scenario.old
      BY <1>1, <1>3, <1>6, <2>1
    <2>3. scenario.old # {}
      BY <2>2
    <2>4. PICK none2 : none2 = <<>>
      OBVIOUS
    <2>5. PICK zero : zero = 0
      OBVIOUS
    <2>6. Outdated(scenario, disk[Final(name)], zero, none2)
      BY <1>3, <2>2, <2>3, <2>4, <2>5 DEF Outdated
    <2>7. Held(scenario, disk[Final(name)], zero, none2, FALSE)
      BY <2>6 DEF Held
    <2> QED BY <2>7 DEF IsCache
  <1>7. CachesKept(scenario, disk)
    BY <1>5, <1>6 DEF CachesKept
  <1>8. ModeInv /\ TextInv /\ CacheInv
    BY <1>1 DEF ModeInv, TextInv, CacheInv, Reading
  <1> QED BY <1>7, <1>8 DEF PassInv

\* A program that does not run reads nothing.
LEMMA StopPasses ==
  ASSUME PassInv, ~Running', UNCHANGED <<scenario, disk>>
  PROVE  PassInv'
  <1>1. CachesKept(scenario, disk)'
    BY DEF PassInv
  <1>2. ModeInv' /\ TextInv' /\ CacheInv'
    BY DEF ModeInv, TextInv, CacheInv, Reading
  <1> QED BY <1>1, <1>2 DEF PassInv

LEMMA KillPasses ==
  ASSUME PassInv, Kill \/ Launch
  PROVE  PassInv'
  <1>1. pc' \in {"killed", "start"} /\ UNCHANGED <<scenario, disk>>
    BY DEF Kill, Launch, Same
  <1>2. ~Running'
    BY <1>1 DEF Running
  <1> QED BY <1>1, <1>2, StopPasses

LEMMA SamePasses ==
  ASSUME PassInv, UNCHANGED vars
  PROVE  PassInv'
  <1>1. /\ UNCHANGED <<loaded, end, end_array, files, current, call, answer>>
        /\ UNCHANGED <<disk, scenario, session, pc, ae, left, wanted, coded>>
        /\ UNCHANGED <<num_bits, par, opened, out, finalname, example_number, passes_complete>>
    BY DEF vars, inputVars, processVars, readerVars
  <1>2. CachesKept(scenario, disk)'
    BY <1>1 DEF PassInv
  <1>3. ModeInv'
    BY <1>1 DEF PassInv, ModeInv, Mode, Running, opt
  <1>4. Rest' = Rest /\ (BufferInv => BufferInv')
    BY <1>1, NotReading DEF BufferInv
  <1>5. TextInv'
    BY <1>1, <1>4 DEF PassInv, TextInv, Reading, Running, Writes, TextPlace, AtFetch, AtLine,
       AtRead, AtReset, opt
  <1>6. CacheInv'
    <2> SUFFICES ASSUME Running', par'.reader = "cache"
                 PROVE  \E name, c, es, sort : FromCache(name, c, es, sort)'
      BY DEF CacheInv
    <2>1. PICK name, c, es, sort : FromCache(name, c, es, sort)
      BY <1>1 DEF PassInv, CacheInv, Running
    <2>2. Reads(name, c, es, sort)'
      BY <1>1, <2>1 DEF FromCache, Reads, opt
    <2>3. CachePlace(es, c, example_number)'
      BY <1>1, <1>4, <2>1 DEF FromCache, CachePlace, AtStart, AtEnd, ExamplePlace, AtLabel,
         AtTagSize, AtTag, AtNumIndices, AtIndex, AtFeatures, AtDecode, AtCached, Awaits
    <2> QED BY <2>2, <2>3 DEF FromCache
  <1> QED BY <1>2, <1>3, <1>5, <1>6 DEF PassInv

\* Where a running program is.
LEMMA TextIsAt ==
  ASSUME IInv, PassInv, Running, par.reader = "text", NEW t, t = scenario.text,
         NEW k, k = example_number
  PROVE  /\ Legible(t) /\ TextPlace(t, k) /\ Mode /\ opt \in Session /\ scenario \in Scenarios
         /\ opt.sort \in Sorts(scenario) /\ (par.write_cache => Writes(t, k))
         /\ CachesKept(scenario, disk)
  <1>1. SourceInv
    BY DEF IInv
  <1>2. scenario \in Scenarios /\ opt \in Session /\ opt.sort \in Sorts(scenario) /\ Legible(t)
    BY <1>1, RunningTyped
  <1> QED BY <1>2 DEF PassInv, TextInv, ModeInv, Reading

LEMMA CacheIsAt ==
  ASSUME IInv, PassInv, Running, par.reader = "cache", NEW k, k = example_number
  PROVE  /\ Mode /\ opt \in Session /\ scenario \in Scenarios /\ Legible(scenario.text)
         /\ opt.sort \in Sorts(scenario) /\ CachesKept(scenario, disk) /\ ~par.write_cache
         /\ \E name, c, es, sort :
              /\ Reads(name, c, es, sort) /\ c \in 0 .. MaxBits /\ es \in Seq(Filled(c))
              /\ CachePlace(es, c, k)
  <1>1. SourceInv
    BY DEF IInv
  <1>2. /\ scenario \in Scenarios /\ opt \in Session /\ opt.sort \in Sorts(scenario)
        /\ Legible(scenario.text)
    BY <1>1, RunningTyped
  <1>3. Mode /\ CachesKept(scenario, disk)
    BY DEF PassInv, ModeInv
  <1>4. ~par.write_cache
    BY <1>3 DEF Mode
  <1>5. PICK name, c, es, sort : FromCache(name, c, es, sort)
    BY DEF PassInv, CacheInv
  <1>6. Reads(name, c, es, sort) /\ CachePlace(es, c, k)
    BY <1>5 DEF FromCache
  <1>7. c \in 0 .. MaxBits /\ es \in Seq(Filled(c))
    BY <1>2, <1>6, ReadsTyped
  <1> QED BY <1>2, <1>3, <1>4, <1>6, <1>7

\* A round of one of the readers.
RoundSteps == Fetch \/ GotLine \/ PartReads

LEMMA TextRounds ==
  ASSUME IInv, PassInv, Running, par.reader = "text", RoundSteps
  PROVE  PassInv'
  <1>1. PICK t : t = scenario.text
    OBVIOUS
  <1>2. PICK k : k = example_number
    OBVIOUS
  <1>3. /\ Legible(t) /\ TextPlace(t, k) /\ Mode /\ opt \in Session
        /\ num_bits \in 0 .. MaxBits
    BY <1>1, <1>2, TextIsAt DEF Mode
  <1>4. pc \in {"fetch", "line", "read", "reset"}
    BY <1>3 DEF TextPlace, AtFetch, AtLine, AtRead, AtReset
  <1>5. Same
    BY DEF RoundSteps, PartReads, Fetch, InCall, GotLine, GotLabel, GotTagSize, GotTag,
       GotNumIndices, GotIndex, GotFeatures, Got, Decode, Same
  <1>6. Fetch \/ InCall \/ GotLine
    BY <1>4 DEF RoundSteps, PartReads, GotLabel, GotTagSize, GotTag, GotNumIndices, GotIndex,
       GotFeatures, Got, Decode
  <1>7. Running' => TextPlace(t, k)'
    <2>1. Running' => pc' # "exited"
      BY DEF Running
    <2> QED BY <1>3, <1>6, <2>1, TextFetches, TextWaits, TextGotLine
  <1> QED BY <1>1, <1>2, <1>5, <1>7, TextGoesOn

LEMMA CacheRounds ==
  ASSUME IInv, PassInv, Running, par.reader = "cache", RoundSteps
  PROVE  PassInv'
  <1>1. PICK k : k = example_number
    OBVIOUS
  <1>2. Mode /\ num_bits \in 0 .. MaxBits /\ num_bits \in Nat /\ par.sorted_cache \in BOOLEAN
    BY <1>1, CacheIsAt, WidthAssumption DEF Mode, ParserStates
  <1>3. PICK name, c, es, sort :
          /\ Reads(name, c, es, sort) /\ c \in 0 .. MaxBits /\ es \in Seq(Filled(c))
          /\ CachePlace(es, c, k)
    BY <1>1, CacheIsAt
  <1>4. Same
    BY DEF RoundSteps, PartReads, Fetch, InCall, GotLine, GotLabel, GotTagSize, GotTag,
       GotNumIndices, GotIndex, GotFeatures, Got, Decode, Same
  <1>5. pc # "line"
    BY <1>3, PlaceCases DEF CachePlace, AtStart, AtEnd, Parts
  <1>6. par.sorted_cache => num_bits = c
    BY <1>3 DEF Reads
  <1>7. CachePlace(es, c, k)'
    <2>1. Fetch \/ PartReads
      BY <1>5 DEF RoundSteps, GotLine
    <2> QED BY <1>2, <1>3, <1>6, <2>1, CacheFetches, CacheReads
  <1> QED BY <1>1, <1>3, <1>4, <1>7, CacheGoesOn

-----------------------------------------------------------------------------
(* The examples and the ends of the passes                                 *)

\* An example is delivered.
LEMMA TextMoves ==
  ASSUME IInv, PassInv, Running, par.reader = "text", Prepare
  PROVE  PassInv'
  <1>1. PICK t : t = scenario.text
    OBVIOUS
  <1>2. PICK k : k = example_number
    OBVIOUS
  <1>3. /\ Legible(t) /\ TextPlace(t, k) /\ Mode /\ opt \in Session
        /\ (par.write_cache => Writes(t, k)) /\ CachesKept(scenario, disk)
    BY <1>1, <1>2, TextIsAt
  <1>4. /\ CachesKept(scenario', disk')
        /\ pc' # "exited" => /\ TextPlace(t, k + 1)' /\ example_number' = k + 1
                             /\ par.write_cache => Writes(t, k + 1)'
    BY <1>1, <1>2, <1>3, TextPrepares
  <1>5. UNCHANGED <<scenario, session, num_bits, passes_complete, par, opened, finalname>>
    BY DEF Prepare
  <1>6. ModeInv'
    BY <1>3, <1>5, ModeKept DEF ModeInv
  <1>7. TextInv'
    <2> SUFFICES ASSUME Running'
                 PROVE  TextInv'
      BY DEF TextInv, Reading
    <2>1. pc' # "exited"
      BY DEF Running
    <2>2. PICK m : m = example_number'
      OBVIOUS
    <2>3. m = k + 1 /\ t = scenario'.text
      BY <1>1, <1>4, <1>5, <2>1, <2>2
    <2>4. TextPlace(t, m)' /\ (par.write_cache => Writes(t, m)')
      BY <1>4, <2>1, <2>3
    <2>5. TextPlace(scenario.text, example_number)'
      BY <2>2, <2>3, <2>4, PlaceNow
    <2>6. par.write_cache' => Writes(scenario.text, example_number)'
      BY <1>5, <2>2, <2>3, <2>4, PlaceNow
    <2> QED BY <2>5, <2>6 DEF TextInv
  <1>8. CacheInv'
    BY <1>5 DEF CacheInv
  <1>9. CachesKept(scenario, disk)'
    BY <1>4
  <1> QED BY <1>6, <1>7, <1>8, <1>9 DEF PassInv

LEMMA CacheMoves ==
  ASSUME IInv, PassInv, Running, par.reader = "cache", Prepare
  PROVE  PassInv'
  <1>1. PICK k : k = example_number
    OBVIOUS
  <1>2. /\ Mode /\ num_bits \in Nat /\ ~par.write_cache /\ opt \in Session
        /\ CachesKept(scenario, disk)
    BY <1>1, CacheIsAt, WidthAssumption DEF Mode
  <1>3. PICK name, c, es, sort :
          /\ Reads(name, c, es, sort) /\ c \in 0 .. MaxBits /\ es \in Seq(Filled(c))
          /\ CachePlace(es, c, k)
    BY <1>1, CacheIsAt
  <1>4. /\ CachePlace(es, c, k + 1)' /\ example_number' = example_number + 1 /\ UNCHANGED disk
    BY <1>2, <1>3, CachePrepares
  <1>5. UNCHANGED <<scenario, session, num_bits, passes_complete, par, opened, finalname>>
    BY DEF Prepare
  <1>6. PICK m : m = example_number'
    OBVIOUS
  <1>7. m = k + 1
    BY <1>1, <1>4, <1>6
  <1>8. CachePlace(es, c, m)'
    BY <1>4, <1>7
  <1>9. CachePlace(es, c, example_number)'
    BY <1>6, <1>8, CacheNow
  <1>10. Reads(name, c, es, sort)'
    BY <1>3, <1>4, <1>5 DEF Reads, opt
  <1>11. FromCache(name, c, es, sort)'
    BY <1>9, <1>10 DEF FromCache
  <1>12. CachesKept(scenario, disk)' /\ ModeInv' /\ TextInv' /\ CacheInv'
    BY <1>2, <1>4, <1>5, <1>11, ModeKept DEF ModeInv, TextInv, CacheInv, Reading
  <1> QED BY <1>12 DEF PassInv

\* The next pass, if there is one, reads a cache from its beginning.
LEMMA NextPass ==
  ASSUME EndPass, Mode, Mode', Running', par'.reader = "cache", CachesKept(scenario', disk'),
         call = NoCall, answer \in Seq(Int), UNCHANGED <<call, answer>>, Tidy(ae'),
         scenario' \in Scenarios,
         NEW name, NEW c, NEW es, NEW sort, Reads(name, c, es, sort)'
  PROVE  PassInv'
  <1>1. c \in 0 .. MaxBits /\ es \in Seq(Filled(c)) /\ Contents(disk', name) = Book(es)
    <2> DEFINE content == disk'[Final(name)]
    <2>1. Held(scenario', content, c, es, sort) /\ opened' = <<name>>
      BY DEF Reads, Held
    <2> HIDE DEF content
    <2>2. /\ SubSeq(content, 3, Len(content)) = Book(es)
          /\ c \in 0 .. MaxBits /\ es \in Seq(Filled(c))
      BY <2>1, HeldProperties
    <2> QED BY <2>2 DEF content, Contents
  <1>2. opened' = <<name>>
    BY DEF Reads
  <1>3. Rewound(<<Book(es)>>) /\ pc' = "fetch"
    BY <1>1, <1>2, PassRewinds
  <1>4. PICK z : z = 0
    OBVIOUS
  <1>5. CachePlace(es, c, z)'
    BY <1>1, <1>3, <1>4, CacheBegins
  <1>6. example_number' = z
    BY <1>4 DEF EndPass
  <1>7. CachePlace(es, c, example_number)'
    BY <1>5, <1>6, CacheNow
  <1>8. FromCache(name, c, es, sort)'
    BY <1>7 DEF FromCache
  <1>9. CachesKept(scenario, disk)' /\ ModeInv' /\ TextInv' /\ CacheInv'
    BY <1>8 DEF ModeInv, TextInv, CacheInv, Reading
  <1> QED BY <1>9 DEF PassInv

LEMMA TextEnds ==
  ASSUME IInv, PassInv, Running, par.reader = "text", EndPass
  PROVE  PassInv'
  <1>1. PICK t : t = scenario.text
    OBVIOUS
  <1>2. PICK k : k = example_number
    OBVIOUS
  <1>3. /\ Legible(t) /\ TextPlace(t, k) /\ Mode /\ opt \in Session /\ scenario \in Scenarios
        /\ opt.sort \in Sorts(scenario) /\ (par.write_cache => Writes(t, k))
        /\ CachesKept(scenario, disk)
    BY <1>1, <1>2, TextIsAt
  <1>4. /\ call = NoCall /\ UNCHANGED <<call, answer>> /\ answer \in Seq(Int) /\ Tidy(ae')
    BY <1>3, TextEnded
  <1>5. /\ UNCHANGED <<scenario, session, num_bits>> /\ opt' = opt
        /\ disk' = IF par.write_cache THEN Renamed(disk) ELSE disk
        /\ opened' = IF par.write_cache THEN <<finalname>> ELSE opened
        /\ par' = IF par.write_cache THEN [par EXCEPT !.write_cache = FALSE, !.reader = "cache"]
                                     ELSE par
    BY DEF EndPass, opt
  <1>6. CASE par.write_cache
    <2>1. CachesKept(scenario', disk') /\ finalname \in CacheNames
      BY <1>1, <1>2, <1>3, <1>6, CacheEnds
    <2>2. PICK es : Complete(scenario, disk'[Final(finalname)], num_bits, es, opt.sort)
      BY <1>1, <1>2, <1>3, <1>6, CacheEnds
    <2>3. CASE ~Running'
      <3>1. CachesKept(scenario, disk)' /\ ModeInv' /\ TextInv' /\ CacheInv'
        BY <2>1, <2>3 DEF ModeInv, TextInv, CacheInv, Reading
      <3> QED BY <3>1 DEF PassInv
    <2>4. CASE Running'
      <3>1. Mode' /\ par'.reader = "cache"
        BY <1>3, <2>4, ModeEnds
      <3>2. PICK name : name = finalname
        OBVIOUS
      <3>3. PICK c : c = num_bits
        OBVIOUS
      <3>4. PICK sort : sort = opt.sort
        OBVIOUS
      <3>5. c <= c
        BY <1>3, <3>3, WidthAssumption DEF Mode
      <3>6. Complete(scenario', disk'[Final(name)], c, es, sort)
        BY <1>5, <2>2, <3>2, <3>3, <3>4
      <3>7. name \in CacheNames /\ opened' = <<name>> /\ num_bits' = c
        BY <1>5, <1>6, <2>1, <3>2, <3>3
      <3>8. Reads(name, c, es, sort)'
        BY <3>5, <3>6, <3>7 DEF Reads
      <3>9. scenario' \in Scenarios
        BY <1>3, <1>5
      <3> QED BY <1>3, <1>4, <2>1, <2>4, <3>1, <3>8, <3>9, NextPass
    <2> QED BY <2>3, <2>4
  <1>7. CASE ~par.write_cache
    <2>1. ~Running'
      <3>1. par'.reader = "text"
        BY <1>5, <1>7
      <3> QED BY <1>3, <3>1, ModeEnds
    <2> QED BY <1>5, <1>7, <2>1, StopPasses
  <1> QED BY <1>6, <1>7

LEMMA CacheFinishes ==
  ASSUME IInv, PassInv, Running, par.reader = "cache", EndPass
  PROVE  PassInv'
  <1>1. PICK k : k = example_number
    OBVIOUS
  <1>2. /\ Mode /\ opt \in Session /\ ~par.write_cache /\ scenario \in Scenarios
        /\ CachesKept(scenario, disk)
    BY <1>1, CacheIsAt
  <1>3. PICK name, c, es, sort :
          /\ Reads(name, c, es, sort) /\ c \in 0 .. MaxBits /\ es \in Seq(Filled(c))
          /\ CachePlace(es, c, k)
    BY <1>1, CacheIsAt
  <1>4. /\ call = NoCall /\ UNCHANGED <<call, answer>> /\ answer \in Seq(Int) /\ Tidy(ae')
    BY <1>3, CacheEnded
  <1>5. UNCHANGED <<scenario, session, num_bits, disk, opened, par>> /\ opt' = opt
    BY <1>2 DEF EndPass, opt
  <1>6. CASE ~Running'
    BY <1>5, <1>6, StopPasses
  <1>7. CASE Running'
    <2>1. Mode'
      BY <1>2, <1>7, ModeEnds
    <2>2. Reads(name, c, es, sort)'
      BY <1>3, <1>5 DEF Reads
    <2>3. CachesKept(scenario', disk') /\ scenario' \in Scenarios /\ par'.reader = "cache"
      BY <1>2, <1>5
    <2> QED BY <1>2, <1>4, <1>7, <2>1, <2>2, <2>3, NextPass
  <1> QED BY <1>6, <1>7

\* All steps.
LEMMA PassKept ==
  ASSUME OneCache, IInv, PassInv, [Next]_vars
  PROVE  PassInv'
  <1>1. ASSUME Running PROVE par.reader \in {"text", "cache"}
    BY DEF IInv, SourceInv, ParserStates
  <1>2. CASE Start
    BY <1>2, StartReads
  <1>3. CASE Kill \/ Launch
    BY <1>3, KillPasses
  <1>4. CASE UNCHANGED vars
    BY <1>4, SamePasses
  <1>5. CASE RoundSteps
    <2>1. CASE ~Running
      <3>1. pc \in {"start", "done", "exited", "killed"}
        BY <2>1 DEF Running
      <3>2. InCall
        BY <1>5, <3>1 DEF RoundSteps, PartReads, Fetch, GotLine, GotLabel, GotTagSize, GotTag,
           GotNumIndices, GotIndex, GotFeatures, Got, Decode
      <3>3. pc' = pc /\ UNCHANGED <<scenario, disk>>
        BY <3>2 DEF InCall
      <3>4. ~Running'
        BY <2>1, <3>3 DEF Running
      <3> QED BY <3>3, <3>4, StopPasses
    <2> QED BY <1>1, <1>5, <2>1, TextRounds, CacheRounds
  <1>6. CASE Prepare
    <2>1. Running
      BY <1>6 DEF Prepare, Running
    <2> QED BY <1>1, <1>6, <2>1, TextMoves, CacheMoves
  <1>7. CASE EndPass
    <2>1. Running
      BY <1>7 DEF EndPass, Running
    <2> QED BY <1>1, <1>7, <2>1, TextEnds, CacheFinishes
  <1> QED BY <1>2, <1>3, <1>4, <1>5, <1>6, <1>7 DEF Next, Step, Finished, RoundSteps, PartReads

\* The state of the buffer, of the caches and of the reader.
WholeInv == IInv /\ PassInv

LEMMA WholeKept ==
  ASSUME OneCache, WholeInv, [Next]_vars
  PROVE  WholeInv' /\ StreamStep
  <1>1. IInv /\ PassInv
    BY DEF WholeInv
  <1>2. PassInv'
    BY <1>1, PassKept
  <1>3. Sizes /\ Cells
    BY <1>1, AskedSizes
  <1>4. Cells'
    BY <1>2 DEF PassInv, CachesKept, Cells
  <1>5. IInv' /\ StreamStep
    BY <1>1, <1>3, <1>4, NextStep
  <1> QED BY <1>2, <1>5 DEF WholeInv

-----------------------------------------------------------------------------
(* What the readers have read.                                             *)

\* Sessions that are to share a cache agree on --sort_features.
SameSort ==
  \A i, j \in DOMAIN scenario.sessions : scenario.sessions[i].sort = scenario.sessions[j].sort

\* An example that was read: those that its line may become are cached and
\* delivered, and it is in order if its reader claims so.
LEMMA ExampleRead ==
  ASSUME IInv, PassInv, pc = "read", NEW k, k = example_number
  PROVE  /\ opt \in Session /\ num_bits \in 0 .. MaxBits /\ num_bits \in Nat
         /\ ae \in Filled(num_bits) /\ (ae.sorted => AllRising(ae))
         /\ Legible(scenario.text) /\ k \in 0 .. LineCount(scenario.text)
         /\ k < LineCount(scenario.text)
         /\ SameSort => Delivers(scenario.text[2 * k + 1], num_bits, opt.sort, ae)
  <1>1. Running /\ par.reader \in {"text", "cache"}
    BY DEF Running, IInv, SourceInv, ParserStates
  <1>2. CASE par.reader = "text"
    <2>1. PICK t : t = scenario.text
      OBVIOUS
    <2>2. Legible(t) /\ TextPlace(t, k) /\ Mode /\ opt \in Session
      BY <1>1, <1>2, <2>1, TextIsAt
    <2>3. AtRead(t, k) /\ k \in 0 .. LineCount(t)
      BY <2>2 DEF TextPlace, AtFetch, AtLine, AtReset
    <2>4. num_bits \in 0 .. MaxBits /\ num_bits \in Nat
      BY <2>2, WidthAssumption DEF Mode
    <2> QED BY <2>1, <2>2, <2>3, <2>4 DEF AtRead
  <1>3. CASE par.reader = "cache"
    <2>1. /\ Mode /\ opt \in Session /\ scenario \in Scenarios /\ Legible(scenario.text)
          /\ opt.sort \in Sorts(scenario)
      BY <1>1, <1>3, CacheIsAt
    <2>2. PICK name, c, es, sort :
            /\ Reads(name, c, es, sort) /\ c \in 0 .. MaxBits /\ es \in Seq(Filled(c))
            /\ CachePlace(es, c, k)
      BY <1>1, <1>3, CacheIsAt
    <2>3. k < Len(es) /\ k \in 0 .. Len(es) /\ ExamplePlace(es[k + 1], c, Later(es, k + 1))
      BY <2>2 DEF CachePlace, AtStart, AtEnd
    <2>4. AtCached(es[k + 1], c, Later(es, k + 1))
      BY <2>3, PlaceCases
    <2> DEFINE e == es[k + 1]
    <2>5. SameLabel(e, ae) /\ Fills(ae, num_bits, c, e, Len(e.indices), Len(e.indices), 0)
      BY <2>4 DEF AtCached
    <2>6. e \in Filled(c) /\ c \in Nat
      BY <2>2, <2>3, CacheTyped
    <2>7. e = es[k + 1]
      OBVIOUS
    <2> HIDE DEF e
    <2>8. num_bits \in 0 .. MaxBits /\ num_bits \in Nat /\ num_bits <= c
      BY <2>1, <2>2, WidthAssumption DEF Mode, Reads
    <2>9. /\ ae \in Filled(num_bits) /\ Alike(e, ae, num_bits)
          /\ ae.sorted => num_bits = c /\ AllRising(ae)
      BY <2>5, <2>6, <2>8, ExampleFilled
    <2>10. Complete(scenario, disk[Final(name)], c, es, sort)
      <3>1. ASSUME es = <<>> PROVE FALSE
        <4>1. Len(es) = 0
          BY <3>1
        <4> QED BY <2>3, <4>1
      <3> QED BY <2>2, <3>1 DEF Reads, Outdated
    <2>11. /\ sort \in Sorts(scenario)
           /\ es \in Examples(scenario.text, LineCount(scenario.text), c, sort)
      BY <2>10 DEF Complete
    <2>12. k < LineCount(scenario.text) /\ k \in 0 .. LineCount(scenario.text)
      BY <2>3, <2>11 DEF Examples
    <2>13. k \in Nat /\ k + 1 \in 1 .. LineCount(scenario.text) /\ 2 * (k + 1) - 1 = 2 * k + 1
      BY <2>1, <2>12, TextPlaced
    <2>14. e \in FromText(scenario.text[2 * k + 1], c, sort)
      BY <2>7, <2>11, <2>13 DEF Examples
    <2>15. scenario.text[2 * k + 1] \in DOMAIN Line
      BY <2>1, <2>12, TextPlaced
    <2>16. ASSUME SameSort
           PROVE  Delivers(scenario.text[2 * k + 1], num_bits, opt.sort, ae)
      <3>1. sort = opt.sort
        BY <2>1, <2>11, <2>16 DEF Sorts, SameSort
      <3>2. opt.sort \in BOOLEAN
        BY <2>1 DEF Session
      <3> DEFINE l == scenario.text[2 * k + 1]
                 so == opt.sort
      <3>3. l \in DOMAIN Line /\ so \in BOOLEAN /\ e \in FromText(l, c, so)
        BY <2>14, <2>15, <3>1, <3>2
      <3> HIDE DEF l, so
      <3>4. Delivers(l, num_bits, so, ae)
        BY <2>6, <2>8, <2>9, <3>3, CacheDelivers
      <3> QED BY <3>4 DEF l, so
    <2> QED BY <2>1, <2>8, <2>9, <2>12, <2>16
  <1> QED BY <1>1, <1>2, <1>3

\* What parse_atomic_example has, its features sorted if they are to be.
LEMMA ReadSorted ==
  ASSUME IInv, PassInv, pc = "read", NEW e \in Sorted(ae)
  PROVE  e \in Filled(num_bits) /\ (opt.sort => AllRising(e))
  <1>1. PICK k : k = example_number
    OBVIOUS
  <1>2. num_bits \in Nat /\ ae \in Filled(num_bits) /\ (ae.sorted => AllRising(ae))
    BY <1>1, ExampleRead
  <1>3. CASE NeedsSort(ae)
    <2>1. e \in UniqueSortFeatures(ae)
      BY <1>3 DEF Sorted
    <2>2. e \in Filled(num_bits) /\ \A ns \in Namespaces : Increasing(e.atomics[ns])
      BY <1>2, <2>1, SortedFilled
    <2>3. ASSUME NEW ns \in Namespaces PROVE Rising(e.atomics[ns])
      <3> DEFINE fs == e.atomics[ns]
      <3>1. Increasing(fs) /\ fs \in Seq(Within(num_bits))
        BY <2>2 DEF Filled, Slots
      <3> HIDE DEF fs
      <3>2. ASSUME NEW i \in 1 .. Len(fs) - 1
            PROVE  fs[i].weight_index <= fs[i + 1].weight_index
        <4>1. i \in 1 .. Len(fs) /\ i + 1 \in 1 .. Len(fs)
          BY <3>1
        <4>2. fs[i] \in Within(num_bits) /\ fs[i + 1] \in Within(num_bits)
          BY <3>1, <4>1
        <4>3. fs[i].weight_index < fs[i + 1].weight_index
          BY <3>1, <4>1 DEF Increasing
        <4>4. Pow2[num_bits] \in Nat
          BY <1>2, Pow2Step
        <4> QED BY <4>2, <4>3, <4>4 DEF Within
      <3> QED BY <3>2 DEF Rising, fs
    <2> QED BY <2>2, <2>3 DEF AllRising
  <1>4. CASE ~NeedsSort(ae)
    <2>1. e = ae
      BY <1>4 DEF Sorted
    <2> QED BY <1>2, <1>4, <2>1 DEF NeedsSort
  <1> QED BY <1>3, <1>4

LEMMA ReadFits ==
  ASSUME WholeInv
  PROVE  OutFits /\ SortedWhenClaimed
  <1>1. ASSUME pc = "read", NEW e \in Sorted(ae), NEW piece \in ToSet(CacheExample(e))
        PROVE  Len(piece.cells) <= piece.room
    <2>1. IInv /\ PassInv
      BY DEF WholeInv
    <2>2. e \in Filled(num_bits) /\ num_bits \in 0 .. MaxBits
      BY <1>1, <2>1, ReadSorted, ExampleRead
    <2> DEFINE s == CacheExample(e)
    <2>3. /\ s \in Seq(Piece)
          /\ \A i \in 1 .. Len(s) : Len(s[i].cells) <= s[i].room
      BY <2>2, PiecesTyped
    <2> HIDE DEF s
    <2>4. ToSet(s) = {s[i] : i \in 1 .. Len(s)}
      BY <2>3 DEF ToSet
    <2> QED BY <1>1, <2>3, <2>4 DEF s
  <1>2. ASSUME pc = "read", ae.sorted
        PROVE  InOrder
    <2>1. IInv /\ PassInv
      BY DEF WholeInv
    <2>2. ae \in Filled(num_bits) /\ AllRising(ae)
      BY <1>2, <2>1, ExampleRead
    <2>3. ToSet(ae.indices) \subseteq Namespaces
      <3>1. ae.indices \in Seq(Namespaces)
        BY <2>2 DEF Filled, Slots
      <3> QED BY <3>1 DEF ToSet
    <2> QED BY <2>2, <2>3 DEF InOrder, AllRising, Rising
  <1> QED BY <1>1, <1>2 DEF OutFits, SortedWhenClaimed

\* An older version's cache is only there if all sessions ask for bits: it is made
\* again then, and read as an empty one otherwise.
OldRebuilt ==
  scenario.old # {} => \A i \in DOMAIN scenario.sessions : scenario.sessions[i].bits # 0

LEMMA PassesWhole ==
  ASSUME OldRebuilt, WholeInv
  PROVE  WholePass
  <1> SUFFICES ASSUME pc = "reset"
               PROVE  example_number = Len(Lines) * (IF opened = <<>> THEN 1 ELSE Len(opened))
    BY DEF WholePass
  <1>1. /\ IInv /\ PassInv /\ Running /\ par.reader \in {"text", "cache"}
        /\ scenario \in Scenarios /\ session \in DOMAIN scenario.sessions
    <2>1. Running /\ IInv /\ PassInv
      BY DEF WholeInv, Running
    <2>2. par.reader \in {"text", "cache"} /\ SourceInv
      BY <2>1 DEF IInv, SourceInv, ParserStates
    <2> QED BY <2>1, <2>2, RunningTyped
  <1>2. PICK k : k = example_number
    OBVIOUS
  <1>3. CASE par.reader = "text"
    <2>1. PICK t : t = scenario.text
      OBVIOUS
    <2>2. Legible(t) /\ TextPlace(t, k) /\ Mode
      BY <1>1, <1>2, <1>3, <2>1, TextIsAt
    <2>3. k = LineCount(t)
      BY <2>2 DEF TextPlace, AtFetch, AtLine, AtRead, AtReset
    <2>4. opened = <<>>
      BY <1>3, <2>2 DEF Mode
    <2>5. Len(Lines) = LineCount(t) /\ LineCount(t) \in Nat
      BY <2>1, <2>2, LinesTyped
    <2> QED BY <1>2, <2>3, <2>4, <2>5
  <1>4. CASE par.reader = "cache"
    <2>1. Legible(scenario.text) /\ opt \in Session
      BY <1>1, <1>2, <1>4, CacheIsAt
    <2>2. PICK name, c, es, sort :
            /\ Reads(name, c, es, sort) /\ c \in 0 .. MaxBits /\ es \in Seq(Filled(c))
            /\ CachePlace(es, c, k)
      BY <1>1, <1>2, <1>4, CacheIsAt
    <2>3. k = Len(es)
      BY <2>2, PlaceCases DEF CachePlace, AtStart, AtEnd, Parts
    <2>4. ~Outdated(scenario, disk[Final(name)], c, es) \/ opt.bits # 0
      BY <1>1 DEF Outdated, OldRebuilt, opt
    <2>5. Complete(scenario, disk[Final(name)], c, es, sort)
      BY <2>2, <2>4 DEF Reads
    <2>6. Len(es) = LineCount(scenario.text)
      BY <2>5 DEF Complete, Examples
    <2>7. Len(Lines) = LineCount(scenario.text) /\ LineCount(scenario.text) \in Nat
      BY <2>1, LinesTyped
    <2>8. Len(opened) = 1 /\ opened # <<>>
      <3>1. opened = <<name>>
        BY <2>2 DEF Reads
      <3> QED BY <3>1
    <2> QED BY <1>2, <2>3, <2>6, <2>7, <2>8
  <1> QED BY <1>1, <1>3, <1>4

-----------------------------------------------------------------------------
(* What the learner gets.                                                  *)

LEMMA OnlyPrepared ==
  ASSUME [Next]_vars, Delivered'
  PROVE  \/ Prepare /\ pc' = "fetch"
         \/ UNCHANGED <<pc, ae, example_number, scenario, session, num_bits>>
  <1>1. pc' = "fetch" /\ example_number' > 0 /\ example_number' # 0
    BY DEF Delivered
  <1>2. ~Start /\ ~EndPass
    BY <1>1 DEF Start, EndPass
  <1>3. ~Launch /\ ~Kill /\ ~Fetch /\ ~GotLine
    BY <1>1 DEF Launch, Kill, Fetch, GotLine
  <1>4. ~GotLabel /\ ~GotTagSize /\ ~GotTag /\ ~GotIndex /\ ~GotFeatures
    BY <1>1 DEF GotLabel, GotTagSize, GotTag, GotIndex, GotFeatures, Got
  <1>5. ~GotNumIndices /\ ~Decode
    BY <1>1 DEF GotNumIndices, Decode, Got, NextNamespace
  <1>6. InCall \/ UNCHANGED vars
          => UNCHANGED <<pc, ae, example_number, scenario, session, num_bits>>
    BY DEF InCall, vars, processVars, readerVars
  <1> QED BY <1>1, <1>2, <1>3, <1>4, <1>5, <1>6 DEF Next, Step, Finished

LEMMA ExamplePrepared ==
  ASSUME IInv, PassInv, Prepare, pc' = "fetch"
  PROVE  /\ example_number' = example_number + 1 /\ UNCHANGED <<scenario, session, num_bits>>
         /\ opt' = opt /\ Mask' = Mask /\ Mask = Pow2[num_bits] - 1
         /\ \E e \in Sorted(ae) : e \in Filled(num_bits) /\ (opt.sort => AllRising(e))
                                  /\ ae' = Made(e, opt, Pow2[num_bits] - 1)
  <1>1. pc = "read" /\ UNCHANGED <<scenario, session, num_bits>>
    BY DEF Prepare
  <1>2. opt' = opt /\ Mask' = Mask /\ Mask = Pow2[num_bits] - 1
    BY <1>1 DEF opt, Mask
  <1>3. PICK e \in Sorted(ae) :
          ae' = SetupExample(Grams(e), opt, Mask) /\ example_number' = example_number + 1
    BY DEF Prepare
  <1>4. ae' = Made(e, opt, Pow2[num_bits] - 1)
    BY <1>2, <1>3 DEF Made, Grammed, Grams
  <1>5. e \in Filled(num_bits) /\ (opt.sort => AllRising(e))
    BY <1>1, <1>3, ReadSorted
  <1> QED BY <1>1, <1>2, <1>3, <1>4, <1>5

\* What agrees with an example its line may become is delivered as that.
LEMMA TransparentPrepared ==
  ASSUME SameSort, IInv, PassInv, Prepare, pc' = "fetch"
  PROVE  Transparent'
  <1>1. PICK k : k = example_number
    OBVIOUS
  <1>2. PICK e \in Sorted(ae) :
          /\ e \in Filled(num_bits) /\ ae' = Made(e, opt, Pow2[num_bits] - 1)
    BY ExamplePrepared
  <1>3. /\ example_number' = k + 1 /\ UNCHANGED <<scenario, session, num_bits>>
        /\ opt' = opt /\ Mask = Pow2[num_bits] - 1 /\ Mask' = Mask
    BY <1>1, ExamplePrepared
  <1>4. /\ opt \in Session /\ num_bits \in Nat /\ Legible(scenario.text)
        /\ k \in 0 .. LineCount(scenario.text) /\ k < LineCount(scenario.text)
        /\ Delivers(scenario.text[2 * k + 1], num_bits, opt.sort, ae)
    <2>1. pc = "read"
      BY DEF Prepare
    <2> QED BY <1>1, <2>1, ExampleRead
  <1>5. PICK l : l = scenario.text[2 * k + 1]
    OBVIOUS
  <1>6. PICK f \in FromText(l, num_bits, opt.sort) : Agree(f, e)
    <2>1. e \in IF opt.sort /\ ~ae.sorted THEN UniqueSortFeatures(ae) ELSE {ae}
      BY <1>2 DEF Sorted, NeedsSort
    <2> QED BY <1>4, <1>5, <2>1 DEF Delivers
  <1>7. /\ Len(Lines) = LineCount(scenario.text) /\ LineCount(scenario.text) \in Nat
        /\ k + 1 \in 1 .. LineCount(scenario.text)
        /\ Lines[k + 1] = l /\ l \in DOMAIN Line
    <2>1. LineCount(scenario.text) \in Nat /\ Len(Lines) = LineCount(scenario.text)
      BY <1>4, LinesTyped
    <2>2. k + 1 \in 1 .. LineCount(scenario.text) /\ 2 * (k + 1) - 1 = 2 * k + 1
      BY <1>4, <2>1
    <2> QED BY <1>4, <1>5, <2>1, <2>2, LinesTyped
  <1>8. (((k + 1) - 1) % Len(Lines)) + 1 = k + 1
    <2> DEFINE n == Len(Lines)
    <2>1. n \in Nat /\ k \in Nat /\ k < n
      BY <1>4, <1>7
    <2> HIDE DEF n
    <2>2. k % n = k
      BY <2>1
    <2>3. (k + 1) - 1 = k
      BY <2>1
    <2>4. (((k + 1) - 1) % n) + 1 = k + 1
      BY <2>2, <2>3
    <2> QED BY <2>4 DEF n
  <1>9. Lines[(((k + 1) - 1) % Len(Lines)) + 1] = l
    BY <1>7, <1>8
  <1> DEFINE g == Made(f, opt, Pow2[num_bits] - 1)
             a == Made(e, opt, Pow2[num_bits] - 1)
  <1>10. f \in Filled(num_bits) /\ Kin(f, f) /\ Kin(e, e)
    <2>1. opt.sort \in BOOLEAN
      BY <1>4 DEF Session
    <2> QED BY <1>2, <1>4, <1>6, <1>7, <2>1, FromTextFilled, FilledKin
  <1>11. Kin(g, f) /\ Kin(a, e) /\ Agree(g, a)
    BY <1>6, <1>10, MadeAgree
  <1>12. Kin(g, g) /\ Kin(a, a)
    BY <1>11, KinSelf
  <1> HIDE DEF g, a
  <1>13. [g EXCEPT !.initial = a.initial, !.sorted = a.sorted] = a
    BY <1>11, <1>12, AgreeExcept
  <1>14. g \in Expected(k + 1)
    <2>1. g = SetupExample(Grams(f), opt, Mask)
      BY <1>3 DEF g, Made, Grammed, Grams
    <2>2. f \in FromText(Lines[(((k + 1) - 1) % Len(Lines)) + 1], num_bits, opt.sort)
      BY <1>6, <1>9
    <2> QED BY <2>1, <2>2 DEF Expected
  <1>15. Expected(k + 1)' = Expected(k + 1)
    BY <1>3 DEF Expected, Lines, Grams
  <1>16. Expected(example_number)' = Expected(k + 1)
    <2>1. PICK n : n = example_number'
      OBVIOUS
    <2>2. Expected(example_number)' = Expected(n)'
      BY <2>1 DEF Expected
    <2>3. n = k + 1
      BY <1>3, <2>1
    <2> QED BY <1>15, <2>2, <2>3
  <1>17. ae' = a
    BY <1>2 DEF a
  <1> QED BY <1>13, <1>14, <1>16, <1>17 DEF Transparent

\* Threads are no more than weights, and a session of several says how many bits
\* there are.
EnoughWeights ==
  \A i \in DOMAIN scenario.sessions :
    scenario.sessions[i].partition_bits <= scenario.sessions[i].bits

BitsInv == Running /\ opt.bits # 0 => num_bits = opt.bits

LEMMA BitsKept ==
  ASSUME OneCache, IInv, PassInv, BitsInv, [Next]_vars
  PROVE  BitsInv'
  <1>1. CASE Start
    <2>1. num_bits' = AfterCaches.num_bits /\ opt' = opt
      BY <1>1 DEF Start, opt
    <2>2. OnlyText \/ \E name \in CacheNames : WritesCache(name) \/ ReadsCache(name)
      BY <1>1, StartFinds
    <2>3. opt.bits # 0 => AfterCaches.num_bits = opt.bits
      BY <2>2 DEF OnlyText, Begun, WritesCache, ReadsCache, BitsAsked, BitsOf
    <2> QED BY <2>1, <2>3 DEF BitsInv
  <1>2. CASE Launch \/ Kill
    BY <1>2 DEF Launch, Kill, BitsInv, Running
  <1>3. ASSUME UNCHANGED <<scenario, session, num_bits>>, Running \/ ~Running'
        PROVE  BitsInv'
    BY <1>3 DEF BitsInv, opt
  <1>4. Fetch \/ GotLine \/ GotLabel \/ GotTagSize \/ GotTag \/ GotNumIndices
          \/ GotIndex \/ GotFeatures \/ Decode \/ Prepare \/ EndPass
        => UNCHANGED <<scenario, session, num_bits>> /\ Running
    BY DEF Fetch, GotLine, GotLabel, GotTagSize, GotTag, GotNumIndices, GotIndex,
       GotFeatures, Got, Decode, Prepare, EndPass, Running, Same, processVars
  <1>5. InCall \/ UNCHANGED vars
          => UNCHANGED <<scenario, session, num_bits>> /\ (Running \/ ~Running')
    BY DEF InCall, vars, processVars, Running
  <1> QED BY <1>1, <1>2, <1>3, <1>4, <1>5 DEF Next, Step, Finished

\* Features in order, two at a time.
LEMMA RisingPairs ==
  ASSUME NEW fs, Len(fs) \in Nat, Rising(fs), \A i \in 1 .. Len(fs) : fs[i].weight_index \in Int
  PROVE  \A i, j \in 1 .. Len(fs) : i <= j => fs[i].weight_index <= fs[j].weight_index
  <1> SUFFICES ASSUME NEW i \in 1 .. Len(fs)
               PROVE  \A j \in 1 .. Len(fs) : i <= j => fs[i].weight_index <= fs[j].weight_index
    OBVIOUS
  <1> DEFINE n == Len(fs)
             S == {j \in Nat : i + j <= n => fs[i].weight_index <= fs[i + j].weight_index}
  <1>1. n \in Nat /\ i \in 1 .. n
    OBVIOUS
  <1> HIDE DEF n
  <1>2. 0 \in S
    <2>1. fs[i].weight_index \in Int /\ i + 0 = i
      BY <1>1 DEF n
    <2> QED BY <2>1
  <1>3. ASSUME NEW j \in Nat, j \in S PROVE j + 1 \in S
    <2>1. CASE i + (j + 1) <= n
      <3>1. i + j <= n /\ i + j \in 1 .. n - 1 /\ i + j \in 1 .. n /\ (i + j) + 1 \in 1 .. n
            /\ i + (j + 1) = (i + j) + 1
        BY <1>1, <2>1
      <3>2. fs[i].weight_index <= fs[i + j].weight_index
        BY <1>3, <3>1
      <3>3. fs[i + j].weight_index <= fs[(i + j) + 1].weight_index
        BY <3>1 DEF Rising, n
      <3>4. /\ fs[i].weight_index \in Int /\ fs[i + j].weight_index \in Int
            /\ fs[(i + j) + 1].weight_index \in Int
        BY <1>1, <3>1 DEF n
      <3> QED BY <3>1, <3>2, <3>3, <3>4
    <2> QED BY <2>1
  <1>4. \A j \in Nat : j \in S
    <2> HIDE DEF S
    <2> QED BY <1>2, <1>3, SetInduction
  <1>5. ASSUME NEW j \in 1 .. n, i <= j
        PROVE  fs[i].weight_index <= fs[j].weight_index
    <2>1. j - i \in Nat /\ i + (j - i) = j /\ i + (j - i) <= n
      BY <1>1, <1>5
    <2>2. j - i \in S
      BY <1>4, <2>1
    <2> QED BY <2>1, <2>2
  <1> QED BY <1>5 DEF n

LEMMA SharesPrepared ==
  ASSUME EnoughWeights, BitsInv, IInv, PassInv, Prepare, pc' = "fetch"
  PROVE  ThreadsShareOut'
  <1>1. PICK o : o = opt
    OBVIOUS
  <1>2. PICK b : b = num_bits
    OBVIOUS
  <1>3. PICK e \in Sorted(ae) :
          e \in Filled(b) /\ (o.sort => AllRising(e)) /\ ae' = Made(e, o, Pow2[b] - 1)
    BY <1>1, <1>2, ExamplePrepared
  <1>4. /\ opt' = o /\ Mask' = Pow2[b] - 1
    BY <1>1, <1>2, ExamplePrepared
  <1>5. /\ o \in Session /\ b \in Nat /\ pc = "read" /\ Running
    <2>1. PICK k : k = example_number
      OBVIOUS
    <2>2. pc = "read" /\ Running
      BY DEF Prepare, Running
    <2> QED BY <1>1, <1>2, <2>1, <2>2, ExampleRead
  <1>6. /\ o.partition_bits \in Nat /\ o.stride \in Nat \ {0} /\ (o.sort => o.ngram = 1)
        /\ o.bits \in Nat /\ o.sort \in BOOLEAN
    BY <1>5, WidthAssumption DEF Session
  <1>7. o.partition_bits <= b
    <2>1. scenario \in Scenarios /\ session \in DOMAIN scenario.sessions
      BY <1>5, RunningTyped DEF IInv
    <2>2. o.partition_bits <= o.bits
      BY <1>1, <2>1 DEF EnoughWeights, opt
    <2>3. o.bits # 0 => b = o.bits
      BY <1>1, <1>2, <1>5 DEF BitsInv
    <2> QED BY <1>5, <1>6, <2>2, <2>3
  <1> DEFINE r == Made(e, o, Pow2[b] - 1)
             p == o.partition_bits
             threads == Pow2[p]
             per == Pow2[b - p]
             length == (Pow2[b] - 1) + 1
  <1>8. /\ Arranged(r, Far(b, o.stride))
        /\ \A ns \in ToSet(r.indices) : r.subsets[ns] = Cuts(r.atomics[ns], o, Pow2[b] - 1)
        /\ o.sort => AllRising(r)
    BY <1>3, <1>5, <1>6, MadeArranged
  <1>9. /\ threads \in Nat \ {0} /\ per \in Nat \ {0} /\ length = threads * per
        /\ length = Pow2[b] /\ p \in Nat
    <2>1. Pow2[b] = Pow2[b - p] * Pow2[p]
      BY <1>5, <1>6, <1>7, Pow2Grows
    <2>2. b - p \in Nat
      BY <1>5, <1>6, <1>7
    <2>3. threads \in Nat \ {0} /\ per \in Nat \ {0} /\ Pow2[b] \in Nat
      BY <1>5, <1>6, <2>2, Pow2Step
    <2>4. length = Pow2[b]
      BY <2>3
    <2> HIDE DEF length, threads, per
    <2>5. Pow2[b] = per * threads
      BY <2>1 DEF per, threads
    <2> QED BY <1>6, <2>3, <2>4, <2>5
  <1>10. ASSUME NEW ns \in ToSet(r.indices)
         PROVE  LET fs   == r.atomics[ns]
                    cuts == r.subsets[ns]
                    size == ExpertSize(length, o.stride, p)
                IN  /\ Len(cuts) = threads + 1
                    /\ cuts[1] = 1 /\ Last(cuts) = Len(fs) + 1
                    /\ \A t \in 1 .. Len(cuts) - 1 :
                         /\ cuts[t] <= cuts[t + 1]
                         /\ o.sort => \A i \in cuts[t] .. cuts[t + 1] - 1 :
                                        fs[i].weight_index \div size = t - 1
    <2> DEFINE fs == r.atomics[ns]
               F == Far(b, o.stride)
    <2>1. ns \in Namespaces /\ fs \in Seq(F)
      <3>1. r.indices \in Seq(Namespaces) /\ r.atomics \in [Namespaces -> Seq(F)]
        BY <1>8 DEF Arranged
      <3> HIDE DEF r, F
      <3>2. ns \in Namespaces
        BY <1>10, <3>1 DEF ToSet
      <3> QED BY <3>1, <3>2
    <2>2. F \subseteq Feature
      <3>1. (Pow2[b] * o.stride) - 1 \in Int
        BY <1>6, <1>9
      <3> QED BY <3>1 DEF Far, Feature
    <2>3. /\ fs \in Seq(Feature) /\ Len(fs) \in Nat
          /\ \A i \in 1 .. Len(fs) : /\ fs[i].weight_index \in 0 .. length * o.stride - 1
                                     /\ fs[i].weight_index \in Int
      <3> HIDE DEF fs, F
      <3>1. Seq(F) \subseteq Seq(Feature)
        BY <2>2, SeqMonotonic
      <3>2. fs \in Seq(Feature) /\ Len(fs) \in Nat /\ \A i \in 1 .. Len(fs) : fs[i] \in F
        BY <2>1, <3>1
      <3>3. F = [x : Int, weight_index : 0 .. length * o.stride - 1]
        BY <1>9 DEF F, Far
      <3>4. length * o.stride - 1 \in Int
        BY <1>6, <1>9
      <3> HIDE DEF length
      <3> QED BY <3>2, <3>3, <3>4
    <2>4. r.subsets[ns] = Cut(fs, length, o.stride, p)
      BY <1>8, <1>10 DEF Cuts
    <2>5. ASSUME o.sort
          PROVE  \A i, j \in 1 .. Len(fs) : i <= j => fs[i].weight_index <= fs[j].weight_index
      <3>1. Rising(fs)
        BY <1>8, <2>1, <2>5 DEF AllRising
      <3> HIDE DEF fs
      <3> QED BY <2>3, <3>1, RisingPairs
    <2>6. SharedOut(fs, length, o.stride, p)
      <3> DEFINE len == length
                 stride == o.stride
                 q == p
      <3>1. /\ fs \in Seq(Feature) /\ q \in Nat /\ stride \in Nat \ {0}
            /\ \E x \in Nat \ {0} : len = Pow2[q] * x
            /\ \A i \in 1 .. Len(fs) : fs[i].weight_index \in 0 .. len * stride - 1
        BY <1>6, <1>9, <2>3
      <3> HIDE DEF fs, len, stride, q
      <3>2. SharedOut(fs, len, stride, q)
        BY <3>1, FeaturesSharedOut
      <3> QED BY <3>2 DEF len, stride, q
    <2> DEFINE cuts == r.subsets[ns]
               size == ExpertSize(length, o.stride, p)
    <2> HIDE DEF fs, length, r
    <2>7. /\ Len(cuts) = threads + 1 /\ cuts[1] = 1 /\ Last(cuts) = Len(fs) + 1
          /\ \A t \in 1 .. threads :
               /\ cuts[t] <= cuts[t + 1]
               /\ o.sort => \A i \in cuts[t] .. cuts[t + 1] - 1 :
                              fs[i].weight_index \div size = t - 1
      BY <2>4, <2>5, <2>6 DEF SharedOut
    <2>8. Len(cuts) - 1 = threads
      BY <1>9, <2>7
    <2> HIDE DEF cuts, size
    <2>9. /\ Len(cuts) = threads + 1 /\ cuts[1] = 1 /\ Last(cuts) = Len(fs) + 1
          /\ \A t \in 1 .. Len(cuts) - 1 :
               /\ cuts[t] <= cuts[t + 1]
               /\ o.sort => \A i \in cuts[t] .. cuts[t + 1] - 1 :
                              fs[i].weight_index \div size = t - 1
      BY <2>7, <2>8
    <2> QED BY <2>9 DEF cuts, size, fs
  <1>11. ae' = r
    BY <1>3
  <1> HIDE DEF r
  <1> QED BY <1>4, <1>10, <1>11 DEF ThreadsShareOut

\* Nothing but the rest of parse_atomic_example follows a reader's end.
LEMMA GramsPrepared ==
  ASSUME IInv, PassInv, [Next]_vars
  PROVE  pc = "read" /\ pc' = "fetch" => FollowedByGrams
  <1> SUFFICES ASSUME pc = "read", pc' = "fetch" PROVE FollowedByGrams
    OBVIOUS
  <1>1. Prepare
    <2>1. ~Launch /\ ~Start /\ ~Fetch /\ ~InCall /\ ~EndPass /\ ~Finished
      BY DEF Launch, Start, Fetch, InCall, EndPass, Finished, Over, vars, processVars
    <2>2. ~GotLine /\ ~GotLabel /\ ~GotTagSize /\ ~GotTag /\ ~GotNumIndices
      BY DEF GotLine, GotLabel, GotTagSize, GotTag, GotNumIndices, Got
    <2>3. ~GotIndex /\ ~GotFeatures /\ ~Decode /\ ~Kill
      BY DEF GotIndex, GotFeatures, Decode, Got, Kill
    <2>4. ~UNCHANGED vars
      BY DEF vars, processVars
    <2> QED BY <2>1, <2>2, <2>3, <2>4 DEF Next, Step
  <1>2. PICK o : o = opt
    OBVIOUS
  <1>3. PICK b : b = num_bits
    OBVIOUS
  <1>4. PICK e \in Sorted(ae) : e \in Filled(b) /\ ae' = Made(e, o, Pow2[b] - 1)
    BY <1>1, <1>2, <1>3, ExamplePrepared
  <1>5. Mask = Pow2[b] - 1 /\ o \in Session /\ b \in Nat
    <2>1. PICK k : k = example_number
      OBVIOUS
    <2> QED BY <1>1, <1>2, <1>3, <2>1, ExamplePrepared, ExampleRead
  <1> DEFINE r == Made(e, o, Pow2[b] - 1)
  <1>6. ASSUME NEW ns \in ToSet(r.indices) \ {ConstantNamespace}
        PROVE  Followed(r.atomics[ns], e.atomics[ns], GramOffsets(o.ngram, o.skips))
    <2> DEFINE fs == e.atomics[ns]
               q == GramList(fs, o.ngram, o.skips, Pow2[b] - 1)
    <2>1. o.ngram \in Nat \ {0} /\ o.skips \in Nat
      BY <1>5 DEF Session
    <2>2. /\ fs \in Seq(Within(b)) /\ q \in Seq(Within(b))
          /\ r.atomics[ns] = Spread(Cat(fs, q), o.stride)
      BY <1>4, <1>5, <1>6, GramsDelivered
    <2>3. Makes(q, GramsOver(fs, GramOffsets(o.ngram, o.skips)), fs, Pow2[b] - 1)
      BY <1>5, <2>1, <2>2, GramListMade
    <2> HIDE DEF fs, q, r
    <2>4. Followed(Spread(Cat(fs, q), opt.stride), fs, GramOffsets(o.ngram, o.skips))
      BY <1>5, <2>2, <2>3, Counted
    <2> QED BY <1>2, <2>2, <2>4 DEF fs
  <1>7. ae' = r
    BY <1>4
  <1> HIDE DEF r
  <1>8. \A ns \in ToSet(ae'.indices) \ {ConstantNamespace} :
          Followed(ae'.atomics[ns], e.atomics[ns],
                   UNION {Offsets(n, opt.skips) : n \in 2 .. opt.ngram})
    BY <1>2, <1>6, <1>7 DEF GramOffsets
  <1> QED BY <1>4, <1>8 DEF FollowedByGrams

LEMMA InitWhole ==
  ASSUME Init
  PROVE  WholeInv /\ ~Delivered /\ BitsInv
  <1>1. ~Delivered /\ BitsInv
    BY DEF Init, Delivered, BitsInv, Running
  <1> QED BY <1>1, InitInv, InitPasses DEF WholeInv

-----------------------------------------------------------------------------
(* The theorems                                                            *)
(*                                                                         *)
(* The scenario of a behaviour never changes: []OneCache, []OldRebuilt,    *)
(* []SameSort and []EnoughWeights say which scenarios a theorem is about.  *)

\* Whatever the sizes of the buffer and of what read(2) returns, a reader of text or
\* of a cache is served (buf_read, readto, fill) as if it took its cells from the
\* front of all cells of the open files: none is lost, repeated or out of order
\* when the buffer is moved, grown or filled from the next file.
THEOREM ReadsLikeStream ==
  Spec /\ [](Cells /\ Sizes) => ImplementsStream
  <1>1. IInv /\ (Cells /\ Sizes) /\ (Cells /\ Sizes)' /\ [Next]_vars => IInv' /\ StreamStep
    BY NextStep
  <1> QED BY <1>1, InitInv, PTL DEF Spec, ImplementsStream, Stream!Spec, StreamStep

\* buf_read and readto never look at files[current] behind the last file: a reader
\* that got less than it asked for goes to reset_source, which rewinds, before it
\* asks again.
THEOREM OpenFileRead ==
  Spec /\ [](Cells /\ Sizes) => []ReadsOpenFile
  <1>1. IInv /\ (Cells /\ Sizes) /\ (Cells /\ Sizes)' /\ [Next]_vars => IInv'
    BY NextStep
  <1>2. IInv => ReadsOpenFile
    BY DEF IInv, CallInv, ReadsOpenFile, Short, NoCall
  <1> QED BY <1>1, <1>2, InitInv, PTL DEF Spec

\* With one cache the sizes are those of the parts of an example, and the files
\* hold cells, so ReadsLikeStream and OpenFileRead need not assume it.
THEOREM CachesReadLikeStream ==
  Spec /\ []OneCache => ImplementsStream /\ []ReadsOpenFile
  <1>1. Init => WholeInv
    BY InitWhole
  <1>2. OneCache /\ WholeInv /\ [Next]_vars => WholeInv'
    BY WholeKept
  <1>3. WholeInv => Cells /\ Sizes
    BY AskedSizes DEF WholeInv
  <1>4. Spec /\ []OneCache => [](Cells /\ Sizes)
    BY <1>1, <1>2, <1>3, PTL DEF Spec
  <1> QED BY <1>4, ReadsLikeStream, OpenFileRead, PTL

\* Whenever the program is killed, what has the name of a cache is the whole text
\* with the bits of its header: output goes to the name with ".writing" behind
\* it until reset_source has flushed and closed it.
THEOREM NoPartialCache ==
  Spec /\ []OneCache => []CacheWhole
  <1>1. Init => WholeInv
    BY InitWhole
  <1>2. OneCache /\ WholeInv /\ [Next]_vars => WholeInv'
    BY WholeKept
  <1>3. WholeInv => CacheWhole
    <2>1. WholeInv => Asked /\ CachesKept(scenario, disk)
      BY DEF WholeInv, IInv, SourceInv, Asked, PassInv
    <2> QED BY <2>1, KeptWhole
  <1> QED BY <1>1, <1>2, <1>3, PTL DEF Spec

\* With one cache: what a learner gets of a namespace is its words and behind them,
\* from whatever text or cache, slot and options, one feature for each choice of words
\* with no more than --skips skipped among all of them, as addgrams counts them, and no
\* other: generateGrams makes each once, and neither the ignored namespaces nor the
\* stride touch it.
THEOREM GramsComplete ==
  Spec /\ []OneCache => GramsWithinSkips
  <1>1. Init => WholeInv
    BY InitWhole
  <1>2. OneCache /\ WholeInv /\ [Next]_vars => WholeInv'
    BY WholeKept
  <1>3. WholeInv /\ [Next]_vars => [pc = "read" /\ pc' = "fetch" => FollowedByGrams]_vars
    BY GramsPrepared DEF WholeInv
  <1> QED BY <1>1, <1>2, <1>3, PTL DEF Spec, GramsWithinSkips

\* Every pass delivers one example for each line of the text, whether it reads the
\* text or the cache that a pass of this session or of an earlier one has made.
THEOREM PassesComplete ==
  Spec /\ [](OneCache /\ OldRebuilt) => []WholePass
  <1>1. Init => WholeInv
    BY InitWhole
  <1>2. OneCache /\ WholeInv /\ [Next]_vars => WholeInv'
    BY WholeKept
  <1>3. OldRebuilt /\ WholeInv => WholePass
    BY PassesWhole
  <1> QED BY <1>1, <1>2, <1>3, PTL DEF Spec

\* output_features and its kin never write behind what buf_write reserved: int_size
\* cells for every index and value are enough for those of MaxBits bits.
THEOREM PiecesFit ==
  Spec /\ []OneCache => []OutFits
  <1>1. Init => WholeInv
    BY InitWhole
  <1>2. OneCache /\ WholeInv /\ [Next]_vars => WholeInv'
    BY WholeKept
  <1>3. WholeInv => OutFits
    BY ReadFits
  <1> QED BY <1>1, <1>2, <1>3, PTL DEF Spec

\* parse_atomic_example skips unique_sort_features only for features in order: a
\* cache of more bits is not said to be sorted, and read_cached_features takes
\* the word back where it finds a step backwards.
THEOREM ClaimsHold ==
  Spec /\ []OneCache => []SortedWhenClaimed
  <1>1. Init => WholeInv
    BY InitWhole
  <1>2. OneCache /\ WholeInv /\ [Next]_vars => WholeInv'
    BY WholeKept
  <1>3. WholeInv => SortedWhenClaimed
    BY ReadFits
  <1> QED BY <1>1, <1>2, <1>3, PTL DEF Spec

\* No example tells whether it came from the text or a cache, of these bits or of
\* more, which session wrote the cache, or what the slot held before.
THEOREM CacheTransparent ==
  Spec /\ [](OneCache /\ SameSort) => []Transparent
  <1>1. Init => WholeInv /\ Transparent
    BY InitWhole DEF Transparent
  <1>2. (OneCache /\ SameSort) /\ (WholeInv /\ Transparent) /\ [Next]_vars
          => WholeInv' /\ Transparent'
    <2> SUFFICES ASSUME OneCache, SameSort, WholeInv, Transparent, [Next]_vars
                 PROVE  WholeInv' /\ Transparent'
      OBVIOUS
    <2>1. WholeInv'
      BY WholeKept
    <2>2. CASE ~Delivered'
      BY <2>1, <2>2 DEF Transparent
    <2>3. CASE Prepare /\ pc' = "fetch"
      BY <2>1, <2>3, TransparentPrepared DEF WholeInv
    <2>4. CASE UNCHANGED <<pc, ae, example_number, scenario, session, num_bits>>
      <3>1. opt' = opt /\ Mask' = Mask /\ Lines' = Lines
        BY <2>4 DEF opt, Mask, Lines
      <3>2. \A n : Expected(n)' = Expected(n)
        BY <2>4, <3>1 DEF Expected, Grams
      <3>3. PICK n : n = example_number
        OBVIOUS
      <3>4. Expected(example_number)' = Expected(n) /\ Expected(example_number) = Expected(n)
        BY <2>4, <3>2, <3>3 DEF Expected
      <3>5. Delivered' = Delivered
        BY <2>4 DEF Delivered
      <3>6. ASSUME Delivered'
            PROVE  Transparent'
        <4>1. PICK e \in Expected(n) : [e EXCEPT !.initial = ae.initial, !.sorted = ae.sorted] = ae
          BY <3>4, <3>5, <3>6 DEF Transparent
        <4>2. PICK a : a = ae
          OBVIOUS
        <4>3. e \in Expected(n) /\ [e EXCEPT !.initial = a.initial, !.sorted = a.sorted] = a
              /\ ae' = a
          BY <2>4, <4>1, <4>2
        <4> QED BY <3>4, <4>3 DEF Transparent
      <3>7. Transparent'
        BY <3>6 DEF Transparent
      <3> QED BY <2>1, <3>7
    <2> QED BY <2>2, <2>3, <2>4, OnlyPrepared
  <1> QED BY <1>1, <1>2, PTL DEF Spec

\* Whatever is read, setup_example cuts each namespace of what the learner gets into
\* a part for every thread, and sorted features so that each thread has weights
\* of its own.
THEOREM ExamplesSharedOut ==
  Spec /\ [](OneCache /\ EnoughWeights) => []ThreadsShareOut
  <1> DEFINE Inv == WholeInv /\ BitsInv /\ ThreadsShareOut
  <1>1. Init => Inv
    BY InitWhole DEF ThreadsShareOut
  <1>2. (OneCache /\ EnoughWeights) /\ Inv /\ [Next]_vars => Inv'
    <2> SUFFICES ASSUME OneCache, EnoughWeights, WholeInv, BitsInv, ThreadsShareOut, [Next]_vars
                 PROVE  WholeInv' /\ BitsInv' /\ ThreadsShareOut'
      OBVIOUS
    <2>1. WholeInv' /\ BitsInv'
      BY WholeKept, BitsKept DEF WholeInv
    <2>2. CASE ~Delivered'
      BY <2>1, <2>2 DEF ThreadsShareOut
    <2>3. CASE Prepare /\ pc' = "fetch"
      BY <2>1, <2>3, SharesPrepared DEF WholeInv
    <2>4. CASE UNCHANGED <<pc, ae, example_number, scenario, session, num_bits>>
      <3>1. ThreadsShareOut'
        BY <2>4 DEF ThreadsShareOut, Delivered, opt, Mask
      <3> QED BY <2>1, <3>1
    <2> QED BY <2>2, <2>3, <2>4, OnlyPrepared
  <1>3. Inv => ThreadsShareOut
    OBVIOUS
  <1> HIDE DEF Inv
  <1> QED BY <1>1, <1>2, <1>3, PTL DEF Spec
=============================================================================
