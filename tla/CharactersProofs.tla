--------------------------- MODULE CharactersProofs ---------------------------
(***************************************************************************)
(* What goes character by character through the C library, for every set   *)
(* of characters, every input and every record size: the loops that        *)
(* convert text compute what TextConversion says of a whole record, and    *)
(* the devices' files are what was sent to them and what the reader gives. *)
(***************************************************************************)
EXTENDS ConversionLoops, Devices, StreamProofs

---------------------------------------------------------------------------
(* The loops                                                                 *)

\* No ^Z among the bytes consumed so far.
TextSoFar == next \in 0..Len(input) /\ \A j \in 1..next : input[j] # CtrlZ

\* The fgetc loop has made what Expand makes of the bytes it has consumed, and all of
\* it fits; it has asked for no more than it was given.
ReadInv ==
  loop = "read" =>
    /\ input \in Seq(Byte) /\ TextSoFar /\ out = MadeOf(input, next)
    /\ Width(input, next) <= RecSize /\ asked = next /\ eofSeen = FALSE

\* The fputc loop has written what Collapse leaves of them.
WriteInv ==
  loop = "write" => input \in Record /\ TextSoFar /\ out = Left(input, next)

LoopInv == ReadInv /\ WriteInv /\ BufferBound

\* The loops begin with nothing.
LEMMA LoopStart ==
  ASSUME LoopInit
  PROVE  LoopInv
<1>1. /\ (loop = "read" /\ input \in Inputs("read")) \/ (loop = "write" /\ input \in Inputs("write"))
      /\ next = 0 /\ asked = 0 /\ out = <<>> /\ eofSeen = FALSE
  BY DEF LoopInit, Start
<1>2. RecSize \in Nat /\ Len(<<>>) = 0
  BY RecSizeAssumption, EmptySeq
<1>3. loop = "read" => input \in Seq(Byte)
  <2>1. SUFFICES ASSUME NEW n \in 0..InputBound, input \in [1..n -> Byte]
                 PROVE  input \in Seq(Byte)
    BY <1>1 DEF Inputs
  <2>2. n \in Nat
    BY <2>1
  <2>3. QED  BY <2>1, <2>2, SeqDef
<1>4. loop = "write" => input \in Record /\ input \in Seq(Byte)
  BY <1>1, RecordIsSeq DEF Inputs
<1>5. input \in Seq(Byte)
  BY <1>1, <1>3, <1>4
<1>6. TextSoFar
  BY <1>1, <1>5, LenProperties DEF TextSoFar
<1>7. Width(input, 0) = 0 /\ MadeOf(input, 0) = <<>>
  <2>1. Width(input, 0) = 0
    BY WidthType
  <2>2. MadeOf(input, 0) \in Seq(Byte) /\ Len(MadeOf(input, 0)) = 0
    <3>1. 0 \in 0..Len(input)
      BY <1>5, LenProperties
    <3>2. QED  BY <1>5, <2>1, <3>1, ExpandOfPart
  <2>3. QED  BY <2>1, <2>2, EmptySeq
<1>8. Left(input, 0) = <<>>
  <2>1. Left(input, 0) \in Seq(Byte) /\ Len(Left(input, 0)) = 0
    BY <1>5, LenProperties, LeftType
  <2>2. QED  BY <2>1, EmptySeq
<1>9. QED  BY <1>1, <1>2, <1>3, <1>4, <1>6, <1>7, <1>8 DEF LoopInv, ReadInv, WriteInv, BufferBound

\* What is known at the head of the fgetc loop.
LEMMA AtRead ==
  ASSUME LoopInv, loop = "read"
  PROVE  /\ input \in Seq(Byte) /\ next \in Nat /\ Len(input) \in Nat /\ next <= Len(input)
         /\ \A j \in 1..next : input[j] # CtrlZ
         /\ out = MadeOf(input, next) /\ Len(out) = Width(input, next) /\ Len(out) \in Nat
         /\ Len(out) <= RecSize /\ asked = next /\ eofSeen = FALSE /\ RecSize \in Nat
<1>1. /\ input \in Seq(Byte) /\ TextSoFar /\ out = MadeOf(input, next)
      /\ Width(input, next) <= RecSize /\ asked = next /\ eofSeen = FALSE
  BY DEF LoopInv, ReadInv
<1>2. Len(input) \in Nat /\ RecSize \in Nat
  BY <1>1, LenProperties, RecSizeAssumption
<1>3. next \in Nat /\ next <= Len(input) /\ next \in 0..Len(input)
  BY <1>1, <1>2 DEF TextSoFar
<1>4. Len(out) = Width(input, next) /\ Width(input, next) \in Nat
  BY <1>1, <1>3, ExpandOfPart, WidthNext
<1>5. QED  BY <1>1, <1>2, <1>3, <1>4 DEF TextSoFar

\* The turns of the fgetc loop that go on keep its invariant.
LEMMA ReadTurn ==
  ASSUME LoopInv, LoopNext, loop = "read", loop' = "read"
  PROVE  LoopInv'
<1>1. /\ input \in Seq(Byte) /\ next \in Nat /\ Len(input) \in Nat /\ next <= Len(input)
      /\ \A j \in 1..next : input[j] # CtrlZ
      /\ out = MadeOf(input, next) /\ Len(out) = Width(input, next) /\ Len(out) \in Nat
      /\ Len(out) <= RecSize /\ asked = next /\ eofSeen = FALSE /\ RecSize \in Nat
  BY AtRead
<1>2. /\ input' = input /\ asked' = next + 1 /\ next' = next + 1 /\ next < Len(input)
      /\ eofSeen' = eofSeen /\ Len(out) < RecSize /\ input[next + 1] # CtrlZ
      /\ \/ input[next + 1] = Lf /\ out' = out \o <<Cr, Lf>> /\ Len(out) + 1 < RecSize
         \/ input[next + 1] # Lf /\ out' = Append(out, input[next + 1])
  <2>1. ReadLf \/ ReadPlain
    BY DEF LoopNext, ReadFull, ReadEnd, ReadCtrlZ, WriteEnd, WriteByte, Leave, Writing
  <2>2. Lf # CtrlZ
    BY HostAssumption
  <2>3. CASE ReadLf
    BY <2>2, <2>3 DEF ReadLf, Fetch, Reading, Leave
  <2>4. CASE ReadPlain
    BY <2>4 DEF ReadPlain, Fetch, Reading
  <2>5. QED  BY <2>1, <2>3, <2>4
<1>3. out' = MadeOf(input, next + 1)
  BY <1>1, <1>2, MadeGrows
<1>4. /\ Width(input, next + 1) <= RecSize /\ Width(input, next + 1) \in Nat
  <2>1. /\ input[next + 1] = Lf => Width(input, next + 1) = Width(input, next) + 2
        /\ input[next + 1] # Lf => Width(input, next + 1) = Width(input, next) + 1
    BY <1>1, WidthNext
  <2>2. QED  BY <1>1, <1>2, <2>1
<1>5. next + 1 \in 0..Len(input) /\ Len(out') = Width(input, next + 1)
  <2>1. next + 1 \in 0..Len(input)
    BY <1>1, <1>2
  <2>2. QED  BY <1>1, <1>3, <2>1, ExpandOfPart
<1>6. ASSUME NEW j \in 1..(next + 1) PROVE input[j] # CtrlZ
  <2>1. j \in 1..next \/ j = next + 1
    BY <1>1
  <2>2. QED  BY <1>1, <1>2, <2>1
<1>7. TextSoFar'
  BY <1>2, <1>5, <1>6 DEF TextSoFar
<1>8. ReadInv'
  BY <1>1, <1>2, <1>3, <1>4, <1>7 DEF ReadInv
<1>9. BufferBound'
  BY <1>4, <1>5 DEF BufferBound
<1>10. QED  BY <1>8, <1>9 DEF LoopInv, WriteInv

\* Where the fgetc loop is left its result is that of ReadExpanded.
LEMMA ReadLeft ==
  ASSUME LoopInv, LoopNext, loop = "read", loop' = "done"
  PROVE  /\ ReadResult(out', next', asked', eofSeen') = ReadExpanded(input)
         /\ Len(out') <= RecSize
<1>1. /\ input \in Seq(Byte) /\ next \in Nat /\ Len(input) \in Nat /\ next <= Len(input)
      /\ \A j \in 1..next : input[j] # CtrlZ
      /\ out = MadeOf(input, next) /\ Len(out) = Width(input, next) /\ Len(out) \in Nat
      /\ Len(out) <= RecSize /\ asked = next /\ eofSeen = FALSE /\ RecSize \in Nat
  BY AtRead
<1>2. next \in 0..Len(input)
  BY <1>1
<1>3. Expand(SubSeq(input, 1, next)) = out
  BY <1>1, <1>2, ExpandOfPart
<1>4. Lf # CtrlZ
  BY HostAssumption
<1>5. Width(input, next + 1) \in Nat
        /\ (input[next + 1] = Lf => Width(input, next + 1) = Width(input, next) + 2)
        /\ (input[next + 1] # Lf => Width(input, next + 1) = Width(input, next) + 1)
  BY <1>1, WidthNext
<1>6. Width(input, next) <= RecSize
  BY <1>1
<1> DEFINE used == Fitting(input)
           full == Width(input, used) = RecSize
           atEof == ~full /\ used < Len(input) /\ input[used + 1] = CtrlZ
<1>7. ReadExpanded(input) =
        ReadResult(Expand(SubSeq(input, 1, used)), IF atEof THEN used + 1 ELSE used,
                   IF full THEN used ELSE used + 1, atEof)
  BY DEF ReadExpanded
<1>8. CASE ReadFull
  <2>1. out' = out /\ next' = next /\ asked' = asked /\ eofSeen' = eofSeen /\ Len(out) = RecSize
    BY <1>8 DEF ReadFull
  <2>2. Width(input, next + 1) > RecSize
    BY <1>1, <1>5, <2>1
  <2>3. used = next
    BY <1>1, <1>2, <1>6, <2>2, FittingIs
  <2>4. full /\ atEof = FALSE
    BY <1>1, <2>1, <2>3
  <2> HIDE DEF used, full, atEof
  <2>5. QED  BY <1>1, <1>3, <1>7, <2>1, <2>3, <2>4
<1>9. CASE ReadEnd
  <2>1. /\ out' = out /\ next' = next /\ asked' = next + 1 /\ eofSeen' = eofSeen
        /\ Len(out) < RecSize /\ next = Len(input)
    BY <1>9 DEF ReadEnd, Fetch
  <2>2. used = next
    BY <1>1, <1>2, <1>6, <2>1, FittingIs
  <2>3. ~full /\ atEof = FALSE
    BY <1>1, <2>1, <2>2
  <2> HIDE DEF used, full, atEof
  <2>4. QED  BY <1>1, <1>3, <1>7, <2>1, <2>2, <2>3
<1>10. CASE ReadLf
  <2>1. /\ out' = out /\ next' = next /\ asked' = next + 1 /\ eofSeen' = eofSeen
        /\ Len(out) < RecSize /\ Len(out) + 1 >= RecSize /\ input[next + 1] = Lf
    BY <1>10 DEF ReadLf, Fetch, Reading, Stay
  <2>2. Width(input, next + 1) > RecSize
    BY <1>1, <1>5, <2>1
  <2>3. used = next
    BY <1>1, <1>2, <1>6, <2>2, FittingIs
  <2>4. ~full /\ atEof = FALSE
    BY <1>1, <1>4, <2>1, <2>3
  <2> HIDE DEF used, full, atEof
  <2>5. QED  BY <1>1, <1>3, <1>7, <2>1, <2>3, <2>4
<1>11. CASE ReadCtrlZ
  <2>1. /\ out' = out /\ next' = next + 1 /\ asked' = next + 1 /\ eofSeen' = TRUE
        /\ Len(out) < RecSize /\ next < Len(input) /\ input[next + 1] = CtrlZ
    BY <1>11 DEF ReadCtrlZ, Fetch
  <2>2. used = next
    BY <1>1, <1>2, <1>6, <2>1, FittingIs
  <2>3. ~full /\ atEof = TRUE
    BY <1>1, <2>1, <2>2
  <2> HIDE DEF used, full, atEof
  <2>4. QED  BY <1>1, <1>3, <1>7, <2>1, <2>2, <2>3
<1>12. QED
  BY <1>8, <1>9, <1>10, <1>11
  DEF LoopNext, ReadPlain, Stay, WriteEnd, WriteByte, Writing

\* The fputc loop keeps its invariant, and where it is left it has written what
\* Collapse makes of the record.
LEMMA WriteTurn ==
  ASSUME LoopInv, LoopNext, loop = "write"
  PROVE  /\ loop' = "write" => LoopInv'
         /\ loop' # "write" => loop' = "done" /\ out' = Collapse(input) /\ Len(out') <= RecSize
<1>1. input \in Record /\ TextSoFar /\ out = Left(input, next)
  BY DEF LoopInv, WriteInv
<1>2. input \in Seq(Byte) /\ Len(input) = RecSize /\ RecSize \in Nat
  BY <1>1, RecordIsSeq, RecSizeAssumption
<1>3. next \in Nat /\ next <= RecSize /\ \A j \in 1..next : input[j] # CtrlZ
  BY <1>1, <1>2 DEF TextSoFar
<1>4. next \in 0..Len(input)
  BY <1>2, <1>3
<1>5. CASE WriteEnd
  <2>1. /\ out' = out /\ loop' = "done"
        /\ (next = Len(input) \/ input[next + 1] = CtrlZ)
    BY <1>5 DEF WriteEnd, Leave
  <2>2. TextLength(input) = next
    BY <1>2, <1>3, <1>4, <2>1, TextLengthIs
  <2>3. Collapse(input) = Left(input, next)
    BY <2>2 DEF Collapse, Left, Passed
  <2>4. Len(Left(input, next)) \in 0..next
    BY <1>2, <1>4, LeftType
  <2>5. Len(out') <= RecSize
    BY <1>1, <1>2, <1>3, <2>1, <2>4
  <2>6. QED  BY <1>1, <2>1, <2>3, <2>5
<1>6. CASE WriteByte
  <2>1. /\ input' = input /\ next' = next + 1 /\ loop' = "write" /\ next < Len(input)
        /\ input[next + 1] # CtrlZ
        /\ \/ Dropped(input, next + 1) /\ out' = out
           \/ ~Dropped(input, next + 1) /\ out' = Append(out, input[next + 1])
    BY <1>6 DEF WriteByte, Writing, Stay
  <2>2. out' = Left(input, next + 1)
    BY <1>1, <1>2, <1>3, <2>1, LeftGrows
  <2>3. next + 1 \in 0..Len(input)
    BY <1>2, <1>3, <2>1
  <2>4. ASSUME NEW j \in 1..(next + 1) PROVE input[j] # CtrlZ
    <3>1. j \in 1..next \/ j = next + 1
      BY <1>3
    <3>2. QED  BY <1>3, <2>1, <3>1
  <2>5. TextSoFar'
    BY <2>1, <2>3, <2>4 DEF TextSoFar
  <2>6. Len(out') \in 0..(next + 1)
    BY <1>2, <2>2, <2>3, LeftType
  <2>7. BufferBound'
    BY <1>2, <1>3, <2>1, <2>6 DEF BufferBound
  <2>8. LoopInv'
    BY <1>1, <2>1, <2>2, <2>5, <2>7 DEF LoopInv, ReadInv, WriteInv
  <2>9. QED  BY <2>1, <2>8
<1>7. QED
  BY <1>5, <1>6
  DEF LoopNext, ReadFull, ReadEnd, ReadLf, ReadCtrlZ, ReadPlain, Fetch, Reading

\* Every turn of either loop.
LEMMA LoopStep ==
  ASSUME LoopInv, LoopNext
  PROVE  /\ LoopInv'
         /\ loop' = "done" =>
              /\ loop = "read" => ReadResult(out', next', asked', eofSeen') = ReadExpanded(input)
              /\ loop = "write" => out' = Collapse(input)
<1>1. CASE loop = "read"
  <2>1. loop' \in {"read", "done"}
    BY <1>1 DEF LoopNext, ReadFull, ReadEnd, ReadLf, ReadCtrlZ, ReadPlain, WriteEnd, WriteByte,
                Writing, Leave, Stay
  <2>2. CASE loop' = "read"
    BY <1>1, <2>2, ReadTurn
  <2>3. CASE loop' = "done"
    <3>1. /\ ReadResult(out', next', asked', eofSeen') = ReadExpanded(input)
          /\ Len(out') <= RecSize
      BY <1>1, <2>3, ReadLeft
    <3>2. LoopInv'
      BY <2>3, <3>1 DEF LoopInv, ReadInv, WriteInv, BufferBound
    <3>3. QED  BY <1>1, <3>1, <3>2
  <2>4. QED  BY <2>1, <2>2, <2>3
<1>2. CASE loop = "write"
  <2>1. CASE loop' = "write"
    BY <1>2, <2>1, WriteTurn
  <2>2. CASE loop' # "write"
    <3>1. loop' = "done" /\ out' = Collapse(input) /\ Len(out') <= RecSize
      BY <1>2, <2>2, WriteTurn
    <3>2. LoopInv'
      BY <3>1 DEF LoopInv, ReadInv, WriteInv, BufferBound
    <3>3. QED  BY <1>2, <3>1, <3>2
  <2>3. QED  BY <2>1, <2>2
<1>3. QED
  BY <1>1, <1>2
  DEF LoopNext, ReadFull, ReadEnd, ReadLf, ReadCtrlZ, ReadPlain, Fetch, Reading, WriteEnd,
      WriteByte, Writing

\* The loops stay in theirs.
LEMMA LoopInvHolds == LoopSpec => []LoopInv
<1>1. ASSUME LoopInv, UNCHANGED loopVars PROVE LoopInv'
  BY <1>1 DEF LoopInv, ReadInv, WriteInv, BufferBound, TextSoFar, loopVars
<1>2. LoopInv /\ [LoopNext]_loopVars => LoopInv'
  BY <1>1, LoopStep
<1>3. LoopInit => LoopInv
  BY LoopStart
<1>4. QED  BY <1>2, <1>3, PTL DEF LoopSpec

\* The conversion loops never write past the caller's buffer, whatever its size, the
\* bytes of the file and the place of its line ends (738-770, 1582).
THEOREM BufferIsBounded == LoopSpec => []BufferBound
<1>1. LoopInv => BufferBound
  BY DEF LoopInv
<1>2. QED  BY <1>1, LoopInvHolds, PTL

\* Iteration by iteration the loops compute ReadExpanded and Collapse, for every
\* input, byte alphabet and record size, the program's 128 among them (744-774,
\* 782-809).
THEOREM LoopsAreTheFunctions == LoopSpec => LoopsCompute
<1>1. LoopInv /\ [LoopNext]_loopVars =>
        [loop' = "done" =>
           /\ loop = "read" => ReadResult(out', next', asked', eofSeen') = ReadExpanded(input)
           /\ loop = "write" => out' = Collapse(input)]_loopVars
  BY LoopStep
<1>2. QED  BY <1>1, LoopInvHolds, PTL DEF LoopSpec, LoopsCompute

---------------------------------------------------------------------------
(* The devices                                                               *)

Output == {"printer", "punch"}

\* A stream that a character is put into and flushed from, one at a time: q is what
\* was sent, and owes says that the last character of q waits in the buffer.
OutputOk(s, q, owes) ==
  /\ GoodStream(s) /\ s.writable /\ s.off = Len(q)
  /\ owes => Len(q) > 0 /\ s.pend = <<q[Len(q)]>>
  /\ ~owes => s.pend = <<>>

\* What a file holds of it.
Written(q, owes) == SubSeq(q, 1, Len(q) - IF owes THEN 1 ELSE 0)

\* A stream that reads a file which grows: its window is a part of the file, and
\* it fetches no more once it has seen the end.
Follows(s, d) ==
  /\ GoodStream(s) /\ s.pend = <<>> /\ s.off <= Len(d)
  /\ s.win = SubSeq(d, s.base + 1, WindowEnd(s))
  /\ s.win # <<>> => WindowEnd(s) <= Len(d)
  /\ s.eof => s.win = <<>>

\* What the reader has given of it.
Given(s, d, g) ==
  /\ g \in Seq(Byte) /\ s.off <= Len(g) /\ (~s.eof => s.off = Len(g))
  /\ \A k \in 1..Len(g) : g[k] = IF k <= s.off THEN Low7[d[k]] ELSE CtrlZ

\* e is d, and what was written behind it.
Grows(d, e) == e \in Seq(Byte) /\ Len(d) <= Len(e) /\ \A k \in 1..Len(d) : e[k] = d[k]

---------------------------------------------------------------------------
(* One character                                                             *)

\* fputc into a stream that holds nothing back.
LEMMA PutOne ==
  ASSUME NEW s, NEW q \in Seq(Byte), OutputOk(s, q, FALSE), NEW b \in Byte
  PROVE  /\ OutputOk(Put(s, <<b>>), Append(q, b), TRUE)
         /\ Put(s, <<b>>).ino = s.ino
         /\ Written(Append(q, b), TRUE) = Written(q, FALSE)
<1> DEFINE t == Put(s, <<b>>)
           r == Append(q, b)
<1>1. <<b>> \in Seq(Byte) /\ Len(<<b>>) = 1 /\ s \in Stream /\ s.pend = <<>> /\ Len(q) \in Nat
  BY LenProperties DEF OutputOk, GoodStream
<1>2. r \in Seq(Byte) /\ Len(r) = Len(q) + 1 /\ r[Len(q) + 1] = b
        /\ \A i \in 1..Len(q) : r[i] = q[i]
  BY AppendProperties
<1>3. GoodStream(t) /\ t.ino = s.ino
  BY <1>1, PutGood DEF OutputOk
<1>4. t.pend = s.pend \o <<b>> /\ t.off = s.off + 1 /\ t.writable = s.writable
  BY <1>1, PutFields
<1>5. t.pend = <<b>>
  <2>1. <<>> \o <<b>> = <<b>>
    BY <1>1, ConcatEmptySeq
  <2>2. QED  BY <1>1, <1>4, <2>1
<1> HIDE DEF t, r
<1>6. OutputOk(t, r, TRUE)
  BY <1>1, <1>2, <1>3, <1>4, <1>5 DEF OutputOk
<1>7. Written(r, TRUE) = Written(q, FALSE)
  <2> DEFINE n == Len(q)
             u == SubSeq(r, 1, n)
             v == SubSeq(q, 1, n)
  <2>1. /\ \A i \in 1..n : r[i] \in Byte /\ q[i] \in Byte
        /\ n \in Nat
    BY <1>1, <1>2, ElementOfSeq
  <2>2. u \in Seq(Byte) /\ Len(u) = n /\ \A i \in 1..n : u[i] = r[i]
    BY <2>1, <1>2, PartOf
  <2>3. v \in Seq(Byte) /\ Len(v) = n /\ \A i \in 1..n : v[i] = q[i]
    BY <2>1, PartOf
  <2> HIDE DEF u, v
  <2>4. u = v
    BY <2>1, <2>2, <2>3, <1>2, SeqEqual
  <2>5. Len(r) - 1 = n /\ Len(q) - 0 = n
    BY <1>2, <2>1
  <2>6. QED  BY <2>4, <2>5 DEF Written, u, v
<1>8. QED  BY <1>3, <1>6, <1>7 DEF t, r

\* With nothing held back the file of a stream is all that was sent.
LEMMA WrittenAll ==
  ASSUME NEW q \in Seq(Byte)
  PROVE  Written(q, FALSE) = q
<1>1. Len(q) \in Nat /\ Len(q) - 0 = Len(q)
  BY LenProperties
<1>2. SubSeq(q, 1, Len(q)) = q
  BY SubSeqFull
<1>3. QED  BY <1>1, <1>2 DEF Written

\* fflush after it.
LEMMA FlushOne ==
  ASSUME NEW s, NEW q \in Seq(Byte), OutputOk(s, q, TRUE), NEW d \in Seq(Byte)
  PROVE  /\ OutputOk(AfterFlush(s), q, FALSE) /\ AfterFlush(s).ino = s.ino
         /\ Flushed(s, d) \in Seq(Byte)
         /\ d = Written(q, TRUE) => Flushed(s, d) = q /\ Grows(d, q)
<1> DEFINE t == AfterFlush(s)
           n == Len(q) - 1
           b == q[Len(q)]
<1>1. s \in Stream /\ GoodStream(s) /\ s.pend = <<b>> /\ s.off = Len(q) /\ s.writable
        /\ n \in Nat /\ n + 1 = Len(q) /\ n <= Len(q)
  BY LenProperties DEF OutputOk, GoodStream
<1>2. GoodStream(t) /\ t.pend = <<>>
  BY <1>1, AfterFlushGood
<1>3. t.off = s.off /\ t.writable = s.writable /\ t.ino = s.ino
  BY <1>1 DEF AfterFlush, Stream
<1>4. OutputOk(t, q, FALSE)
  BY <1>1, <1>2, <1>3 DEF OutputOk
<1>5. Flushed(s, d) \in Seq(Byte)
  BY <1>1, FlushedType
<1>6. ASSUME d = Written(q, TRUE)
      PROVE  Flushed(s, d) = q /\ Grows(d, q)
  <2>1. b \in Byte /\ <<b>> \in Seq(Byte) /\ Len(<<b>>) = 1 /\ <<b>> # <<>> /\ <<b>>[1] = b
    BY <1>1, ElementOfSeq
  <2>2. Len(d) = n /\ \A k \in 1..n : d[k] = q[k]
    <3>1. d = SubSeq(q, 0 + 1, n)
      BY <1>6 DEF Written
    <3>2. QED  BY <1>1, <3>1, PartOf
  <2> DEFINE o == Flushed(s, d)
  <2>3. s.off - Len(s.pend) = n
    BY <1>1, <2>1
  <2>4. o = Overwrite(d, n, <<b>>)
    BY <1>1, <2>3 DEF Flushed
  <2> HIDE DEF o, b, n
  <2>5. /\ o \in Seq(Byte) /\ Len(o) = n + 1
        /\ \A k \in 1..Len(o) : o[k] = IF k > n /\ k <= n + 1 THEN <<b>>[k - n]
                                       ELSE IF k <= Len(d) THEN d[k] ELSE Zero
    <3> DEFINE w == <<b>>
    <3>1. w \in Seq(Byte) /\ w # <<>> /\ o = Overwrite(d, n, w)
      BY <2>1, <2>4
    <3> HIDE DEF w
    <3>2. /\ o \in Seq(Byte)
          /\ Len(o) = IF n + Len(w) > Len(d) THEN n + Len(w) ELSE Len(d)
          /\ \A k \in 1..Len(o) : o[k] = IF k > n /\ k <= n + Len(w) THEN w[k - n]
                                         ELSE IF k <= Len(d) THEN d[k] ELSE Zero
      BY <1>1, <3>1, OverwriteElements
    <3>3. Len(<<b>>) = 1 /\ n + 1 > Len(d)
      BY <1>1, <2>1, <2>2
    <3>4. QED  BY <3>2, <3>3 DEF w
  <2>6. ASSUME NEW k \in 1..Len(o) PROVE o[k] = q[k]
    <3>1. CASE k = n + 1
      BY <1>1, <2>1, <2>5, <3>1 DEF b
    <3>2. CASE k <= n
      BY <1>1, <2>2, <2>5, <3>2
    <3>3. QED  BY <1>1, <2>5, <3>1, <3>2
  <2>7. o = q
    BY <1>1, <2>5, <2>6, SeqEqual
  <2>8. Grows(d, q)
    BY <1>1, <2>2 DEF Grows
  <2>9. QED  BY <2>7, <2>8 DEF o
<1>7. QED  BY <1>3, <1>4, <1>5, <1>6 DEF t

---------------------------------------------------------------------------
(* The reader                                                                *)

\* The reader does not see that its file grows but for what is behind its window.
LEMMA GrownFollows ==
  ASSUME NEW s, NEW d \in Seq(Byte), NEW e, NEW g, Follows(s, d), Given(s, d, g), Grows(d, e)
  PROVE  Follows(s, e) /\ Given(s, e, g)
<1>1. /\ s \in Stream /\ GoodStream(s) /\ Len(d) \in Nat /\ Len(e) \in Nat /\ Len(g) \in Nat
      /\ WindowEnd(s) \in Nat /\ s.base \in Nat /\ s.off \in Nat /\ e \in Seq(Byte)
      /\ Len(d) <= Len(e) /\ WindowEnd(s) = s.base + Len(s.win)
  BY LenProperties DEF Follows, Given, Grows, GoodStream, Stream, WindowEnd
<1>2. s.win = SubSeq(e, s.base + 1, WindowEnd(s))
  <2>1. CASE s.win = <<>>
    <3>1. SubSeq(e, s.base + 1, s.base) = <<>>
      BY <1>1, SubSeqEmpty
    <3>2. WindowEnd(s) = s.base
      BY <1>1, <2>1
    <3>3. QED  BY <2>1, <3>1, <3>2
  <2>2. CASE s.win # <<>>
    <3> DEFINE m == s.base
               n == WindowEnd(s)
               u == SubSeq(d, m + 1, n)
               v == SubSeq(e, m + 1, n)
    <3>1. n <= Len(d) /\ n <= Len(e) /\ m \in Nat /\ n \in Nat /\ m <= n
      BY SMTT(30), <1>1, <2>2, LenProperties DEF Follows, GoodStream, Stream, WindowEnd
    <3>2. s.win = u
      BY DEF Follows
    <3> HIDE DEF m, n
    <3>3. u \in Seq(Byte) /\ Len(u) = (IF m < n THEN n - m ELSE 0) /\ \A i \in 1..(n - m) : u[i] = d[m + i]
      BY <3>1, PartOf
    <3>4. v \in Seq(Byte) /\ Len(v) = (IF m < n THEN n - m ELSE 0) /\ \A i \in 1..(n - m) : v[i] = e[m + i]
      BY <1>1, <3>1, PartOf
    <3>5. \A i \in 1..(n - m) : m + i \in 1..Len(d)
      BY <1>1, <3>1
    <3>6. \A i \in 1..(n - m) : d[m + i] = e[m + i]
      BY <3>5 DEF Grows
    <3> HIDE DEF u, v
    <3>7. Len(u) = n - m
      BY <3>1, <3>3
    <3>8. u = v
      BY <3>3, <3>4, <3>6, <3>7, SeqEqual
    <3>9. QED  BY <3>2, <3>8 DEF m, n, u, v
  <2>3. QED  BY <2>1, <2>2
<1>3. Follows(s, e)
  <2>1. /\ s.off <= Len(d) /\ s.pend = <<>> /\ (s.win # <<>> => WindowEnd(s) <= Len(d))
        /\ (s.eof => s.win = <<>>)
    BY DEF Follows
  <2>2. s.off <= Len(e) /\ (s.win # <<>> => WindowEnd(s) <= Len(e))
    BY <1>1, <2>1
  <2>3. QED  BY <1>1, <1>2, <2>1, <2>2 DEF Follows
<1>4. ASSUME NEW k \in 1..Len(g)
      PROVE  g[k] = IF k <= s.off THEN Low7[e[k]] ELSE CtrlZ
  <2>1. k <= s.off => k \in 1..Len(d)
    BY <1>1 DEF Follows
  <2>2. k <= s.off => e[k] = d[k]
    BY <2>1 DEF Grows
  <2>3. QED  BY <2>2 DEF Given
<1>5. Given(s, e, g)
  BY <1>4 DEF Given
<1>6. QED  BY <1>3, <1>5

\* The fields of a stream that has met the end of its file.
LEMMA EndFields ==
  ASSUME NEW s \in Stream, NEW used, used = 0, s.off \in Nat,
         NEW t, t = [s EXCEPT !.off = s.off + used, !.base = s.off + used, !.win = <<>>,
                              !.eof = TRUE]
  PROVE  t.off = s.off /\ t.base = s.off /\ t.win = <<>> /\ t.eof = TRUE
<1>1. s.off + used = s.off
  OBVIOUS
<1>2. t.off = s.off + used /\ t.base = s.off + used /\ t.win = <<>> /\ t.eof = TRUE
  BY DEF Stream
<1>3. QED  BY <1>1, <1>2

\* One fgetc, and the ^Z that bdos_aux_input makes of EOF.
LEMMA ReadOne ==
  ASSUME NEW s, NEW d \in Seq(Byte), NEW g, Follows(s, d), Given(s, d, g),
         NEW used, used = AtMost(1, Len(Seen(s, d))),
         NEW c, c = (IF used = 1 THEN Low7[Seen(s, d)[1]] ELSE CtrlZ), c \in Byte,
         NEW t, t = Advance(s, d, used, 1)
  PROVE  Follows(t, d) /\ Given(t, d, Append(g, c)) /\ t.ino = s.ino
<1>1. /\ s \in Stream /\ GoodStream(s) /\ s.pend = <<>> /\ s.off \in Nat /\ Len(d) \in Nat
      /\ Len(g) \in Nat /\ g \in Seq(Byte) /\ s.off <= Len(d) /\ s.base <= s.off
      /\ WindowEnd(s) = s.base + Len(s.win) /\ s.base \in Nat /\ Len(s.win) \in Nat
      /\ s.eof \in BOOLEAN
  BY LenProperties DEF Follows, Given, GoodStream, Stream, Shaped, WindowEnd
<1>2. /\ Seen(s, d) \in Seq(Byte) /\ Len(Seen(s, d)) \in Nat
      /\ Len(Buffered(s)) = Len(s.win) - (s.off - s.base)
      /\ Len(Seen(s, d)) = Len(Buffered(s)) + Len(Unread(s, d))
      /\ Len(Buffered(s)) \in Nat /\ Len(Unread(s, d)) \in Nat
  BY <1>1, SeenType, LenProperties
<1>3. /\ used \in 0..Len(Seen(s, d)) /\ used <= 1 /\ used \in Nat
      /\ (1 <= used + 1 \/ used = Len(Seen(s, d)))
  BY <1>2 DEF AtMost
<1>4. GoodStream(t)
  BY <1>1, <1>3, AdvanceGood
<1>5. t.pend = s.pend /\ t.ino = s.ino /\ t.off = s.off + used
  BY <1>1, AdvanceKeeps
<1>6. /\ Append(g, c) \in Seq(Byte) /\ Len(Append(g, c)) = Len(g) + 1
      /\ \A i \in 1..Len(g) : Append(g, c)[i] = g[i]
      /\ Append(g, c)[Len(g) + 1] = c
  BY <1>1, AppendProperties
<1>7. CASE s.eof
  <2>1. s.win = <<>> /\ Len(s.win) = 0 /\ s.base = s.off
    <3>1. s.win = <<>>
      BY <1>7 DEF Follows
    <3>2. s.off <= WindowEnd(s)
      BY <1>1 DEF GoodStream, Shaped
    <3>3. QED  BY <1>1, <3>1, <3>2, EmptySeq
  <2>2. Len(Buffered(s)) = 0 /\ Unread(s, d) = <<>> /\ Len(Seen(s, d)) = 0 /\ used = 0
    BY <1>1, <1>2, <1>3, <1>7, <2>1 DEF Unread, AtMost
  <2>3. t = [s EXCEPT !.off = s.off + used, !.base = s.off + used, !.win = <<>>, !.eof = TRUE]
    BY <2>2 DEF Advance
  <2>4. t.off = s.off /\ t.base = s.off /\ t.win = <<>> /\ t.eof = TRUE
    BY <1>1, <2>2, <2>3, EndFields
  <2>5. SubSeq(d, s.off + 1, s.off) = <<>>
    BY <1>1, SubSeqEmpty
  <2>6. WindowEnd(t) = s.off
    BY <1>1, <2>4 DEF WindowEnd
  <2>7. Follows(t, d)
    BY <1>1, <1>4, <1>5, <2>4, <2>5, <2>6 DEF Follows
  <2>8. c = CtrlZ
    BY <2>2
  <2>9. ASSUME NEW k \in 1..Len(Append(g, c))
        PROVE  Append(g, c)[k] = IF k <= t.off THEN Low7[d[k]] ELSE CtrlZ
    <3>1. CASE k \in 1..Len(g)
      BY <1>6, <2>4, <3>1 DEF Given
    <3>2. CASE k = Len(g) + 1
      BY <1>1, <1>6, <2>4, <2>8, <3>2 DEF Given
    <3>3. QED  BY <1>1, <1>6, <3>1, <3>2
  <2>10. Given(t, d, Append(g, c))
    BY <1>1, <1>6, <2>4, <2>9 DEF Given
  <2>11. QED  BY <1>5, <2>7, <2>10
<1>8. CASE ~s.eof
  <2>1. Fresh(s, d)
    BY <1>1, <1>8 DEF Fresh, Follows
  <2>2. Seen(s, d) = SubSeq(d, s.off + 1, Len(d))
    BY <1>1, <2>1, SeenIsRest
  <2>3. Fresh(t, d)
    BY <1>1, <1>3, <2>1, AdvanceFresh
  <2>4. /\ Len(Seen(s, d)) = (IF s.off < Len(d) THEN Len(d) - s.off ELSE 0)
        /\ \A i \in 1..(Len(d) - s.off) : Seen(s, d)[i] = d[s.off + i]
    <3>1. s.off \in Nat /\ Len(d) \in Nat /\ Len(d) <= Len(d)
      BY <1>1
    <3>2. /\ Len(SubSeq(d, s.off + 1, Len(d))) = (IF s.off < Len(d) THEN Len(d) - s.off ELSE 0)
          /\ \A i \in 1..(Len(d) - s.off) : SubSeq(d, s.off + 1, Len(d))[i] = d[s.off + i]
      BY <3>1, PartOf
    <3>3. QED  BY <2>2, <3>2
  <2>5. s.off = Len(g)
    BY <1>8 DEF Given
  <2>6. CASE s.off < Len(d)
    <3>1. used = 1 /\ Seen(s, d)[1] = d[s.off + 1]
      BY <1>1, <2>4, <2>6 DEF AtMost
    <3>2. c = Low7[d[s.off + 1]]
      BY <3>1
    <3>3. t.off = s.off + 1 /\ t.eof = FALSE
      <4>1. 1 <= Len(Seen(s, d))
        BY <1>1, <2>4, <2>6
      <4>2. t = [s EXCEPT !.off = s.off + used]
            \/ t = [s EXCEPT !.off = s.off + used, !.base = WindowEnd(s), !.win = Unread(s, d)]
        BY <4>1 DEF Advance
      <4>3. QED  BY <1>1, <1>5, <1>8, <3>1, <4>2 DEF Stream
    <3>4. Follows(t, d)
      BY SMTT(30), <1>1, <1>4, <1>5, <2>3, <2>6, <3>3 DEF Follows, Fresh
    <3>5. ASSUME NEW k \in 1..Len(Append(g, c))
          PROVE  Append(g, c)[k] = IF k <= t.off THEN Low7[d[k]] ELSE CtrlZ
      <4>1. CASE k \in 1..Len(g)
        BY <1>1, <1>6, <2>5, <3>3, <4>1 DEF Given
      <4>2. CASE k = Len(g) + 1
        BY <1>1, <1>6, <2>5, <3>2, <3>3, <4>2
      <4>3. QED  BY <1>1, <1>6, <4>1, <4>2
    <3>6. Given(t, d, Append(g, c))
      BY <1>1, <1>6, <2>5, <3>3, <3>5 DEF Given
    <3>7. QED  BY <1>5, <3>4, <3>6
  <2>7. CASE ~(s.off < Len(d))
    <3>1. used = 0 /\ Len(Seen(s, d)) = 0 /\ c = CtrlZ
      BY <1>1, <1>2, <2>4, <2>7 DEF AtMost
    <3>2. t = [s EXCEPT !.off = s.off + used, !.base = s.off + used, !.win = <<>>, !.eof = TRUE]
      BY <1>2, <3>1 DEF Advance
    <3>3. t.off = s.off /\ t.base = s.off /\ t.win = <<>> /\ t.eof = TRUE
      <4>1. used = 0
        BY <3>1
      <4>2. s \in Stream /\ s.off \in Nat
        BY <1>1
      <4>3. QED  BY <3>2, <4>1, <4>2, EndFields
    <3>4. Follows(t, d)
      BY <1>1, <1>4, <1>5, <2>3, <3>3 DEF Follows, Fresh
    <3>5. ASSUME NEW k \in 1..Len(Append(g, c))
          PROVE  Append(g, c)[k] = IF k <= t.off THEN Low7[d[k]] ELSE CtrlZ
      <4>1. CASE k \in 1..Len(g)
        BY <1>6, <3>3, <4>1 DEF Given
      <4>2. CASE k = Len(g) + 1
        BY <1>1, <1>6, <2>5, <3>1, <3>3, <4>2
      <4>3. QED  BY <1>1, <1>6, <4>1, <4>2
    <3>6. Given(t, d, Append(g, c))
      <4>1. t.off <= Len(Append(g, c)) /\ t.eof
        BY <1>1, <1>6, <2>5, <3>3
      <4>2. QED  BY <1>6, <3>5, <4>1 DEF Given
    <3>7. QED  BY <1>5, <3>4, <3>6
  <2>8. QED  BY <2>6, <2>7
<1>9. QED  BY <1>1, <1>7, <1>8

---------------------------------------------------------------------------
(* The inductive invariant                                                   *)

\* The devices' streams, and the one whose character is on its way.
DevicesTypeOK ==
  /\ stream \in [Device -> Stream \cup {Closed}] /\ data \in Contents
  /\ busy \in Output \cup {NoFile} /\ (busy # NoFile => IsOpen(busy))
  /\ sent \in [Output -> Seq(Byte)] /\ got \in Seq(Byte)

\* What each stream holds back belongs to what was sent last.
StreamsOk ==
  /\ \A d \in Output : IsOpen(d) => OutputOk(stream[d], sent[d], busy = d)
  /\ IsOpen("reader") => GoodStream(stream["reader"]) /\ stream["reader"].pend = <<>>

\* The file of an output that shares it with no other.
FilesOk ==
  \A d \in Output : IsOpen(d) /\ Alone(d) => File(d) = Written(sent[d], busy = d)

\* The reader is somewhere in its file, and has given all before.
ReaderOk ==
  /\ IsOpen("reader") /\ Growing =>
       Follows(stream["reader"], File("reader")) /\ Given(stream["reader"], File("reader"), got)
  /\ ~IsOpen("reader") => \A k \in 1..Len(got) : got[k] = CtrlZ

DevicesInv == DevicesTypeOK /\ StreamsOk /\ FilesOk /\ ReaderOk

\* No call opens or closes a device, or leads it to another file.
SameFiles ==
  \A d \in Device : /\ IsOpen(d)' => IsOpen(d)
                    /\ IsOpen(d) => IsOpen(d)' /\ stream'[d].ino = stream[d].ino

\* So the devices share their files, or do not, for good.
LEMMA SameSharing ==
  ASSUME SameFiles
  PROVE  /\ \A d \in Output : (IsOpen(d)' /\ Alone(d)' => Alone(d))
         /\ Growing' => Growing
<1>1. ASSUME NEW d \in Output, IsOpen(d)', Alone(d)' PROVE Alone(d)
  <2>1. SUFFICES ASSUME NEW e \in {"printer", "punch"} \ {d}, IsOpen(e)
                 PROVE  stream[e].ino # stream[d].ino
    BY DEF Alone
  <2>2. d \in Device /\ e \in Device
    BY DEF Output, Device
  <2>3. IsOpen(e)' /\ stream'[e].ino = stream[e].ino /\ stream'[d].ino = stream[d].ino
    BY <1>1, <2>1, <2>2 DEF SameFiles
  <2>4. stream'[e].ino # stream'[d].ino
    BY <1>1, <2>3 DEF Alone
  <2>5. QED  BY <2>3, <2>4
<1>2. ASSUME Growing' PROVE Growing
  <2>1. SUFFICES ASSUME NEW d \in {"printer", "punch"}, IsOpen(d), IsOpen("reader"),
                        stream[d].ino = stream["reader"].ino
                 PROVE  Alone(d)
    BY DEF Growing
  <2>2. d \in Device /\ "reader" \in Device /\ d \in Output
    BY DEF Output, Device
  <2>3. IsOpen(d)' /\ IsOpen("reader")' /\ stream'[d].ino = stream'["reader"].ino
    BY <2>1, <2>2 DEF SameFiles
  <2>4. Alone(d)'
    BY <1>2, <2>3 DEF Growing
  <2>5. QED  BY <1>1, <2>2, <2>3, <2>4
<1>3. QED  BY <1>1, <1>2

\* A stream that is open is one.
LEMMA OpenStream ==
  ASSUME DevicesTypeOK, NEW d \in Device, IsOpen(d)
  PROVE  stream[d] \in Stream /\ stream[d].ino \in Inode /\ File(d) \in Seq(Byte)
BY DEF DevicesTypeOK, IsOpen, File, Contents, Stream

\* Main opens the devices with nothing sent.
LEMMA InitInv ==
  ASSUME DevicesInit
  PROVE  DevicesInv
<1>1. PICK s \in Setups, h \in Hosts :
        /\ stream = [d \in Device |-> IF s[d] = NoFile THEN Closed ELSE Opened(s[d], d # "reader")]
        /\ data = [i \in Inode |-> IF i = s["reader"] /\ i \notin {s["printer"], s["punch"]}
                                   THEN h ELSE <<>>]
  BY DEF DevicesInit
<1>2. /\ s \in [Device -> Inode \cup {NoFile}] /\ h \in Seq(Byte) /\ <<>> \in Seq(Byte)
      /\ Len(<<>>) = 0
  BY DevicesAssumption, EmptySeq
<1>3. busy = NoFile /\ sent = [d \in Output |-> <<>>] /\ got = <<>>
  BY DEF DevicesInit, Output
<1>4. data \in Contents
  BY <1>1, <1>2 DEF Contents
<1>5. ASSUME NEW d \in Device, IsOpen(d)
      PROVE  /\ s[d] \in Inode /\ stream[d] = Opened(s[d], d # "reader")
             /\ GoodStream(stream[d]) /\ stream[d].pend = <<>> /\ stream[d] \in Stream
  <2>1. s[d] \in Inode /\ stream[d] = Opened(s[d], d # "reader")
    BY <1>1, <1>2, <1>5 DEF IsOpen
  <2>2. (d # "reader") \in BOOLEAN
    OBVIOUS
  <2>3. GoodStream(Opened(s[d], d # "reader")) /\ Opened(s[d], d # "reader").pend = <<>>
    BY <2>1, <2>2, OpenedGood
  <2>4. QED  BY <2>1, <2>3 DEF GoodStream
<1>6. stream \in [Device -> Stream \cup {Closed}]
  <2>1. ASSUME NEW d \in Device PROVE stream[d] \in Stream \cup {Closed}
    BY <1>5 DEF IsOpen
  <2>2. QED  BY <1>1, <2>1
<1>7. DevicesTypeOK
  BY <1>2, <1>3, <1>4, <1>6 DEF DevicesTypeOK
<1>8. NoFile \notin Output
  BY DevicesAssumption DEF Device, Output
<1>9. ASSUME NEW d \in Output, IsOpen(d)
      PROVE  /\ OutputOk(stream[d], sent[d], busy = d) /\ File(d) = <<>> /\ sent[d] = <<>>
             /\ busy # d
  <2>1. d \in Device /\ d # "reader" /\ busy # d /\ sent[d] = <<>>
    BY <1>3, <1>8 DEF Device, Output
  <2>2. GoodStream(stream[d]) /\ stream[d].pend = <<>> /\ s[d] \in Inode
          /\ stream[d] = Opened(s[d], d # "reader")
    BY <1>5, <1>9, <2>1
  <2>3. stream[d].writable /\ stream[d].off = 0 /\ stream[d].ino = s[d]
    <3>1. (d # "reader") = TRUE
      BY <2>1
    <3>2. stream[d] = Opened(s[d], TRUE)
      BY <2>2, <3>1
    <3>3. QED  BY <3>2 DEF Opened
  <2>4. OutputOk(stream[d], sent[d], busy = d)
    BY <1>2, <2>1, <2>2, <2>3 DEF OutputOk
  <2>5. File(d) = <<>>
    BY <1>1, <1>9, <2>2, <2>3 DEF File, Output
  <2>6. QED  BY <2>1, <2>4, <2>5
<1>10. StreamsOk
  BY <1>5, <1>9 DEF StreamsOk, Device
<1>11. FilesOk
  <2>1. ASSUME NEW d \in Output, IsOpen(d) PROVE File(d) = Written(sent[d], busy = d)
    <3>1. File(d) = <<>> /\ sent[d] = <<>> /\ (busy = d) = FALSE
      BY <1>9, <2>1
    <3>2. Written(<<>>, FALSE) = <<>>
      BY <1>2, WrittenAll
    <3>3. QED  BY <3>1, <3>2
  <2>2. QED  BY <2>1 DEF FilesOk
<1>12. ReaderOk
  <2>1. ASSUME IsOpen("reader")
        PROVE  Follows(stream["reader"], File("reader")) /\ Given(stream["reader"], File("reader"), got)
    <3> DEFINE r == stream["reader"]
               d == File("reader")
    <3>1. "reader" \in Device
      BY DEF Device
    <3>2. GoodStream(r) /\ r.pend = <<>> /\ r = Opened(s["reader"], "reader" # "reader") /\ d \in Seq(Byte)
      BY <1>5, <1>7, <2>1, <3>1, OpenStream
    <3>3. r.off = 0 /\ r.base = 0 /\ r.win = <<>> /\ r.eof = FALSE
      BY <3>2 DEF Opened
    <3>4. SubSeq(d, 0 + 1, 0) = <<>> /\ Len(d) \in Nat
      BY <3>2, SubSeqEmpty, LenProperties
    <3> HIDE DEF r, d
    <3>5. WindowEnd(r) = 0
      BY <1>2, <3>3 DEF WindowEnd
    <3>6. Follows(r, d)
      <4>1. r.win = SubSeq(d, r.base + 1, WindowEnd(r)) /\ r.off <= Len(d)
        BY <3>3, <3>4, <3>5
      <4>2. QED  BY <3>2, <3>3, <4>1 DEF Follows
    <3>7. Given(r, d, <<>>)
      BY <1>2, <3>3 DEF Given
    <3>8. QED  BY <1>3, <3>6, <3>7 DEF r, d
  <2>2. QED  BY <1>2, <1>3, <2>1 DEF ReaderOk
<1>13. QED  BY <1>7, <1>10, <1>11, <1>12 DEF DevicesInv

---------------------------------------------------------------------------
(* One step                                                                  *)

\* A step that touches neither a stream nor a file, nor what was sent or got.
LEMMA StillInv ==
  ASSUME DevicesInv, UNCHANGED <<stream, data, busy, sent, got>>
  PROVE  DevicesInv'
<1>1. SameFiles
  BY DEF SameFiles, IsOpen
<1>2. DevicesTypeOK' /\ StreamsOk'
  BY DEF DevicesInv, DevicesTypeOK, StreamsOk, IsOpen
<1>3. FilesOk'
  BY <1>1, SameSharing DEF DevicesInv, FilesOk, IsOpen, File
<1>4. ReaderOk'
  BY <1>1, SameSharing DEF DevicesInv, ReaderOk, IsOpen, File
<1>5. QED  BY <1>2, <1>3, <1>4 DEF DevicesInv

\* fputc to an output: the file is as it was, short of one character now.
LEMMA PutsInv ==
  ASSUME DevicesInv, busy = NoFile, NEW d \in Output, IsOpen(d), NEW c \in Byte, Puts(d, c)
  PROVE  DevicesInv'
<1> DEFINE b == Low7[c]
<1>1. b \in Byte /\ NoFile \notin Output /\ d \in Device
  BY DevicesAssumption DEF Device, Output
<1>2. DevicesTypeOK /\ StreamsOk /\ FilesOk /\ ReaderOk
  BY DEF DevicesInv
<1>3. /\ stream' = [stream EXCEPT ![d] = Put(stream[d], <<b>>)] /\ busy' = d
      /\ sent' = [sent EXCEPT ![d] = Append(sent[d], b)] /\ data' = data /\ got' = got
  BY DEF Puts
<1> HIDE DEF b
<1>4. sent[d] \in Seq(Byte) /\ OutputOk(stream[d], sent[d], FALSE)
  <2>1. (busy = d) = FALSE
    BY <1>1
  <2>2. QED  BY <1>2, <2>1 DEF DevicesTypeOK, StreamsOk
<1>5. /\ stream'[d] = Put(stream[d], <<b>>)
      /\ \A e \in Device : e # d => stream'[e] = stream[e]
      /\ sent'[d] = Append(sent[d], b) /\ \A e \in Output : e # d => sent'[e] = sent[e]
  BY <1>1, <1>2, <1>3 DEF DevicesTypeOK
<1>6. /\ OutputOk(stream'[d], sent'[d], TRUE) /\ stream'[d].ino = stream[d].ino
      /\ Written(sent'[d], TRUE) = Written(sent[d], FALSE)
  BY ZenonT(30), <1>1, <1>4, <1>5, PutOne
<1>7. stream'[d] \in Stream /\ stream'[d] # Closed
  BY <1>6, DevicesAssumption DEF OutputOk, GoodStream
<1>8. SameFiles
  BY <1>5, <1>6, <1>7 DEF SameFiles, IsOpen
<1>9. DevicesTypeOK'
  <2>1. Append(sent[d], b) \in Seq(Byte)
    BY <1>1, <1>4, AppendProperties
  <2>2. stream' \in [Device -> Stream \cup {Closed}]
    BY <1>2, <1>3, <1>5, <1>7 DEF DevicesTypeOK
  <2>3. IsOpen(d)'
    BY <1>7 DEF IsOpen
  <2>4. QED  BY <1>2, <1>3, <2>1, <2>2, <2>3 DEF DevicesTypeOK
<1>10. ASSUME NEW e \in Output, e # d
       PROVE  e \in Device /\ stream'[e] = stream[e] /\ sent'[e] = sent[e]
                /\ (busy = e) = FALSE /\ (busy' = e) = FALSE
  BY <1>1, <1>3, <1>5, <1>10 DEF Device, Output
<1>11. StreamsOk'
  <2>1. ASSUME NEW e \in Output, IsOpen(e)' PROVE OutputOk(stream'[e], sent'[e], busy' = e)
    <3>1. CASE e = d
      <4>1. (busy' = e) = TRUE
        BY <1>3, <3>1
      <4>2. QED  BY <1>6, <3>1, <4>1
    <3>2. CASE e # d
      <4>1. IsOpen(e)
        BY <1>10, <2>1, <3>2 DEF IsOpen
      <4>2. OutputOk(stream[e], sent[e], busy = e)
        BY <1>2, <4>1 DEF StreamsOk
      <4>3. QED  BY <1>10, <3>2, <4>2
    <3>3. QED  BY <3>1, <3>2
  <2>2. stream'["reader"] = stream["reader"]
    BY <1>5 DEF Device, Output
  <2>3. IsOpen("reader")' => GoodStream(stream'["reader"]) /\ stream'["reader"].pend = <<>>
    BY <1>2, <2>2 DEF StreamsOk, IsOpen
  <2>4. QED  BY <2>1, <2>3 DEF StreamsOk
<1>12. FilesOk'
  <2>1. SUFFICES ASSUME NEW e \in Output, IsOpen(e)', Alone(e)'
                 PROVE  File(e)' = Written(sent'[e], busy' = e)
    BY DEF FilesOk
  <2>2. IsOpen(e) /\ Alone(e) /\ stream'[e].ino = stream[e].ino
    BY <1>8, <2>1, SameSharing DEF SameFiles, Device, Output
  <2>3. File(e)' = File(e) /\ File(e) = Written(sent[e], busy = e)
    BY <1>2, <1>3, <2>2 DEF FilesOk, File
  <2>4. CASE e = d
    <3>1. (busy' = e) = TRUE /\ (busy = e) = FALSE
      BY <1>1, <1>3, <2>4
    <3>2. QED  BY <1>6, <2>3, <2>4, <3>1
  <2>5. CASE e # d
    BY <1>10, <2>3, <2>5
  <2>6. QED  BY <2>4, <2>5
<1>13. ReaderOk'
  <2>1. stream'["reader"] = stream["reader"] /\ File("reader")' = File("reader")
    BY <1>3, <1>5 DEF Device, Output, File
  <2>2. Growing' => Growing
    BY <1>8, SameSharing
  <2>3. QED  BY <1>2, <1>3, <2>1, <2>2 DEF ReaderOk, IsOpen
<1>14. QED  BY <1>9, <1>11, <1>12, <1>13 DEF DevicesInv

\* fflush: the character reaches the file, behind all that were sent before it.
LEMMA FlushInv ==
  ASSUME DevicesInv, Flush
  PROVE  DevicesInv'
<1> DEFINE d == busy
           s == stream[d]
           i == s.ino
           f == Flushed(s, data[i])
<1>1. NoFile \notin Output
  BY DevicesAssumption DEF Device, Output
<1>2. DevicesTypeOK /\ StreamsOk /\ FilesOk /\ ReaderOk
  BY DEF DevicesInv
<1>3. d \in Output /\ d \in Device /\ IsOpen(d) /\ d # "reader"
  BY <1>2 DEF Flush, DevicesTypeOK, Device, Output
<1>4. /\ data' = [data EXCEPT ![i] = f] /\ stream' = [stream EXCEPT ![d] = AfterFlush(s)]
      /\ busy' = NoFile /\ sent' = sent /\ got' = got
  BY DEF Flush
<1>5. s \in Stream /\ i \in Inode /\ data[i] \in Seq(Byte) /\ File(d) = data[i]
  BY <1>2, <1>3, OpenStream DEF File
<1>6. sent[d] \in Seq(Byte) /\ OutputOk(s, sent[d], TRUE)
  <2>1. (busy = d) = TRUE
    OBVIOUS
  <2>2. QED  BY <1>2, <1>3, <2>1 DEF DevicesTypeOK, StreamsOk
<1> HIDE DEF s, i, f
<1>7. /\ OutputOk(AfterFlush(s), sent[d], FALSE) /\ AfterFlush(s).ino = i /\ f \in Seq(Byte)
      /\ data[i] = Written(sent[d], TRUE) => f = sent[d] /\ Grows(data[i], sent[d])
  BY <1>5, <1>6, FlushOne DEF f, i
<1> HIDE DEF d
<1>8. /\ stream'[d] = AfterFlush(s) /\ \A e \in Device : e # d => stream'[e] = stream[e]
      /\ data'[i] = f /\ \A j \in Inode : j # i => data'[j] = data[j]
  BY <1>2, <1>3, <1>4, <1>5 DEF DevicesTypeOK, Contents
<1>9. AfterFlush(s) \in Stream /\ stream'[d] # Closed /\ stream'[d].ino = i
  BY <1>7, <1>8, DevicesAssumption DEF OutputOk, GoodStream
<1>10. SameFiles
  BY <1>3, <1>8, <1>9 DEF SameFiles, IsOpen, s, i
<1>11. DevicesTypeOK'
  <2>1. stream' \in [Device -> Stream \cup {Closed}]
    BY <1>2, <1>4, <1>8, <1>9 DEF DevicesTypeOK
  <2>2. data' \in Contents
    BY <1>2, <1>4, <1>7 DEF DevicesTypeOK, Contents
  <2>3. QED  BY <1>2, <1>4, <2>1, <2>2 DEF DevicesTypeOK
<1>12. ASSUME NEW e \in Output, e # d
       PROVE  e \in Device /\ stream'[e] = stream[e] /\ sent'[e] = sent[e]
                /\ (busy = e) = FALSE /\ (busy' = e) = FALSE
  BY <1>1, <1>4, <1>8, <1>12 DEF Device, Output, d
<1>13. stream'["reader"] = stream["reader"]
  BY <1>3, <1>8 DEF Device
<1>14. StreamsOk'
  <2>1. ASSUME NEW e \in Output, IsOpen(e)' PROVE OutputOk(stream'[e], sent'[e], busy' = e)
    <3>1. CASE e = d
      <4>1. (busy' = e) = FALSE
        BY <1>1, <1>4
      <4>2. QED  BY <1>4, <1>7, <1>8, <3>1, <4>1
    <3>2. CASE e # d
      <4>1. IsOpen(e)
        BY <1>12, <2>1, <3>2 DEF IsOpen
      <4>2. OutputOk(stream[e], sent[e], busy = e)
        BY <1>2, <4>1 DEF StreamsOk
      <4>3. QED  BY <1>12, <3>2, <4>2
    <3>3. QED  BY <3>1, <3>2
  <2>2. IsOpen("reader")' => GoodStream(stream'["reader"]) /\ stream'["reader"].pend = <<>>
    BY <1>2, <1>13 DEF StreamsOk, IsOpen
  <2>3. QED  BY <2>1, <2>2 DEF StreamsOk
<1>15. ASSUME Alone(d)
       PROVE  f = sent[d] /\ Grows(data[i], f)
  <2>1. File(d) = Written(sent[d], busy = d) /\ (busy = d) = TRUE
    BY <1>2, <1>3, <1>15 DEF FilesOk, d
  <2>2. data[i] = Written(sent[d], TRUE)
    BY <1>5, <2>1
  <2>3. QED  BY <1>7, <2>2
<1>16. FilesOk'
  <2>1. SUFFICES ASSUME NEW e \in Output, IsOpen(e)', Alone(e)'
                 PROVE  File(e)' = Written(sent'[e], busy' = e)
    BY DEF FilesOk
  <2>2. IsOpen(e) /\ Alone(e) /\ stream'[e].ino = stream[e].ino /\ e \in Device
    BY <1>10, <2>1, SameSharing DEF SameFiles, Device, Output
  <2>3. CASE e = d
    <3>1. File(e)' = sent[d]
      BY <1>8, <1>9, <1>15, <2>2, <2>3 DEF File
    <3>2. (busy' = e) = FALSE /\ sent'[e] = sent[d]
      BY <1>1, <1>4, <2>3
    <3>3. Written(sent[d], FALSE) = sent[d]
      BY <1>6, WrittenAll
    <3>4. QED  BY <3>1, <3>2, <3>3
  <2>4. CASE e # d
    <3>1. stream[e].ino # i /\ stream[e].ino \in Inode
      BY <1>2, <1>3, <2>2, <2>4, OpenStream DEF Alone, Output, i, s
    <3>2. File(e)' = File(e)
      BY <1>8, <2>2, <3>1 DEF File
    <3>3. File(e) = Written(sent[e], busy = e)
      BY <1>2, <2>2 DEF FilesOk
    <3>4. QED  BY <1>12, <2>4, <3>2, <3>3
  <2>5. QED  BY <2>3, <2>4
<1>17. ReaderOk'
  <2>1. Growing' => Growing
    BY <1>10, SameSharing
  <2>2. ASSUME IsOpen("reader")', Growing'
        PROVE  Follows(stream'["reader"], File("reader")')
                 /\ Given(stream'["reader"], File("reader")', got')
    <3> DEFINE r == stream["reader"]
               old == File("reader")
               new == File("reader")'
    <3>1. IsOpen("reader") /\ Growing /\ "reader" \in Device
      BY <1>13, <2>1, <2>2 DEF IsOpen, Device
    <3>2. r.ino \in Inode /\ old \in Seq(Byte) /\ old = data[r.ino] /\ new = data'[r.ino]
      BY <1>2, <1>13, <3>1, OpenStream DEF File
    <3>3. Follows(r, old) /\ Given(r, old, got)
      BY <1>2, <3>1 DEF ReaderOk
    <3>4. Grows(old, new)
      <4>1. CASE r.ino = i
        <5>1. Alone(d)
          BY <1>3, <3>1, <4>1 DEF Growing, Output, s, i
        <5>2. QED  BY <1>8, <1>15, <3>2, <4>1, <5>1
      <4>2. CASE r.ino # i
        <5>1. new = old
          BY <1>8, <3>2, <4>2
        <5>2. QED  BY <3>2, <5>1, LenProperties DEF Grows
      <4>3. QED  BY <4>1, <4>2
    <3> HIDE DEF r, old, new
    <3>5. Follows(r, new) /\ Given(r, new, got)
      BY <3>2, <3>3, <3>4, GrownFollows
    <3>6. QED  BY <1>4, <1>13, <3>5 DEF r, new
  <2>3. ~IsOpen("reader")' => \A k \in 1..Len(got') : got'[k] = CtrlZ
    BY <1>2, <1>4, <1>13 DEF ReaderOk, IsOpen
  <2>4. QED  BY <2>2, <2>3 DEF ReaderOk
<1>18. QED  BY <1>11, <1>14, <1>16, <1>17 DEF DevicesInv

\* The outputs do not see what the reader does to its own stream.
LEMMA ReaderApart ==
  ASSUME DevicesInv, SameFiles, UNCHANGED <<data, busy, sent>>,
         \A d \in Output : stream'[d] = stream[d]
  PROVE  /\ \A d \in Output : (IsOpen(d)' => OutputOk(stream'[d], sent'[d], busy' = d))
         /\ FilesOk'
<1>1. DevicesTypeOK /\ StreamsOk /\ FilesOk
  BY DEF DevicesInv
<1>2. ASSUME NEW d \in Output, IsOpen(d)'
      PROVE  OutputOk(stream'[d], sent'[d], busy' = d)
  BY <1>1, <1>2 DEF StreamsOk, IsOpen
<1>3. ASSUME NEW d \in Output, IsOpen(d)', Alone(d)'
      PROVE  File(d)' = Written(sent'[d], busy' = d)
  <2>1. IsOpen(d) /\ Alone(d)
    BY <1>3, SameSharing DEF IsOpen
  <2>2. File(d) = Written(sent[d], busy = d)
    BY <1>1, <2>1 DEF FilesOk
  <2>3. QED  BY <2>2 DEF File
<1>4. QED  BY <1>2, <1>3 DEF FilesOk

\* fgetc from the reader, or ^Z without one.
LEMMA AuxInputInv ==
  ASSUME DevicesInv, AuxInput
  PROVE  DevicesInv'
<1> DEFINE s == stream["reader"]
           d == File("reader")
           used == AtMost(1, Len(Seen(s, d)))
           t == Advance(s, d, used, 1)
<1>1. DevicesTypeOK /\ StreamsOk /\ FilesOk /\ ReaderOk /\ got \in Seq(Byte)
  BY DEF DevicesInv, DevicesTypeOK
<1>2. UNCHANGED <<data, busy, sent>> /\ got' = Append(got, a')
  BY DEF AuxInput
<1>3. CtrlZ \in Byte /\ "reader" \in Device
  BY HostAssumption DEF Device
<1>4. CASE ~IsOpen("reader") /\ a' = CtrlZ /\ stream' = stream
  <2>1. SameFiles /\ \A e \in Output : stream'[e] = stream[e]
    BY <1>4 DEF SameFiles, IsOpen
  <2>2. /\ got' \in Seq(Byte) /\ Len(got') = Len(got) + 1 /\ got'[Len(got) + 1] = CtrlZ
        /\ \A k \in 1..Len(got) : got'[k] = got[k]
    BY <1>1, <1>2, <1>3, <1>4, AppendProperties
  <2>3. DevicesTypeOK'
    BY <1>1, <1>2, <1>4, <2>2 DEF DevicesTypeOK, IsOpen
  <2>4. ASSUME NEW k \in 1..Len(got') PROVE got'[k] = CtrlZ
    <3>1. Len(got) \in Nat
      BY <1>1, LenProperties
    <3>2. CASE k \in 1..Len(got)
      BY <1>1, <1>4, <2>2, <3>2 DEF ReaderOk
    <3>3. CASE k = Len(got) + 1
      BY <2>2, <3>3
    <3>4. QED  BY <2>2, <3>1, <3>2, <3>3
  <2>5. ReaderOk'
    BY <1>4, <2>4 DEF ReaderOk, IsOpen
  <2>6. StreamsOk' /\ FilesOk'
    BY <1>2, <1>4, <2>1, ReaderApart DEF StreamsOk, IsOpen
  <2>7. QED  BY <2>3, <2>5, <2>6 DEF DevicesInv
<1>5. CASE IsOpen("reader") /\ Reads
  <2>1. /\ stream' = [stream EXCEPT !["reader"] = t]
        /\ a' = IF used = 1 THEN Low7[Seen(s, d)[1]] ELSE CtrlZ
    BY <1>5 DEF Reads
  <2>2. s \in Stream /\ GoodStream(s) /\ s.pend = <<>> /\ d \in Seq(Byte)
    BY <1>1, <1>3, <1>5, OpenStream DEF StreamsOk
  <2>3. Seen(s, d) \in Seq(Byte) /\ Len(Seen(s, d)) \in Nat
    BY <2>2, SeenType, LenProperties
  <2>4. used \in 0..Len(Seen(s, d)) /\ used <= 1 /\ (1 <= used + 1 \/ used = Len(Seen(s, d)))
          /\ (used = 1 => 1 \in 1..Len(Seen(s, d)))
    BY SMTT(30), <2>3 DEF AtMost
  <2>5. GoodStream(t)
    BY <2>2, <2>4, AdvanceGood
  <2>6. t.pend = <<>> /\ t.ino = s.ino /\ t \in Stream /\ t # Closed
    BY <2>2, <2>5, AdvanceKeeps, DevicesAssumption DEF GoodStream
  <2>7. a' \in Byte
    <3>1. CASE used = 1
      <4>1. Seen(s, d)[1] \in Byte
        BY <2>3, <2>4, <3>1, ElementOfSeq
      <4>2. QED  BY <2>1, <3>1, <4>1, DevicesAssumption
    <3>2. CASE used # 1
      BY <1>3, <2>1, <3>2
    <3>3. QED  BY <3>1, <3>2
  <2> HIDE DEF t
  <2>8. /\ stream'["reader"] = t /\ (\A e \in Device : e # "reader" => stream'[e] = stream[e])
        /\ stream' \in [Device -> Stream \cup {Closed}]
    BY <1>1, <1>3, <2>1, <2>6 DEF DevicesTypeOK
  <2>9. \A e \in Output : stream'[e] = stream[e]
    BY <2>8 DEF Device, Output
  <2>10. SameFiles
    BY <1>5, <2>6, <2>8 DEF SameFiles, IsOpen
  <2>11. DevicesTypeOK'
    <3>1. got' \in Seq(Byte)
      BY <1>1, <1>2, <2>7, AppendProperties
    <3>2. busy' # NoFile => IsOpen(busy)'
      BY <1>1, <1>2, <2>9 DEF DevicesTypeOK, IsOpen
    <3>3. QED  BY <1>1, <1>2, <2>8, <3>1, <3>2 DEF DevicesTypeOK
  <2>12. StreamsOk' /\ FilesOk'
    BY <1>2, <2>5, <2>6, <2>8, <2>9, <2>10, ReaderApart DEF StreamsOk
  <2>13. ReaderOk'
    <3>1. IsOpen("reader")'
      BY <2>6, <2>8 DEF IsOpen
    <3>2. File("reader")' = d
      BY <1>2, <2>6, <2>8 DEF File
    <3>3. ASSUME Growing'
          PROVE  Follows(t, d) /\ Given(t, d, got')
      <4>1. Growing
        BY <2>10, <3>3, SameSharing
      <4>2. Follows(s, d) /\ Given(s, d, got)
        BY <1>1, <1>5, <4>1 DEF ReaderOk
      <4> HIDE DEF s, d
      <4> DEFINE c == a'
      <4>3. c \in Byte /\ c = (IF used = 1 THEN Low7[Seen(s, d)[1]] ELSE CtrlZ)
        BY <2>1, <2>7
      <4>4. t = Advance(s, d, used, 1)
        BY DEF t
      <4> HIDE DEF c
      <4>5. d \in Seq(Byte) /\ used = AtMost(1, Len(Seen(s, d)))
        BY <2>2
      <4> HIDE DEF used
      <4>6. Follows(t, d) /\ Given(t, d, Append(got, c))
        BY <4>2, <4>3, <4>4, <4>5, ReadOne
      <4>7. QED  BY <1>2, <4>6 DEF c
    <3>4. QED  BY <2>8, <3>1, <3>2, <3>3 DEF ReaderOk
  <2>14. QED  BY <2>11, <2>12, <2>13 DEF DevicesInv
<1>6. QED  BY <1>4, <1>5 DEF AuxInput

\* Another process writes behind what the reader's file holds.
LEMMA HostAppendsInv ==
  ASSUME DevicesInv, NEW c \in Byte, HostAppends(c)
  PROVE  DevicesInv'
<1> DEFINE s == stream["reader"]
           d == File("reader")
           e == Append(d, c)
<1>1. DevicesTypeOK /\ StreamsOk /\ FilesOk /\ ReaderOk /\ got \in Seq(Byte)
  BY DEF DevicesInv, DevicesTypeOK
<1>2. /\ IsOpen("reader") /\ \A o \in Output : ~IsOpen(o)
      /\ data' = [data EXCEPT ![s.ino] = e] /\ UNCHANGED <<stream, busy, sent, got>>
  BY DEF HostAppends, Device, Output, File
<1>3. s.ino \in Inode /\ d \in Seq(Byte)
  BY <1>1, <1>2, OpenStream DEF Device
<1>4. e \in Seq(Byte) /\ Grows(d, e)
  <2>1. /\ e \in Seq(Byte) /\ Len(e) = Len(d) + 1 /\ Len(d) \in Nat
        /\ \A k \in 1..Len(d) : e[k] = d[k]
    BY <1>3, AppendProperties, LenProperties
  <2> HIDE DEF e
  <2>2. QED  BY <2>1 DEF Grows
<1> HIDE DEF e
<1>5. data' \in Contents /\ File("reader")' = e
  BY <1>1, <1>2, <1>3, <1>4 DEF DevicesTypeOK, Contents, File
<1>6. DevicesTypeOK' /\ StreamsOk'
  BY <1>1, <1>2, <1>5 DEF DevicesTypeOK, StreamsOk, IsOpen
<1>7. FilesOk'
  BY <1>2 DEF FilesOk, IsOpen
<1>8. ReaderOk'
  <2>1. SameFiles
    BY <1>2 DEF SameFiles, IsOpen
  <2>2. Growing' => Growing
    BY <2>1, SameSharing
  <2>3. Growing => Follows(s, d) /\ Given(s, d, got)
    BY <1>1, <1>2 DEF ReaderOk
  <2> HIDE DEF s, d
  <2>4. Growing => Follows(s, e) /\ Given(s, e, got)
    BY <1>3, <1>4, <2>3, GrownFollows
  <2>5. QED  BY <1>2, <1>5, <2>2, <2>4 DEF ReaderOk, IsOpen, s
<1>9. QED  BY <1>6, <1>7, <1>8 DEF DevicesInv

\* Every step of every call.
LEMMA StepInv ==
  ASSUME DevicesInv, [DevicesNext]_deviceVars
  PROVE  DevicesInv'
<1>1. Outputs \subseteq Byte
  BY DevicesAssumption
<1>2. ASSUME NEW c \in Outputs, ListOutput(c) PROVE DevicesInv'
  <2>1. CASE IsOpen("printer") /\ Puts("printer", c)
    BY <1>1, <1>2, <2>1, PutsInv DEF ListOutput, Ready, Output
  <2>2. CASE Shows("printer", c)
    BY <2>2, StillInv DEF Shows
  <2>3. QED  BY <1>2, <2>1, <2>2 DEF ListOutput
<1>3. ASSUME NEW c \in Outputs, AuxOutput(c) PROVE DevicesInv'
  <2>1. CASE IsOpen("punch") /\ Puts("punch", c)
    BY <1>1, <1>3, <2>1, PutsInv DEF AuxOutput, Ready, Output
  <2>2. CASE UNCHANGED deviceVars
    BY <2>2, StillInv DEF deviceVars
  <2>3. QED  BY <1>3, <2>1, <2>2 DEF AuxOutput
<1>4. ASSUME NEW c \in Outputs, Punch(c) PROVE DevicesInv'
  <2>1. CASE IsOpen("punch") /\ Puts("punch", c)
    BY <1>1, <1>4, <2>1, PutsInv DEF Punch, Ready, Output
  <2>2. CASE Shows("punch", c)
    BY <2>2, StillInv DEF Shows
  <2>3. QED  BY <1>4, <2>1, <2>2 DEF Punch
<1>5. ASSUME NEW c \in Outputs, HostAppends(c) PROVE DevicesInv'
  BY <1>1, <1>5, HostAppendsInv
<1>6. CASE Flush
  BY <1>6, FlushInv
<1>7. CASE AuxInput
  BY <1>7, AuxInputInv
<1>8. CASE ListStatus \/ Kill
  BY <1>8, StillInv DEF ListStatus, Kill
<1>9. CASE UNCHANGED deviceVars
  BY <1>9, StillInv DEF deviceVars
<1>10. QED  BY <1>2, <1>3, <1>4, <1>5, <1>6, <1>7, <1>8, <1>9 DEF DevicesNext

\* The devices stay in the invariant.
LEMMA InvHolds == DevicesSpec => []DevicesInv
<1>1. QED  BY InitInv, StepInv, PTL DEF DevicesSpec

---------------------------------------------------------------------------
(* What the devices promise                                                  *)

\* A device's file is what has been sent to it, seven bits a character and in
\* order, after any number of calls and after a kill at any moment, for every set
\* of characters and every choice of files (bdos_list_output, bdos_aux_output,
\* bios_list, bios_punch).
THEOREM OutputsAreKept == DevicesSpec => []FileIsWhatWasSent
<1>1. ASSUME DevicesInv PROVE FileIsWhatWasSent
  <2>1. ASSUME NEW d \in {"printer", "punch"}, IsOpen(d), Alone(d)
        PROVE  File(d) = SubSeq(sent[d], 1, Len(sent[d]) - IF busy = d THEN 1 ELSE 0)
    BY <1>1, <2>1 DEF DevicesInv, FilesOk, Written, Output
  <2>2. QED  BY <2>1 DEF FileIsWhatWasSent
<1>2. QED  BY <1>1, InvHolds, PTL

\* The reader gives every character of its file once and in order, and after ^Z for
\* the end only ^Z, however the file grows under it and whatever the sizes of the
\* window (bdos_aux_input, bios_reader).
THEOREM ReaderIsInOrder == DevicesSpec => []ReaderGivesFile
<1>1. ASSUME DevicesInv PROVE ReaderGivesFile
  <2> DEFINE taken == IF IsOpen("reader") THEN stream["reader"].off ELSE 0
             h == [k \in DOMAIN got |-> IF k <= taken THEN Low7[File("reader")[k]] ELSE CtrlZ]
  <2>1. SUFFICES ASSUME Growing PROVE got = h
    BY DEF ReaderGivesFile
  <2>2. DOMAIN got = 1..Len(got) /\ Len(got) \in Nat /\ got = [k \in DOMAIN got |-> got[k]]
    <3>1. got \in Seq(Byte)
      BY <1>1 DEF DevicesInv, DevicesTypeOK
    <3>2. got \in [1..Len(got) -> Byte] /\ DOMAIN got = 1..Len(got) /\ Len(got) \in Nat
      BY <3>1, LenProperties
    <3>3. QED  BY <3>2
  <2>3. ASSUME NEW k \in DOMAIN got
        PROVE  got[k] = IF k <= taken THEN Low7[File("reader")[k]] ELSE CtrlZ
    <3>1. CASE IsOpen("reader")
      BY <1>1, <2>1, <2>2, <3>1 DEF DevicesInv, ReaderOk, Given
    <3>2. CASE ~IsOpen("reader")
      <4>1. got[k] = CtrlZ /\ ~(k <= taken)
        BY <1>1, <2>2, <3>2 DEF DevicesInv, ReaderOk
      <4>2. QED  BY <4>1
    <3>3. QED  BY <3>1, <3>2
  <2> HIDE DEF taken
  <2>4. h = [k \in DOMAIN got |-> got[k]]
    BY <2>3
  <2>5. QED  BY <2>2, <2>4
<1>2. QED  BY <1>1, InvHolds, PTL
=============================================================================
