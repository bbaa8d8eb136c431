---------------------------- MODULE StreamProofs ----------------------------
(***************************************************************************)
(* What the operators that BdosFiles is built from do, for every sequence  *)
(* of bytes and every record size.  The conversions of TextConversion stay *)
(* within the types that BdosFiles keeps its state in.  The operators of   *)
(* Stdio keep a stream well formed, whatever the file holds at the time;   *)
(* and as long as no other stream changes the file, what a stream has      *)
(* fetched stays what the file holds.                                      *)
(***************************************************************************)
EXTENDS TextConversion, Stdio, FiniteSetTheorems, SequenceTheorems, TLAPS

---------------------------------------------------------------------------
(* Counting and converting                                                  *)

\* The order of the naturals as a relation, so that WFMin applies to it.
Less == {p \in Nat \X Nat : p[1] < p[2]}

\* Every nonempty set of naturals has a least element.
LEMMA LeastNatural ==
  ASSUME NEW T \in SUBSET Nat, T # {}
  PROVE  \E m \in T : \A k \in T : m <= k
<1>1. IsWellFoundedOn(Less, Nat)
  <2>1. OpToRel(<, Nat) = Less
    BY DEF OpToRel, Less
  <2>2. QED  BY <2>1, NatLessThanWellFounded
<1>2. PICK m \in T : \A k \in T : ~ (<<k, m>> \in Less)
  BY <1>1, WFMin
<1>3. ASSUME NEW k \in T PROVE m <= k
  <2>1. k \in Nat /\ m \in Nat
    OBVIOUS
  <2>2. ~ (k < m)
    BY <1>2, <2>1 DEF Less
  <2>3. QED  BY <2>1, <2>2
<1>4. QED  BY <1>3

\* Every nonempty set of naturals up to a bound has a greatest element.
LEMMA GreatestNatural ==
  ASSUME NEW N \in Nat, NEW T \in SUBSET (0..N), T # {}
  PROVE  \E m \in T : \A k \in T : k <= m
<1> DEFINE D == {N - k : k \in T}
<1>1. D \in SUBSET Nat /\ D # {}
  <2>1. ASSUME NEW k \in T PROVE N - k \in Nat
    <3>1. k \in 0..N
      OBVIOUS
    <3>2. QED  BY <3>1
  <2>2. QED  BY <2>1
<1>2. PICK e \in D : \A x \in D : e <= x
  BY <1>1, LeastNatural
<1>3. PICK m \in T : e = N - m
  OBVIOUS
<1>4. ASSUME NEW k \in T PROVE k <= m
  <2>1. e <= N - k
    BY <1>2
  <2>2. k \in 0..N /\ m \in 0..N
    OBVIOUS
  <2>3. QED  BY <1>3, <2>1, <2>2
<1>5. QED  BY <1>4

\* A set of positions of the first n has at most n elements.
LEMMA CountBound ==
  ASSUME NEW n \in Nat, NEW S, S \subseteq 1..n
  PROVE  IsFiniteSet(S) /\ Cardinality(S) \in 0..n
<1>1. IsFiniteSet(1..n) /\ Cardinality(1..n) = n
  BY FS_Interval
<1>2. IsFiniteSet(S) /\ Cardinality(S) <= n
  BY <1>1, FS_Subset
<1>3. Cardinality(S) \in Nat
  BY <1>2, FS_CardinalityType
<1>4. QED  BY <1>2, <1>3

\* TextLength counts bytes of the sequence (722-774).
LEMMA TextLengthType ==
  ASSUME NEW s \in Seq(Byte)
  PROVE  TextLength(s) \in 0..Len(s)
<1>1. {k \in DOMAIN s : \A j \in 1..k : s[j] # CtrlZ} \subseteq 1..Len(s)
  BY LenProperties
<1>2. QED  BY <1>1, CountBound, LenProperties DEF TextLength

\* Expanding k bytes makes at least k and at most 2 * k.
LEMMA WidthType ==
  ASSUME NEW s, NEW k \in Nat
  PROVE  Width(s, k) \in k..(2 * k)
<1>1. Cardinality({i \in 1..k : s[i] = Lf}) \in 0..k
  BY CountBound
<1>2. QED  BY <1>1 DEF Width

\* Expand makes bytes, one Cr Lf or one byte for each: no position of the
\* buffer is left without a byte of the stream behind it (738-768).
LEMMA ExpandType ==
  ASSUME NEW s \in Seq(Byte)
  PROVE  /\ Expand(s) \in Seq(Byte)
         /\ Len(Expand(s)) = Width(s, Len(s))
<1>1. Len(s) \in Nat /\ DOMAIN s = 1..Len(s) /\ \A i \in 1..Len(s) : s[i] \in Byte
  BY LenProperties, ElementOfSeq
<1>2. Width(s, Len(s)) \in Nat
  BY <1>1, WidthType
<1>3. ASSUME NEW j \in 1..Width(s, Len(s))
      PROVE  Cardinality({i \in DOMAIN s : Width(s, i) < j}) + 1 \in 1..Len(s)
  <2>1. Len(s) # 0
    <3>1. SUFFICES ASSUME Len(s) = 0 PROVE FALSE
      BY <1>1
    <3>2. Width(s, 0) \in 0..0
      BY WidthType
    <3>3. QED  BY <3>1, <3>2
  <2>2. {i \in DOMAIN s : Width(s, i) < j} \subseteq 1..(Len(s) - 1)
    <3>1. SUFFICES ASSUME NEW i \in 1..Len(s), Width(s, i) < j PROVE i \in 1..(Len(s) - 1)
      BY <1>1
    <3>2. CASE i = Len(s)
      <4>1. ~ (Width(s, Len(s)) < j)
        BY <1>2
      <4>2. QED  BY <3>1, <3>2, <4>1
    <3>3. CASE i # Len(s)
      <4>1. Len(s) \in Nat
        BY <1>1
      <4>2. QED  BY <3>3, <4>1
    <3>4. QED  BY <3>2, <3>3
  <2>3. QED  BY <1>1, <2>1, <2>2, CountBound
<1>4. Cr \in Byte
  BY HostAssumption
<1>5. Expand(s) \in [1..Width(s, Len(s)) -> Byte]
  <2>1. ASSUME NEW j \in 1..Width(s, Len(s)),
               NEW k, k = Cardinality({i \in DOMAIN s : Width(s, i) < j}) + 1
        PROVE  (IF s[k] = Lf /\ j < Width(s, k) THEN Cr ELSE s[k]) \in Byte
    BY <1>1, <1>3, <1>4, <2>1
  <2>2. QED  BY <2>1 DEF Expand
<1>6. QED  BY <1>2, <1>5, IsASeq, LenProperties

\* The number of bytes that fit is a number of bytes there are.
LEMMA FittingType ==
  ASSUME NEW s \in Seq(Byte)
  PROVE  Fitting(s) \in 0..Len(s)
<1>1. TextLength(s) \in 0..Len(s) /\ Len(s) \in Nat
  BY TextLengthType, LenProperties
<1>2. QED  BY <1>1, CountBound DEF Fitting

\* At most the last byte asked for is given back, unless the stream ran dry.
IsReadResult(r, seen) ==
  /\ r.out \in Seq(Byte) /\ r.atEof \in BOOLEAN
  /\ r.used \in 0..Len(seen) /\ r.asked \in Nat /\ r.used <= r.asked
  /\ r.asked <= r.used + 1 \/ r.used = Len(seen)

\* Reading through the fgetc loop yields bytes, consumes no more than the stream
\* has and never more than it asked for (738-773).
LEMMA ReadExpandedType ==
  ASSUME NEW seen \in Seq(Byte)
  PROVE  IsReadResult(ReadExpanded(seen), seen)
<1> DEFINE used  == Fitting(seen)
           full  == Width(seen, used) = RecSize
           atEof == ~full /\ used < Len(seen) /\ seen[used + 1] = CtrlZ
<1>1. used \in 0..Len(seen) /\ Len(seen) \in Nat
  BY FittingType, LenProperties
<1>2. SubSeq(seen, 1, used) \in Seq(Byte)
  BY <1>1, SubSeqProperties
<1>3. Expand(SubSeq(seen, 1, used)) \in Seq(Byte)
  BY <1>2, ExpandType
<1>4. ReadExpanded(seen) = ReadResult(Expand(SubSeq(seen, 1, used)),
                             IF atEof THEN used + 1 ELSE used,
                             IF full THEN used ELSE used + 1, atEof)
  BY DEF ReadExpanded
<1>5. full \in BOOLEAN /\ atEof \in BOOLEAN /\ (atEof => ~full /\ used < Len(seen))
  OBVIOUS
<1>6. HIDE DEF used, full, atEof
<1>7. QED  BY <1>1, <1>3, <1>4, <1>5 DEF ReadResult, IsReadResult

\* Reading a record through fread yields bytes (727-742).
LEMMA ReadDirectType ==
  ASSUME NEW seen \in Seq(Byte), NEW mode
  PROVE  IsReadResult(ReadDirect(mode, seen), seen)
<1> DEFINE used == AtMost(RecSize, Len(seen))
           raw  == SubSeq(seen, 1, used)
           cut  == mode = "text" /\ HasCtrlZ(raw)
<1>1. /\ used \in 0..Len(seen) /\ used <= RecSize /\ Len(seen) \in Nat /\ RecSize \in Nat
      /\ RecSize <= used \/ used = Len(seen)
  BY RecSizeAssumption, LenProperties DEF AtMost
<1>2. raw \in Seq(Byte)
  BY <1>1, SubSeqProperties
<1>3. SubSeq(raw, 1, TextLength(raw)) \in Seq(Byte)
  <2>1. ASSUME NEW t \in Seq(Byte) PROVE SubSeq(t, 1, TextLength(t)) \in Seq(Byte)
    <3>1. TextLength(t) \in 0..Len(t) /\ Len(t) \in Nat
      BY TextLengthType, LenProperties
    <3>2. QED  BY <3>1, SubSeqProperties
  <2>2. QED  BY <1>2, <2>1
<1>4. ReadDirect(mode, seen) = ReadResult(
        IF cut THEN SubSeq(raw, 1, TextLength(raw)) ELSE raw, used, RecSize, cut)
  BY DEF ReadDirect
<1>5. cut \in BOOLEAN
  OBVIOUS
<1>6. HIDE DEF used, raw, cut
<1>7. QED  BY <1>1, <1>2, <1>3, <1>4, <1>5 DEF ReadResult, IsReadResult

\* Both branches of read_with_conversion.
LEMMA ReadType ==
  ASSUME NEW of, NEW seen \in Seq(Byte)
  PROVE  IsReadResult(ReadWithConversion(of, seen), seen)
BY ReadDirectType, ReadExpandedType DEF ReadWithConversion

\* A padded record is a record (811-816).
LEMMA PadType ==
  ASSUME NEW out \in Seq(Byte)
  PROVE  Pad(out) \in Record
BY ElementOfSeq, LenProperties, HostAssumption DEF Pad, Record

\* Collapse takes its bytes from the record (776-809).
LEMMA CollapseType ==
  ASSUME NEW rec \in Seq(Byte)
  PROVE  Collapse(rec) \in Seq(Byte) /\ Len(Collapse(rec)) <= Len(rec)
<1> DEFINE n == TextLength(rec)
<1>1. n \in Nat /\ n <= Len(rec) /\ Len(rec) \in Nat /\ \A i \in 1..n : rec[i] \in Byte
  BY TextLengthType, LenProperties, ElementOfSeq
<1>2. \A k \in Nat : Kept(rec, k) \in 0..k
  BY CountBound DEF Kept
<1>3. ASSUME NEW j \in 1..Kept(rec, n)
      PROVE  Cardinality({i \in 1..n : Kept(rec, i) < j}) + 1 \in 1..n
  <2>1. n # 0
    BY <1>1, <1>2
  <2>2. {i \in 1..n : Kept(rec, i) < j} \subseteq 1..(n - 1)
    <3>1. SUFFICES ASSUME NEW i \in 1..n, Kept(rec, i) < j PROVE i <= n - 1
      OBVIOUS
    <3>2. i # n
      BY <1>1, <1>2, <3>1
    <3>3. QED  BY <1>1, <3>2
  <2>3. QED  BY <1>1, <2>1, <2>2, CountBound
<1>4. Collapse(rec) \in [1..Kept(rec, n) -> Byte]
  BY <1>1, <1>3 DEF Collapse
<1>5. Kept(rec, n) \in 0..n
  BY <1>1, <1>2
<1>6. HIDE DEF n
<1>7. QED  BY <1>1, <1>4, <1>5, IsASeq, LenProperties

\* A record is a nonempty sequence of RecSize bytes.
LEMMA RecordIsSeq ==
  ASSUME NEW rec \in Record
  PROVE  rec \in Seq(Byte) /\ Len(rec) = RecSize /\ rec # <<>>
<1>1. rec \in Seq(Byte)
  BY IsASeq, RecSizeAssumption, LenProperties DEF Record
<1>2. DOMAIN rec = 1..RecSize /\ DOMAIN rec = 1..Len(rec) /\ Len(rec) \in Nat
  BY <1>1, LenProperties DEF Record
<1>3. Len(rec) = RecSize
  BY <1>2, RecSizeAssumption
<1>4. QED  BY <1>1, <1>3, EmptySeq, RecSizeAssumption

---------------------------------------------------------------------------
(* Streams                                                                  *)

\* A stream the C library may be in.
GoodStream(s) == s \in Stream /\ Shaped(s)

\* A stream with its moving fields replaced.
Moved(s, off, base, win, pend, eof) ==
  [s EXCEPT !.off = off, !.base = base, !.win = win, !.pend = pend, !.eof = eof]

\* The new values fit together.
Fits(s, off, base, win, pend, eof) ==
  /\ s \in Stream /\ off \in Nat /\ base \in Nat /\ win \in Seq(Byte)
  /\ pend \in Seq(Byte) /\ eof \in BOOLEAN
  /\ base <= off /\ off <= base + Len(win) /\ Len(pend) <= off
  /\ pend # <<>> => win = <<>> /\ s.writable

\* A stream stays well formed when its moving fields get values that fit together.
LEMMA MovedGood ==
  ASSUME NEW s, NEW off, NEW base, NEW win, NEW pend, NEW eof,
         Fits(s, off, base, win, pend, eof)
  PROVE  /\ GoodStream(Moved(s, off, base, win, pend, eof))
         /\ Moved(s, off, base, win, pend, eof).pend = pend
         /\ Moved(s, off, base, win, pend, eof).ino = s.ino
         /\ Moved(s, off, base, win, pend, eof).writable = s.writable
<1> DEFINE t == Moved(s, off, base, win, pend, eof)
<1> USE DEF Fits
<1>1. t \in Stream
  BY DEF Stream, Moved
<1>2. t.off = off /\ t.base = base /\ t.win = win /\ t.pend = pend
  BY DEF Stream, Moved
<1>3. t.ino = s.ino /\ t.writable = s.writable
  BY DEF Stream, Moved
<1>4. QED  BY <1>1, <1>2, <1>3 DEF GoodStream, Shaped, WindowEnd

\* What fopen returns is well formed and holds nothing back.
LEMMA OpenedGood ==
  ASSUME NEW ino \in Inode, NEW writable \in BOOLEAN
  PROVE  GoodStream(Opened(ino, writable)) /\ Opened(ino, writable).pend = <<>>
<1>1. <<>> \in Seq(Byte) /\ Len(<<>>) = 0
  BY EmptySeq
<1>2. QED  BY <1>1 DEF GoodStream, Shaped, Opened, Stream, WindowEnd

\* Writing bytes into a file leaves a file.
LEMMA OverwriteType ==
  ASSUME NEW d \in Seq(Byte), NEW at \in Nat, NEW bytes \in Seq(Byte)
  PROVE  Overwrite(d, at, bytes) \in Seq(Byte)
<1> DEFINE end  == at + Len(bytes)
           size == IF end > Len(d) THEN end ELSE Len(d)
           val  == [k \in 1..size |-> CASE k > at /\ k <= end -> bytes[k - at]
                                      [] (k <= at \/ k > end) /\ k <= Len(d) -> d[k]
                                      [] OTHER -> Zero]
<1>1. Len(d) \in Nat /\ Len(bytes) \in Nat /\ size \in Nat
  BY LenProperties
<1>2. Zero \in Byte
  BY HostAssumption
<1>3. ASSUME NEW k \in 1..size PROVE val[k] \in Byte
  <2>1. CASE k > at /\ k <= end
    <3>1. k - at \in 1..Len(bytes)
      BY <1>1, <2>1
    <3>2. bytes[k - at] \in Byte
      BY <3>1, ElementOfSeq
    <3>3. QED  BY <2>1, <3>2
  <2>2. CASE ~(k > at /\ k <= end) /\ k <= Len(d)
    <3>1. k \in 1..Len(d)
      BY <1>1, <2>2
    <3>2. d[k] \in Byte
      BY <3>1, ElementOfSeq
    <3>3. k <= at \/ k > end
      BY <1>1, <2>2
    <3>4. val[k] = d[k]
      BY <2>2, <3>3
    <3>5. QED  BY <3>2, <3>4
  <2>3. CASE ~(k > at /\ k <= end) /\ ~(k <= Len(d))
    BY <1>2, <2>3
  <2>4. QED  BY <2>1, <2>2, <2>3
<1>4. val \in [1..size -> Byte]
  BY <1>3
<1>5. val \in Seq(Byte)
  <2> HIDE DEF val, size
  <2> QED  BY <1>1, <1>4, IsASeq, LenProperties
<1>6. QED  BY <1>5 DEF Overwrite

\* A file is still bytes when a stream's pending ones have been written to it.
LEMMA FlushedType ==
  ASSUME NEW s, GoodStream(s), NEW d \in Seq(Byte)
  PROVE  Flushed(s, d) \in Seq(Byte)
<1>1. s.off - Len(s.pend) \in Nat /\ s.pend \in Seq(Byte)
  BY LenProperties DEF GoodStream, Stream, Shaped
<1>2. QED  BY <1>1, OverwriteType DEF Flushed

\* fflush on a writing stream leaves it well formed, with nothing pending.
LEMMA AfterFlushGood ==
  ASSUME NEW s, GoodStream(s)
  PROVE  GoodStream(AfterFlush(s)) /\ AfterFlush(s).pend = <<>>
<1>1. <<>> \in Seq(Byte) /\ Len(<<>>) = 0
  BY EmptySeq
<1>2. QED  BY <1>1 DEF GoodStream, Shaped, AfterFlush, Stream, WindowEnd

\* What a stream has fetched and not delivered, and what reading it would deliver.
LEMMA SeenType ==
  ASSUME NEW s, GoodStream(s), NEW d \in Seq(Byte)
  PROVE  /\ Buffered(s) \in Seq(Byte) /\ Unread(s, d) \in Seq(Byte)
         /\ Seen(s, d) \in Seq(Byte)
         /\ Len(Buffered(s)) = Len(s.win) - (s.off - s.base)
         /\ Len(Seen(s, d)) = Len(Buffered(s)) + Len(Unread(s, d))
<1>1. /\ s.off \in Nat /\ s.base \in Nat /\ s.win \in Seq(Byte) /\ Len(s.win) \in Nat
      /\ s.base <= s.off /\ s.off <= s.base + Len(s.win) /\ Len(d) \in Nat
  BY LenProperties DEF GoodStream, Stream, Shaped, WindowEnd
<1>2. Buffered(s) \in Seq(Byte) /\ Len(Buffered(s)) = Len(s.win) - (s.off - s.base)
  <2>1. \A i \in (s.off - s.base + 1)..Len(s.win) : s.win[i] \in Byte
    BY <1>1, ElementOfSeq
  <2> DEFINE m == s.off - s.base + 1
             n == Len(s.win)
  <2>2. m \in Int /\ n \in Int /\ m <= n + 1 /\ \A i \in m..n : s.win[i] \in Byte
    BY <1>1, <2>1
  <2>3. /\ SubSeq(s.win, m, n) \in Seq(Byte)
        /\ Len(SubSeq(s.win, m, n)) = IF m <= n THEN n - m + 1 ELSE 0
    <3> HIDE DEF m, n
    <3> QED  BY <2>2, SubSeqProperties
  <2>4. QED  BY <1>1, <2>2, <2>3 DEF Buffered
<1>3. Unread(s, d) \in Seq(Byte)
  <2>1. <<>> \in Seq(Byte)
    BY EmptySeq
  <2> DEFINE m == WindowEnd(s) + 1
  <2>2. m \in Int /\ m >= 1
    BY <1>1 DEF WindowEnd
  <2>3. \A i \in m..Len(d) : d[i] \in Byte
    BY <1>1, <2>2, ElementOfSeq
  <2>4. SubSeq(d, m, Len(d)) \in Seq(Byte)
    <3> HIDE DEF m
    <3> QED  BY <1>1, <2>2, <2>3, SubSeqProperties
  <2>5. QED  BY <2>1, <2>4 DEF Unread
<1>4. QED  BY <1>2, <1>3, ConcatProperties DEF Seen

\* Delivering used bytes when asked were wanted; at most one byte is given back
\* by ungetc, unless the file ended.
LEMMA AdvanceGood ==
  ASSUME NEW s, GoodStream(s), s.pend = <<>>, NEW d \in Seq(Byte),
         NEW used \in 0..Len(Seen(s, d)), NEW asked \in Nat, used <= asked,
         asked <= used + 1 \/ used = Len(Seen(s, d))
  PROVE  GoodStream(Advance(s, d, used, asked))
<1>1. /\ s.off \in Nat /\ s.base \in Nat /\ s.win \in Seq(Byte) /\ Len(s.win) \in Nat
      /\ s.base <= s.off /\ s.off <= s.base + Len(s.win) /\ s \in Stream
  BY LenProperties DEF GoodStream, Stream, Shaped, WindowEnd
<1>2. /\ Buffered(s) \in Seq(Byte) /\ Unread(s, d) \in Seq(Byte)
      /\ Len(Buffered(s)) = Len(s.win) - (s.off - s.base)
      /\ Len(Seen(s, d)) = Len(Buffered(s)) + Len(Unread(s, d))
  BY SeenType
<1>3. Len(Buffered(s)) \in Nat /\ Len(Unread(s, d)) \in Nat
  BY <1>2, LenProperties
<1>4. used \in Nat /\ s.off + used \in Nat
  <2>1. Len(Seen(s, d)) \in Nat
    BY <1>2, <1>3
  <2>2. used \in Nat
    BY <2>1
  <2>3. QED  BY <1>1, <2>2
<1>5. <<>> \in Seq(Byte) /\ Len(<<>>) = 0
  BY EmptySeq
<1> DEFINE B == Len(Buffered(s))
           U == Len(Unread(s, d))
           W == Len(s.win)
           O == s.off
           A == s.base
           L == Len(Seen(s, d))
           E == WindowEnd(s)
<1>6. /\ B \in Nat /\ U \in Nat /\ W \in Nat /\ O \in Nat /\ A \in Nat
      /\ B = W - (O - A) /\ A <= O /\ O <= A + W
      /\ used \in Nat /\ asked \in Nat /\ used <= asked
      /\ used <= L /\ (asked <= used + 1 \/ used = L)
      /\ L = B + U /\ E = A + W
  BY <1>1, <1>2, <1>3, <1>4 DEF WindowEnd
<1>ends. /\ asked <= B => A <= O + used /\ O + used <= A + W
         /\ asked > B => E <= O + used /\ O + used <= E + U /\ E \in Nat
         /\ asked > B => ~ (asked <= B)
         /\ asked > B + U => ~ (asked <= B) /\ ~ (asked <= L)
         /\ asked > B /\ asked <= B + U => asked <= L
         /\ asked <= B \/ (asked > B /\ asked <= B + U) \/ asked > B + U
  <2> HIDE DEF B, U, W, O, A, L, E
  <2>1. QED  BY <1>6
<1>7. CASE asked <= B
  <2>1. Advance(s, d, used, asked) =
          Moved(s, s.off + used, s.base, s.win, <<>>, s.eof)
    BY <1>1, <1>7 DEF Advance, Moved, Stream
  <2>2. s.base <= s.off + used /\ s.off + used <= s.base + W
    BY <1>7, <1>ends
  <2>3. s.eof \in BOOLEAN
    BY <1>1 DEF Stream
  <2>4. Fits(s, s.off + used, s.base, s.win, <<>>, s.eof)
    BY <1>1, <1>4, <1>5, <2>2, <2>3 DEF Fits
  <2>5. QED  BY <2>1, <2>4, MovedGood
<1>8. CASE asked > B /\ asked <= B + U
  <2>1. Advance(s, d, used, asked) =
          Moved(s, s.off + used, WindowEnd(s), Unread(s, d), <<>>, s.eof)
    <3>1. ~ (asked <= B) /\ asked <= Len(Seen(s, d))
      BY <1>8, <1>ends
    <3>2. QED  BY <1>1, <3>1 DEF Advance, Moved, Stream
  <2>2. WindowEnd(s) <= s.off + used /\ s.off + used <= WindowEnd(s) + U /\ WindowEnd(s) \in Nat
    BY <1>8, <1>ends
  <2>3. s.eof \in BOOLEAN
    BY <1>1 DEF Stream
  <2>4. Fits(s, s.off + used, WindowEnd(s), Unread(s, d), <<>>, s.eof)
    BY <1>1, <1>2, <1>4, <1>5, <2>2, <2>3 DEF Fits
  <2>5. QED  BY <2>1, <2>4, MovedGood
<1>9. CASE asked > B + U
  <2> DEFINE eof == TRUE
  <2>1. Advance(s, d, used, asked) =
          Moved(s, s.off + used, s.off + used, <<>>, <<>>, eof)
    <3>1. ~ (asked <= B) /\ ~ (asked <= Len(Seen(s, d)))
      BY <1>9, <1>ends
    <3>2. QED  BY <1>1, <3>1 DEF Advance, Moved, Stream
  <2>2. /\ s.off + used <= s.off + used /\ s.off + used <= s.off + used + Len(<<>>)
        /\ eof \in BOOLEAN
    BY <1>4, <1>5
  <2> HIDE DEF eof
  <2>3. Fits(s, s.off + used, s.off + used, <<>>, <<>>, eof)
    BY <1>1, <1>4, <1>5, <2>2 DEF Fits
  <2>4. QED  BY <2>1, <2>3, MovedGood
<1>10. QED
  <2> HIDE DEF B, U, W, O, A, L, E
  <2>1. QED  BY <1>7, <1>8, <1>9, <1>ends

\* fseek after a flush leaves a stream well formed, whether or not its window holds
\* the target.
LEMMA SeekToGood ==
  ASSUME NEW s, GoodStream(s), s.pend = <<>>, NEW at \in Nat
  PROVE  /\ GoodStream(SeekTo(s, at)) /\ SeekTo(s, at).pend = <<>>
         /\ SeekTo(s, at).writable = s.writable /\ SeekTo(s, at).ino = s.ino
<1>1. <<>> \in Seq(Byte) /\ Len(<<>>) = 0
  BY EmptySeq
<1>2. s \in Stream /\ s.base \in Nat /\ Len(s.win) \in Nat /\ s.pend = <<>>
  BY LenProperties DEF GoodStream, Stream
<1> DEFINE eof == FALSE
<1>3. CASE s.base <= at /\ at < WindowEnd(s)
  <2>1. SeekTo(s, at) = Moved(s, at, s.base, s.win, <<>>, eof)
    BY <1>2, <1>3 DEF SeekTo, Moved, Stream
  <2>2. at <= s.base + Len(s.win)
    BY <1>2, <1>3 DEF WindowEnd
  <2>3. s.win \in Seq(Byte) /\ eof \in BOOLEAN
    BY <1>2 DEF Stream
  <2> HIDE DEF eof
  <2>4. Fits(s, at, s.base, s.win, <<>>, eof)
    BY <1>1, <1>2, <1>3, <2>2, <2>3 DEF Fits
  <2>5. QED  BY <1>2, <2>1, <2>4, MovedGood
<1>4. CASE ~(s.base <= at /\ at < WindowEnd(s))
  <2>1. SeekTo(s, at) = Moved(s, at, at, <<>>, <<>>, eof)
    BY <1>2, <1>4 DEF SeekTo, Moved, Stream
  <2>2. at <= at /\ at <= at + Len(<<>>) /\ eof \in BOOLEAN
    BY <1>1
  <2> HIDE DEF eof
  <2>3. Fits(s, at, at, <<>>, <<>>, eof)
    BY <1>1, <1>2, <2>2 DEF Fits
  <2>4. QED  BY <1>2, <2>1, <2>3, MovedGood
<1>5. QED  BY <1>3, <1>4

\* fwrite and fputc on a stream that may write: the new bytes wait before the position.
LEMMA PutGood ==
  ASSUME NEW s, GoodStream(s), s.writable, NEW bytes \in Seq(Byte)
  PROVE  GoodStream(Put(s, bytes)) /\ Put(s, bytes).ino = s.ino
<1>1. <<>> \in Seq(Byte) /\ Len(<<>>) = 0
  BY EmptySeq
<1>2. /\ s.off \in Nat /\ Len(bytes) \in Nat /\ Len(s.pend) \in Nat /\ Len(s.pend) <= s.off
      /\ s \in Stream
  BY LenProperties DEF GoodStream, Stream, Shaped
<1>3. s.pend \o bytes \in Seq(Byte) /\ Len(s.pend \o bytes) = Len(s.pend) + Len(bytes)
  BY ConcatProperties DEF GoodStream, Stream
<1>4. CASE bytes = <<>>
  BY <1>4 DEF Put
<1>5. CASE bytes # <<>>
  <2> DEFINE off == s.off + Len(bytes)
  <2>1. Put(s, bytes) = Moved(s, off, off, <<>>, s.pend \o bytes, s.eof)
    BY <1>2, <1>5 DEF Put, Moved, Stream
  <2>2. off \in Nat /\ off <= off + Len(<<>>) /\ Len(s.pend \o bytes) <= off
    BY <1>1, <1>2, <1>3
  <2>3. s.eof \in BOOLEAN
    BY <1>2 DEF Stream
  <2> HIDE DEF off
  <2>4. Fits(s, off, off, <<>>, s.pend \o bytes, s.eof)
    BY <1>1, <1>2, <1>3, <2>2, <2>3 DEF Fits
  <2>5. QED  BY <2>1, <2>4, MovedGood
<1>6. QED  BY <1>4, <1>5

\* fflush, giving up the fetched bytes beyond the position, leaves it well formed.
LEMMA SyncedGood ==
  ASSUME NEW s, GoodStream(s)
  PROVE  GoodStream(Synced(s))
<1>1. /\ s.off \in Nat /\ s.base \in Nat /\ s.win \in Seq(Byte) /\ Len(s.win) \in Nat
      /\ s.base <= s.off /\ s.off <= s.base + Len(s.win) /\ s \in Stream
  BY LenProperties DEF GoodStream, Stream, Shaped, WindowEnd
<1> DEFINE n == s.off - s.base
<1>2. n \in Nat /\ n <= Len(s.win) /\ \A i \in 1..n : s.win[i] \in Byte
  BY <1>1, ElementOfSeq
<1>3. SubSeq(s.win, 1, n) \in Seq(Byte) /\ Len(SubSeq(s.win, 1, n)) = n
  <2> HIDE DEF n
  <2>1. SubSeq(s.win, 1, n) \in Seq(Byte)
        /\ Len(SubSeq(s.win, 1, n)) = IF 1 <= n THEN n - 1 + 1 ELSE 0
    BY <1>2, SubSeqProperties
  <2>2. QED  BY <1>2, <2>1
<1>4. <<>> \in Seq(Byte) /\ Len(<<>>) = 0
  BY EmptySeq
<1>5. Synced(s) = Moved(s, s.off, s.base, SubSeq(s.win, 1, n), <<>>, s.eof)
  BY <1>1 DEF Synced, Moved, Stream
<1>6. s.eof \in BOOLEAN /\ s.off <= s.base + n
  BY <1>1 DEF Stream
<1> HIDE DEF n
<1>7. Fits(s, s.off, s.base, SubSeq(s.win, 1, n), <<>>, s.eof)
  BY <1>1, <1>3, <1>4, <1>6 DEF Fits
<1>8. QED  BY <1>5, <1>7, MovedGood

---------------------------------------------------------------------------
(* What the streams and the files hold                                      *)

\* The bytes of a file after a write: the new ones where they were written, the old
\* ones elsewhere, zeros in a gap; a write never makes a file shorter.
LEMMA OverwriteElements ==
  ASSUME NEW d \in Seq(Byte), NEW at \in Nat, NEW bytes \in Seq(Byte),
         NEW o, o = Overwrite(d, at, bytes)
  PROVE  /\ o \in Seq(Byte)
         /\ bytes = <<>> => o = d
         /\ bytes # <<>> => Len(o) = IF at + Len(bytes) > Len(d) THEN at + Len(bytes)
                                     ELSE Len(d)
         /\ \A k \in 1..Len(o) :
              o[k] = IF k > at /\ k <= at + Len(bytes) THEN bytes[k - at]
                     ELSE IF k <= Len(d) THEN d[k] ELSE Zero
<1> DEFINE end  == at + Len(bytes)
           size == IF end > Len(d) THEN end ELSE Len(d)
           val  == [k \in 1..size |-> CASE k > at /\ k <= end -> bytes[k - at]
                                      [] (k <= at \/ k > end) /\ k <= Len(d) -> d[k]
                                      [] OTHER -> Zero]
<1>1. o \in Seq(Byte)
  BY OverwriteType
<1>2. Len(d) \in Nat /\ Len(bytes) \in Nat /\ size \in Nat /\ end \in Nat
  BY LenProperties
<1>3. CASE bytes = <<>>
  <2>1. o = d /\ Len(bytes) = 0
    BY <1>3, EmptySeq DEF Overwrite
  <2>2. ASSUME NEW k \in 1..Len(o) PROVE ~(k > at /\ k <= at + Len(bytes)) /\ k <= Len(d)
    BY <1>2, <2>1
  <2>3. QED  BY <1>1, <1>3, <2>1, <2>2
<1>4. CASE bytes # <<>>
  <2>1. o = val
    BY <1>4 DEF Overwrite
  <2>2. DOMAIN o = 1..size /\ DOMAIN o = 1..Len(o)
    BY <1>1, <2>1, LenProperties
  <2>3. Len(o) = size
    <3> HIDE DEF size
    <3>1. Len(o) \in Nat
      BY <1>1, LenProperties
    <3> QED  BY <1>2, <2>2, <3>1
  <2>4. ASSUME NEW k \in 1..size
        PROVE  val[k] = IF k > at /\ k <= end THEN bytes[k - at]
                         ELSE IF k <= Len(d) THEN d[k] ELSE Zero
    <3>1. k \in Nat
      BY <1>2
    <3>2. CASE k > at /\ k <= end
      BY <3>2
    <3>3. CASE ~(k > at /\ k <= end) /\ k <= Len(d)
      <4>1. k <= at \/ k > end
        BY <1>2, <3>1, <3>3
      <4>2. QED  BY <3>3, <4>1
    <3>4. CASE ~(k > at /\ k <= end) /\ ~(k <= Len(d))
      BY <3>4
    <3>5. QED  BY <3>2, <3>3, <3>4
  <2> HIDE DEF val
  <2>5. QED  BY <1>1, <1>4, <2>1, <2>3, <2>4
<1>5. QED  BY <1>3, <1>4

\* Writing nothing changes nothing.
LEMMA OverwriteNothing ==
  ASSUME NEW d, NEW at
  PROVE  Overwrite(d, at, <<>>) = d
BY DEF Overwrite

\* What was written can be read back.
LEMMA OverwriteHolds ==
  ASSUME NEW d \in Seq(Byte), NEW at \in Nat, NEW bytes \in Seq(Byte), bytes # <<>>
  PROVE  SubSeq(Overwrite(d, at, bytes), at + 1, at + Len(bytes)) = bytes
<1> DEFINE o == Overwrite(d, at, bytes)
           m == at + 1
           n == at + Len(bytes)
<1>1. /\ o \in Seq(Byte) /\ Len(o) = IF at + Len(bytes) > Len(d) THEN at + Len(bytes) ELSE Len(d)
      /\ \A k \in 1..Len(o) : o[k] = IF k > at /\ k <= at + Len(bytes) THEN bytes[k - at]
                                     ELSE IF k <= Len(d) THEN d[k] ELSE Zero
  BY OverwriteElements
<1>2. Len(bytes) \in Nat /\ Len(d) \in Nat /\ m \in Int /\ n \in Int
  BY LenProperties
<1> HIDE DEF o
<1>3. m..n \subseteq 1..Len(o)
  BY <1>1, <1>2
<1>4. \A i \in m..n : o[i] \in Byte
  BY <1>1, <1>3, ElementOfSeq
<1>5. \A i \in 1..Len(bytes) : o[m + i - 1] = bytes[i]
  <2>1. SUFFICES ASSUME NEW i \in 1..Len(bytes) PROVE o[m + i - 1] = bytes[i]
    OBVIOUS
  <2>2. m + i - 1 \in m..n /\ m + i - 1 > at /\ m + i - 1 <= at + Len(bytes) /\ m + i - 1 - at = i
    BY <1>2
  <2>3. QED  BY SMTT(30), <1>1, <1>3, <2>2
<1>6. n - m + 1 = Len(bytes)
  BY <1>2
<1> HIDE DEF m, n
<1>7. /\ SubSeq(o, m, n) \in Seq(Byte)
      /\ Len(SubSeq(o, m, n)) = IF m <= n THEN n - m + 1 ELSE 0
      /\ \A i \in 1..(n - m + 1) : SubSeq(o, m, n)[i] = o[m + i - 1]
  BY <1>2, <1>4, SubSeqProperties
<1>8. Len(SubSeq(o, m, n)) = Len(bytes)
  BY <1>2, <1>6, <1>7
<1>9. SubSeq(o, m, n) = bytes
  BY <1>5, <1>6, <1>7, <1>8, SeqEqual
<1>10. QED  BY <1>9 DEF o, m, n

\* Two writes one after the other are one write of both.
LEMMA OverwriteAppends ==
  ASSUME NEW d \in Seq(Byte), NEW at \in Nat, NEW p \in Seq(Byte), NEW b \in Seq(Byte)
  PROVE  Overwrite(Overwrite(d, at, p), at + Len(p), b) = Overwrite(d, at, p \o b)
<1>1. CASE p = <<>>
  <2>1. Overwrite(d, at, p) = d /\ at + Len(p) = at /\ p \o b = b
    BY <1>1, EmptySeq, ConcatEmptySeq, OverwriteNothing
  <2>2. QED  BY <2>1
<1>2. CASE b = <<>>
  <2>1. Overwrite(Overwrite(d, at, p), at + Len(p), b) = Overwrite(d, at, p)
    BY <1>2, OverwriteNothing
  <2>2. p \o b = p
    BY <1>2, ConcatEmptySeq
  <2>3. QED  BY <2>1, <2>2
<1>3. CASE p # <<>> /\ b # <<>>
  <2> DEFINE x == Overwrite(d, at, p)
             mid == at + Len(p)
             y == Overwrite(x, mid, b)
             pb == p \o b
             z == Overwrite(d, at, pb)
  <2>1. Len(p) \in Nat \ {0} /\ Len(b) \in Nat \ {0} /\ Len(d) \in Nat /\ mid \in Nat
    BY <1>3, EmptySeq, LenProperties
  <2>2. /\ pb \in Seq(Byte) /\ Len(pb) = Len(p) + Len(b)
        /\ \A i \in 1..(Len(p) + Len(b)) : pb[i] = IF i <= Len(p) THEN p[i] ELSE b[i - Len(p)]
    BY ConcatProperties
  <2> HIDE DEF pb
  <2>3. pb # <<>>
    BY <2>1, <2>2, EmptySeq
  <2>4. /\ x \in Seq(Byte) /\ Len(x) = IF at + Len(p) > Len(d) THEN at + Len(p) ELSE Len(d)
        /\ \A k \in 1..Len(x) : x[k] = IF k > at /\ k <= at + Len(p) THEN p[k - at]
                                       ELSE IF k <= Len(d) THEN d[k] ELSE Zero
    BY <1>3, OverwriteElements
  <2> HIDE DEF x
  <2>5. /\ y \in Seq(Byte) /\ Len(y) = IF mid + Len(b) > Len(x) THEN mid + Len(b) ELSE Len(x)
        /\ \A k \in 1..Len(y) : y[k] = IF k > mid /\ k <= mid + Len(b) THEN b[k - mid]
                                       ELSE IF k <= Len(x) THEN x[k] ELSE Zero
    <3> HIDE DEF mid
    <3> QED  BY <1>3, <2>1, <2>4, OverwriteElements
  <2> HIDE DEF y
  <2>6. /\ z \in Seq(Byte) /\ Len(z) = IF at + Len(pb) > Len(d) THEN at + Len(pb) ELSE Len(d)
        /\ \A k \in 1..Len(z) : z[k] = IF k > at /\ k <= at + Len(pb) THEN pb[k - at]
                                       ELSE IF k <= Len(d) THEN d[k] ELSE Zero
    BY SMTT(30), <2>2, <2>3, OverwriteElements
  <2> HIDE DEF z
  <2>7. Len(y) = Len(z) /\ Len(y) \in Nat /\ Len(x) \in Nat
    BY <2>1, <2>2, <2>4, <2>5, <2>6
  <2>8. ASSUME NEW k \in 1..Len(y) PROVE y[k] = z[k]
    <3>1. k \in Nat /\ k >= 1
      BY <2>7
    <3>2. CASE k > mid /\ k <= mid + Len(b)
      <4>1. y[k] = b[k - mid]
        BY <2>5, <3>2
      <4>2. k > at /\ k <= at + Len(pb)
        BY <2>1, <2>2, <3>1, <3>2
      <4>3. k - at \in 1..(Len(p) + Len(b)) /\ ~(k - at <= Len(p)) /\ k - at - Len(p) = k - mid
        BY <2>1, <3>1, <3>2
      <4>4. z[k] = pb[k - at]
        BY <2>6, <2>7, <4>2
      <4>5. pb[k - at] = b[k - at - Len(p)]
        BY <2>2, <4>3
      <4>6. QED  BY <4>1, <4>3, <4>4, <4>5
    <3>3. CASE k > at /\ k <= mid
      <4>1. ~(k > mid /\ k <= mid + Len(b)) /\ k <= Len(x) /\ k \in 1..Len(x)
        BY <2>1, <2>4, <2>7, <3>1, <3>3
      <4>2. y[k] = x[k] /\ x[k] = p[k - at]
        BY <2>4, <2>5, <3>3, <4>1
      <4>3. k > at /\ k <= at + Len(pb) /\ k - at \in 1..(Len(p) + Len(b)) /\ k - at <= Len(p)
        BY <2>1, <2>2, <3>1, <3>3
      <4>4. z[k] = pb[k - at]
        BY <2>6, <2>7, <4>3
      <4>5. pb[k - at] = p[k - at]
        BY <2>2, <4>3
      <4>6. QED  BY <4>2, <4>4, <4>5
    <3>4. CASE ~(k > at /\ k <= mid + Len(b))
      <4>1. ~(k > mid /\ k <= mid + Len(b)) /\ ~(k > at /\ k <= at + Len(pb)) /\ ~(k > at /\ k <= at + Len(p))
        BY <2>1, <2>2, <3>1, <3>4
      <4>2. y[k] = IF k <= Len(x) THEN x[k] ELSE Zero
        BY <2>5, <4>1
      <4>3. z[k] = IF k <= Len(d) THEN d[k] ELSE Zero
        BY <2>6, <2>7, <4>1
      <4>4. CASE k <= Len(x)
        <5>1. k \in 1..Len(x)
          BY <3>1, <2>7, <4>4
        <5>2. x[k] = IF k <= Len(d) THEN d[k] ELSE Zero
          BY <2>4, <4>1, <5>1
        <5>3. QED  BY <4>2, <4>3, <4>4, <5>2
      <4>5. CASE ~(k <= Len(x))
        <5>1. ~(k <= Len(d))
          BY <2>1, <2>4, <2>7, <3>1, <4>5
        <5>2. QED  BY <4>2, <4>3, <4>5, <5>1
      <4>6. QED  BY <4>4, <4>5
    <3>5. QED  BY <2>1, <3>1, <3>2, <3>3, <3>4
  <2>9. y = z
    BY <2>5, <2>6, <2>7, <2>8, SeqEqual
  <2>10. QED  BY <2>9 DEF x, y, z, mid, pb
<1>4. QED  BY <1>1, <1>2, <1>3

\* What fwrite changes of a stream that is not shown to the file yet.
LEMMA PutFields ==
  ASSUME NEW s \in Stream, NEW bytes \in Seq(Byte)
  PROVE  /\ Put(s, bytes).pend = s.pend \o bytes /\ Put(s, bytes).off = s.off + Len(bytes)
         /\ Put(s, bytes).ino = s.ino /\ Put(s, bytes).writable = s.writable
         /\ Put(s, bytes).eof = s.eof
<1>1. s.pend \in Seq(Byte) /\ s.off \in Nat /\ Len(<<>>) = 0
  BY EmptySeq DEF Stream
<1>2. CASE bytes = <<>>
  BY <1>1, <1>2, ConcatEmptySeq DEF Put
<1>3. CASE bytes # <<>>
  BY <1>3 DEF Put, Stream
<1>4. QED  BY <1>2, <1>3

\* Flushing what was put is writing it at the position, after what was pending.
LEMMA FlushedPut ==
  ASSUME NEW s, GoodStream(s), NEW bytes \in Seq(Byte), NEW d \in Seq(Byte)
  PROVE  Flushed(Put(s, bytes), d) = Overwrite(Flushed(s, d), s.off, bytes)
<1> DEFINE at == s.off - Len(s.pend)
<1>1. /\ s \in Stream /\ s.pend \in Seq(Byte) /\ s.off \in Nat /\ Len(s.pend) \in Nat
      /\ Len(bytes) \in Nat /\ at \in Nat /\ at + Len(s.pend) = s.off
  BY LenProperties DEF GoodStream, Stream, Shaped
<1>2. Len(s.pend \o bytes) = Len(s.pend) + Len(bytes)
  BY <1>1, ConcatProperties
<1>3. Put(s, bytes).off = s.off + Len(bytes) /\ Put(s, bytes).pend = s.pend \o bytes
  BY <1>1, PutFields
<1>4. Flushed(Put(s, bytes), d) = Overwrite(d, at, s.pend \o bytes)
  <2>1. Put(s, bytes).off - Len(Put(s, bytes).pend) = at
    BY <1>1, <1>2, <1>3
  <2> HIDE DEF at
  <2>2. QED  BY <1>3, <2>1 DEF Flushed
<1>5. Flushed(s, d) = Overwrite(d, at, s.pend)
  BY DEF Flushed
<1> HIDE DEF at
<1>6. Overwrite(Overwrite(d, at, s.pend), at + Len(s.pend), bytes) = Overwrite(d, at, s.pend \o bytes)
  BY ZenonT(30), <1>1, OverwriteAppends
<1>7. QED  BY <1>1, <1>4, <1>5, <1>6

\* Reading moves the position and the window, and nothing else.
LEMMA AdvanceKeeps ==
  ASSUME NEW s \in Stream, NEW d, NEW used, NEW asked
  PROVE  /\ Advance(s, d, used, asked).pend = s.pend /\ Advance(s, d, used, asked).ino = s.ino
         /\ Advance(s, d, used, asked).writable = s.writable
         /\ Advance(s, d, used, asked).off = s.off + used
BY DEF Advance, Stream

---------------------------------------------------------------------------
(* What a stream has fetched is what the file holds                         *)

\* The part of a file behind its first m bytes, up to the n-th.
LEMMA PartOf ==
  ASSUME NEW d \in Seq(Byte), NEW m \in Nat, NEW n \in Nat, n <= Len(d)
  PROVE  /\ SubSeq(d, m + 1, n) \in Seq(Byte)
         /\ Len(SubSeq(d, m + 1, n)) = IF m < n THEN n - m ELSE 0
         /\ \A i \in 1..(n - m) : SubSeq(d, m + 1, n)[i] = d[m + i]
<1>1. Len(d) \in Nat /\ \A i \in (m + 1)..n : d[i] \in Byte
  BY LenProperties, ElementOfSeq
<1>2. /\ SubSeq(d, m + 1, n) \in Seq(Byte)
      /\ Len(SubSeq(d, m + 1, n)) = IF m + 1 <= n THEN n - (m + 1) + 1 ELSE 0
      /\ \A i \in 1..(n - (m + 1) + 1) : SubSeq(d, m + 1, n)[i] = d[(m + 1) + i - 1]
  BY <1>1, SubSeqProperties
<1>3. \A i \in 1..(n - m) : SubSeq(d, m + 1, n)[i] = d[m + i]
  <2>1. TAKE i \in 1..(n - m)
  <2>2. i \in 1..(n - (m + 1) + 1) /\ (m + 1) + i - 1 = m + i
    BY <2>1
  <2>3. QED  BY <1>2, <2>2
<1>4. QED  BY <1>2, <1>3

\* What the stream has fetched is what the file holds, and the end of the file it
\* remembers is the end.
Fresh(s, d) ==
  /\ s.win = SubSeq(d, s.base + 1, WindowEnd(s))
  /\ s.win # <<>> => WindowEnd(s) <= Len(d)
  /\ s.eof => s.off >= Len(Flushed(s, d))

\* What flushing makes of the length of a file.
LEMMA FlushedLength ==
  ASSUME NEW s, GoodStream(s), NEW d \in Seq(Byte)
  PROVE  /\ Flushed(s, d) \in Seq(Byte)
         /\ s.pend = <<>> => Flushed(s, d) = d
         /\ s.pend # <<>> => Len(Flushed(s, d)) = IF s.off > Len(d) THEN s.off ELSE Len(d)
<1>1. /\ s.pend \in Seq(Byte) /\ s.off \in Nat /\ Len(s.pend) \in Nat
      /\ s.off - Len(s.pend) \in Nat /\ (s.off - Len(s.pend)) + Len(s.pend) = s.off
  BY LenProperties DEF GoodStream, Stream, Shaped
<1> DEFINE at == s.off - Len(s.pend)
<1>2. at \in Nat /\ at + Len(s.pend) = s.off
  BY <1>1
<1>3. Flushed(s, d) = Overwrite(d, at, s.pend)
  BY DEF Flushed
<1> HIDE DEF at
<1>4. QED  BY SMTT(30), <1>1, <1>2, <1>3, OverwriteElements

\* A stream that holds nothing back and whose window is fresh delivers the rest of
\* the file: the buffer cannot be told from the file.
LEMMA SeenIsRest ==
  ASSUME NEW s, GoodStream(s), s.pend = <<>>, NEW d \in Seq(Byte), Fresh(s, d)
  PROVE  Seen(s, d) = SubSeq(d, s.off + 1, Len(d))
<1>1. /\ s.off \in Nat /\ s.base \in Nat /\ s.win \in Seq(Byte) /\ Len(s.win) \in Nat
      /\ s.base <= s.off /\ s.off <= s.base + Len(s.win) /\ Len(d) \in Nat
      /\ WindowEnd(s) = s.base + Len(s.win)
  BY LenProperties DEF GoodStream, Stream, Shaped, WindowEnd
<1>2. s.eof => s.off >= Len(d)
  BY FlushedLength DEF Fresh
<1> DEFINE R == SubSeq(d, s.off + 1, Len(d))
           B == Buffered(s)
           U == Unread(s, d)
           end == WindowEnd(s)
           gone == s.off - s.base
<1>win. s.win = SubSeq(d, s.base + 1, end)
  BY DEF Fresh
<1>inside. Len(s.win) = 0 \/ end <= Len(d)
  BY EmptySeq DEF Fresh
<1>unread. U = IF s.eof THEN <<>> ELSE SubSeq(d, end + 1, Len(d))
  BY DEF Unread
<1>end. end \in Nat /\ end = s.base + Len(s.win) /\ gone \in Nat /\ gone = s.off - s.base
  BY <1>1
<1>seen. Seen(s, d) = B \o U
  BY DEF Seen
<1>buffered. B = SubSeq(s.win, gone + 1, Len(s.win))
  BY DEF Buffered
<1>3. /\ R \in Seq(Byte) /\ Len(R) = IF s.off < Len(d) THEN Len(d) - s.off ELSE 0
      /\ \A i \in 1..(Len(d) - s.off) : R[i] = d[s.off + i]
  BY SMTT(30), <1>1, PartOf
<1>4. /\ B \in Seq(Byte) /\ U \in Seq(Byte) /\ Len(B) = end - s.off
      /\ Len(B) \in Nat /\ Len(U) \in Nat
  BY SMTT(30), <1>1, SeenType, LenProperties
<1>5. /\ B \o U \in Seq(Byte) /\ Len(B \o U) = Len(B) + Len(U)
      /\ \A i \in 1..(Len(B) + Len(U)) : (B \o U)[i] = IF i <= Len(B) THEN B[i] ELSE U[i - Len(B)]
  <2> HIDE DEF B, U
  <2> QED  BY <1>4, ConcatProperties
<1> HIDE DEF R, B, U, end, gone
<1>sizes. /\ Len(B) = end - s.off /\ Len(B) \in Nat /\ end \in Nat /\ s.off \in Nat /\ Len(d) \in Nat
          /\ s.base \in Nat /\ s.base <= s.off /\ s.off <= end
  BY <1>1, <1>4, <1>end
<1>6. \A i \in 1..Len(B) : B[i] = d[s.off + i]
  <2>1. SUFFICES ASSUME NEW i \in 1..Len(B) PROVE B[i] = d[s.off + i]
    OBVIOUS
  <2> DEFINE O == s.off
             A == s.base
             W == Len(s.win)
             N == Len(B)
  <2>sums. /\ O \in Nat /\ A \in Nat /\ W \in Nat /\ N \in Nat /\ end = A + W
           /\ gone = O - A /\ N = end - O /\ A <= O /\ O <= end
    BY <1>1, <1>end, <1>sizes
  <2>2. gone <= Len(s.win) /\ Len(s.win) - gone = Len(B)
    <3> HIDE DEF O, A, W, N
    <3>1. gone <= W /\ W - gone = N
      BY <2>sums, <1>end
    <3>2. QED  BY <3>1 DEF W, N
  <2>3. B[i] = s.win[gone + i]
    <3>1. \A k \in 1..(Len(s.win) - gone) : SubSeq(s.win, gone + 1, Len(s.win))[k] = s.win[gone + k]
      <4>1. s.win \in Seq(Byte) /\ Len(s.win) \in Nat /\ gone \in Nat /\ Len(s.win) <= Len(s.win)
        BY <1>1, <1>end
      <4>2. QED  BY <4>1, PartOf
    <3>2. i \in 1..(Len(s.win) - gone)
      BY <2>1, <2>2
    <3>3. QED  BY <1>buffered, <3>1, <3>2
  <2>4. Len(s.win) # 0 /\ end <= Len(d)
    BY <1>1, <1>4, <1>inside, <1>end, <2>1, <2>2
  <2>5. gone + i \in 1..(end - s.base)
    <3>1. i \in 1..N
      BY <2>1
    <3> HIDE DEF O, A, W, N
    <3>2. gone + i \in 1..(end - A)
      BY <2>sums, <3>1
    <3>3. QED  BY <3>2 DEF A
  <2>6. s.win[gone + i] = d[s.base + (gone + i)]
    <3>1. \A k \in 1..(end - s.base) : SubSeq(d, s.base + 1, end)[k] = d[s.base + k]
      <4>1. s.base \in Nat /\ end \in Nat /\ end <= Len(d)
        BY <1>1, <1>end, <2>4
      <4>2. QED  BY <4>1, PartOf
    <3>2. QED  BY <1>win, <2>5, <3>1
  <2>7. s.base + (gone + i) = s.off + i
    BY SMTT(30), <1>1, <1>end, <2>1
  <2>8. QED  BY <2>3, <2>6, <2>7
<1>7. CASE s.eof
  <2>1. U = <<>>
    BY <1>7, <1>unread
  <2>2. Len(U) = 0
    BY <2>1, EmptySeq
  <2>3. Len(B) = 0
    BY SMTT(30), <1>1, <1>2, <1>4, <1>7, <1>inside, <1>end
  <2>4. Len(R) = 0
    <3>1. ~(s.off < Len(d))
      BY <1>1, <1>2, <1>7
    <3>2. QED  BY <1>3, <3>1
  <2>5. B \o U = R
    <3>1. Len(B \o U) = Len(R) /\ \A i \in 1..Len(B \o U) : (B \o U)[i] = R[i]
      BY <1>5, <2>2, <2>3, <2>4
    <3>2. QED  BY <1>3, <1>5, <3>1, SeqEqual
  <2>6. QED  BY <1>seen, <2>5 DEF R
<1>8. CASE ~s.eof
  <2>1. U = SubSeq(d, end + 1, Len(d)) 
    BY <1>8, <1>unread
  <2>2. /\ Len(U) = IF end < Len(d) THEN Len(d) - end ELSE 0
        /\ \A i \in 1..(Len(d) - end) : U[i] = d[end + i]
    <3>1. end \in Nat /\ Len(d) \in Nat /\ Len(d) <= Len(d)
      BY <1>1, <1>end
    <3>2. /\ Len(SubSeq(d, end + 1, Len(d))) = IF end < Len(d) THEN Len(d) - end ELSE 0
          /\ \A i \in 1..(Len(d) - end) : SubSeq(d, end + 1, Len(d))[i] = d[end + i]
      BY <3>1, PartOf
    <3>3. QED  BY <2>1, <3>2
  <2>3. Len(B) = 0 \/ end <= Len(d)
    BY <1>1, <1>4, <1>inside, <1>end
  <2>4. Len(B \o U) = Len(R)
    <3>1. Len(U) = IF end < Len(d) THEN Len(d) - end ELSE 0
      BY <2>2
    <3>2. Len(R) = IF s.off < Len(d) THEN Len(d) - s.off ELSE 0
      BY <1>3
    <3>3. Len(B \o U) = Len(B) + Len(U)
      BY <1>5
    <3>4. QED  BY <1>sizes, <2>3, <3>1, <3>2, <3>3
  <2>5. ASSUME NEW i \in 1..Len(B \o U) PROVE (B \o U)[i] = R[i]
    <3>1. i \in 1..(Len(d) - s.off) /\ R[i] = d[s.off + i]
      BY <1>1, <1>3, <2>4, <2>5
    <3>2. (B \o U)[i] = IF i <= Len(B) THEN B[i] ELSE U[i - Len(B)]
      BY <1>5, <2>5
    <3>3. CASE i <= Len(B)
      BY <1>4, <1>6, <3>1, <3>2, <3>3
    <3>4. CASE ~(i <= Len(B))
      <4>1. i \in 1..(Len(d) - s.off)
        BY <3>1
      <4>2. i - Len(B) \in 1..(Len(d) - end) /\ end + (i - Len(B)) = s.off + i
        BY SMTT(30), <1>sizes, <3>4, <4>1
      <4>3. QED  BY <2>2, <3>1, <3>2, <3>4, <4>2
    <3>5. QED  BY <3>3, <3>4
  <2>6. B \o U = R
    BY <1>3, <1>5, <2>4, <2>5, SeqEqual
  <2>7. QED  BY <1>seen, <2>6 DEF R
<1>9. QED  BY <1>7, <1>8

\* The fields of a stream with its moving fields replaced.
LEMMA MovedFields ==
  ASSUME NEW s \in Stream, NEW off, NEW base, NEW win, NEW pend, NEW eof
  PROVE  LET t == Moved(s, off, base, win, pend, eof)
         IN  /\ t.off = off /\ t.base = base /\ t.win = win /\ t.pend = pend /\ t.eof = eof
             /\ t.ino = s.ino /\ t.writable = s.writable
BY DEF Moved, Stream

\* Fresh, for a stream that holds nothing back.
LEMMA FreshClean ==
  ASSUME NEW t, GoodStream(t), t.pend = <<>>, NEW d \in Seq(Byte),
         t.win = SubSeq(d, t.base + 1, t.base + Len(t.win)),
         t.win = <<>> \/ t.base + Len(t.win) <= Len(d),
         t.eof => t.off >= Len(d)
  PROVE  Fresh(t, d)
BY FlushedLength DEF Fresh, WindowEnd

\* A window with nothing in it is fresh.
LEMMA FreshEmpty ==
  ASSUME NEW t, GoodStream(t), t.pend = <<>>, NEW d \in Seq(Byte), t.win = <<>>,
         t.eof => t.off >= Len(d)
  PROVE  Fresh(t, d)
<1>1. t.base \in Nat /\ Len(t.win) = 0 /\ t.base + Len(t.win) = t.base
  BY EmptySeq DEF GoodStream, Stream
<1>2. SubSeq(d, t.base + 1, t.base) = <<>>
  BY <1>1, SubSeqEmpty
<1>3. t.win = SubSeq(d, t.base + 1, t.base + Len(t.win))
  BY <1>1, <1>2
<1>4. QED  BY <1>3, FreshClean

\* Reading keeps the window fresh, and sets the end-of-file flag only at the end.
LEMMA AdvanceFresh ==
  ASSUME NEW s, GoodStream(s), s.pend = <<>>, NEW d \in Seq(Byte), Fresh(s, d),
         NEW used \in 0..Len(Seen(s, d)), NEW asked \in Nat, used <= asked,
         asked <= used + 1 \/ used = Len(Seen(s, d))
  PROVE  Fresh(Advance(s, d, used, asked), d)
<1> DEFINE t == Advance(s, d, used, asked)
           B == Len(Buffered(s))
           U == Unread(s, d)
           off == s.off + used
           end == WindowEnd(s)
<1>1. /\ s.off \in Nat /\ s.base \in Nat /\ s.win \in Seq(Byte) /\ Len(s.win) \in Nat
      /\ s.base <= s.off /\ s.off <= end
      /\ Len(d) \in Nat /\ end \in Nat /\ end = s.base + Len(s.win)
  BY LenProperties DEF GoodStream, Stream, Shaped, WindowEnd
<1>type. s \in Stream
  BY DEF GoodStream
<1>2. /\ U \in Seq(Byte) /\ Len(U) \in Nat /\ B \in Nat /\ Len(Seen(s, d)) = B + Len(U)
      /\ used \in Nat /\ used <= B + Len(U) /\ used <= asked
  BY SeenType, LenProperties
<1>3. GoodStream(t) /\ t.pend = <<>>
  BY AdvanceGood, AdvanceKeeps DEF GoodStream
<1>4. s.win = SubSeq(d, s.base + 1, s.base + Len(s.win)) /\ (s.win = <<>> \/ end <= Len(d))
  BY DEF Fresh, WindowEnd
<1>5. s.eof => s.off >= Len(d)
  BY FlushedLength DEF Fresh
<1>6. Len(Seen(s, d)) = IF s.off < Len(d) THEN Len(d) - s.off ELSE 0
  <2>1. s.off \in Nat /\ Len(d) \in Nat /\ Len(d) <= Len(d)
    BY <1>1
  <2>2. Len(SubSeq(d, s.off + 1, Len(d))) = IF s.off < Len(d) THEN Len(d) - s.off ELSE 0
    BY <2>1, PartOf
  <2>3. QED  BY <2>2, SeenIsRest
<1>7. CASE asked <= B
  <2>1. t = Moved(s, off, s.base, s.win, <<>>, s.eof)
    BY <1>type, <1>7 DEF Advance, Moved, Stream
  <2> HIDE DEF t, off
  <2>2. t.off = off /\ t.base = s.base /\ t.win = s.win /\ t.eof = s.eof
    BY <1>type, <2>1, MovedFields
  <2>3. off = s.off + used
    BY DEF off
  <2> HIDE DEF B, U
  <2>4. t.eof => t.off >= Len(d)
    BY <1>1, <1>2, <1>5, <2>2, <2>3
  <2>5. QED  BY <1>1, <1>3, <1>4, <2>2, <2>4, FreshClean DEF t
<1>8. CASE asked > B /\ asked <= Len(Seen(s, d))
  <2>1. t = Moved(s, off, end, U, <<>>, s.eof)
    <3>1. ~(asked <= B) /\ asked <= Len(Seen(s, d))
      BY <1>2, <1>8
    <3>2. QED  BY <1>type, <3>1 DEF Advance, Moved, Stream
  <2> HIDE DEF t, off
  <2>2. t.off = off /\ t.base = end /\ t.win = U /\ t.eof = s.eof
    BY <1>type, <2>1, MovedFields
  <2>3. U = IF s.eof THEN <<>> ELSE SubSeq(d, end + 1, Len(d))
    BY DEF Unread
  <2> HIDE DEF B, U, end
  <2>4. Len(U) # 0
    BY <1>2, <1>8
  <2>5. U = SubSeq(d, end + 1, Len(d)) /\ ~s.eof
    BY <2>3, <2>4, EmptySeq
  <2>6. Len(U) = IF end < Len(d) THEN Len(d) - end ELSE 0
    <3>1. end \in Nat /\ Len(d) \in Nat /\ Len(d) <= Len(d)
      BY <1>1
    <3>2. QED  BY <2>5, <3>1, PartOf
  <2>7. end + Len(U) = Len(d)
    BY <1>1, <2>4, <2>6
  <2>8. t.base + Len(t.win) = Len(d) /\ t.win = SubSeq(d, t.base + 1, t.base + Len(t.win))
    BY <2>2, <2>5, <2>7
  <2>9. t.base + Len(t.win) <= Len(d) /\ ~t.eof
    BY SMTT(30), <1>1, <2>2, <2>5, <2>8
  <2>10. Fresh(t, d)
    <3>1. GoodStream(t) /\ t.pend = <<>>
      BY <1>3 DEF t
    <3>2. QED  BY <2>8, <2>9, <3>1, FreshClean
  <2>11. QED  BY <2>10 DEF t
<1>9. CASE asked > B /\ ~(asked <= Len(Seen(s, d)))
  <2> DEFINE eof == TRUE
  <2>1. t = Moved(s, off, off, <<>>, <<>>, eof)
    <3>1. ~(asked <= B) /\ ~(asked <= Len(Seen(s, d)))
      BY <1>2, <1>9
    <3>2. QED  BY <1>type, <3>1 DEF Advance, Moved, Stream
  <2> HIDE DEF t, off, eof
  <2>2. t.off = off /\ t.win = <<>>
    BY <1>type, <2>1, MovedFields
  <2>3. off = s.off + used
    BY DEF off
  <2> HIDE DEF B, U
  <2>4. used = Len(Seen(s, d))
    BY <1>2, <1>9
  <2>5. t.off >= Len(d)
    BY <1>1, <1>6, <2>2, <2>3, <2>4
  <2>6. QED  BY <1>3, <2>2, <2>5, FreshEmpty DEF t
<1>10. asked <= B \/ asked > B
  BY <1>2
<1>11. QED  BY <1>7, <1>8, <1>9, <1>10

\* Seeking keeps a window that holds the target, and forgets the end of the file.
LEMMA SeekToFresh ==
  ASSUME NEW s, GoodStream(s), s.pend = <<>>, NEW d \in Seq(Byte), Fresh(s, d),
         NEW at \in Nat
  PROVE  Fresh(SeekTo(s, at), d) /\ SeekTo(s, at).off = at
<1> DEFINE t == SeekTo(s, at)
           eof == FALSE
<1>1. s \in Stream /\ t.pend = <<>> /\ GoodStream(t)
  BY SeekToGood DEF GoodStream
<1>2. CASE s.base <= at /\ at < WindowEnd(s)
  <2>1. t = Moved(s, at, s.base, s.win, <<>>, eof)
    BY <1>1, <1>2 DEF SeekTo, Moved, Stream
  <2> HIDE DEF t, eof
  <2>2. t.off = at /\ t.base = s.base /\ t.win = s.win /\ t.eof = eof
    BY <1>1, <2>1, MovedFields
  <2>3. s.win = SubSeq(d, s.base + 1, s.base + Len(s.win))
        /\ (s.win = <<>> \/ s.base + Len(s.win) <= Len(d))
    BY DEF Fresh, WindowEnd
  <2>4. ~t.eof
    BY <2>2 DEF eof
  <2>5. QED  BY <1>1, <2>2, <2>3, <2>4, FreshClean DEF t
<1>3. CASE ~(s.base <= at /\ at < WindowEnd(s))
  <2>1. t = Moved(s, at, at, <<>>, <<>>, eof)
    BY <1>1, <1>3 DEF SeekTo, Moved, Stream
  <2> HIDE DEF t, eof
  <2>2. t.off = at /\ t.win = <<>> /\ t.eof = eof
    BY <1>1, <2>1, MovedFields
  <2>3. ~t.eof
    BY <2>2 DEF eof
  <2>4. QED  BY <1>1, <2>2, <2>3, FreshEmpty DEF t
<1>4. QED  BY <1>2, <1>3

\* What fwrite holds back does not make the window stale.
LEMMA PutFresh ==
  ASSUME NEW s, GoodStream(s), s.writable, NEW d \in Seq(Byte), Fresh(s, d),
         NEW bytes \in Seq(Byte)
  PROVE  Fresh(Put(s, bytes), d)
<1>1. CASE bytes = <<>>
  BY <1>1 DEF Put
<1>2. CASE bytes # <<>>
  <2> DEFINE t == Put(s, bytes)
             off == s.off + Len(bytes)
             p == s.pend \o bytes
             f == Flushed(s, d)
  <2>1. /\ s \in Stream /\ s.off \in Nat /\ Len(bytes) \in Nat /\ off \in Nat
        /\ f \in Seq(Byte) /\ Len(f) \in Nat
    BY FlushedLength, LenProperties DEF GoodStream, Stream
  <2>2. t = Moved(s, off, off, <<>>, p, s.eof)
    BY <1>2, <2>1 DEF Put, Moved, Stream
  <2>3. Flushed(t, d) = Overwrite(f, s.off, bytes)
    BY FlushedPut
  <2>4. s.eof => s.off >= Len(f)
    BY DEF Fresh
  <2>5. off = s.off + Len(bytes)
    OBVIOUS
  <2> HIDE DEF t, off, p, f
  <2>6. t.off = off /\ t.base = off /\ t.win = <<>> /\ t.eof = s.eof
    BY <2>1, <2>2, MovedFields
  <2>7. Len(Flushed(t, d)) = IF s.off + Len(bytes) > Len(f) THEN s.off + Len(bytes) ELSE Len(f)
    BY <1>2, <2>1, <2>3, OverwriteElements
  <2>8. s.eof => off >= Len(Flushed(t, d))
    BY <2>1, <2>4, <2>5, <2>7
  <2>9. SubSeq(d, off + 1, off) = <<>> /\ Len(<<>>) = 0 /\ off + 0 = off
    BY <2>1, SubSeqEmpty, EmptySeq
  <2>10. Fresh(t, d)
    BY <2>6, <2>8, <2>9 DEF Fresh, WindowEnd
  <2>11. QED  BY <2>10 DEF t
<1>3. QED  BY <1>1, <1>2

\* fflush: the file holds what the stream held back, and the window, cut at the
\* position, is fresh.
LEMMA SyncedFresh ==
  ASSUME NEW s, GoodStream(s), NEW d \in Seq(Byte), Fresh(s, d)
  PROVE  /\ Fresh(Synced(s), Flushed(s, d)) /\ Synced(s).pend = <<>>
         /\ Synced(s).off = s.off /\ Synced(s).ino = s.ino /\ Synced(s).writable = s.writable
<1> DEFINE t == Synced(s)
           n == s.off - s.base
           w == SubSeq(s.win, 1, n)
           f == Flushed(s, d)
<1>1. /\ s \in Stream /\ s.off \in Nat /\ s.base \in Nat /\ s.win \in Seq(Byte) /\ Len(s.win) \in Nat
      /\ n \in Nat /\ n <= Len(s.win) /\ s.base + n = s.off /\ Len(d) \in Nat
  BY LenProperties DEF GoodStream, Stream, Shaped, WindowEnd
<1>flushed. f \in Seq(Byte) /\ Len(f) \in Nat
  BY LenProperties, FlushedLength
<1>2. GoodStream(t)
  BY SyncedGood
<1>3. t = Moved(s, s.off, s.base, w, <<>>, s.eof)
  BY <1>1 DEF Synced, Moved, Stream
<1>4. s.eof => s.off >= Len(f)
  BY DEF Fresh
<1>5. s.pend = <<>> => f = d
  BY FlushedLength
<1>6. s.pend # <<>> => s.win = <<>>
  BY DEF GoodStream, Shaped
<1>7. s.win = SubSeq(d, s.base + 1, s.base + Len(s.win))
      /\ (s.win = <<>> \/ s.base + Len(s.win) <= Len(d))
  BY DEF Fresh, WindowEnd
<1> HIDE DEF t, n, f
<1>8. Len(w) = n /\ w \in Seq(Byte) /\ \A k \in 1..n : w[k] = s.win[k]
  <2>1. \A k \in 1..n : s.win[k] \in Byte
    BY <1>1, ElementOfSeq
  <2>2. /\ w \in Seq(Byte) /\ Len(w) = IF 1 <= n THEN n - 1 + 1 ELSE 0
        /\ \A k \in 1..(n - 1 + 1) : w[k] = s.win[1 + k - 1]
    BY <1>1, <2>1, SubSeqProperties
  <2>3. QED  BY <1>1, <2>2
<1> HIDE DEF w
<1>9. /\ t.off = s.off /\ t.base = s.base /\ t.win = w /\ t.pend = <<>> /\ t.eof = s.eof
      /\ t.ino = s.ino /\ t.writable = s.writable
  BY <1>1, <1>3, MovedFields
<1>10. Fresh(t, f)
  <2>1. CASE Len(w) = 0
    <3>1. w = <<>>
      BY <1>8, <2>1, EmptySeq
    <3>2. QED  BY <1>2, <1>4, <1>9, <1>flushed, <3>1, FreshEmpty
  <2>2. CASE Len(w) # 0
    <3>1. Len(s.win) # 0
      BY <1>1, <1>8, <2>2
    <3>2. f = d /\ s.base + Len(s.win) <= Len(d)
      BY <1>5, <1>6, <1>7, <3>1, EmptySeq
    <3>3. s.base + n <= Len(d)
      BY <1>1, <3>2
    <3>4. /\ SubSeq(d, s.base + 1, s.base + n) \in Seq(Byte)
          /\ Len(SubSeq(d, s.base + 1, s.base + n)) = n
          /\ \A k \in 1..n : SubSeq(d, s.base + 1, s.base + n)[k] = d[s.base + k]
      <4> DEFINE e == s.base + n
      <4>1. e \in Nat /\ e <= Len(d) /\ e - s.base = n /\ (IF s.base < e THEN e - s.base ELSE 0) = n
        BY <1>1, <3>3
      <4> HIDE DEF e
      <4>2. /\ SubSeq(d, s.base + 1, e) \in Seq(Byte)
            /\ Len(SubSeq(d, s.base + 1, e)) = n
            /\ \A k \in 1..n : SubSeq(d, s.base + 1, e)[k] = d[s.base + k]
        <5>1. s.base \in Nat /\ e \in Nat /\ e <= Len(d)
          BY <1>1, <4>1
        <5>2. /\ SubSeq(d, s.base + 1, e) \in Seq(Byte)
              /\ Len(SubSeq(d, s.base + 1, e)) = IF s.base < e THEN e - s.base ELSE 0
              /\ \A k \in 1..(e - s.base) : SubSeq(d, s.base + 1, e)[k] = d[s.base + k]
          BY <5>1, PartOf
        <5>3. QED  BY <4>1, <5>2
      <4>3. QED  BY <4>2 DEF e
    <3>5. \A k \in 1..Len(s.win) : s.win[k] = d[s.base + k]
      <4> DEFINE e == s.base + Len(s.win)
      <4>1. e \in Nat /\ e <= Len(d) /\ e - s.base = Len(s.win)
        BY <1>1, <3>2
      <4>2. s.win = SubSeq(d, s.base + 1, e)
        BY <1>7
      <4> HIDE DEF e
      <4>3. \A k \in 1..(e - s.base) : SubSeq(d, s.base + 1, e)[k] = d[s.base + k]
        <5>1. s.base \in Nat /\ e \in Nat /\ e <= Len(d)
          BY <1>1, <4>1
        <5>2. QED  BY <5>1, PartOf
      <4>4. QED  BY <4>1, <4>2, <4>3
    <3>6. \A k \in 1..Len(w) : w[k] = SubSeq(d, s.base + 1, s.base + n)[k]
      <4>1. \A k \in 1..n : k \in 1..Len(s.win)
        BY <1>1
      <4>2. QED  BY <1>8, <3>4, <3>5, <4>1
    <3>7. w = SubSeq(d, s.base + 1, s.base + n)
      BY <1>8, <3>4, <3>6, SeqEqual
    <3>8. t.win = SubSeq(f, t.base + 1, t.base + Len(t.win)) /\ t.base + Len(t.win) <= Len(f)
      BY <1>8, <1>9, <3>2, <3>3, <3>7
    <3>9. QED  BY <1>1, <1>2, <1>4, <1>9, <1>flushed, <3>8, FreshClean
  <2>3. QED  BY <2>1, <2>2
<1>11. QED  BY <1>9, <1>10 DEF t, f

\* Writing out what the stream holds back leaves its window, which then is empty, fresh.
LEMMA AfterFlushFresh ==
  ASSUME NEW s, GoodStream(s), NEW d \in Seq(Byte), Fresh(s, d)
  PROVE  /\ Fresh(AfterFlush(s), Flushed(s, d)) /\ AfterFlush(s).off = s.off
         /\ AfterFlush(s).ino = s.ino /\ AfterFlush(s).writable = s.writable
<1> DEFINE t == AfterFlush(s)
           f == Flushed(s, d)
<1>1. s \in Stream /\ GoodStream(t) /\ t.pend = <<>> /\ f \in Seq(Byte)
  BY AfterFlushGood, FlushedLength DEF GoodStream
<1>2. /\ t.off = s.off /\ t.base = s.base /\ t.win = s.win /\ t.eof = s.eof
      /\ t.ino = s.ino /\ t.writable = s.writable
  BY <1>1 DEF AfterFlush, Stream
<1>3. s.eof => s.off >= Len(f)
  BY DEF Fresh
<1>4. CASE s.pend = <<>>
  <2>1. f = d
    BY <1>4, FlushedLength
  <2>2. s.win = SubSeq(d, s.base + 1, s.base + Len(s.win))
        /\ (s.win = <<>> \/ s.base + Len(s.win) <= Len(d))
    BY DEF Fresh, WindowEnd
  <2> HIDE DEF t, f
  <2>3. QED  BY <1>1, <1>2, <1>3, <2>1, <2>2, FreshClean DEF t, f
<1>5. CASE s.pend # <<>>
  <2>1. s.win = <<>>
    BY <1>5 DEF GoodStream, Shaped
  <2> HIDE DEF t, f
  <2>2. QED  BY <1>1, <1>2, <1>3, <2>1, FreshEmpty DEF t, f
<1>6. QED  BY <1>4, <1>5

---------------------------------------------------------------------------
(* Counting                                                                  *)

\* One position more is counted if it is one of those that count.
LEMMA CountNext ==
  ASSUME NEW n \in Nat, NEW S
  PROVE  /\ n + 1 \in S => Cardinality({i \in 1..(n + 1) : i \in S})
                           = Cardinality({i \in 1..n : i \in S}) + 1
         /\ n + 1 \notin S => Cardinality({i \in 1..(n + 1) : i \in S})
                              = Cardinality({i \in 1..n : i \in S})
<1> DEFINE A == {i \in 1..n : i \in S}
           B == {i \in 1..(n + 1) : i \in S}
<1>1. IsFiniteSet(A) /\ Cardinality(A) \in 0..n
  BY CountBound
<1>2. n + 1 \notin A
  OBVIOUS
<1>3. CASE n + 1 \in S
  <2>1. B = A \cup {n + 1}
    BY <1>3
  <2> HIDE DEF A, B
  <2>2. Cardinality(B) = Cardinality(A) + 1
    BY <1>1, <1>2, <2>1, FS_AddElement
  <2>3. QED  BY <1>3, <2>2 DEF A, B
<1>4. CASE n + 1 \notin S
  <2>1. B = A
    BY <1>4
  <2>2. QED  BY <1>4, <2>1
<1>5. QED  BY <1>3, <1>4

\* The first m positions are m.
LEMMA CountFirst ==
  ASSUME NEW m \in Nat, NEW S, S = 1..m
  PROVE  Cardinality(S) = m
BY FS_Interval

\* The text of s ends at n when no ^Z is before and one is there, or the end is.
LEMMA TextLengthIs ==
  ASSUME NEW s \in Seq(Byte), NEW n \in 0..Len(s), \A j \in 1..n : s[j] # CtrlZ
  PROVE  /\ n <= TextLength(s)
         /\ (n = Len(s) \/ s[n + 1] = CtrlZ) => TextLength(s) = n
<1> DEFINE T == {k \in DOMAIN s : \A j \in 1..k : s[j] # CtrlZ}
<1>1. DOMAIN s = 1..Len(s) /\ Len(s) \in Nat /\ n \in Nat
  BY LenProperties
<1>2. T \subseteq 1..Len(s) /\ IsFiniteSet(T) /\ Cardinality(T) \in Nat
  <2>1. T \subseteq 1..Len(s)
    BY <1>1
  <2> HIDE DEF T
  <2>2. IsFiniteSet(T) /\ Cardinality(T) \in 0..Len(s)
    BY <1>1, <2>1, CountBound
  <2>3. QED  BY <1>1, <2>1, <2>2
<1>3. 1..n \subseteq T
  BY <1>1
<1>4. IsFiniteSet(1..n) /\ Cardinality(1..n) = n
  BY <1>1, FS_Interval
<1>5. n <= Cardinality(T)
  <2> HIDE DEF T
  <2>1. Cardinality(1..n) <= Cardinality(T)
    BY <1>2, <1>3, FS_Subset
  <2>2. QED  BY <1>4, <2>1
<1>6. ASSUME n = Len(s) \/ s[n + 1] = CtrlZ PROVE Cardinality(T) = n
  <2>1. ASSUME NEW k \in T PROVE k \in 1..n
    <3>1. k \in 1..Len(s) /\ \A j \in 1..k : s[j] # CtrlZ
      BY <1>1
    <3>2. CASE k > n
      <4>1. n + 1 \in 1..k /\ n < Len(s)
        BY <1>1, <3>1, <3>2
      <4>2. s[n + 1] # CtrlZ
        BY <3>1, <4>1
      <4>3. QED  BY <1>1, <1>6, <4>1, <4>2
    <3>3. QED  BY <1>1, <3>1, <3>2
  <2>2. T = 1..n
    BY <1>3, <2>1
  <2>3. QED  BY <1>4, <2>2
<1>7. QED  BY <1>5, <1>6 DEF TextLength

\* A byte more makes one byte more of Expand, a line end two.
LEMMA WidthNext ==
  ASSUME NEW s, NEW n \in Nat
  PROVE  /\ Width(s, n) \in Nat
         /\ s[n + 1] = Lf => Width(s, n + 1) = Width(s, n) + 2
         /\ s[n + 1] # Lf => Width(s, n + 1) = Width(s, n) + 1
<1> DEFINE S == {i \in Nat : s[i] = Lf}
           A == {i \in 1..n : s[i] = Lf}
           B == {i \in 1..(n + 1) : s[i] = Lf}
<1>1. A = {i \in 1..n : i \in S} /\ B = {i \in 1..(n + 1) : i \in S}
  OBVIOUS
<1>2. n + 1 \in S <=> s[n + 1] = Lf
  OBVIOUS
<1>3. Cardinality(A) \in Nat /\ Width(s, n) = n + Cardinality(A)
        /\ Width(s, n + 1) = n + 1 + Cardinality(B)
  BY CountBound DEF Width
<1> HIDE DEF S, A, B
<1>4. (n + 1 \in S => Cardinality(B) = Cardinality(A) + 1)
        /\ (n + 1 \notin S => Cardinality(B) = Cardinality(A))
  BY <1>1, CountNext
<1>5. QED  BY <1>2, <1>3, <1>4

\* Width grows with every byte.
LEMMA WidthGrows ==
  ASSUME NEW s, NEW m \in Nat, NEW n \in Nat, m < n
  PROVE  Width(s, m) < Width(s, n)
<1> DEFINE A == {i \in 1..m : s[i] = Lf}
           B == {i \in 1..n : s[i] = Lf}
<1>1. A \subseteq B
  OBVIOUS
<1>2. IsFiniteSet(B) /\ Cardinality(A) \in Nat /\ Cardinality(B) \in Nat
  BY CountBound
<1>3. Width(s, m) = m + Cardinality(A) /\ Width(s, n) = n + Cardinality(B)
  BY DEF Width
<1> HIDE DEF A, B
<1>4. Cardinality(A) <= Cardinality(B)
  BY <1>1, <1>2, FS_Subset
<1>5. QED  BY <1>2, <1>3, <1>4

\* Width looks at no more than the bytes it counts.
LEMMA WidthOfPart ==
  ASSUME NEW s, NEW p, NEW k \in Nat, \A i \in 1..k : p[i] = s[i]
  PROVE  Width(p, k) = Width(s, k)
<1>1. {i \in 1..k : p[i] = Lf} = {i \in 1..k : s[i] = Lf}
  OBVIOUS
<1>2. QED  BY <1>1 DEF Width

\* As many bytes fit as the loop has taken when it meets the end of the input, ^Z
\* or a byte that does not fit.
LEMMA FittingIs ==
  ASSUME NEW s \in Seq(Byte), NEW n \in 0..Len(s), \A j \in 1..n : s[j] # CtrlZ,
         Width(s, n) <= RecSize,
         n = Len(s) \/ s[n + 1] = CtrlZ \/ Width(s, n + 1) > RecSize
  PROVE  Fitting(s) = n
<1> DEFINE t == TextLength(s)
           F == {k \in 1..t : Width(s, k) <= RecSize}
<1>1. t \in Nat /\ n \in Nat /\ Len(s) \in Nat /\ RecSize \in Nat
  BY TextLengthType, LenProperties, RecSizeAssumption
<1>2. n <= t /\ ((n = Len(s) \/ s[n + 1] = CtrlZ) => t = n)
  BY TextLengthIs
<1> HIDE DEF t
<1>3. \A k \in Nat : Width(s, k) \in Nat
  BY WidthNext
<1>4. ASSUME NEW k \in 1..n PROVE k \in F
  <2>1. k < n => Width(s, k) < Width(s, n)
    BY <1>1, WidthGrows
  <2>2. Width(s, k) \in Nat /\ Width(s, n) \in Nat
    <3>1. k \in Nat
      BY <1>1
    <3>2. QED  BY <1>1, <1>3, <3>1
  <2>3. Width(s, k) <= RecSize
    <3>1. CASE k = n
      BY <3>1
    <3>2. CASE k < n
      BY <1>1, <2>1, <2>2, <3>2
    <3>3. QED  BY <1>1, <3>1, <3>2
  <2>4. k \in 1..t
    BY <1>1, <1>2
  <2>5. QED  BY <2>3, <2>4
<1>5. ASSUME NEW k \in F PROVE k \in 1..n
  <2>1. k \in 1..t /\ Width(s, k) <= RecSize
    OBVIOUS
  <2>2. CASE n = Len(s) \/ s[n + 1] = CtrlZ
    BY <1>2, <2>1, <2>2
  <2>3. CASE Width(s, n + 1) > RecSize
    <3>1. k \in Nat /\ n + 1 \in Nat
      BY <1>1, <2>1
    <3>2. Width(s, n + 1) \in Nat /\ Width(s, k) \in Nat
      BY <1>3, <3>1
    <3>3. k # n + 1
      BY <1>1, <2>1, <2>3, <3>2
    <3>4. CASE k > n + 1
      <4>1. Width(s, n + 1) < Width(s, k)
        BY <3>1, <3>4, WidthGrows
      <4>2. QED  BY <1>1, <2>1, <2>3, <3>2, <4>1
    <3>5. QED  BY <1>1, <2>1, <3>3, <3>4
  <2>4. QED  BY <2>2, <2>3
<1>6. F = 1..n
  BY <1>4, <1>5
<1> HIDE DEF F
<1>7. QED  BY <1>1, <1>6, CountFirst DEF Fitting, F, t

---------------------------------------------------------------------------
(* Expand, byte by byte                                                      *)

\* The bytes of s that are written before the j-th byte of what its first n make.
Behind(s, n, j) == {i \in 1..n : Width(s, i) < j}

\* What the first n bytes of s make.
MadeOf(s, n) ==
  [j \in 1..Width(s, n) |->
     LET k == Cardinality(Behind(s, n, j)) + 1
     IN  IF s[k] = Lf /\ j < Width(s, k) THEN Cr ELSE s[k]]

\* That is Expand of them.
LEMMA ExpandOfPart ==
  ASSUME NEW s \in Seq(Byte), NEW n \in 0..Len(s), NEW p, p = SubSeq(s, 1, n)
  PROVE  /\ Expand(p) = MadeOf(s, n) /\ MadeOf(s, n) \in Seq(Byte)
         /\ Len(MadeOf(s, n)) = Width(s, n)
<1>1. Len(s) \in Nat /\ n \in Nat
  BY LenProperties
<1>2. p \in Seq(Byte) /\ Len(p) = n /\ \A i \in 1..n : p[i] = s[i]
  <2>1. p = SubSeq(s, 0 + 1, n) /\ n - 0 = n
    BY <1>1
  <2>2. QED  BY <1>1, <2>1, PartOf
<1>3. DOMAIN p = 1..n
  BY <1>2, LenProperties
<1>4. ASSUME NEW k \in 0..n PROVE Width(p, k) = Width(s, k)
  <2>1. k \in Nat /\ \A i \in 1..k : p[i] = s[i]
    BY <1>1, <1>2
  <2>2. QED  BY <2>1, WidthOfPart
<1>5. Width(p, Len(p)) = Width(s, n) /\ Width(s, n) \in Nat
  BY <1>1, <1>2, <1>4, WidthNext
<1> DEFINE P(j) == Cardinality({i \in DOMAIN p : Width(p, i) < j}) + 1
           S(j) == Cardinality(Behind(s, n, j)) + 1
           pv(j) == IF p[P(j)] = Lf /\ j < Width(p, P(j)) THEN Cr ELSE p[P(j)]
           sv(j) == IF s[S(j)] = Lf /\ j < Width(s, S(j)) THEN Cr ELSE s[S(j)]
<1>6. ASSUME NEW j \in 1..Width(s, n) PROVE pv(j) = sv(j)
  <2>1. {i \in DOMAIN p : Width(p, i) < j} = Behind(s, n, j)
    BY <1>1, <1>3, <1>4 DEF Behind
  <2>2. Behind(s, n, j) \subseteq 1..n /\ n \notin Behind(s, n, j) /\ n # 0
    <3>1. Width(s, 0) = 0
      BY WidthType
    <3>2. n # 0
      BY <1>1, <1>5, <3>1
    <3>3. ~(Width(s, n) < j)
      BY <1>5
    <3>4. QED  BY <3>2, <3>3 DEF Behind
  <2>3. Behind(s, n, j) \subseteq 1..(n - 1) /\ n - 1 \in Nat
    BY <1>1, <2>2
  <2>4. Cardinality(Behind(s, n, j)) \in 0..(n - 1)
    BY <2>3, CountBound
  <2>5. P(j) = S(j) /\ S(j) \in 1..n
    <3>1. P(j) = S(j)
      BY <2>1
    <3>2. Cardinality(Behind(s, n, j)) + 1 \in 1..n
      BY <1>1, <2>3, <2>4
    <3>3. QED  BY <3>1, <3>2
  <2> HIDE DEF P, S
  <2>6. S(j) \in 0..n
    BY <1>1, <2>5
  <2>7. p[S(j)] = s[S(j)] /\ Width(p, S(j)) = Width(s, S(j))
    BY <1>2, <1>4, <2>5, <2>6
  <2>8. QED  BY <2>5, <2>7
<1>7. Expand(p) = [j \in 1..Width(p, Len(p)) |-> pv(j)]
  BY DEF Expand
<1>8. MadeOf(s, n) = [j \in 1..Width(s, n) |-> sv(j)]
  BY DEF MadeOf
<1> HIDE DEF pv, sv
<1>9. Expand(p) = MadeOf(s, n)
  BY <1>5, <1>6, <1>7, <1>8
<1>10. Expand(p) \in Seq(Byte) /\ Len(Expand(p)) = Width(s, n)
  BY <1>2, <1>5, ExpandType
<1>11. QED  BY <1>9, <1>10

\* The bytes made already stay when one more is taken.
LEMMA MadeStays ==
  ASSUME NEW s \in Seq(Byte), NEW n \in Nat, NEW j \in 1..Width(s, n)
  PROVE  MadeOf(s, n + 1)[j] = MadeOf(s, n)[j]
<1>1. Width(s, n) \in Nat /\ Width(s, n + 1) \in Nat /\ Width(s, n) < Width(s, n + 1)
  BY WidthNext, WidthGrows
<1>2. Behind(s, n + 1, j) = Behind(s, n, j)
  <2>1. ~(Width(s, n + 1) < j)
    BY <1>1
  <2>2. QED  BY <2>1 DEF Behind
<1>3. j \in 1..Width(s, n + 1)
  BY <1>1
<1>4. QED  BY <1>2, <1>3 DEF MadeOf

\* The bytes made of the next one come from it.
LEMMA MadeNext ==
  ASSUME NEW s \in Seq(Byte), NEW n \in Nat, NEW j \in Nat, Width(s, n) < j, j <= Width(s, n + 1)
  PROVE  MadeOf(s, n + 1)[j] = IF s[n + 1] = Lf /\ j < Width(s, n + 1) THEN Cr ELSE s[n + 1]
<1>1. \A k \in Nat : Width(s, k) \in Nat
  BY WidthNext
<1>2. Width(s, n) \in Nat /\ Width(s, n + 1) \in Nat
  BY <1>1
<1>3. ASSUME NEW i \in 1..n PROVE i \in Behind(s, n + 1, j)
  <2>1. i \in Nat /\ i <= n /\ i \in 1..(n + 1)
    OBVIOUS
  <2>2. Width(s, i) <= Width(s, n)
    <3>1. i < n => Width(s, i) < Width(s, n)
      BY <2>1, WidthGrows
    <3>2. Width(s, i) \in Nat
      BY <1>1, <2>1
    <3>3. CASE i = n
      BY <1>2, <3>3
    <3>4. CASE i < n
      BY <1>2, <3>1, <3>2, <3>4
    <3>5. QED  BY <2>1, <3>3, <3>4
  <2>3. Width(s, i) \in Nat
    BY <1>1, <2>1
  <2>4. Width(s, i) < j
    BY <1>2, <2>2, <2>3
  <2>5. QED  BY <2>1, <2>4 DEF Behind
<1>4. n + 1 \notin Behind(s, n + 1, j)
  BY <1>2 DEF Behind
<1>5. Behind(s, n + 1, j) = 1..n
  <2>1. Behind(s, n + 1, j) \subseteq 1..(n + 1)
    BY DEF Behind
  <2>2. ASSUME NEW i \in Behind(s, n + 1, j) PROVE i \in 1..n
    <3>1. i \in 1..(n + 1) /\ i # n + 1
      BY <1>4, <2>1
    <3>2. QED  BY <3>1
  <2>3. QED  BY <1>3, <2>2
<1>6. Cardinality(Behind(s, n + 1, j)) = n
  BY <1>5, CountFirst
<1>7. j \in 1..Width(s, n + 1)
  BY <1>2
<1>8. QED  BY <1>6, <1>7 DEF MadeOf

\* So the loop may go on where it is: one byte is put behind what was made, for a
\* line end two.
LEMMA MadeGrows ==
  ASSUME NEW s \in Seq(Byte), NEW n \in Nat, n < Len(s)
  PROVE  /\ s[n + 1] = Lf => MadeOf(s, n + 1) = MadeOf(s, n) \o <<Cr, Lf>>
         /\ s[n + 1] # Lf => MadeOf(s, n + 1) = Append(MadeOf(s, n), s[n + 1])
<1> DEFINE w == Width(s, n)
           v == Width(s, n + 1)
           old == MadeOf(s, n)
           new == MadeOf(s, n + 1)
<1>1. Len(s) \in Nat /\ n \in 0..Len(s) /\ n + 1 \in 0..Len(s) /\ n + 1 \in 1..Len(s)
  BY LenProperties
<1>2. old \in Seq(Byte) /\ Len(old) = w /\ new \in Seq(Byte) /\ Len(new) = v
  BY <1>1, ExpandOfPart
<1>3. w \in Nat /\ v \in Nat /\ (s[n + 1] = Lf => v = w + 2) /\ (s[n + 1] # Lf => v = w + 1)
  BY WidthNext
<1>4. \A j \in 1..w : new[j] = old[j]
  BY MadeStays
<1>5. \A j \in Nat : w < j /\ j <= v
        => new[j] = IF s[n + 1] = Lf /\ j < v THEN Cr ELSE s[n + 1]
  BY MadeNext
<1>6. s[n + 1] \in Byte /\ Cr \in Byte /\ Lf \in Byte
  BY <1>1, ElementOfSeq, HostAssumption
<1> HIDE DEF w, v, old, new
<1>7. ASSUME s[n + 1] = Lf PROVE new = old \o <<Cr, Lf>>
  <2> DEFINE e == <<Cr, Lf>>
             c == old \o e
  <2>1. e \in Seq(Byte) /\ Len(e) = 2 /\ e[1] = Cr /\ e[2] = Lf
    BY <1>6
  <2> HIDE DEF e
  <2>2. /\ c \in Seq(Byte) /\ Len(c) = w + 2
        /\ \A i \in 1..(w + 2) : c[i] = IF i <= w THEN old[i] ELSE e[i - w]
    <3>1. /\ c \in Seq(Byte) /\ Len(c) = Len(old) + Len(e)
          /\ \A i \in 1..(Len(old) + Len(e)) : c[i] = IF i <= Len(old) THEN old[i] ELSE e[i - Len(old)]
      BY <1>2, <2>1, ConcatProperties
    <3>2. Len(old) = w /\ Len(e) = 2
      BY <1>2, <2>1
    <3> HIDE DEF c
    <3>3. QED  BY <3>1, <3>2
  <2> HIDE DEF c
  <2>3. ASSUME NEW j \in 1..Len(new) PROVE new[j] = c[j]
    <3>1. j \in 1..(w + 2) /\ v = w + 2
      BY <1>2, <1>3, <1>7
    <3>2. CASE j <= w
      BY <1>3, <1>4, <2>2, <3>1, <3>2
    <3>3. CASE j = w + 1
      <4>1. new[j] = Cr
        BY <1>3, <1>5, <1>7, <3>1, <3>3
      <4>2. c[j] = e[1]
        BY <1>3, <2>2, <3>1, <3>3
      <4>3. QED  BY <2>1, <4>1, <4>2
    <3>4. CASE j = w + 2
      <4>1. new[j] = Lf
        BY <1>3, <1>5, <1>7, <3>1, <3>4
      <4>2. c[j] = e[2]
        BY <1>3, <2>2, <3>1, <3>4
      <4>3. QED  BY <2>1, <4>1, <4>2
    <3>5. QED  BY <1>3, <3>1, <3>2, <3>3, <3>4
  <2>4. new = c
    BY <1>2, <1>3, <1>7, <2>2, <2>3, SeqEqual
  <2>5. QED  BY <2>4 DEF c, e
<1>8. ASSUME s[n + 1] # Lf PROVE new = Append(old, s[n + 1])
  <2> DEFINE c == Append(old, s[n + 1])
  <2>1. /\ c \in Seq(Byte) /\ Len(c) = w + 1 /\ c[w + 1] = s[n + 1]
        /\ \A i \in 1..w : c[i] = old[i]
    BY <1>2, <1>6, AppendProperties
  <2> HIDE DEF c
  <2>2. ASSUME NEW j \in 1..Len(new) PROVE new[j] = c[j]
    <3>1. j \in 1..(w + 1) /\ v = w + 1
      BY <1>2, <1>3, <1>8
    <3>2. CASE j <= w
      BY <1>3, <1>4, <2>1, <3>1, <3>2
    <3>3. CASE j = w + 1
      BY <1>3, <1>5, <1>8, <2>1, <3>1, <3>3
    <3>4. QED  BY <1>3, <3>1, <3>2, <3>3
  <2>3. new = c
    BY <1>2, <1>3, <1>8, <2>1, <2>2, SeqEqual
  <2>4. QED  BY <2>3 DEF c
<1>9. QED  BY <1>7, <1>8 DEF old, new

---------------------------------------------------------------------------
(* Collapse, byte by byte                                                    *)

\* A byte that is not dropped is kept.
LEMMA KeptNext ==
  ASSUME NEW rec, NEW n \in Nat
  PROVE  /\ Kept(rec, n) \in 0..n
         /\ Dropped(rec, n + 1) => Kept(rec, n + 1) = Kept(rec, n)
         /\ ~Dropped(rec, n + 1) => Kept(rec, n + 1) = Kept(rec, n) + 1
<1> DEFINE S == {i \in Nat : Dropped(rec, i)}
           A == {i \in 1..n : Dropped(rec, i)}
           B == {i \in 1..(n + 1) : Dropped(rec, i)}
<1>1. A = {i \in 1..n : i \in S} /\ B = {i \in 1..(n + 1) : i \in S}
  OBVIOUS
<1>2. (n + 1 \in S => Dropped(rec, n + 1)) /\ (Dropped(rec, n + 1) => n + 1 \in S)
  OBVIOUS
<1>3. Cardinality(A) \in 0..n
  BY CountBound
<1>4. Kept(rec, n) = n - Cardinality(A) /\ Kept(rec, n + 1) = (n + 1) - Cardinality(B)
  BY ONLY DEF Kept
<1> HIDE DEF S, A, B
<1>5. (n + 1 \in S => Cardinality(B) = Cardinality(A) + 1)
        /\ (n + 1 \notin S => Cardinality(B) = Cardinality(A))
  BY <1>1, CountNext
<1>6. CASE Dropped(rec, n + 1)
  BY <1>2, <1>3, <1>4, <1>5, <1>6
<1>7. CASE ~Dropped(rec, n + 1)
  BY <1>2, <1>3, <1>4, <1>5, <1>7
<1>8. QED  BY <1>6, <1>7

\* What is kept of the first bytes is not given up for a later one.
LEMMA KeptGrows ==
  ASSUME NEW rec, NEW m \in Nat, NEW n \in Nat, m <= n
  PROVE  Kept(rec, m) <= Kept(rec, n)
<1> DEFINE K(k) == {i \in 1..k : ~Dropped(rec, i)}
           D(k) == {i \in 1..k : Dropped(rec, i)}
<1>1. ASSUME NEW k \in Nat PROVE Kept(rec, k) = Cardinality(K(k)) /\ IsFiniteSet(K(k))
  <2> DEFINE d == D(k)
             r == K(k)
             all == 1..k
  <2>1. IsFiniteSet(all) /\ Cardinality(all) = k
    BY FS_Interval
  <2>2. IsFiniteSet(d) /\ Cardinality(d) \in 0..k /\ IsFiniteSet(r) /\ Cardinality(r) \in 0..k
    BY CountBound
  <2>3. all \cap d = d /\ all \ d = r
    OBVIOUS
  <2>4. Kept(rec, k) = k - Cardinality(d)
    BY DEF Kept
  <2> HIDE DEF d, r, all
  <2>5. Cardinality(all \ d) = Cardinality(all) - Cardinality(all \cap d)
    BY <2>1, FS_Difference
  <2>6. QED  BY <2>1, <2>2, <2>3, <2>4, <2>5 DEF r
<1>2. K(m) \subseteq K(n)
  OBVIOUS
<1> HIDE DEF K, D
<1>3. Cardinality(K(m)) <= Cardinality(K(n))
  BY <1>1, <1>2, FS_Subset
<1>4. QED  BY <1>1, <1>3

\* The bytes of rec that are written before the j-th byte of what its first n leave.
Passed(rec, n, j) == {i \in 1..n : Kept(rec, i) < j}

\* What the first n bytes of a record leave.
Left(rec, n) == [j \in 1..Kept(rec, n) |-> rec[Cardinality(Passed(rec, n, j)) + 1]]

\* It is bytes of the record.
LEMMA LeftType ==
  ASSUME NEW rec \in Seq(Byte), NEW n \in 0..Len(rec)
  PROVE  /\ Left(rec, n) \in Seq(Byte) /\ Len(Left(rec, n)) = Kept(rec, n)
         /\ Kept(rec, n) \in 0..n
<1>1. Len(rec) \in Nat /\ n \in Nat
  BY LenProperties
<1>2. Kept(rec, n) \in 0..n /\ Kept(rec, n) \in Nat
  BY <1>1, KeptNext
<1> DEFINE e(j) == rec[Cardinality(Passed(rec, n, j)) + 1]
<1>3. ASSUME NEW j \in 1..Kept(rec, n) PROVE e(j) \in Byte
  <2>1. Passed(rec, n, j) \subseteq 1..n /\ n \notin Passed(rec, n, j) /\ n # 0
    BY <1>1, <1>2 DEF Passed
  <2>2. Passed(rec, n, j) \subseteq 1..(n - 1) /\ n - 1 \in Nat
    BY <1>1, <2>1
  <2>3. Cardinality(Passed(rec, n, j)) \in 0..(n - 1)
    BY <2>2, CountBound
  <2>4. Cardinality(Passed(rec, n, j)) + 1 \in 1..Len(rec)
    BY <1>1, <2>2, <2>3
  <2>5. QED  BY <2>4, ElementOfSeq
<1>4. Left(rec, n) = [j \in 1..Kept(rec, n) |-> e(j)]
  BY DEF Left
<1> HIDE DEF e
<1>5. Left(rec, n) \in Seq(Byte)
  BY <1>2, <1>3, <1>4, IsASeq
<1>6. DOMAIN Left(rec, n) = 1..Kept(rec, n)
  BY <1>4
<1>7. Len(Left(rec, n)) = Kept(rec, n)
  BY <1>2, <1>5, <1>6, LenProperties
<1>8. QED  BY <1>2, <1>5, <1>7

\* One turn of the fputc loop: a dropped byte leaves nothing, another itself.
LEMMA LeftGrows ==
  ASSUME NEW rec \in Seq(Byte), NEW n \in Nat, n < Len(rec)
  PROVE  /\ Dropped(rec, n + 1) => Left(rec, n + 1) = Left(rec, n)
         /\ ~Dropped(rec, n + 1) => Left(rec, n + 1) = Append(Left(rec, n), rec[n + 1])
<1> DEFINE w == Kept(rec, n)
           v == Kept(rec, n + 1)
           old == Left(rec, n)
           new == Left(rec, n + 1)
<1>1. Len(rec) \in Nat /\ n \in 0..Len(rec) /\ n + 1 \in 0..Len(rec) /\ n + 1 \in 1..Len(rec)
  BY LenProperties
<1>2. old \in Seq(Byte) /\ Len(old) = w /\ new \in Seq(Byte) /\ Len(new) = v
  BY <1>1, LeftType
<1>3. w \in Nat /\ v \in Nat /\ (Dropped(rec, n + 1) => v = w) /\ (~Dropped(rec, n + 1) => v = w + 1)
  BY KeptNext
<1>4. ASSUME NEW j \in 1..w PROVE new[j] = old[j]
  <2>1. ~(v < j) /\ j \in 1..v
    BY <1>3
  <2>2. Passed(rec, n + 1, j) = Passed(rec, n, j)
    BY <2>1 DEF Passed
  <2>3. QED  BY <2>1, <2>2 DEF Left
<1>5. rec[n + 1] \in Byte
  BY <1>1, ElementOfSeq
<1>6. ASSUME ~Dropped(rec, n + 1) PROVE new[w + 1] = rec[n + 1]
  <2>1. v = w + 1
    BY <1>3, <1>6
  <2>2. ASSUME NEW i \in 1..n PROVE i \in Passed(rec, n + 1, w + 1)
    <3>1. i \in Nat /\ i <= n /\ i \in 1..(n + 1)
      OBVIOUS
    <3>2. Kept(rec, i) <= w
      BY <3>1, KeptGrows
    <3>3. Kept(rec, i) \in 0..i
      BY <3>1, KeptNext
    <3>4. Kept(rec, i) < w + 1
      BY <1>3, <3>1, <3>2, <3>3
    <3>5. QED  BY <3>1, <3>4 DEF Passed
  <2>3. n + 1 \notin Passed(rec, n + 1, w + 1)
    BY <1>3, <2>1 DEF Passed
  <2>4. Passed(rec, n + 1, w + 1) = 1..n
    <3>1. ASSUME NEW i \in Passed(rec, n + 1, w + 1) PROVE i \in 1..n
      <4>1. i \in 1..(n + 1) /\ i # n + 1
        BY <2>3 DEF Passed
      <4>2. QED  BY <4>1
    <3>2. QED  BY <2>2, <3>1
  <2>5. Cardinality(Passed(rec, n + 1, w + 1)) = n
    BY <2>4, CountFirst
  <2>6. w + 1 \in 1..v
    BY <1>3, <2>1
  <2>7. QED  BY <2>5, <2>6 DEF Left
<1> HIDE DEF w, v, old, new
<1>7. ASSUME Dropped(rec, n + 1) PROVE new = old
  BY <1>2, <1>3, <1>4, <1>7, SeqEqual
<1>8. ASSUME ~Dropped(rec, n + 1) PROVE new = Append(old, rec[n + 1])
  <2> DEFINE c == Append(old, rec[n + 1])
  <2>1. /\ c \in Seq(Byte) /\ Len(c) = w + 1 /\ c[w + 1] = rec[n + 1]
        /\ \A i \in 1..w : c[i] = old[i]
    BY <1>2, <1>5, AppendProperties
  <2> HIDE DEF c
  <2>2. ASSUME NEW j \in 1..Len(new) PROVE new[j] = c[j]
    <3>1. j \in 1..(w + 1)
      BY <1>2, <1>3, <1>8
    <3>2. CASE j <= w
      BY <1>3, <1>4, <2>1, <3>1, <3>2
    <3>3. CASE j = w + 1
      BY <1>6, <1>8, <2>1, <3>3
    <3>4. QED  BY <1>3, <3>1, <3>2, <3>3
  <2>3. Len(new) = Len(c)
    BY <1>2, <1>3, <1>8, <2>1
  <2>4. new = c
    BY <1>2, <2>1, <2>2, <2>3, SeqEqual
  <2>5. QED  BY <2>4 DEF c
<1>9. QED  BY <1>7, <1>8 DEF old, new

---------------------------------------------------------------------------
(* A text written and read back                                              *)

\* The whole of a sequence.
LEMMA WholePart ==
  ASSUME NEW s \in Seq(Byte)
  PROVE  SubSeq(s, 1, Len(s)) = s
<1>1. Len(s) \in Nat /\ 0 + 1 = 1 /\ Len(s) - 0 = Len(s)
  BY LenProperties
<1>2. /\ SubSeq(s, 0 + 1, Len(s)) \in Seq(Byte) /\ Len(SubSeq(s, 0 + 1, Len(s))) = Len(s) - 0
      /\ \A i \in 1..(Len(s) - 0) : SubSeq(s, 0 + 1, Len(s))[i] = s[0 + i]
  BY <1>1, PartOf
<1>3. \A i \in 1..Len(s) : 0 + i = i
  BY <1>1
<1>4. SubSeq(s, 1, Len(s)) \in Seq(Byte) /\ Len(SubSeq(s, 1, Len(s))) = Len(s)
        /\ \A i \in 1..Len(s) : SubSeq(s, 1, Len(s))[i] = s[i]
  BY <1>1, <1>2, <1>3
<1>5. QED  BY <1>4, SeqEqual

\* The first bytes and one more.
LEMMA PartNext ==
  ASSUME NEW s \in Seq(Byte), NEW k \in Nat, k + 1 \in 1..Len(s)
  PROVE  SubSeq(s, 1, k + 1) = Append(SubSeq(s, 1, k), s[k + 1])
<1>1. Len(s) \in Nat /\ k <= Len(s) /\ k + 1 <= Len(s)
  BY LenProperties
<1> DEFINE p == SubSeq(s, 1, k)
           q == SubSeq(s, 1, k + 1)
           c == Append(p, s[k + 1])
<1>2. p \in Seq(Byte) /\ Len(p) = k /\ \A i \in 1..k : p[i] = s[i]
  <2>1. p = SubSeq(s, 0 + 1, k) /\ k - 0 = k /\ \A i \in 1..k : 0 + i = i
    OBVIOUS
  <2>2. QED  BY <1>1, <2>1, PartOf
<1>3. q \in Seq(Byte) /\ Len(q) = k + 1 /\ \A i \in 1..(k + 1) : q[i] = s[i]
  <2>1. q = SubSeq(s, 0 + 1, k + 1) /\ (k + 1) - 0 = k + 1 /\ \A i \in 1..(k + 1) : 0 + i = i
    OBVIOUS
  <2>2. QED  BY <1>1, <2>1, PartOf
<1>4. s[k + 1] \in Byte
  BY ElementOfSeq
<1> HIDE DEF p, q
<1>5. c \in Seq(Byte) /\ Len(c) = k + 1 /\ c[k + 1] = s[k + 1] /\ \A i \in 1..k : c[i] = p[i]
  BY <1>2, <1>4, AppendProperties
<1> HIDE DEF c
<1>6. ASSUME NEW i \in 1..Len(q) PROVE q[i] = c[i]
  <2>1. i \in 1..k \/ i = k + 1
    BY <1>3
  <2>2. QED  BY <1>2, <1>3, <1>5, <2>1
<1>7. q = c
  BY <1>3, <1>5, <1>6, SeqEqual
<1>8. QED  BY <1>7 DEF p, q, c

\* The bytes made of the byte after the first k come from it, whatever follows.
LEMMA MadeAt ==
  ASSUME NEW s \in Seq(Byte), NEW n \in Nat, NEW k \in Nat, k < n,
         NEW j \in Nat, Width(s, k) < j, j <= Width(s, k + 1)
  PROVE  /\ j \in 1..Width(s, n)
         /\ MadeOf(s, n)[j] = IF s[k + 1] = Lf /\ j < Width(s, k + 1) THEN Cr ELSE s[k + 1]
<1>1. \A i \in Nat : Width(s, i) \in Nat
  BY WidthNext
<1>2. Width(s, k) \in Nat /\ Width(s, k + 1) \in Nat /\ Width(s, n) \in Nat
  <2>1. k + 1 \in Nat
    OBVIOUS
  <2>2. QED  BY ZenonT(20), <1>1, <2>1
<1>3. ASSUME NEW x \in Nat, NEW y \in Nat, x <= y PROVE Width(s, x) <= Width(s, y)
  <2>1. x < y => Width(s, x) < Width(s, y)
    BY WidthGrows
  <2>2. Width(s, x) \in Nat /\ Width(s, y) \in Nat
    BY <1>1
  <2>3. CASE x = y
    BY <2>2, <2>3
  <2>4. CASE x < y
    BY <2>1, <2>2, <2>4
  <2>5. QED  BY <1>3, <2>3, <2>4
<1>4. Width(s, k + 1) <= Width(s, n)
  BY <1>3
<1>5. ASSUME NEW i \in 1..n PROVE (Width(s, i) < j) <=> (i <= k)
  <2>1. i \in Nat /\ Width(s, i) \in Nat
    <3>1. i \in Nat
      OBVIOUS
    <3>2. QED  BY ZenonT(20), <1>1, <3>1
  <2>2. CASE i <= k
    <3>1. Width(s, i) <= Width(s, k)
      BY <1>3, <2>1, <2>2
    <3>2. QED  BY <1>2, <2>1, <2>2, <3>1
  <2>3. CASE i > k
    <3>1. Width(s, k + 1) <= Width(s, i)
      <4>1. k + 1 <= i /\ k + 1 \in Nat
        BY <2>1, <2>3
      <4>2. QED  BY <1>3, <2>1, <4>1
    <3>2. QED  BY <1>2, <2>1, <2>3, <3>1
  <2>4. QED  BY <2>1, <2>2, <2>3
<1>6. Behind(s, n, j) = 1..k
  BY <1>5 DEF Behind
<1>7. Cardinality(Behind(s, n, j)) = k
  BY <1>6, CountFirst
<1>8. j \in 1..Width(s, n)
  BY <1>2, <1>4
<1>9. QED  BY <1>7, <1>8 DEF MadeOf

\* As many bytes fit as there are before the end, ^Z or one that does not fit.
LEMMA FittingMost ==
  ASSUME NEW s \in Seq(Byte), NEW n, n = Fitting(s)
  PROVE  /\ n \in 0..Len(s) /\ Width(s, n) <= RecSize /\ \A j \in 1..n : s[j] # CtrlZ
         /\ n = Len(s) \/ s[n + 1] = CtrlZ \/ Width(s, n + 1) > RecSize
<1> DEFINE T == {k \in 0..Len(s) : Width(s, k) <= RecSize /\ \A j \in 1..k : s[j] # CtrlZ}
<1>1. Len(s) \in Nat /\ RecSize \in Nat
  BY LenProperties, RecSizeAssumption
<1>2. T \in SUBSET (0..Len(s)) /\ 0 \in T
  <2>1. Width(s, 0) = 0
    BY WidthType
  <2>2. QED  BY <1>1, <2>1
<1>3. PICK m \in T : \A k \in T : k <= m
  <2> HIDE DEF T
  <2>1. QED  BY <1>1, <1>2, GreatestNatural
<1>4. m \in 0..Len(s) /\ m \in Nat /\ Width(s, m) <= RecSize /\ \A j \in 1..m : s[j] # CtrlZ
  OBVIOUS
<1>5. m = Len(s) \/ s[m + 1] = CtrlZ \/ Width(s, m + 1) > RecSize
  <2>1. SUFFICES ASSUME m # Len(s), s[m + 1] # CtrlZ, ~(Width(s, m + 1) > RecSize) PROVE FALSE
    OBVIOUS
  <2>2. m + 1 \in 0..Len(s) /\ Width(s, m + 1) \in Nat
    BY <1>1, <1>4, <2>1, WidthNext
  <2>3. \A j \in 1..(m + 1) : s[j] # CtrlZ
    <3>1. \A j \in 1..(m + 1) : j \in 1..m \/ j = m + 1
      BY <1>4
    <3>2. QED  BY <1>4, <2>1, <3>1
  <2>4. m + 1 \in T
    BY <1>1, <2>1, <2>2, <2>3
  <2>5. m + 1 <= m
    BY <1>3, <2>4
  <2>6. QED  BY <1>4, <2>5
<1> HIDE DEF T
<1>6. Fitting(s) = m
  BY <1>4, <1>5, FittingIs
<1>7. QED  BY <1>4, <1>5, <1>6

\* A text whose lines were ended for CP/M and that was padded to a record has its own
\* line ends again when the record is written to a text file.
LEMMA RoundTrip ==
  ASSUME NEW s \in Seq(Byte), \A j \in 1..Len(s) : s[j] # CtrlZ, Width(s, Len(s)) <= RecSize
  PROVE  Collapse(Pad(Expand(s))) = s
<1> DEFINE n == Len(s)
           w == Width(s, n)
           m == MadeOf(s, n)
           rec == Pad(Expand(s))
<1>1. n \in Nat /\ RecSize \in Nat /\ w \in Nat /\ w <= RecSize
  BY LenProperties, RecSizeAssumption, WidthNext
<1>2. Expand(s) = m /\ m \in Seq(Byte) /\ Len(m) = w /\ DOMAIN m = 1..w
  <2>1. s = SubSeq(s, 1, n)
    BY WholePart
  <2>2. n \in 0..Len(s)
    BY <1>1
  <2> HIDE DEF n
  <2>3. Expand(s) = m /\ m \in Seq(Byte) /\ Len(m) = w
    BY <2>1, <2>2, ExpandOfPart
  <2>4. QED  BY <2>3, LenProperties
<1> HIDE DEF m
<1>3. /\ rec \in Seq(Byte) /\ Len(rec) = RecSize
      /\ \A j \in 1..RecSize : rec[j] = IF j <= w THEN m[j] ELSE CtrlZ
  <2>1. rec \in Seq(Byte) /\ Len(rec) = RecSize
    BY <1>2, PadType, RecordIsSeq
  <2>2. \A j \in 1..RecSize : rec[j] = IF j \in 1..w THEN m[j] ELSE CtrlZ
    BY <1>2 DEF Pad
  <2>3. \A j \in 1..RecSize : (j \in 1..w) <=> j <= w
    BY <1>1
  <2>4. QED  BY <2>1, <2>2, <2>3
<1> HIDE DEF rec
<1>4. /\ Cr # CtrlZ /\ Lf # CtrlZ /\ Cr # Lf
  BY HostAssumption
\* The bytes that stand for the (k + 1)st byte of s.
<1>5. ASSUME NEW k \in Nat, k < n
      PROVE  /\ Width(s, k) \in Nat /\ Width(s, k + 1) \in Nat /\ Width(s, k + 1) <= w
             /\ (s[k + 1] = Lf => Width(s, k + 1) = Width(s, k) + 2
                                  /\ rec[Width(s, k) + 1] = Cr /\ rec[Width(s, k) + 2] = Lf)
             /\ (s[k + 1] # Lf => Width(s, k + 1) = Width(s, k) + 1
                                  /\ rec[Width(s, k) + 1] = s[k + 1])
  <2> DEFINE v == Width(s, k)
             u == Width(s, k + 1)
  <2>1. /\ v \in Nat /\ u \in Nat /\ (s[k + 1] = Lf => u = v + 2) /\ (s[k + 1] # Lf => u = v + 1)
    BY WidthNext
  <2>2. u <= w
    <3>1. k + 1 < n => u < w
      BY <1>1, WidthGrows
    <3>2. k + 1 = n => u = w
      OBVIOUS
    <3>3. k + 1 < n \/ k + 1 = n
      BY <1>1, <1>5
    <3>4. QED  BY <1>1, <2>1, <3>1, <3>2, <3>3
  <2>3. \A j \in Nat : v < j /\ j <= u => m[j] = IF s[k + 1] = Lf /\ j < u THEN Cr ELSE s[k + 1]
    BY <1>1, <1>5, MadeAt DEF m
  <2> HIDE DEF v, u, w, n
  <2>4. \A j \in Nat : v < j /\ j <= u => rec[j] = m[j]
    <3>1. \A j \in Nat : v < j /\ j <= u => j \in 1..RecSize /\ j <= w
      BY <1>1, <2>1, <2>2
    <3>2. QED  BY <1>3, <3>1
  <2>5. CASE s[k + 1] = Lf
    <3>1. u = v + 2 /\ v + 1 \in Nat /\ v + 2 \in Nat /\ v < v + 1 /\ v + 1 < u /\ v < v + 2
      BY <2>1, <2>5
    <3>2. rec[v + 1] = Cr /\ rec[v + 2] = Lf
      BY <2>3, <2>4, <2>5, <3>1
    <3>3. QED  BY <2>1, <2>2, <2>5, <3>1, <3>2 DEF v, u
  <2>6. CASE s[k + 1] # Lf
    <3>1. u = v + 1 /\ v + 1 \in Nat /\ v < v + 1
      BY <2>1, <2>6
    <3>2. rec[v + 1] = s[k + 1]
      BY <2>3, <2>4, <2>6, <3>1
    <3>3. QED  BY <2>1, <2>2, <2>6, <3>1, <3>2 DEF v, u
  <2>7. QED  BY <2>5, <2>6
<1> HIDE DEF w
\* Only the Cr that Expand has put in is dropped.
<1>6. ASSUME NEW k \in Nat, k < n
      PROVE  /\ s[k + 1] = Lf => Dropped(rec, Width(s, k) + 1) /\ ~Dropped(rec, Width(s, k) + 2)
             /\ s[k + 1] # Lf => ~Dropped(rec, Width(s, k) + 1)
  <2> DEFINE v == Width(s, k)
  <2>1. /\ v \in Nat /\ Width(s, k + 1) \in Nat /\ Width(s, k + 1) <= w
        /\ (s[k + 1] = Lf => Width(s, k + 1) = v + 2 /\ rec[v + 1] = Cr /\ rec[v + 2] = Lf)
        /\ (s[k + 1] # Lf => Width(s, k + 1) = v + 1 /\ rec[v + 1] = s[k + 1])
    BY <1>5, <1>6
  <2>2. ASSUME s[k + 1] # Lf PROVE ~(v + 1 < Len(rec) /\ rec[v + 2] = Lf)
    <3>1. SUFFICES ASSUME v + 1 < Len(rec), rec[v + 2] = Lf PROVE FALSE
      OBVIOUS
    <3>2. v + 2 \in 1..RecSize /\ Width(s, k + 1) = v + 1
      BY <1>1, <1>3, <2>1, <2>2, <3>1
    <3>3. CASE k + 1 = n
      <4>1. w = v + 1
        BY <3>2, <3>3 DEF w
      <4>2. rec[v + 2] = CtrlZ
        BY <1>3, <2>1, <3>2, <4>1
      <4>3. QED  BY <1>4, <3>1, <4>2
    <3>4. CASE k + 1 < n
      <4>1. /\ (s[(k + 1) + 1] = Lf => rec[Width(s, k + 1) + 1] = Cr)
            /\ (s[(k + 1) + 1] # Lf => rec[Width(s, k + 1) + 1] = s[(k + 1) + 1])
        <5>1. k + 1 \in Nat
          OBVIOUS
        <5>2. QED  BY <1>5, <3>4, <5>1
      <4>2. Width(s, k + 1) + 1 = v + 2
        BY <2>1, <3>2
      <4>3. rec[v + 2] # Lf
        BY <1>4, <4>1, <4>2
      <4>4. QED  BY <3>1, <4>3
    <3>5. QED  BY <1>1, <1>6, <3>3, <3>4
  <2> HIDE DEF v
  <2>3. ASSUME s[k + 1] = Lf PROVE Dropped(rec, v + 1) /\ ~Dropped(rec, v + 2)
    <3>1. v + 1 < Len(rec) /\ (v + 1) + 1 = v + 2
      BY <1>1, <1>3, <2>1, <2>3
    <3>2. QED  BY <1>4, <2>1, <2>3, <3>1 DEF Dropped
  <2>4. ASSUME s[k + 1] # Lf PROVE ~Dropped(rec, v + 1)
    <3>1. (v + 1) + 1 = v + 2
      BY <2>1
    <3>2. QED  BY <2>2, <2>4, <3>1 DEF Dropped
  <2>5. QED  BY <2>3, <2>4 DEF v
\* What the bytes written for the first k bytes of s leave is those bytes.
<1> DEFINE Same(k) == Left(rec, Width(s, k)) = SubSeq(s, 1, k)
<1>7. Same(0)
  <2>1. Width(s, 0) = 0
    BY WidthType
  <2>2. Left(rec, 0) \in Seq(Byte) /\ Len(Left(rec, 0)) = 0
    BY <1>1, <1>3, LeftType
  <2>3. SubSeq(s, 1, 0) = <<>>
    BY SubSeqEmpty
  <2>4. QED  BY <2>1, <2>2, <2>3, EmptySeq
<1>8. ASSUME NEW k \in Nat, k < n, Same(k) PROVE Same(k + 1)
  <2> DEFINE v == Width(s, k)
  <2>1. /\ v \in Nat /\ Width(s, k + 1) \in Nat /\ Width(s, k + 1) <= RecSize
        /\ (s[k + 1] = Lf => Width(s, k + 1) = v + 2 /\ rec[v + 2] = Lf)
        /\ (s[k + 1] # Lf => Width(s, k + 1) = v + 1 /\ rec[v + 1] = s[k + 1])
    <3>1. /\ v \in Nat /\ Width(s, k + 1) \in Nat /\ Width(s, k + 1) <= w
          /\ (s[k + 1] = Lf => Width(s, k + 1) = v + 2 /\ rec[v + 2] = Lf)
          /\ (s[k + 1] # Lf => Width(s, k + 1) = v + 1 /\ rec[v + 1] = s[k + 1])
      BY <1>5, <1>8
    <3> HIDE DEF v
    <3>2. QED  BY <1>1, <3>1
  <2>2. /\ s[k + 1] = Lf => Dropped(rec, v + 1) /\ ~Dropped(rec, v + 2)
        /\ s[k + 1] # Lf => ~Dropped(rec, v + 1)
    BY <1>6, <1>8
  <2>3. Left(rec, v) = SubSeq(s, 1, k)
    BY <1>8
  <2>4. SubSeq(s, 1, k + 1) = Append(SubSeq(s, 1, k), s[k + 1])
    <3>1. k + 1 \in 1..Len(s)
      BY <1>1, <1>8
    <3>2. QED  BY <3>1, PartNext
  <2> HIDE DEF v
  <2>5. CASE s[k + 1] # Lf
    <3>1. v < Len(rec)
      BY <1>1, <1>3, <2>1, <2>5
    <3>2. Left(rec, v + 1) = Append(Left(rec, v), rec[v + 1])
      BY <1>3, <2>1, <2>2, <2>5, <3>1, LeftGrows
    <3>3. QED  BY <2>1, <2>3, <2>4, <2>5, <3>2
  <2>6. CASE s[k + 1] = Lf
    <3>1. v < Len(rec) /\ v + 1 < Len(rec) /\ v + 1 \in Nat /\ (v + 1) + 1 = v + 2
      BY <1>1, <1>3, <2>1, <2>6
    <3>2. Left(rec, v + 1) = Left(rec, v)
      BY <1>3, <2>1, <2>2, <2>6, <3>1, LeftGrows
    <3>3. Left(rec, (v + 1) + 1) = Append(Left(rec, v + 1), rec[(v + 1) + 1])
      <4>1. ~Dropped(rec, (v + 1) + 1)
        BY <2>2, <2>6, <3>1
      <4>2. QED  BY <1>3, <3>1, <4>1, LeftGrows
    <3>4. QED  BY <2>1, <2>3, <2>4, <2>6, <3>1, <3>2, <3>3
  <2>7. QED  BY <2>5, <2>6
<1>9. Same(n)
  <2> DEFINE T == {k \in 0..n : ~Same(k)}
  <2>1. SUFFICES ASSUME ~Same(n) PROVE FALSE
    OBVIOUS
  <2>2. T \in SUBSET Nat /\ n \in T
    BY <1>1, <2>1
  <2> HIDE DEF Same, n
  <2>3. PICK k \in T : \A j \in T : k <= j
    <3> HIDE DEF T
    <3>1. QED  BY <2>2, LeastNatural
  <2>4. k \in 0..n /\ k \in Nat /\ ~Same(k) /\ k # 0
    BY <1>1, <1>7, <2>3
  <2>5. k - 1 \in Nat /\ k - 1 < n /\ k - 1 \in 0..n /\ (k - 1) + 1 = k
    BY <1>1, <2>4
  <2>6. Same(k - 1)
    <3>1. k - 1 \notin T
      <4>1. ~(k <= k - 1)
        BY <2>4
      <4>2. QED  BY <2>3, <4>1
    <3>2. QED  BY <2>5, <3>1
  <2>7. Same((k - 1) + 1)
    BY <1>8, <2>5, <2>6
  <2>8. QED  BY <2>4, <2>5, <2>7
<1>10. TextLength(rec) = w
  <2>1. w \in 0..Len(rec) /\ (w = Len(rec) \/ rec[w + 1] = CtrlZ)
    <3>1. w < RecSize => w + 1 \in 1..RecSize /\ ~(w + 1 <= w)
      BY <1>1
    <3>2. QED  BY <1>1, <1>3, <3>1
  <2>2. ASSUME NEW j \in 1..w PROVE rec[j] # CtrlZ
    <3>1. PICK k \in Nat : k < n /\ Width(s, k) < j /\ j <= Width(s, k + 1)
      <4> DEFINE T == {k \in 0..n : j <= Width(s, k)}
      <4>1. T \in SUBSET Nat /\ n \in T
        BY <1>1 DEF w
      <4>2. PICK k \in T : \A i \in T : k <= i
        <5> HIDE DEF T
        <5>1. QED  BY <4>1, LeastNatural
      <4>3. k \in 0..n /\ k \in Nat /\ j <= Width(s, k)
        BY <1>1
      <4>4. k # 0
        <5>1. Width(s, 0) = 0
          BY WidthType
        <5>2. ~(j <= 0)
          BY <1>1
        <5>3. QED  BY <4>3, <5>1, <5>2
      <4>5. k - 1 \in Nat /\ k - 1 < n /\ k - 1 \in 0..n /\ (k - 1) + 1 = k /\ ~(k <= k - 1)
        BY <1>1, <4>3, <4>4
      <4>6. ~(j <= Width(s, k - 1))
        BY <4>2, <4>5
      <4>7. Width(s, k - 1) \in Nat /\ j \in Nat
        BY <1>1, <4>5, WidthNext
      <4>8. Width(s, k - 1) < j
        BY <4>6, <4>7
      <4>9. QED  BY <4>3, <4>5, <4>8
    <3>2. m[j] = IF s[k + 1] = Lf /\ j < Width(s, k + 1) THEN Cr ELSE s[k + 1]
      BY <1>1, <3>1, MadeAt DEF m
    <3>3. s[k + 1] # CtrlZ
      <4>1. k + 1 \in 1..Len(s)
        BY <1>1, <3>1
      <4>2. QED  BY <4>1
    <3>4. rec[j] = m[j]
      <4>1. j \in 1..RecSize /\ j <= w
        BY <1>1
      <4>2. QED  BY <1>3, <4>1
    <3>5. QED  BY <1>4, <3>2, <3>3, <3>4
  <2>3. QED  BY <1>3, <2>1, <2>2, TextLengthIs
<1>11. Collapse(rec) = Left(rec, w)
  BY <1>10 DEF Collapse, Left, Passed
<1>12. Left(rec, w) = SubSeq(s, 1, n)
  BY <1>9 DEF w
<1>13. SubSeq(s, 1, n) = s
  BY WholePart
<1>14. QED  BY <1>11, <1>12, <1>13 DEF rec
=============================================================================
