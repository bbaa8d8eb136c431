--------------------------- MODULE BdosFilesProofs ---------------------------
(***************************************************************************)
(* For any names, paths, files, FCBs, streams, configuration and program:  *)
(* the state of BdosFiles keeps its types, every FCB of the table owns an  *)
(* open stream of its own, and every stream is well formed.  The three are *)
(* inductive only together: a read or a write uses the stream its FCB owns *)
(* (HandleOwnership), and what the stream does to the file lies inside the *)
(* file's types only when the stream is well formed (StreamShape).         *)
(*                                                                         *)
(* For any careful program: BdosFiles implements DirectFiles, under the    *)
(* refinement mapping of SoleUse: a file is what its only stream makes of  *)
(* it.  The invariant that carries the proof is Careful: the three above,  *)
(* that no two streams are on one file, and that each stream's window,     *)
(* pending bytes and end-of-file flag agree with the file (Fresh, of       *)
(* StreamProofs).  It is stronger than WindowFresh, which says nothing of  *)
(* a window that reaches beyond the end of the file, and would not survive *)
(* the next read.                                                          *)
(*                                                                         *)
(* For the programs of FilePrograms: an index of positions finds every     *)
(* record it names, the copy of a text is the text, and a text that is     *)
(* saved is loaded again.  Of the streams they need only that theirs hold  *)
(* nothing back (Clean): they read and write one record after the other.   *)
(***************************************************************************)
EXTENDS SoleUse, FilePrograms, StreamProofs

Inv == TypeOK /\ HandleOwnership /\ StreamShape

---------------------------------------------------------------------------
(* Streams and files                                                        *)

\* Every stream that is not closed is a well-formed one.
LEMMA LiveGood ==
  ASSUME TypeOK, StreamShape, NEW fd \in Live
  PROVE  GoodStream(stream[fd]) /\ stream[fd].ino \in Inode /\ fd \in Fd
BY DEF TypeOK, StreamShape, Live, GoodStream, Stream

\* An open FCB has an entry of the table and owns a well-formed stream.
LEMMA OpenGood ==
  ASSUME Inv, NEW f \in Fcb, IsOpen(f)
  PROVE  /\ openFiles[f] \in OpenFile /\ openFiles[f].fp \in Live
         /\ GoodStream(stream[openFiles[f].fp]) /\ stream[openFiles[f].fp].ino \in Inode
<1>1. openFiles[f] \in OpenFile /\ openFiles[f].fp \in Fd
  BY DEF Inv, TypeOK, IsOpen, OpenFile
<1>2. openFiles[f].fp \in Live
  BY <1>1 DEF Inv, HandleOwnership, Live
<1>3. QED  BY <1>1, <1>2, LiveGood DEF Inv

\* Giving up the contents of unused files leaves contents (unlink, the last fclose).
LEMMA ReclaimType ==
  ASSUME NEW d, NEW contents \in Contents, NEW inUse
  PROVE  Reclaim(d, contents, inUse) \in Contents
<1>1. <<>> \in Seq(Byte)
  BY EmptySeq
<1>2. QED  BY <1>1 DEF Reclaim, Contents

\* The size a file has after a flush is a number.
LEMMA SizeAfterType ==
  ASSUME TypeOK, StreamShape, NEW S \in SUBSET Live, NEW rank, DOMAIN rank = S,
         NEW i \in Inode
  PROVE  SizeAfter(rank, i) \in Nat
<1> DEFINE W == {g \in DOMAIN rank : stream[g].ino = i /\ stream[g].pend # <<>>}
           T == {1..stream[fd].off : fd \in W}
           ends == [fd \in W |-> 1..stream[fd].off]
<1>1. IsFiniteSet(W)
  BY FS_Subset, BdosFilesAssumption DEF Live
<1>2. ends \in Surjection(W, T)
  BY DEF Surjection
<1>3. IsFiniteSet(T)
  BY <1>1, <1>2, FS_Surjection
<1>4. \A x \in T : IsFiniteSet(x)
  <2>1. \A fd \in W : stream[fd].off \in Nat
    BY LiveGood DEF GoodStream, Stream
  <2>2. TAKE x \in T
  <2>3. PICK fd \in W : x = 1..stream[fd].off
    OBVIOUS
  <2>4. 1 \in Int /\ stream[fd].off \in Int
    BY <2>1
  <2>5. IsFiniteSet(1..stream[fd].off)
    BY <2>4, FS_Interval
  <2>6. QED  BY <2>3, <2>5
<1>5. IsFiniteSet(UNION T)
  BY <1>3, <1>4, FS_UNION
<1>6. Len(data[i]) \in Nat
  BY LenProperties DEF TypeOK, Contents
<1>7. IsFiniteSet(1..Len(data[i]))
  BY <1>6, FS_Interval
<1>8. Cardinality((1..Len(data[i])) \cup UNION T) \in Nat
  BY <1>5, <1>7, FS_Union, FS_CardinalityType
<1>9. QED  BY <1>8 DEF SizeAfter

\* Among the streams that hold a byte of a file, one was ranked last.
LEMMA LastHolderExists ==
  ASSUME NEW N \in Nat, NEW rank, rank \in [DOMAIN rank -> 1..N], NEW i, NEW k,
         \E fd \in DOMAIN rank : Holds(fd, i, k)
  PROVE  LastHolder(rank, i, k) \in DOMAIN rank /\ Holds(LastHolder(rank, i, k), i, k)
<1> DEFINE T == {rank[fd] : fd \in {g \in DOMAIN rank : Holds(g, i, k)}}
<1>1. T \in SUBSET (0..N) /\ T # {}
  <2>1. \A fd \in DOMAIN rank : rank[fd] \in 1..N
    OBVIOUS
  <2>2. 1..N \subseteq 0..N
    OBVIOUS
  <2>3. QED  BY <2>1, <2>2
<1>2. PICK m \in T : \A x \in T : x <= m
  BY <1>1, GreatestNatural
<1>3. PICK fd \in DOMAIN rank : Holds(fd, i, k) /\ rank[fd] = m
  OBVIOUS
<1>4. \A g \in DOMAIN rank : Holds(g, i, k) => rank[g] <= rank[fd]
  BY <1>2, <1>3
<1>5. QED  BY <1>3, <1>4 DEF LastHolder

\* Writing out several streams leaves contents (exit, the disk resets: 1884-1898, 2209-2218).
LEMMA FlushInOrderType ==
  ASSUME TypeOK, StreamShape, NEW S \in SUBSET Live, NEW N \in Nat, NEW rank \in [S -> 1..N]
  PROVE  FlushInOrder(rank) \in Contents
<1>1. SUFFICES ASSUME NEW i \in Inode
               PROVE  FlushInOrder(rank)[i] \in Seq(Byte)
  BY DEF FlushInOrder, Contents
<1> DEFINE size == SizeAfter(rank, i)
           val == [k \in 1..size |->
                     IF \E fd \in DOMAIN rank : Holds(fd, i, k)
                     THEN HeldByte(LastHolder(rank, i, k), k)
                     ELSE IF k <= Len(data[i]) THEN data[i][k] ELSE Zero]
<1>2. size \in Nat
  BY SizeAfterType
<1>3. ASSUME NEW k \in 1..size, \E fd \in DOMAIN rank : Holds(fd, i, k)
      PROVE  HeldByte(LastHolder(rank, i, k), k) \in Byte
  <2> DEFINE fd == LastHolder(rank, i, k)
  <2>1. fd \in S /\ Holds(fd, i, k)
    BY <1>3, LastHolderExists
  <2> HIDE DEF fd
  <2>2. stream[fd].pend \in Seq(Byte) /\ stream[fd].off \in Nat /\ Len(stream[fd].pend) \in Nat
    BY <2>1, LiveGood, LenProperties DEF GoodStream, Stream
  <2>3. k - (stream[fd].off - Len(stream[fd].pend)) \in 1..Len(stream[fd].pend)
    BY <1>2, <2>1, <2>2 DEF Holds
  <2>4. HeldByte(fd, k) \in Byte
    BY <2>2, <2>3, ElementOfSeq DEF HeldByte
  <2>5. QED  BY <2>4 DEF fd
<1>4. ASSUME NEW k \in 1..size, k <= Len(data[i]) PROVE data[i][k] \in Byte
  <2>1. data[i] \in Seq(Byte) /\ Len(data[i]) \in Nat
    BY LenProperties DEF TypeOK, Contents
  <2>2. k \in 1..Len(data[i])
    BY <1>2, <1>4, <2>1
  <2>3. QED  BY <2>1, <2>2, ElementOfSeq
<1>5. val \in [1..size -> Byte]
  BY <1>3, <1>4, HostAssumption
<1>6. val \in Seq(Byte)
  <2> HIDE DEF val, size
  <2> QED  BY <1>2, <1>5, IsASeq, LenProperties
<1>7. FlushInOrder(rank)[i] = val
  BY DEF FlushInOrder
<1>8. QED  BY <1>6, <1>7

---------------------------------------------------------------------------
(* Names                                                                    *)

\* The first mapping that applies is a mapping.
LEMMA FirstMappingType ==
  ASSUME NEW n, NEW d, Mapped(n, d)
  PROVE  /\ FirstMapping(n, d).path \in Path /\ FirstMapping(n, d).mode \in Mode
         /\ FirstMapping(n, d).eol \in BOOLEAN
<1> DEFINE T == {i \in DOMAIN Mappings : Applies(i, n, d)}
           M == [pattern : Pattern, path : Path, mode : Mode, eol : BOOLEAN]
<1>1. Mappings \in Seq(M)
  BY MappingAssumption
<1>2. DOMAIN Mappings = 1..Len(Mappings) /\ Len(Mappings) \in Nat
  BY <1>1, LenProperties
<1>3. T \in SUBSET Nat /\ T # {}
  BY <1>2 DEF Mapped
<1>4. PICK m \in T : \A k \in T : m <= k
  BY <1>3, LeastNatural
<1>5. \A j \in 1..(m - 1) : ~Applies(j, n, d)
  <2>1. SUFFICES ASSUME NEW j \in 1..(m - 1), Applies(j, n, d) PROVE FALSE
    OBVIOUS
  <2>2. m \in 1..Len(Mappings)
    BY <1>2
  <2>3. j \in DOMAIN Mappings /\ ~ (m <= j)
    BY <1>2, <2>2
  <2>4. QED  BY <1>4, <2>1, <2>3
<1>6. \E i \in DOMAIN Mappings : Applies(i, n, d) /\ \A j \in 1..(i - 1) : ~Applies(j, n, d)
  BY <1>5
<1>7. PICK i \in DOMAIN Mappings : FirstMapping(n, d) = Mappings[i]
  BY <1>6 DEF FirstMapping
<1>8. Mappings[i] \in M
  BY <1>1, <1>2, ElementOfSeq
<1>9. QED  BY <1>7, <1>8

\* What find_unix_file_ex returns (672-720).
LEMMA LookupType ==
  ASSUME TypeOK, NEW n \in Name
  PROVE  /\ Lookup(n).path \in Path \cup {NoFile} /\ Lookup(n).mode \in Mode
         /\ Lookup(n).eol \in BOOLEAN
<1>1. FindPath(n, dir, fileMap) \in Path \cup {NoFile}
  <2>1. fileMap[n] \in Path \cup {NoFile} /\ Lower[n] \in Path /\ AsIs[n] \in Path
    BY MappingAssumption DEF TypeOK, FileMap
  <2>2. CASE Mapped(n, dir)
    BY <2>2, FirstMappingType DEF FindPath
  <2>3. CASE ~Mapped(n, dir)
    BY <2>1, <2>3 DEF FindPath
  <2>4. QED  BY <2>2, <2>3
<1>2. \A p : DetectFileMode(n, p, dir, data) \in Mode
  BY DEF DetectFileMode, Mode
<1>3. CASE Mapped(n, dir)
  <2>1. /\ FirstMapping(n, dir).mode \in Mode /\ FirstMapping(n, dir).eol \in BOOLEAN
    BY <1>3, FirstMappingType
  <2>2. QED  BY <1>1, <1>2, <1>3, <2>1 DEF Lookup, FindUnixFileEx
<1>4. CASE ~Mapped(n, dir)
  <2>1. "auto" \in Mode
    BY DEF Mode
  <2>2. DefaultEol \in BOOLEAN
    BY MappingAssumption
  <2>3. QED  BY <1>1, <1>2, <1>4, <2>1, <2>2 DEF Lookup, FindUnixFileEx
<1>5. QED  BY <1>3, <1>4

\* The FCB has a new entry of the table, and the entry a stream that was free.
Takes(f, o) ==
  \E fd \in FreeFd, of \in OpenFile, s \in Stream :
    /\ GoodStream(s) /\ of.fp = fd /\ s.pend = <<>>
    /\ o.files = [openFiles EXCEPT ![f] = of]
    /\ o.streams = [stream EXCEPT ![fd] = s]

\* That is what bdos_open_file does when fopen succeeds (1490-1535).
LEMMA OpeningType ==
  ASSUME TypeOK, NEW f \in Fcb, NEW n \in Name, NEW o \in Opening(f, n)
  PROVE  Takes(f, o)
<1> DEFINE found == Lookup(n)
<1>1. found.path # NoFile /\ Exists(dir, found.path)
  BY DEF Opening
<1>2. found.path \in Path /\ found.mode \in Mode /\ found.eol \in BOOLEAN
  BY <1>1, LookupType
<1>3. dir[found.path] \in Inode
  BY <1>1, <1>2 DEF TypeOK, Directory, Exists
<1>4. PICK fd \in FreeFd :
        o = [files   |-> [openFiles EXCEPT ![f] =
                            [fp |-> fd, mode |-> found.mode, eol |-> found.eol,
                             eofSeen |-> FALSE]],
             streams |-> [stream EXCEPT ![fd] =
                            Opened(dir[found.path], found.path \notin ReadOnly)]]
  BY <1>1 DEF Opening
<1>5. [fp |-> fd, mode |-> found.mode, eol |-> found.eol, eofSeen |-> FALSE] \in OpenFile
  BY <1>2 DEF OpenFile, FreeFd
<1>6. /\ GoodStream(Opened(dir[found.path], found.path \notin ReadOnly))
      /\ Opened(dir[found.path], found.path \notin ReadOnly).pend = <<>>
      /\ Opened(dir[found.path], found.path \notin ReadOnly) \in Stream
  BY <1>3, OpenedGood DEF GoodStream
<1>7. QED  BY <1>4, <1>5, <1>6 DEF Takes

---------------------------------------------------------------------------
(* Steps, by what they do to the table and the streams                      *)

\* The types of what is not a stream or the table of open files.
RestOK ==
  /\ dir \in Directory /\ data \in Contents /\ fileMap \in FileMap
  /\ fcb \in [Fcb -> FcbBytes] /\ dma \in Record /\ a \in {Success, AtEof, Failure}

\* A call that leaves the table and the streams alone.
LEMMA KeepsStreams ==
  ASSUME Inv, UNCHANGED <<stream, openFiles>>, RestOK'
  PROVE  Inv'
BY DEF Inv, TypeOK, RestOK, HandleOwnership, StreamShape, IsOpen, Live

\* A transfer on an open FCB: its stream moves, its entry may change but keeps
\* the stream.
LEMMA MovesStream ==
  ASSUME Inv, RestOK', NEW f \in Fcb, IsOpen(f), NEW s, GoodStream(s), NEW of \in OpenFile,
         of.fp = openFiles[f].fp,
         stream' = [stream EXCEPT ![of.fp] = s], openFiles' = [openFiles EXCEPT ![f] = of]
  PROVE  Inv'
<1>1. of.fp \in Fd /\ of # NotOpen /\ s \in Stream /\ s # Closed
  BY NotOpenAssumption, BdosFilesAssumption DEF OpenFile, GoodStream
<1>2. stream \in [Fd -> Stream \cup {Closed}] /\ openFiles \in [Fcb -> OpenFile \cup {NotOpen}]
  BY DEF Inv, TypeOK
<1>3. TypeOK'
  BY <1>1, <1>2 DEF TypeOK, RestOK
<1>4. \A g \in Fcb : /\ openFiles'[g] # NotOpen <=> openFiles[g] # NotOpen
                     /\ openFiles'[g] # NotOpen => openFiles'[g].fp = openFiles[g].fp
  BY <1>1, <1>2 DEF IsOpen
<1>5. \A fd \in Fd : stream[fd] # Closed => stream'[fd] # Closed
  BY <1>1, <1>2
<1>6. HandleOwnership'
  <2>1. \A g \in Fcb : openFiles[g] # NotOpen => openFiles[g].fp \in Fd
    BY <1>2 DEF OpenFile
  <2>2. QED  BY <1>4, <1>5, <2>1 DEF Inv, HandleOwnership, IsOpen
<1>7. StreamShape'
  <2>1. ASSUME NEW fd \in Fd, stream'[fd] # Closed PROVE Shaped(stream'[fd])
    <3>1. CASE fd = of.fp
      BY <1>1, <1>2, <3>1 DEF GoodStream
    <3>2. CASE fd # of.fp
      BY <1>2, <2>1, <3>2 DEF Inv, StreamShape, Live
    <3>3. QED  BY <3>1, <3>2
  <2>2. QED  BY <2>1 DEF StreamShape, Live
<1>8. QED  BY <1>3, <1>6, <1>7 DEF Inv

\* Open and make: a free stream becomes the one of the FCB; what the FCB owned
\* before is owned by none.
LEMMA TakesStream ==
  ASSUME Inv, RestOK', NEW f \in Fcb, NEW s, GoodStream(s), NEW of \in OpenFile,
         of.fp \in FreeFd,
         stream' = [stream EXCEPT ![of.fp] = s], openFiles' = [openFiles EXCEPT ![f] = of]
  PROVE  Inv'
<1>1. /\ of.fp \in Fd /\ of # NotOpen /\ s \in Stream /\ s # Closed /\ stream[of.fp] = Closed
  BY NotOpenAssumption, BdosFilesAssumption DEF OpenFile, GoodStream, FreeFd, Live
<1>2. stream \in [Fd -> Stream \cup {Closed}] /\ openFiles \in [Fcb -> OpenFile \cup {NotOpen}]
  BY DEF Inv, TypeOK
<1>3. TypeOK'
  BY <1>1, <1>2 DEF TypeOK, RestOK
<1>4. HandleOwnership'
  <2>1. \A g \in Fcb : openFiles[g] # NotOpen => /\ openFiles[g].fp \in Fd
                                                 /\ stream[openFiles[g].fp] # Closed
    BY <1>2 DEF Inv, HandleOwnership, IsOpen, OpenFile
  <2>2. \A g \in Fcb : /\ g = f => openFiles'[g] = of
                       /\ g # f => openFiles'[g] = openFiles[g]
    BY <1>2
  <2>3. \A fd \in Fd : fd # of.fp => stream'[fd] = stream[fd]
    BY <1>2
  <2>4. stream'[of.fp] # Closed
    BY <1>1, <1>2
  <2>5. ASSUME NEW g \in Fcb, openFiles'[g] # NotOpen PROVE stream'[openFiles'[g].fp] # Closed
    BY <1>1, <2>1, <2>2, <2>3, <2>4, <2>5
  <2>6. ASSUME NEW g \in Fcb, NEW h \in Fcb, openFiles'[g] # NotOpen, openFiles'[h] # NotOpen,
               openFiles'[g].fp = openFiles'[h].fp
        PROVE  g = h
    <3>1. \A x \in Fcb : openFiles[x] # NotOpen => openFiles[x].fp # of.fp
      BY <1>1, <2>1
    <3>2. CASE g = f \/ h = f
      BY <2>2, <2>6, <3>1, <3>2
    <3>3. CASE g # f /\ h # f
      BY <2>2, <2>6, <3>3 DEF Inv, HandleOwnership, IsOpen
    <3>4. QED  BY <3>2, <3>3
  <2>7. QED  BY <2>5, <2>6 DEF HandleOwnership, IsOpen
<1>5. StreamShape'
  <2>1. ASSUME NEW fd \in Fd, stream'[fd] # Closed PROVE Shaped(stream'[fd])
    <3>1. CASE fd = of.fp
      BY <1>1, <1>2, <3>1 DEF GoodStream
    <3>2. CASE fd # of.fp
      BY <1>2, <2>1, <3>2 DEF Inv, StreamShape, Live
    <3>3. QED  BY <3>1, <3>2
  <2>2. QED  BY <2>1 DEF StreamShape, Live
<1>6. QED  BY <1>3, <1>4, <1>5 DEF Inv

\* Close, the resets and exit: streams are closed, and the table holds only what
\* it held of the others.
LEMMA ClosesStreams ==
  ASSUME Inv, RestOK', NEW S \in SUBSET Fd,
         stream' = [fd \in Fd |-> IF fd \in S THEN Closed ELSE stream[fd]],
         openFiles' \in [Fcb -> OpenFile \cup {NotOpen}],
         \A f \in Fcb : openFiles'[f] # NotOpen
                          => openFiles'[f] = openFiles[f] /\ openFiles[f].fp \notin S
  PROVE  Inv'
<1>1. stream \in [Fd -> Stream \cup {Closed}] /\ openFiles \in [Fcb -> OpenFile \cup {NotOpen}]
  BY DEF Inv, TypeOK
<1>2. TypeOK'
  BY <1>1 DEF TypeOK, RestOK
<1>3. HandleOwnership'
  <2>1. \A f \in Fcb : openFiles[f] # NotOpen => openFiles[f].fp \in Fd
    BY <1>1 DEF OpenFile
  <2>2. QED  BY <1>1, <2>1 DEF Inv, HandleOwnership, IsOpen
<1>4. StreamShape'
  <2>1. ASSUME NEW fd \in Fd, stream'[fd] # Closed PROVE Shaped(stream'[fd])
    <3>1. stream'[fd] = stream[fd]
      BY <2>1
    <3>2. QED  BY <2>1, <3>1 DEF Inv, StreamShape, Live
  <2>2. QED  BY <2>1 DEF StreamShape, Live
<1>5. QED  BY <1>2, <1>3, <1>4 DEF Inv

---------------------------------------------------------------------------
(* One lemma for each kind of call                                          *)

\* fn 15 (1490-1535).
LEMMA OpenStep ==
  ASSUME Inv, NEW f \in Fcb, NEW n \in Name, Open(f, n)
  PROVE  Inv'
<1>1. TypeOK
  BY DEF Inv
<1>2. CASE Opening(f, n) = {}
  <2>1. RestOK' /\ UNCHANGED <<stream, openFiles>>
    BY <1>1, <1>2 DEF Open, RestOK, TypeOK, host
  <2>2. QED  BY <2>1, KeepsStreams
<1>3. CASE Opening(f, n) # {}
  <2>1. PICK o \in Opening(f, n) : openFiles' = o.files /\ stream' = o.streams
                                     /\ fcb' = [fcb EXCEPT ![f].ex = 0] /\ a' = Success
    BY <1>3 DEF Open
  <2>2. PICK fd \in FreeFd, of \in OpenFile, s \in Stream :
           /\ GoodStream(s) /\ of.fp = fd /\ s.pend = <<>>
           /\ o.files = [openFiles EXCEPT ![f] = of]
           /\ o.streams = [stream EXCEPT ![fd] = s]
    <3>1. Takes(f, o)
      BY <1>1, <2>1, OpeningType
    <3>2. QED  BY <3>1 DEF Takes
  <2>3. fcb' \in [Fcb -> FcbBytes]
    BY <1>1, <2>1 DEF TypeOK, FcbBytes
  <2>4. RestOK'
    BY <1>1, <2>1, <2>3 DEF Open, RestOK, TypeOK, host
  <2>5. QED  BY <2>1, <2>2, <2>4, TakesStream
<1>4. QED  BY <1>2, <1>3

\* fn 16 (1537-1569).
LEMMA CloseStep ==
  ASSUME Inv, NEW f \in Fcb, Close(f)
  PROVE  Inv'
<1>1. TypeOK
  BY DEF Inv
<1>2. CASE ~IsOpen(f)
  <2>1. RestOK' /\ UNCHANGED <<stream, openFiles>>
    BY <1>1, <1>2 DEF Close, RestOK, TypeOK
  <2>2. QED  BY <2>1, KeepsStreams
<1>3. CASE IsOpen(f)
  <2> DEFINE fd == openFiles[f].fp
             s  == stream[fd]
  <2>1. fd \in Fd /\ GoodStream(s) /\ s.ino \in Inode
    BY <1>3, OpenGood DEF Live
  <2>2. /\ stream' = [stream EXCEPT ![fd] = Closed]
        /\ data' = Reclaim(dir, [data EXCEPT ![s.ino] = Flushed(s, data[s.ino])], InUse(stream'))
        /\ openFiles' = [openFiles EXCEPT ![f] = NotOpen]
        /\ a' = Success /\ UNCHANGED <<dir, fileMap, fcb, dma>>
    BY <1>3 DEF Close
  <2>3. Flushed(s, data[s.ino]) \in Seq(Byte)
    BY <1>1, <2>1, FlushedType DEF TypeOK, Contents
  <2>4. [data EXCEPT ![s.ino] = Flushed(s, data[s.ino])] \in Contents
    BY <1>1, <2>1, <2>3 DEF TypeOK, Contents
  <2>5. data' \in Contents
    BY <2>2, <2>4, ReclaimType
  <2>6. RestOK'
    BY <1>1, <2>2, <2>5 DEF RestOK, TypeOK
  <2>7. stream' = [g \in Fd |-> IF g \in {fd} THEN Closed ELSE stream[g]]
    BY <1>1, <2>1, <2>2 DEF TypeOK
  <2>8. openFiles' \in [Fcb -> OpenFile \cup {NotOpen}]
    BY <1>1, <2>2 DEF TypeOK
  <2>9. \A g \in Fcb : openFiles'[g] # NotOpen
                         => openFiles'[g] = openFiles[g] /\ openFiles[g].fp \notin {fd}
    BY <1>1, <1>3, <2>2 DEF Inv, HandleOwnership, IsOpen, TypeOK
  <2>10. QED  BY <2>1, <2>6, <2>7, <2>8, <2>9, ClosesStreams
<1>4. QED  BY <1>2, <1>3

\* fn 22 (1632-1668).
LEMMA MakeStep ==
  ASSUME Inv, NEW f \in Fcb, NEW n \in Name, Make(f, n)
  PROVE  Inv'
<1>1. TypeOK
  BY DEF Inv
<1>2. CASE ~CanMake(n)
  <2>1. RestOK' /\ UNCHANGED <<stream, openFiles>>
    BY <1>1, <1>2 DEF Make, RestOK, TypeOK, host
  <2>2. QED  BY <2>1, KeepsStreams
<1>3. CASE CanMake(n)
  <2>1. PICK fd \in FreeFd,
             ino \in IF Exists(dir, Lower[n]) THEN {dir[Lower[n]]} ELSE FreeInode :
               MakeSucceeds(f, n, ino, fd)
    BY <1>3 DEF Make
  <2>2. Lower[n] \in Path
    BY MappingAssumption
  <2>3. ino \in Inode
    BY <1>1, <2>2 DEF TypeOK, Directory, Exists, FreeInode
  <2> DEFINE s  == Opened(ino, TRUE)
             of == [fp |-> fd, mode |-> DefaultMode, eol |-> DefaultEol, eofSeen |-> FALSE]
  <2>4. GoodStream(s)
    BY <2>3, OpenedGood
  <2>5. of \in OpenFile /\ of.fp = fd
    BY MappingAssumption DEF OpenFile, FreeFd
  <2>6. <<>> \in Seq(Byte)
    BY EmptySeq
  <2>7. /\ dir' \in Directory /\ data' \in Contents /\ fcb' \in [Fcb -> FcbBytes]
        /\ a' = Success
    BY <1>1, <2>1, <2>2, <2>3, <2>6
       DEF MakeSucceeds, TypeOK, Directory, Contents, FcbBytes
  <2>8. RestOK'
    BY <1>1, <2>7 DEF Make, RestOK, TypeOK
  <2>9. stream' = [stream EXCEPT ![of.fp] = s] /\ openFiles' = [openFiles EXCEPT ![f] = of]
    BY <2>1 DEF MakeSucceeds
  <2> HIDE DEF s, of
  <2>10. QED  BY <2>4, <2>5, <2>8, <2>9, TakesStream
<1>4. QED  BY <1>2, <1>3

\* fn 13 and fn 37 (1884-1898, 2209-2218).
LEMMA ResetStep ==
  ASSUME Inv, Reset
  PROVE  Inv'
<1>1. TypeOK /\ StreamShape
  BY DEF Inv
<1>2. TableFds \in SUBSET Live
  BY OpenGood DEF TableFds
<1>3. TableOrder \in [TableFds -> 1..FcbCount]
  <2>1. \A fd \in TableFds : \E f \in Fcb : IsOpen(f) /\ openFiles[f].fp = fd
    BY DEF TableFds
  <2>2. QED  BY <2>1 DEF TableOrder, Fcb
<1>4. FlushInOrder(TableOrder) \in Contents
  BY <1>1, <1>2, <1>3, FlushInOrderType, BdosFilesAssumption
<1>5. data' \in Contents
  BY <1>4, ReclaimType DEF Reset
<1>6. RestOK'
  BY <1>1, <1>5 DEF Reset, RestOK, TypeOK, guest
<1>7. TableFds \in SUBSET Fd
  BY <1>2 DEF Live
<1>8. /\ openFiles' \in [Fcb -> OpenFile \cup {NotOpen}]
      /\ \A f \in Fcb : openFiles'[f] = NotOpen
  BY DEF Reset
<1>9. stream' = [fd \in Fd |-> IF fd \in TableFds THEN Closed ELSE stream[fd]]
  BY DEF Reset
<1>10. QED  BY <1>6, <1>7, <1>8, <1>9, ClosesStreams

\* fn 20 (1571-1600): what the read leaves of the stream, the entry and the buffer.
LEMMA ReadStep ==
  ASSUME Inv, NEW f \in Fcb, ReadSequential(f)
  PROVE  Inv'
<1>1. TypeOK
  BY DEF Inv
<1>2. CASE ~IsOpen(f)
  <2>1. RestOK' /\ UNCHANGED <<stream, openFiles>>
    BY <1>1, <1>2 DEF ReadSequential, NotOpenError, RestOK, TypeOK, host
  <2>2. QED  BY <2>1, KeepsStreams
<1>3. CASE IsOpen(f)
  <2>1. fcb' \in [Fcb -> FcbBytes]
    <3>1. /\ fcb' = [fcb EXCEPT ![f].cr = (fcb[f].cr + 1) % CrMod]
          /\ fcb \in [Fcb -> FcbBytes]
      BY <1>1, <1>3 DEF ReadSequential, NextCr, TypeOK
    <3>2. fcb[f].cr \in Nat /\ CrMod \in Nat \ {0}
      BY <3>1, BdosFilesAssumption DEF FcbBytes
    <3>3. (fcb[f].cr + 1) % CrMod \in 0..(CrMod - 1)
      BY <3>2
    <3> HIDE DEF FcbBytes
    <3>4. \A x \in 0..(CrMod - 1) : [fcb[f] EXCEPT !.cr = x] \in FcbBytes
      BY <3>1 DEF FcbBytes
    <3>5. QED  BY <3>1, <3>3, <3>4
  <2> DEFINE of == openFiles[f]
             s  == stream[of.fp]
             d  == Flushed(s, data[s.ino])
             r  == ReadWithConversion(of, Seen(AfterFlush(s), d))
  <2>2. of \in OpenFile /\ of.fp \in Fd /\ GoodStream(s) /\ s.ino \in Inode
    BY <1>3, OpenGood DEF Live
  <2>3. d \in Seq(Byte)
    BY <1>1, <2>2, FlushedType DEF TypeOK, Contents
  <2>4. GoodStream(AfterFlush(s)) /\ AfterFlush(s).pend = <<>>
    BY <2>2, AfterFlushGood
  <2>5. IsReadResult(r, Seen(AfterFlush(s), d))
    BY <2>3, <2>4, SeenType, ReadType
  <2>6. CASE of.eofSeen
    <3>1. a' = AtEof /\ UNCHANGED <<data, stream, openFiles, dma, dir, fileMap>>
      BY <1>3, <2>6 DEF ReadSequential
    <3>2. RestOK' /\ UNCHANGED <<stream, openFiles>>
      BY <1>1, <2>1, <3>1 DEF RestOK, TypeOK
    <3>3. QED  BY <3>2, KeepsStreams
  <2>7. CASE ~of.eofSeen
    <3>1. /\ data' = [data EXCEPT ![s.ino] = d]
          /\ stream' = [stream EXCEPT ![of.fp] = Advance(AfterFlush(s), d, r.used, r.asked)]
          /\ openFiles' = [openFiles EXCEPT ![f].eofSeen = r.atEof]
          /\ IF r.out = <<>> \/ r.atEof THEN a' = AtEof /\ dma' = dma
             ELSE a' = Success /\ dma' = Pad(r.out)
          /\ UNCHANGED <<dir, fileMap>>
      BY Zenon, <1>3, <2>7 DEF ReadSequential
    <3> HIDE DEF d, r
    <3>2. data' \in Contents
      BY <1>1, <2>2, <2>3, <3>1 DEF TypeOK, Contents
    <3>3. Pad(r.out) \in Record
      BY <2>5, PadType DEF IsReadResult
    <3>4. RestOK'
      BY <1>1, <2>1, <3>1, <3>2, <3>3 DEF RestOK, TypeOK
    <3>5. GoodStream(Advance(AfterFlush(s), d, r.used, r.asked))
      BY <2>3, <2>4, <2>5, AdvanceGood DEF IsReadResult
    <3>6. /\ [of EXCEPT !.eofSeen = r.atEof] \in OpenFile
          /\ [of EXCEPT !.eofSeen = r.atEof].fp = of.fp
      BY <2>2, <2>5 DEF OpenFile, IsReadResult
    <3>7. openFiles' = [openFiles EXCEPT ![f] = [of EXCEPT !.eofSeen = r.atEof]]
      BY <3>1
    <3>8. QED  BY <1>3, <3>1, <3>4, <3>5, <3>6, <3>7, MovesStream
  <2>8. QED  BY <2>6, <2>7
<1>4. QED  BY <1>2, <1>3

\* write_with_conversion leaves a well-formed stream, and what it hands over is bytes
\* (776-809).
LEMMA WrittenType ==
  ASSUME TypeOK, NEW of, NEW s, GoodStream(s)
  PROVE  /\ WriteWithConversion(of, dma) \in Seq(Byte)
         /\ GoodStream(Written(of, s))
         /\ s.writable => GoodStream(Put(s, WriteWithConversion(of, dma)))
                            /\ Put(s, WriteWithConversion(of, dma)).ino = s.ino
<1>1. dma \in Seq(Byte)
  BY IsASeq, RecSizeAssumption, LenProperties DEF TypeOK, Record
<1>2. WriteWithConversion(of, dma) \in Seq(Byte)
  BY <1>1, CollapseType DEF WriteWithConversion
<1>3. s.writable => GoodStream(Put(s, WriteWithConversion(of, dma)))
                      /\ Put(s, WriteWithConversion(of, dma)).ino = s.ino
  BY <1>2, PutGood
<1>4. GoodStream(Written(of, s))
  BY <1>3, SyncedGood DEF Written
<1>5. QED  BY <1>2, <1>3, <1>4

\* fn 21 (1602-1630), with the open it may begin with.
LEMMA WriteStep ==
  ASSUME Inv, NEW f \in Fcb, NEW n \in Name, WriteSequential(f, n)
  PROVE  Inv'
<1>1. TypeOK
  BY DEF Inv
<1>2. CASE ~IsOpen(f) /\ Opening(f, n) = {} /\ NotOpenError
  <2>1. RestOK' /\ UNCHANGED <<stream, openFiles>>
    BY <1>1, <1>2 DEF NotOpenError, RestOK, TypeOK, host
  <2>2. QED  BY <2>1, KeepsStreams
<1> DEFINE already == [files |-> openFiles, streams |-> stream]
           goes(o) == LET of  == o.files[f]
                          s   == o.streams[of.fp]
                          out == WriteWithConversion(of, dma)
                      IN  /\ s.off + Len(out) <= FileBound
                          /\ openFiles' = o.files
                          /\ stream' = [o.streams EXCEPT ![of.fp] = Written(of, s)]
                          /\ data' = IF s.writable /\ Converts(of)
                                     THEN [data EXCEPT ![s.ino] = Flushed(Put(s, out), data[s.ino])]
                                     ELSE data
                          /\ a' = IF s.writable /\ out # <<>> THEN Success ELSE Failure
<1>3. ASSUME NEW o \in (IF IsOpen(f) THEN {already} ELSE Opening(f, n)), goes(o),
             fcb' = [NextCr(f) EXCEPT ![f].ex = IF IsOpen(f) THEN fcb[f].ex ELSE 0],
             UNCHANGED <<dir, fileMap, dma>>
      PROVE  Inv'
  <2> DEFINE of == o.files[f]
             s  == o.streams[of.fp]
  <2>1. GoodStream(s) /\ of \in OpenFile /\ of.fp \in Fd
    <3>1. CASE IsOpen(f)
      <4>1. of = openFiles[f] /\ s = stream[openFiles[f].fp]
        BY <1>3, <3>1
      <4>2. QED  BY <3>1, <4>1, OpenGood DEF Live
    <3>2. CASE ~IsOpen(f)
      <4>1. PICK fd \in FreeFd, e \in OpenFile, t \in Stream :
              /\ GoodStream(t) /\ e.fp = fd /\ t.pend = <<>>
              /\ o.files = [openFiles EXCEPT ![f] = e]
              /\ o.streams = [stream EXCEPT ![fd] = t]
        <5>1. Takes(f, o)
          BY <1>1, <1>3, <3>2, OpeningType
        <5>2. QED  BY <5>1 DEF Takes
      <4>2. fd \in Fd /\ of = e /\ s = t
        BY <1>1, <4>1 DEF TypeOK, FreeFd
      <4>3. QED  BY <4>1, <4>2
    <3>3. QED  BY <3>1, <3>2
  <2>2. s.ino \in Inode
    BY <2>1 DEF GoodStream, Stream
  <2>3. /\ GoodStream(Written(of, s)) /\ WriteWithConversion(of, dma) \in Seq(Byte)
        /\ s.writable => GoodStream(Put(s, WriteWithConversion(of, dma)))
    BY <1>1, <2>1, WrittenType
  <2>4. data' \in Contents
    <3>1. data[s.ino] \in Seq(Byte) /\ data \in Contents
      BY <1>1, <2>2 DEF TypeOK, Contents
    <3>2. s.writable => Flushed(Put(s, WriteWithConversion(of, dma)), data[s.ino]) \in Seq(Byte)
      BY <2>3, <3>1, FlushedType
    <3>3. \A x \in Seq(Byte) : [data EXCEPT ![s.ino] = x] \in Contents
      BY <2>2, <3>1 DEF Contents
    <3>4. QED  BY Zenon, <1>3, <3>1, <3>2, <3>3
  <2>5. fcb' \in [Fcb -> FcbBytes]
    <3>1. fcb \in [Fcb -> FcbBytes] /\ fcb[f].cr \in Nat /\ CrMod \in Nat \ {0}
      BY <1>1, BdosFilesAssumption DEF TypeOK, FcbBytes
    <3>2. (fcb[f].cr + 1) % CrMod \in 0..(CrMod - 1)
      BY <3>1
    <3>3. \A x \in 0..(CrMod - 1) : [fcb[f] EXCEPT !.cr = x] \in FcbBytes
      BY <3>1 DEF FcbBytes
    <3>4. NextCr(f) \in [Fcb -> FcbBytes] /\ NextCr(f)[f] \in FcbBytes
      <4> HIDE DEF FcbBytes
      <4> QED  BY <3>1, <3>2, <3>3 DEF NextCr
    <3>5. \A e \in Nat : [NextCr(f)[f] EXCEPT !.ex = e] \in FcbBytes
      BY <3>4 DEF FcbBytes
    <3>6. fcb[f].ex \in Nat
      BY <3>1 DEF FcbBytes
    <3>7. QED  BY <1>3, <3>4, <3>5, <3>6
  <2>6. RestOK'
    BY Zenon, <1>1, <1>3, <2>4, <2>5 DEF RestOK, TypeOK
  <2>7. openFiles' = o.files /\ stream' = [o.streams EXCEPT ![of.fp] = Written(of, s)]
    BY <1>3
  <2>8. CASE IsOpen(f)
    <3>1. o.files = openFiles /\ o.streams = stream
      BY SMTT(30), <1>3, <2>8
    <3>2. openFiles' = [openFiles EXCEPT ![f] = openFiles[f]]
      BY <1>1, <2>7, <3>1 DEF TypeOK
    <3>3. of = openFiles[f]
      BY <3>1
    <3> HIDE DEF s, of
    <3>4. QED  BY <2>1, <2>3, <2>6, <2>7, <2>8, <3>1, <3>2, <3>3, MovesStream
  <2>9. CASE ~IsOpen(f)
    <3>1. PICK fd \in FreeFd, e \in OpenFile, t \in Stream :
            /\ GoodStream(t) /\ e.fp = fd /\ t.pend = <<>>
            /\ o.files = [openFiles EXCEPT ![f] = e]
            /\ o.streams = [stream EXCEPT ![fd] = t]
      <4>1. Takes(f, o)
        BY <1>1, <1>3, <2>9, OpeningType
      <4>2. QED  BY <4>1 DEF Takes
    <3>2. of = e /\ of.fp \in FreeFd
      BY <1>1, <3>1 DEF TypeOK
    <3>3. stream' = [stream EXCEPT ![of.fp] = Written(of, s)]
      BY <2>7, <3>1, <3>2
    <3>4. openFiles' = [openFiles EXCEPT ![f] = of]
      BY <2>7, <3>1, <3>2
    <3> HIDE DEF s, of
    <3>5. QED  BY <2>1, <2>3, <2>6, <3>2, <3>3, <3>4, TakesStream
  <2>10. QED  BY <2>8, <2>9
<1>4. QED
  <2>1. CASE ~(~IsOpen(f) /\ Opening(f, n) = {} /\ NotOpenError)
    <3>1. /\ \E o \in (IF IsOpen(f) THEN {already} ELSE Opening(f, n)) : goes(o)
          /\ fcb' = [NextCr(f) EXCEPT ![f].ex = IF IsOpen(f) THEN fcb[f].ex ELSE 0]
          /\ UNCHANGED <<dir, fileMap, dma>>
      <4>1. NextCr(f)[f].ex = fcb[f].ex
        BY <1>1 DEF NextCr, TypeOK, FcbBytes
      <4>2. QED  BY Zenon, <2>1, <4>1 DEF WriteSequential
    <3>2. QED  BY Zenon, <1>3, <3>1
  <2>2. QED  BY <1>2, <2>1

\* A record number is a position in the file.
LEMMA PositionType ==
  ASSUME TypeOK, NEW f \in Fcb
  PROVE  Position(f) \in Nat
<1>1. fcb[f].rr \in Nat /\ RecSize \in Nat
  BY RecSizeAssumption DEF TypeOK, FcbBytes
<1>2. \A x, y \in Nat : x * y \in Nat
  OBVIOUS
<1>3. QED  BY <1>1, <1>2 DEF Position

\* fn 33 (1690-1726).
LEMMA ReadRandomStep ==
  ASSUME Inv, NEW f \in Fcb, ReadRandom(f)
  PROVE  Inv'
<1>1. TypeOK
  BY DEF Inv
<1>2. CASE ~IsOpen(f)
  <2>1. RestOK' /\ UNCHANGED <<stream, openFiles>>
    BY <1>1, <1>2 DEF ReadRandom, NotOpenError, RestOK, TypeOK, host
  <2>2. QED  BY <2>1, KeepsStreams
<1>3. CASE IsOpen(f)
  <2> DEFINE of   == openFiles[f]
             s    == stream[of.fp]
             d    == Flushed(s, data[s.ino])
             at   == SeekTo(AfterFlush(s), Position(f))
             used == AtMost(RecSize, Len(Seen(at, d)))
  <2>1. of \in OpenFile /\ of.fp \in Fd /\ GoodStream(s) /\ s.ino \in Inode
    BY <1>3, OpenGood DEF Live
  <2>2. d \in Seq(Byte)
    BY <1>1, <2>1, FlushedType DEF TypeOK, Contents
  <2>3. GoodStream(AfterFlush(s)) /\ AfterFlush(s).pend = <<>>
    BY <2>1, AfterFlushGood
  <2>4. GoodStream(at) /\ at.pend = <<>>
    BY <1>1, <2>3, PositionType, SeekToGood
  <2>5. /\ data' = [data EXCEPT ![s.ino] = d]
        /\ stream' = [stream EXCEPT ![of.fp] = Advance(at, d, used, RecSize)]
        /\ IF used = 0 THEN a' = AtEof /\ dma' = dma
           ELSE a' = Success /\ dma' = Pad(SubSeq(Seen(at, d), 1, used))
        /\ UNCHANGED <<dir, openFiles, fileMap, fcb>>
    BY <1>3 DEF ReadRandom
  <2> HIDE DEF d, at
  <2>6. Seen(at, d) \in Seq(Byte) /\ Len(Seen(at, d)) \in Nat
    BY <2>2, <2>4, SeenType, LenProperties
  <2>7. /\ used \in 0..Len(Seen(at, d)) /\ used <= RecSize /\ RecSize \in Nat
        /\ RecSize <= used + 1 \/ used = Len(Seen(at, d))
    BY <2>6, RecSizeAssumption DEF AtMost
  <2> HIDE DEF used
  <2>8. GoodStream(Advance(at, d, used, RecSize))
    BY <2>2, <2>4, <2>7, AdvanceGood
  <2>9. Pad(SubSeq(Seen(at, d), 1, used)) \in Record
    <3>1. \A i \in 1..used : Seen(at, d)[i] \in Byte
      BY <2>6, <2>7, ElementOfSeq
    <3>2. SubSeq(Seen(at, d), 1, used) \in Seq(Byte)
      BY <2>7, <3>1, SubSeqProperties
    <3>3. QED  BY <3>2, PadType
  <2>10. data' \in Contents
    BY <1>1, <2>1, <2>2, <2>5 DEF TypeOK, Contents
  <2>11. RestOK'
    BY <1>1, <2>5, <2>9, <2>10 DEF RestOK, TypeOK
  <2>12. openFiles' = [openFiles EXCEPT ![f] = of]
    BY <1>1, <2>5 DEF TypeOK
  <2>13. QED  BY <1>3, <2>1, <2>5, <2>8, <2>11, <2>12, MovesStream
<1>4. QED  BY <1>2, <1>3

\* fn 34 and fn 40 (1728-1761, 2220-2224).
LEMMA WriteRandomStep ==
  ASSUME Inv, NEW f \in Fcb, WriteRandom(f)
  PROVE  Inv'
<1>1. TypeOK
  BY DEF Inv
<1>2. CASE ~IsOpen(f)
  <2>1. RestOK' /\ UNCHANGED <<stream, openFiles>>
    BY <1>1, <1>2 DEF WriteRandom, NotOpenError, RestOK, TypeOK, host
  <2>2. QED  BY <2>1, KeepsStreams
<1>3. CASE IsOpen(f)
  <2> DEFINE of  == openFiles[f]
             s   == stream[of.fp]
             d   == Flushed(s, data[s.ino])
             at  == SeekTo(AfterFlush(s), Position(f))
             put == IF s.writable THEN Put(at, dma) ELSE at
  <2>1. of \in OpenFile /\ of.fp \in Fd /\ GoodStream(s) /\ s.ino \in Inode
    BY <1>3, OpenGood DEF Live
  <2>2. d \in Seq(Byte)
    BY <1>1, <2>1, FlushedType DEF TypeOK, Contents
  <2>3. /\ GoodStream(AfterFlush(s)) /\ AfterFlush(s).pend = <<>>
        /\ AfterFlush(s).writable = s.writable
    BY <2>1, AfterFlushGood DEF AfterFlush, GoodStream, Stream
  <2>4. GoodStream(at) /\ at.writable = s.writable
    BY <1>1, <2>3, PositionType, SeekToGood
  <2>5. /\ stream' = [stream EXCEPT ![of.fp] = Synced(put)]
        /\ data' = [data EXCEPT ![s.ino] = Flushed(put, d)]
        /\ a' = IF s.writable THEN Success ELSE Failure
        /\ UNCHANGED <<dir, openFiles, fileMap, fcb, dma>>
    BY <1>3 DEF WriteRandom
  <2> HIDE DEF d, at
  <2>6. dma \in Seq(Byte)
    BY <1>1, IsASeq, RecSizeAssumption, LenProperties DEF TypeOK, Record
  <2>7. GoodStream(put)
    BY <2>4, <2>6, PutGood
  <2> HIDE DEF put
  <2>8. Flushed(put, d) \in Seq(Byte) /\ GoodStream(Synced(put))
    BY <2>2, <2>7, FlushedType, SyncedGood
  <2>9. data' \in Contents
    BY <1>1, <2>1, <2>5, <2>8 DEF TypeOK, Contents
  <2>10. RestOK'
    BY <1>1, <2>5, <2>9 DEF RestOK, TypeOK
  <2>11. openFiles' = [openFiles EXCEPT ![f] = of]
    BY <1>1, <2>5 DEF TypeOK
  <2>12. QED  BY <1>3, <2>1, <2>5, <2>8, <2>10, <2>11, MovesStream
<1>4. QED  BY <1>2, <1>3

\* fn 36, and the program's own stores into an FCB (1794-1811).
LEMMA FcbOnlyStep ==
  ASSUME Inv, NEW f \in Fcb, SetRandomRecord(f) \/ StoreFcb(f)
  PROVE  Inv'
<1>1. TypeOK
  BY DEF Inv
<1>2. \A x \in Nat : [fcb[f] EXCEPT !.rr = x] \in FcbBytes
  BY <1>1 DEF TypeOK, FcbBytes
<1>3. CASE SetRandomRecord(f)
  <2>1. fcb[f].ex \in Nat /\ fcb[f].cr \in Nat /\ ExtentRecords \in Nat
    BY <1>1, BdosFilesAssumption DEF TypeOK, FcbBytes
  <2>2. \A x, y \in Nat : x * y \in Nat
    OBVIOUS
  <2>3. fcb[f].ex * ExtentRecords + fcb[f].cr \in Nat
    BY <2>1, <2>2
  <2>4. fcb' \in [Fcb -> FcbBytes]
    BY <1>1, <1>2, <1>3, <2>3 DEF SetRandomRecord, TypeOK
  <2>5. RestOK' /\ UNCHANGED <<stream, openFiles>>
    BY <1>1, <1>3, <2>4 DEF SetRandomRecord, RestOK, TypeOK, host
  <2>6. QED  BY <2>5, KeepsStreams
<1>4. CASE StoreFcb(f)
  <2>1. fcb' \in [Fcb -> FcbBytes]
    BY <1>1, <1>4, BdosFilesAssumption DEF StoreFcb, TypeOK
  <2>2. RestOK' /\ UNCHANGED <<stream, openFiles>>
    BY <1>1, <1>4, <2>1 DEF StoreFcb, RestOK, TypeOK, host
  <2>3. QED  BY <2>2, KeepsStreams
<1>5. QED  BY <1>3, <1>4

\* fn 35 (1763-1792).
LEMMA FileSizeStep ==
  ASSUME Inv, NEW f \in Fcb, NEW n \in Name, FileSize(f, n)
  PROVE  Inv'
<1>1. TypeOK
  BY DEF Inv
<1>2. fcb' \in [Fcb -> FcbBytes]
  <2>1. CASE Found(n)
    <3> DEFINE size == Len(data[dir[Lookup(n).path]])
    <3>1. size \in Nat
      <4>1. dir[Lookup(n).path] \in Inode
        BY <1>1, <2>1, LookupType DEF Found, Exists, TypeOK, Directory
      <4>2. QED  BY <1>1, <4>1, LenProperties DEF TypeOK, Contents
    <3>2. fcb' = [fcb EXCEPT ![f].rr = (size + RecSize - 1) \div RecSize]
      BY <2>1 DEF FileSize
    <3> HIDE DEF size
    <3>3. (size + RecSize - 1) \div RecSize \in Nat
      BY <3>1, RecSizeAssumption
    <3>4. \A x \in Nat : [fcb[f] EXCEPT !.rr = x] \in FcbBytes
      BY <1>1 DEF TypeOK, FcbBytes
    <3>5. QED  BY <1>1, <3>2, <3>3, <3>4 DEF TypeOK
  <2>2. CASE ~Found(n)
    BY <1>1, <2>2 DEF FileSize, TypeOK
  <2>3. QED  BY <2>1, <2>2
<1>3. RestOK' /\ UNCHANGED <<stream, openFiles>>
  BY <1>1, <1>2 DEF FileSize, RestOK, TypeOK, host
<1>4. QED  BY <1>3, KeepsStreams

\* The program's own stores into the DMA buffer.
LEMMA StoreDmaStep ==
  ASSUME Inv, StoreDma
  PROVE  Inv'
<1>1. RestOK' /\ UNCHANGED <<stream, openFiles>>
  BY BdosFilesAssumption DEF Inv, StoreDma, RestOK, TypeOK, host
<1>2. QED  BY <1>1, KeepsStreams

\* fn 19 and fn 23 (1670-1688, 1813-1857).
LEMMA DirectoryStep ==
  ASSUME Inv, NEW n \in Name, NEW new \in Name, Delete(n) \/ Rename(n, new)
  PROVE  Inv'
<1>1. TypeOK
  BY DEF Inv
<1>2. Found(n) => Lookup(n).path \in Path /\ dir[Lookup(n).path] \in Inode
  BY <1>1, LookupType DEF Found, Exists, TypeOK, Directory
<1>3. CASE Delete(n)
  <2>1. dir' \in Directory
    BY <1>1, <1>2, <1>3 DEF Delete, TypeOK, Directory, host
  <2>2. data' \in Contents
    BY <1>1, <1>3, ReclaimType DEF Delete, TypeOK, host
  <2>3. RestOK' /\ UNCHANGED <<stream, openFiles>>
    BY <1>1, <1>3, <2>1, <2>2 DEF Delete, RestOK, TypeOK
  <2>4. QED  BY <2>3, KeepsStreams
<1>4. CASE Rename(n, new)
  <2> DEFINE from == Lookup(n).path
             to   == Sibling[from][new]
  <2>1. CASE Found(n)
    <3>1. to \in Path
      BY <1>2, <2>1, MappingAssumption
    <3>2. /\ dir' = [p \in Path |-> IF p = to THEN dir[from]
                                    ELSE IF p = from THEN NoFile ELSE dir[p]]
          /\ data' = Reclaim(dir', data, InUse(stream))
          /\ fileMap' = [fileMap EXCEPT ![new] = to]
          /\ a' = Success /\ UNCHANGED <<stream, openFiles, fcb, dma>>
      BY <1>4, <2>1 DEF Rename
    <3>3. dir' \in Directory
      <4> HIDE DEF to, from
      <4>1. dir[from] \in Inode
        BY <1>2, <2>1 DEF from
      <4>2. QED  BY <1>1, <3>2, <4>1 DEF TypeOK, Directory
    <3>4. data' \in Contents
      BY <1>1, <3>2, ReclaimType DEF TypeOK
    <3>5. fileMap' \in FileMap
      BY <1>1, <3>1, <3>2 DEF TypeOK, FileMap
    <3>6. RestOK' /\ UNCHANGED <<stream, openFiles>>
      BY <1>1, <3>2, <3>3, <3>4, <3>5 DEF RestOK, TypeOK
    <3>7. QED  BY <3>6, KeepsStreams
  <2>2. CASE ~Found(n)
    <3>1. RestOK' /\ UNCHANGED <<stream, openFiles>>
      BY <1>1, <1>4, <2>2 DEF Rename, RestOK, TypeOK, host
    <3>2. QED  BY <3>1, KeepsStreams
  <2>3. QED  BY <2>1, <2>2
<1>5. QED  BY <1>3, <1>4

\* The emulator ends, by exit() or by a signal, and another starts.
LEMMA EndStep ==
  ASSUME Inv, Exit \/ Crash
  PROVE  Inv'
<1>1. TypeOK /\ StreamShape
  BY DEF Inv
<1>2. Restarted
  BY DEF Exit, Crash
<1>3. data' \in Contents
  <2>1. CASE Crash
    BY <1>1, <2>1, ReclaimType DEF Crash, TypeOK
  <2>2. CASE Exit
    <3>1. PICK rank \in Orders(Live) : data' = Reclaim(dir, FlushInOrder(rank), {})
      BY <2>2 DEF Exit
    <3>2. Cardinality(Live) \in Nat
      BY FS_Subset, FS_CardinalityType, BdosFilesAssumption DEF Live
    <3>3. rank \in [Live -> 1..Cardinality(Live)]
      BY DEF Orders
    <3>4. FlushInOrder(rank) \in Contents
      BY <1>1, <3>2, <3>3, FlushInOrderType
    <3>5. QED  BY <3>1, <3>4, ReclaimType
  <2>3. QED  BY <2>1, <2>2
<1>4. RestOK'
  <2>1. [k \in 1..RecSize |-> Zero] \in Record
    BY HostAssumption DEF Record
  <2>2. BlankFcb \in FcbBytes
    BY BdosFilesAssumption DEF BlankFcb, FcbBytes
  <2>3. QED  BY <1>1, <1>2, <1>3, <2>1, <2>2, BdosFilesAssumption
                DEF Restarted, RestOK, TypeOK
<1>5. stream' = [fd \in Fd |-> IF fd \in Fd THEN Closed ELSE stream[fd]]
  BY <1>2 DEF Restarted
<1>6. /\ openFiles' \in [Fcb -> OpenFile \cup {NotOpen}]
      /\ \A f \in Fcb : openFiles'[f] = NotOpen
  BY <1>2 DEF Restarted
<1>7. Fd \in SUBSET Fd
  OBVIOUS
<1>8. QED  BY <1>4, <1>5, <1>6, <1>7, ClosesStreams

---------------------------------------------------------------------------
(* The invariant                                                            *)

\* The emulator starts with nothing open.
LEMMA InitInv == Init => Inv
<1> SUFFICES ASSUME Init PROVE Inv
  OBVIOUS
<1>1. dir \in Directory /\ data \in Contents
  BY BdosFilesAssumption DEF Init
<1>2. [k \in 1..RecSize |-> Zero] \in Record
  BY HostAssumption DEF Record
<1>3. BlankFcb \in FcbBytes
  BY BdosFilesAssumption DEF BlankFcb, FcbBytes
<1>4. TypeOK
  BY <1>1, <1>2, <1>3, BdosFilesAssumption DEF Init, Idle, TypeOK
<1>5. HandleOwnership /\ StreamShape
  BY DEF Init, Idle, HandleOwnership, StreamShape, IsOpen, Live
<1>6. QED  BY <1>4, <1>5 DEF Inv

\* No call of the program, and no end of the emulator, breaks the invariant.
LEMMA NextInv == Inv /\ [Next]_vars => Inv'
<1> SUFFICES ASSUME Inv, [Next]_vars PROVE Inv'
  OBVIOUS
<1>1. CASE UNCHANGED vars
  BY <1>1 DEF vars, Inv, TypeOK, HandleOwnership, StreamShape, IsOpen, Live
<1>2. ASSUME NEW f \in Fcb, FcbCall(f) PROVE Inv'
  BY <1>2, CloseStep, ReadStep, ReadRandomStep, WriteRandomStep, FcbOnlyStep DEF FcbCall
<1>3. ASSUME NEW f \in Fcb, NEW n \in Name, NameCall(f, n) \/ FileSize(f, n) PROVE Inv'
  BY <1>3, OpenStep, MakeStep, WriteStep, FileSizeStep DEF NameCall
<1>4. ASSUME NEW n \in Name, Delete(n) \/ \E new \in Name : Rename(n, new) PROVE Inv'
  BY <1>4, DirectoryStep
<1>5. CASE Reset
  BY <1>5, ResetStep
<1>6. CASE StoreDma
  BY <1>6, StoreDmaStep
<1>7. CASE Exit \/ Crash
  BY <1>7, EndStep
<1>8. QED  BY <1>1, <1>2, <1>3, <1>4, <1>5, <1>6, <1>7 DEF Next

\* The state of the file calls keeps its types, whatever the program does.
THEOREM TypeCorrect == Spec => []TypeOK
<1>1. Inv => TypeOK
  BY DEF Inv
<1>2. QED  BY InitInv, NextInv, <1>1, PTL DEF Spec

\* Every open FCB owns an open stream of its own: no call uses a FILE after its
\* fclose, and none is closed twice, whatever the program does (1490-1898).
THEOREM OwnershipHolds == Spec => []HandleOwnership
<1>1. Inv => HandleOwnership
  BY DEF Inv
<1>2. QED  BY InitInv, NextInv, <1>1, PTL DEF Spec

\* What a stream holds back always lies before its position and never beside
\* fetched bytes, whatever reads, writes and seeks the program mixes (1571-1761).
THEOREM StreamsWellFormed == Spec => []StreamShape
<1>1. Inv => StreamShape
  BY DEF Inv
<1>2. QED  BY InitInv, NextInv, <1>1, PTL DEF Spec

---------------------------------------------------------------------------
(* What a step may do to the table and the streams                         *)

\* A read leaves its entry of the table an entry, with the same stream.
LEMMA ReadEntry ==
  ASSUME Inv, NEW g \in Fcb, ReadSequential(g)
  PROVE  \/ UNCHANGED <<stream, openFiles>>
         \/ /\ IsOpen(g)
            /\ \E of \in OpenFile : of.fp = openFiles[g].fp /\ openFiles' = [openFiles EXCEPT ![g] = of]
            /\ \E s : stream' = [stream EXCEPT ![openFiles[g].fp] = s]
<1>1. CASE ~IsOpen(g) \/ openFiles[g].eofSeen
  BY <1>1 DEF ReadSequential, NotOpenError
<1>2. CASE IsOpen(g) /\ ~openFiles[g].eofSeen
  <2> DEFINE of == openFiles[g]
             s == stream[of.fp]
             d == Flushed(s, data[s.ino])
             r == ReadWithConversion(of, Seen(AfterFlush(s), d))
  <2>1. of \in OpenFile /\ GoodStream(s) /\ s.ino \in Inode
    BY <1>2, OpenGood
  <2>2. d \in Seq(Byte)
    BY <2>1, FlushedType DEF Inv, TypeOK, Contents
  <2>3. r.atEof \in BOOLEAN
    BY <2>1, <2>2, AfterFlushGood, SeenType, ReadType DEF IsReadResult
  <2>4. /\ openFiles' = [openFiles EXCEPT ![g] = [of EXCEPT !.eofSeen = r.atEof]]
        /\ stream' = [stream EXCEPT ![of.fp] = Advance(AfterFlush(s), d, r.used, r.asked)]
    BY <1>2 DEF ReadSequential
  <2> HIDE DEF r, d, of
  <2>5. [of EXCEPT !.eofSeen = r.atEof] \in OpenFile /\ [of EXCEPT !.eofSeen = r.atEof].fp = of.fp
    BY <2>1, <2>3 DEF OpenFile
  <2>6. QED  BY <1>2, <2>4, <2>5 DEF of
<1>3. QED  BY Zenon, <1>1, <1>2

\* An FCB keeps an entry of the table as long as its stream is not closed.
LEMMA EntryStays ==
  ASSUME Inv, [Next]_vars, NEW f \in Fcb, IsOpen(f), stream'[openFiles[f].fp] # Closed
  PROVE  openFiles'[f] # NotOpen
<1>1. TypeOK /\ openFiles[f].fp \in Live /\ openFiles[f].fp \in Fd
  BY OpenGood DEF Inv, Live
<1>2. ASSUME NEW g \in Fcb, NEW of \in OpenFile, openFiles' = [openFiles EXCEPT ![g] = of]
      PROVE  openFiles'[f] # NotOpen
  BY <1>1, <1>2, NotOpenAssumption DEF TypeOK, IsOpen
<1>3. CASE UNCHANGED openFiles
  BY <1>3 DEF IsOpen
<1>4. ASSUME NEW g \in Fcb, Close(g) PROVE openFiles'[f] # NotOpen
  <2>1. CASE g = f
    BY <1>1, <1>4, <2>1 DEF Close, TypeOK
  <2>2. CASE g # f
    BY <1>1, <1>4, <2>2 DEF Close, TypeOK, IsOpen
  <2>3. QED  BY <2>1, <2>2
<1>5. ASSUME NEW g \in Fcb, ReadSequential(g) PROVE openFiles'[f] # NotOpen
  BY <1>2, <1>3, <1>5, ReadEntry
<1>6. ASSUME NEW g \in Fcb, NEW n \in Name, NEW o \in Opening(g, n), openFiles' = o.files
      PROVE  openFiles'[f] # NotOpen
  <2>1. Takes(g, o)
    BY <1>1, OpeningType
  <2>2. \E of \in OpenFile : openFiles' = [openFiles EXCEPT ![g] = of]
    BY <1>6, <2>1 DEF Takes
  <2>3. QED  BY <1>2, <2>2
<1>7. ASSUME NEW g \in Fcb, NEW n \in Name, NameCall(g, n) PROVE openFiles'[f] # NotOpen
  <2>1. CASE Open(g, n)
    BY <1>3, <1>6, <2>1 DEF Open
  <2>2. CASE Make(g, n)
    <3>1. CASE ~CanMake(n)
      BY <1>3, <2>2, <3>1 DEF Make
    <3>2. CASE CanMake(n)
      <4>1. \E fd \in FreeFd : openFiles' = [openFiles EXCEPT ![g] =
                [fp |-> fd, mode |-> DefaultMode, eol |-> DefaultEol, eofSeen |-> FALSE]]
        BY <2>2, <3>2 DEF Make, MakeSucceeds
      <4>2. \A fd \in FreeFd : [fp |-> fd, mode |-> DefaultMode, eol |-> DefaultEol, eofSeen |-> FALSE] \in OpenFile
        BY MappingAssumption DEF OpenFile, FreeFd
      <4>3. QED  BY <1>2, <4>1, <4>2
    <3>3. QED  BY <3>1, <3>2
  <2>3. CASE WriteSequential(g, n)
    <3>1. \/ openFiles' = openFiles
          \/ \E o \in IF IsOpen(g) THEN {[files |-> openFiles, streams |-> stream]}
                     ELSE Opening(g, n) : openFiles' = o.files
      BY Zenon, <2>3 DEF WriteSequential, NotOpenError
    <3>2. QED  BY <1>3, <1>6, <3>1
  <2>4. QED  BY <1>7, <2>1, <2>2, <2>3 DEF NameCall
<1>8. CASE Reset
  <2>1. openFiles[f].fp \in TableFds
    BY DEF TableFds
  <2>2. QED  BY <1>1, <1>8, <2>1 DEF Reset
<1>9. CASE Exit \/ Crash
  BY <1>1, <1>9 DEF Exit, Crash, Restarted
<1>10. QED
  <2>1. ASSUME NEW g \in Fcb, FcbCall(g) PROVE openFiles'[f] # NotOpen
    BY <1>3, <1>4, <1>5, <2>1
       DEF FcbCall, ReadRandom, WriteRandom, SetRandomRecord, StoreFcb, NotOpenError
  <2>2. ASSUME NEW g \in Fcb, NEW n \in Name, FileSize(g, n) PROVE openFiles'[f] # NotOpen
    BY <1>3, <2>2 DEF FileSize
  <2>3. ASSUME NEW n \in Name, Delete(n) \/ \E new \in Name : Rename(n, new)
        PROVE  openFiles'[f] # NotOpen
    BY <1>3, <2>3 DEF Delete, Rename
  <2>4. CASE StoreDma \/ UNCHANGED vars
    BY <1>3, <2>4 DEF StoreDma, vars
  <2>5. QED  BY <1>7, <1>8, <1>9, <2>1, <2>2, <2>3, <2>4 DEF Next

\* A stream that stays open drops out of the table only where open or make puts
\* another one in its place, whatever the program does (1490-1668).
THEOREM OrphansOnlyByReopen == Spec => OrphanOnlyByReopen
<1> DEFINE Step == \A fd \in Live : Held(openFiles, fd) /\ stream'[fd] # Closed /\ ~Held(openFiles', fd)
                     => \E f \in Fcb : IsOpen(f) /\ openFiles[f].fp = fd /\ openFiles'[f] # NotOpen
<1>1. Inv /\ [Next]_vars => [Step]_vars
  BY EntryStays DEF Held, IsOpen
<1>2. QED  BY InitInv, NextInv, <1>1, PTL DEF Spec, OrphanOnlyByReopen

\* A stream is closed only by fclose, the resets, and the end of the process.
LEMMA WhoCloses ==
  ASSUME Inv, [Next]_vars, NEW fd \in Live, stream'[fd] = Closed
  PROVE  \/ \E f \in Fcb : Close(f) /\ IsOpen(f) /\ openFiles[f].fp = fd
         \/ Reset /\ fd \in TableFds
         \/ Exit \/ Crash
<1>1. TypeOK /\ TypeOK' /\ HandleOwnership' /\ fd \in Fd /\ stream[fd] # Closed
  BY NextInv DEF Inv, Live
<1>2. ASSUME UNCHANGED stream PROVE FALSE
  BY <1>1, <1>2
<1>3. ASSUME NEW g \in Fcb, IsOpen(g), NEW of \in OpenFile, of.fp = openFiles[g].fp,
             openFiles' = [openFiles EXCEPT ![g] = of],
             NEW s, stream' = [stream EXCEPT ![openFiles[g].fp] = s]
      PROVE  FALSE
  <2>1. openFiles'[g] = of /\ of # NotOpen
    BY <1>1, <1>3, NotOpenAssumption DEF TypeOK
  <2>2. stream'[openFiles[g].fp] # Closed
    BY <1>1, <1>3, <2>1 DEF HandleOwnership, IsOpen
  <2>3. QED  BY <1>1, <1>3, <2>2 DEF TypeOK
<1>4. ASSUME NEW g \in Fcb, NEW n \in Name, NEW o \in Opening(g, n), openFiles' = o.files,
             stream' = o.streams \/ \E s : stream' = [o.streams EXCEPT ![o.files[g].fp] = s]
      PROVE  FALSE
  <2>1. Takes(g, o)
    BY <1>1, OpeningType
  <2>2. PICK x \in FreeFd, of \in OpenFile, t \in Stream :
          /\ of.fp = x /\ o.files = [openFiles EXCEPT ![g] = of]
          /\ o.streams = [stream EXCEPT ![x] = t]
    BY <2>1 DEF Takes
  <2>3. x # fd /\ o.files[g] = of
    BY <1>1, <2>2 DEF FreeFd, TypeOK
  <2>4. o.streams[fd] = stream[fd]
    BY <1>1, <2>2, <2>3 DEF TypeOK
  <2>5. stream'[fd] = stream[fd]
    BY <1>1, <1>4, <2>2, <2>3, <2>4 DEF TypeOK
  <2>6. QED  BY <1>1, <2>5
<1>5. ASSUME NEW g \in Fcb, FcbCall(g)
      PROVE  Close(g) /\ IsOpen(g) /\ openFiles[g].fp = fd
  <2>1. CASE Close(g)
    BY <1>1, <1>2, <2>1 DEF Close, TypeOK
  <2>2. CASE ReadSequential(g)
    BY <1>2, <1>3, <2>2, ReadEntry
  <2>3. CASE ReadRandom(g) \/ WriteRandom(g)
    <3>1. CASE ~IsOpen(g)
      BY <1>2, <2>3, <3>1 DEF ReadRandom, WriteRandom, NotOpenError
    <3>2. CASE IsOpen(g)
      <4>1. openFiles[g] \in OpenFile /\ openFiles' = [openFiles EXCEPT ![g] = openFiles[g]]
        BY <1>1, <2>3, <3>2, OpenGood DEF TypeOK, ReadRandom, WriteRandom
      <4>2. \E s : stream' = [stream EXCEPT ![openFiles[g].fp] = s]
        BY <2>3, <3>2 DEF ReadRandom, WriteRandom
      <4>3. QED  BY <1>3, <3>2, <4>1, <4>2
    <3>3. QED  BY <3>1, <3>2
  <2>4. CASE SetRandomRecord(g) \/ StoreFcb(g)
    BY <1>2, <2>4 DEF SetRandomRecord, StoreFcb
  <2>5. QED  BY <1>5, <2>1, <2>2, <2>3, <2>4 DEF FcbCall
<1>6. ASSUME NEW g \in Fcb, NEW n \in Name, NameCall(g, n) \/ FileSize(g, n) PROVE FALSE
  <2>1. CASE Open(g, n)
    BY <1>2, <1>4, <2>1 DEF Open
  <2>2. CASE Make(g, n)
    <3>1. \/ UNCHANGED stream
          \/ \E x \in FreeFd : \E ino : stream' = [stream EXCEPT ![x] = Opened(ino, TRUE)]
      BY <2>2 DEF Make, MakeSucceeds
    <3>2. QED  BY <1>1, <1>2, <3>1 DEF FreeFd, TypeOK
  <2>3. CASE WriteSequential(g, n)
    <3>1. CASE NotOpenError
      BY <1>2, <3>1 DEF NotOpenError
    <3>2. CASE ~NotOpenError
      <4>1. PICK o \in IF IsOpen(g) THEN {[files |-> openFiles, streams |-> stream]}
                       ELSE Opening(g, n) :
              /\ openFiles' = o.files
              /\ \E s : stream' = [o.streams EXCEPT ![o.files[g].fp] = s]
        BY Zenon, <2>3, <3>2 DEF WriteSequential
      <4>2. CASE IsOpen(g)
        <5>1. openFiles' = openFiles /\ \E s : stream' = [stream EXCEPT ![openFiles[g].fp] = s]
          <6>1. o.files = openFiles /\ o.streams = stream
            BY <4>1, <4>2
          <6>2. QED  BY <4>1, <6>1
        <5>2. openFiles[g] \in OpenFile /\ openFiles' = [openFiles EXCEPT ![g] = openFiles[g]]
          BY <1>1, <4>2, <5>1, OpenGood DEF TypeOK
        <5>3. QED  BY <1>3, <4>2, <5>1, <5>2
      <4>3. CASE ~IsOpen(g)
        BY <1>4, <4>1, <4>3
      <4>4. QED  BY <4>2, <4>3
    <3>3. QED  BY <3>1, <3>2
  <2>4. CASE FileSize(g, n)
    BY <1>2, <2>4 DEF FileSize
  <2>5. QED  BY <1>6, <2>1, <2>2, <2>3, <2>4 DEF NameCall
<1>7. ASSUME NEW n \in Name, Delete(n) \/ \E new \in Name : Rename(n, new) PROVE FALSE
  BY <1>2, <1>7 DEF Delete, Rename
<1>8. CASE Reset
  BY <1>1, <1>8 DEF Reset
<1>9. CASE StoreDma \/ UNCHANGED vars
  BY <1>2, <1>9 DEF StoreDma, vars
<1>10. QED  BY <1>5, <1>6, <1>7, <1>8, <1>9 DEF Next

---------------------------------------------------------------------------
(* What a step may do to the files                                          *)

\* A file that no stream of the order holds bytes of is as it was.
LEMMA FlushUntouched ==
  ASSUME TypeOK, NEW rank, NEW i \in Inode,
         \A g \in DOMAIN rank : stream[g].ino = i => stream[g].pend = <<>>
  PROVE  FlushInOrder(rank)[i] = data[i]
<1>1. data[i] \in Seq(Byte) /\ Len(data[i]) \in Nat /\ data[i] = [k \in 1..Len(data[i]) |-> data[i][k]]
  BY LenProperties DEF TypeOK, Contents
<1>2. SizeAfter(rank, i) = Len(data[i])
  <2>1. {g \in DOMAIN rank : stream[g].ino = i /\ stream[g].pend # <<>>} = {}
    OBVIOUS
  <2>2. Cardinality(1..Len(data[i])) = Len(data[i])
    BY <1>1, FS_Interval
  <2>3. SizeAfter(rank, i) = Cardinality((1..Len(data[i])) \cup UNION {})
    BY <2>1 DEF SizeAfter
  <2>4. (1..Len(data[i])) \cup UNION {} = 1..Len(data[i])
    OBVIOUS
  <2>5. QED  BY <2>2, <2>3, <2>4
<1>3. \A k : \A g \in DOMAIN rank : ~Holds(g, i, k)
  BY DEF Holds
<1>4. FlushInOrder(rank)[i] = [k \in 1..Len(data[i]) |-> IF k <= Len(data[i]) THEN data[i][k] ELSE Zero]
  BY <1>2, <1>3 DEF FlushInOrder
<1>5. QED  BY <1>1, <1>4

\* A file with one stream among those that are written out gets what it holds back.
LEMMA FlushAlone ==
  ASSUME TypeOK, StreamShape, NEW S \in SUBSET Live, NEW N \in Nat, NEW rank \in [S -> 1..N],
         NEW fd \in S, \A g \in S \ {fd} : stream[g].ino # stream[fd].ino
  PROVE  FlushInOrder(rank)[stream[fd].ino] = Flushed(stream[fd], data[stream[fd].ino])
<1> DEFINE s  == stream[fd]
           i  == s.ino
           p  == s.pend
           at == s.off - Len(p)
           d  == data[i]
<1>1. /\ GoodStream(s) /\ i \in Inode /\ p \in Seq(Byte) /\ Len(p) \in Nat /\ s.off \in Nat
      /\ at \in Nat /\ at + Len(p) = s.off
  BY LiveGood, LenProperties DEF GoodStream, Stream, Shaped
<1>2. d \in Seq(Byte) /\ Len(d) \in Nat
  BY <1>1, LenProperties DEF TypeOK, Contents
<1>3. CASE p = <<>>
  <2>1. \A g \in DOMAIN rank : stream[g].ino = i => stream[g].pend = <<>>
    BY <1>3
  <2>2. FlushInOrder(rank)[i] = d
    BY <1>1, <2>1, FlushUntouched
  <2>3. QED  BY <1>3, <2>2, OverwriteNothing DEF Flushed
<1>4. CASE p # <<>>
  <2> DEFINE size == IF s.off > Len(d) THEN s.off ELSE Len(d)
             o    == Overwrite(d, at, p)
             r    == FlushInOrder(rank)[i]
  <2>1. SizeAfter(rank, i) = size
    <3>1. {1..stream[g].off : g \in {h \in DOMAIN rank : stream[h].ino = i /\ stream[h].pend # <<>>}}
            = {1..s.off}
      <4>1. {h \in DOMAIN rank : stream[h].ino = i /\ stream[h].pend # <<>>} = {fd}
        BY <1>4
      <4>2. QED  BY <4>1
    <3>2. (1..Len(d)) \cup UNION {1..s.off} = 1..size
      BY SMTT(30), <1>1, <1>2
    <3>3. Cardinality(1..size) = size
      <4>1. size \in Nat
        BY <1>1, <1>2
      <4> HIDE DEF size
      <4>2. QED  BY <4>1, FS_Interval
    <3>4. QED  BY <3>1, <3>2, <3>3 DEF SizeAfter
  <2>2. \A k : \A g \in DOMAIN rank : Holds(g, i, k) => g = fd
    BY DEF Holds
  <2>3. \A k \in 1..size : Holds(fd, i, k) <=> k > at /\ k <= s.off
    BY <1>4 DEF Holds
  <2>4. ASSUME NEW k \in 1..size
        PROVE  r[k] = IF k > at /\ k <= s.off THEN p[k - at]
                      ELSE IF k <= Len(d) THEN d[k] ELSE Zero
    <3>1. r[k] = IF \E g \in DOMAIN rank : Holds(g, i, k) THEN HeldByte(LastHolder(rank, i, k), k)
                 ELSE IF k <= Len(d) THEN d[k] ELSE Zero
      BY <1>1, <2>1 DEF FlushInOrder
    <3>2. CASE k > at /\ k <= s.off
      <4>1. Holds(fd, i, k)
        BY <2>3, <3>2
      <4>2. LastHolder(rank, i, k) = fd
        BY <2>2, <4>1, LastHolderExists
      <4>3. HeldByte(fd, k) = p[k - at]
        BY DEF HeldByte
      <4> HIDE DEF r, at, s, p, d
      <4>4. QED  BY <3>1, <3>2, <4>1, <4>2, <4>3
    <3>3. CASE ~(k > at /\ k <= s.off)
      <4>1. ~\E g \in DOMAIN rank : Holds(g, i, k)
        BY <2>2, <2>3, <3>3
      <4> HIDE DEF r, at, s, p, d
      <4>2. QED  BY <3>1, <3>3, <4>1
    <3>4. QED  BY <3>2, <3>3
  <2>5. r \in Seq(Byte) /\ Len(r) = size
    <3>1. r \in Seq(Byte)
      BY <1>1, FlushInOrderType DEF Contents
    <3>2. DOMAIN r = 1..size /\ DOMAIN r = 1..Len(r) /\ Len(r) \in Nat /\ size \in Nat
      BY <1>1, <1>2, <2>1, <3>1, LenProperties DEF FlushInOrder
    <3> HIDE DEF r, size
    <3>3. QED  BY <3>1, <3>2
  <2>6. /\ o \in Seq(Byte) /\ Len(o) = size
        /\ \A k \in 1..size : o[k] = IF k > at /\ k <= s.off THEN p[k - at]
                                     ELSE IF k <= Len(d) THEN d[k] ELSE Zero
    <3> HIDE DEF at, p, d
    <3>1. /\ o \in Seq(Byte)
          /\ Len(o) = IF at + Len(p) > Len(d) THEN at + Len(p) ELSE Len(d)
          /\ \A k \in 1..Len(o) :
               o[k] = IF k > at /\ k <= at + Len(p) THEN p[k - at]
                      ELSE IF k <= Len(d) THEN d[k] ELSE Zero
      BY <1>1, <1>2, <1>4, OverwriteElements
    <3> HIDE DEF o
    <3>2. QED  BY <1>1, <3>1
  <2> HIDE DEF r, o, size
  <2>7. r = o
    BY <2>4, <2>5, <2>6, SeqEqual
  <2>8. QED  BY <2>7 DEF r, o, Flushed
<1>5. QED  BY <1>3, <1>4

\* A stream is closed only after its bytes reached the file, unless the process is
\* killed.
LEMMA ClosingStep ==
  ASSUME Inv, [Next]_vars, NEW fd \in Live, stream'[fd] = Closed, Alone(fd),
         stream[fd].ino \in Linked(dir)
  PROVE  data'[stream[fd].ino] = Flushed(stream[fd], data[stream[fd].ino]) \/ Crash
<1> DEFINE i == stream[fd].ino
<1>1. TypeOK /\ StreamShape /\ fd \in Fd /\ i \in Inode /\ stream[fd] # Closed
  BY LiveGood DEF Inv, Live
<1>2. \A d, inUse : Reclaim(dir, d, inUse)[i] = d[i]
  BY <1>1 DEF Reclaim
<1>3. ASSUME NEW g \in Fcb, Close(g), IsOpen(g), openFiles[g].fp = fd
      PROVE  data'[i] = Flushed(stream[fd], data[i])
  <2>1. data' = Reclaim(dir, [data EXCEPT ![i] = Flushed(stream[fd], data[i])], InUse(stream'))
    BY <1>3 DEF Close
  <2>2. [data EXCEPT ![i] = Flushed(stream[fd], data[i])][i] = Flushed(stream[fd], data[i])
    BY <1>1 DEF TypeOK, Contents
  <2>3. QED  BY <1>2, <2>1, <2>2
<1>4. CASE Reset /\ fd \in TableFds
  <2>1. TableFds \in SUBSET Live /\ TableOrder \in [TableFds -> 1..FcbCount] /\ FcbCount \in Nat
    <3>1. \A x \in TableFds : \E f \in Fcb : IsOpen(f) /\ openFiles[f].fp = x
      BY DEF TableFds
    <3>2. QED  BY <3>1, OpenGood, BdosFilesAssumption DEF TableFds, TableOrder, Fcb
  <2>2. FlushInOrder(TableOrder)[i] = Flushed(stream[fd], data[i])
    BY <1>1, <1>4, <2>1, FlushAlone DEF Alone
  <2>3. QED  BY <1>2, <1>4, <2>2 DEF Reset
<1>5. CASE Exit
  <2>1. PICK rank \in Orders(Live) : data' = Reclaim(dir, FlushInOrder(rank), {})
    BY <1>5 DEF Exit
  <2>2. rank \in [Live -> 1..Cardinality(Live)] /\ Cardinality(Live) \in Nat
    BY FS_Subset, FS_CardinalityType, BdosFilesAssumption DEF Live, Orders
  <2>3. FlushInOrder(rank)[i] = Flushed(stream[fd], data[i])
    BY <1>1, <2>2, FlushAlone DEF Alone
  <2>4. QED  BY <1>2, <2>1, <2>3
<1>6. QED  BY <1>3, <1>4, <1>5, WhoCloses

\* Unless the process is killed, a stream of its own on a file that has a path is never
\* closed before its bytes are in the file: neither close nor the resets nor exit()
\* loses what the program wrote (1537-1569, 1884-1898).
THEOREM ClosingsWriteOut == Spec => ClosingWritesOut
<1> DEFINE Step ==
      \A fd \in Live :
        stream'[fd] = Closed /\ Alone(fd) /\ stream[fd].ino \in Linked(dir)
          => data'[stream[fd].ino] = Flushed(stream[fd], data[stream[fd].ino]) \/ Crash
<1>1. Inv /\ [Next]_vars => [Step]_vars
  BY ClosingStep
<1>2. QED  BY InitInv, NextInv, <1>1, PTL DEF Spec, ClosingWritesOut

\* A record that write random reports as written is in the file when the call
\* returns, whatever the stream held back before (1728-1761).
LEMMA WriteRandomWrites ==
  ASSUME Inv, NEW f \in Fcb, IsOpen(f), WriteRandom(f), a' = Success
  PROVE  LET s == stream'[openFiles[f].fp]
         IN  /\ s.pend = <<>>
             /\ SubSeq(data'[s.ino], Position(f) + 1, Position(f) + RecSize) = dma
<1> DEFINE fd  == openFiles[f].fp
           s   == stream[fd]
           d   == Flushed(s, data[s.ino])
           at  == SeekTo(AfterFlush(s), Position(f))
           put == Put(at, dma)
<1>1. TypeOK /\ fd \in Fd /\ GoodStream(s) /\ s.ino \in Inode
  BY OpenGood DEF Inv, Live
<1>2. s.writable /\ stream' = [stream EXCEPT ![fd] = Synced(put)]
        /\ data' = [data EXCEPT ![s.ino] = Flushed(put, d)]
  BY DEF WriteRandom, Success, Failure
<1>3. d \in Seq(Byte)
  BY <1>1, FlushedType DEF TypeOK, Contents
<1>4. dma \in Seq(Byte) /\ Len(dma) = RecSize /\ dma # <<>>
  BY <1>1, RecordIsSeq DEF TypeOK
<1>5. Position(f) \in Nat
  BY <1>1, PositionType
<1>6. GoodStream(at) /\ at.pend = <<>> /\ at.off = Position(f) /\ at.ino = s.ino /\ at.writable
  <2>1. GoodStream(AfterFlush(s)) /\ AfterFlush(s).pend = <<>> /\ AfterFlush(s).ino = s.ino
        /\ AfterFlush(s).writable
    BY <1>2, <1>1, AfterFlushGood DEF AfterFlush, GoodStream, Stream
  <2>2. at.off = Position(f)
    BY <2>1 DEF SeekTo, GoodStream, Stream
  <2>3. QED  BY <1>5, <2>1, <2>2, SeekToGood
<1> HIDE DEF d, at, s
<1>7. Flushed(put, d) = Overwrite(d, Position(f), dma)
  <2>1. Flushed(at, d) = d
    BY <1>6, OverwriteNothing DEF Flushed
  <2>2. QED  BY <1>3, <1>4, <1>6, <2>1, FlushedPut
<1>8. put \in Stream /\ put.ino = s.ino
  BY <1>4, <1>6, PutGood DEF GoodStream
<1> HIDE DEF put, fd
<1>9. stream'[fd] = Synced(put) /\ Synced(put).pend = <<>> /\ Synced(put).ino = s.ino
  BY <1>1, <1>2, <1>8 DEF Synced, TypeOK, Stream
<1>10. data'[s.ino] = Overwrite(d, Position(f), dma)
  BY <1>1, <1>2, <1>7 DEF TypeOK, Contents
<1>11. SubSeq(data'[s.ino], Position(f) + 1, Position(f) + RecSize) = dma
  BY <1>3, <1>4, <1>5, <1>10, OverwriteHolds
<1>12. QED  BY <1>9, <1>11 DEF fd

\* What write random reports as written survives a crash of the emulator that follows.
THEOREM RandomWritesAreDurable == Spec => RandomWriteIsDurable
<1> DEFINE Step ==
      \A f \in Fcb : IsOpen(f) /\ a' = Success /\ fcb' = fcb /\ WriteRandom(f)
        => LET s == stream'[openFiles[f].fp]
           IN  /\ s.pend = <<>>
               /\ SubSeq(data'[s.ino], Position(f) + 1, Position(f) + RecSize) = dma
<1>1. Inv /\ [Next]_vars => [Step]_vars
  BY WriteRandomWrites
<1>2. QED  BY InitInv, NextInv, <1>1, PTL DEF Spec, RandomWriteIsDurable

\* After a rename the new name leads to the file the old one led to, whatever file_map and the
\* directory hold, unless a mapping of the new name leads elsewhere (672-690, 1813-1857).
THEOREM RenamesMoveFiles == Spec => RenameMovesFile
<1> DEFINE Step ==
      \A old, new \in Name :
        a' = Success /\ dir' # dir /\ Rename(old, new) /\ ~Mapped(new, dir')
        => PathNow(new)' # NoFile /\ dir'[PathNow(new)'] = dir[PathNow(old)]
<1>1. ASSUME Inv, NEW old \in Name, NEW new \in Name, dir' # dir, Rename(old, new), ~Mapped(new, dir')
      PROVE  PathNow(new)' # NoFile /\ dir'[PathNow(new)'] = dir[PathNow(old)]
  <2> DEFINE from == Lookup(old).path
             to   == Sibling[from][new]
  <2>1. Found(old) /\ from # NoFile /\ from = PathNow(old)
    BY <1>1 DEF Rename, host, Found, PathNow, Lookup, FindUnixFileEx
  <2>2. from \in Path /\ fileMap \in FileMap
    BY <1>1, <2>1, LookupType DEF Inv, TypeOK
  <2>3. to \in Path /\ to # NoFile
    BY <2>2, MappingAssumption, HostAssumption
  <2>4. /\ dir' = [p \in Path |-> IF p = to THEN dir[from]
                                 ELSE IF p = from THEN NoFile ELSE dir[p]]
        /\ fileMap' = [fileMap EXCEPT ![new] = to]
    BY <1>1, <2>1 DEF Rename
  <2> HIDE DEF from, to
  <2>5. fileMap'[new] = to
    BY <2>2, <2>4 DEF FileMap
  <2>6. PathNow(new)' = to
    BY <1>1, <2>3, <2>5 DEF PathNow, FindPath
  <2>7. dir'[to] = dir[from]
    BY <2>3, <2>4
  <2>8. QED  BY <2>1, <2>3, <2>6, <2>7
<1>2. Inv /\ [Next]_vars => [Step]_vars
  BY <1>1
<1>3. QED  BY InitInv, NextInv, <1>2, PTL DEF Spec, RenameMovesFile

\* Text is never held back: a stream that converts is flushed by every write.
TextIsWritten ==
  \A f \in Fcb : IsOpen(f) /\ Converts(openFiles[f]) => stream[openFiles[f].fp].pend = <<>>

\* A call that changes one entry of the table and the stream that goes with it.
LEMMA TextStays ==
  ASSUME Inv, TextIsWritten, NEW g \in Fcb, NEW fd \in Fd, NEW s, NEW of,
         stream' = [stream EXCEPT ![fd] = s], openFiles' = [openFiles EXCEPT ![g] = of],
         of # NotOpen => of.fp = fd /\ (Converts(of) => s.pend = <<>>),
         \A f \in Fcb \ {g} : IsOpen(f) => openFiles[f].fp # fd
  PROVE  TextIsWritten'
<1> SUFFICES ASSUME NEW f \in Fcb, openFiles'[f] # NotOpen, Converts(openFiles'[f])
             PROVE  stream'[openFiles'[f].fp].pend = <<>>
  BY DEF TextIsWritten, IsOpen
<1>1. stream \in [Fd -> Stream \cup {Closed}] /\ openFiles \in [Fcb -> OpenFile \cup {NotOpen}]
  BY DEF Inv, TypeOK
<1>2. CASE f = g
  <2>1. openFiles'[f] = of /\ stream'[fd] = s
    BY <1>1, <1>2
  <2>2. QED  BY <2>1
<1>3. CASE f # g
  <2>1. openFiles'[f] = openFiles[f] /\ openFiles[f].fp # fd /\ IsOpen(f)
    BY <1>1, <1>3 DEF IsOpen
  <2>2. openFiles[f].fp \in Fd
    BY <2>1, OpenGood DEF Live
  <2>3. stream'[openFiles[f].fp] = stream[openFiles[f].fp]
    BY <1>1, <2>1, <2>2
  <2>4. QED  BY <2>1, <2>3 DEF TextIsWritten
<1>4. QED  BY <1>2, <1>3

\* The same for a stream that no entry had, or only the one of g.
LEMMA NotShared ==
  ASSUME Inv, NEW g \in Fcb, NEW fd, fd \in FreeFd \/ (IsOpen(g) /\ openFiles[g].fp = fd)
  PROVE  fd \in Fd /\ \A f \in Fcb \ {g} : IsOpen(f) => openFiles[f].fp # fd
<1>1. \A f \in Fcb : IsOpen(f) => openFiles[f].fp \in Live
  BY OpenGood
<1>2. CASE fd \in FreeFd
  BY <1>1, <1>2 DEF FreeFd
<1>3. CASE IsOpen(g) /\ openFiles[g].fp = fd
  BY <1>1, <1>3 DEF Inv, HandleOwnership, Live
<1>4. QED  BY <1>2, <1>3

\* No call leaves text in a buffer (write_with_conversion flushes it, 776-809).
LEMMA TextNext ==
  ASSUME Inv, TextIsWritten, [Next]_vars
  PROVE  TextIsWritten'
<1>1. TypeOK
  BY DEF Inv
<1>2. CASE UNCHANGED <<stream, openFiles>>
  BY <1>2 DEF TextIsWritten, IsOpen
<1>3. ASSUME NEW g \in Fcb, NEW n \in Name, NEW o \in Opening(g, n),
             openFiles' = o.files, stream' = o.streams
      PROVE  TextIsWritten'
  <2>1. Takes(g, o)
    BY <1>1, OpeningType
  <2>2. PICK fd \in FreeFd, of \in OpenFile, s \in Stream :
          /\ of.fp = fd /\ s.pend = <<>>
          /\ openFiles' = [openFiles EXCEPT ![g] = of] /\ stream' = [stream EXCEPT ![fd] = s]
    BY <1>3, <2>1 DEF Takes
  <2>3. QED  BY <2>2, NotShared, TextStays
<1>4. ASSUME NEW g \in Fcb, NEW n \in Name, Make(g, n), CanMake(n) PROVE TextIsWritten'
  <2>1. PICK fd \in FreeFd, ino \in IF Exists(dir, Lower[n]) THEN {dir[Lower[n]]} ELSE FreeInode :
           MakeSucceeds(g, n, ino, fd)
    BY <1>4 DEF Make
  <2> DEFINE of == [fp |-> fd, mode |-> DefaultMode, eol |-> DefaultEol, eofSeen |-> FALSE]
  <2>2. /\ openFiles' = [openFiles EXCEPT ![g] = of]
        /\ stream' = [stream EXCEPT ![fd] = Opened(ino, TRUE)]
    BY <2>1 DEF MakeSucceeds
  <2>3. of.fp = fd /\ Opened(ino, TRUE).pend = <<>>
    BY DEF Opened
  <2> HIDE DEF of
  <2>4. QED  BY <2>2, <2>3, NotShared, TextStays
<1>5. ASSUME NEW g \in Fcb, Close(g), IsOpen(g) PROVE TextIsWritten'
  <2> DEFINE fd == openFiles[g].fp
  <2>1. stream' = [stream EXCEPT ![fd] = Closed] /\ openFiles' = [openFiles EXCEPT ![g] = NotOpen]
    BY <1>5 DEF Close
  <2>2. fd \in Fd /\ \A f \in Fcb \ {g} : IsOpen(f) => openFiles[f].fp # fd
    BY <1>5, NotShared
  <2> HIDE DEF fd
  <2>3. QED  BY <2>1, <2>2, TextStays
<1>6. ASSUME NEW g \in Fcb, IsOpen(g), NEW of, of.fp = openFiles[g].fp, NEW s, s.pend = <<>>,
             stream' = [stream EXCEPT ![openFiles[g].fp] = s],
             openFiles' = [openFiles EXCEPT ![g] = of]
      PROVE  TextIsWritten'
  BY <1>6, NotShared, TextStays
<1>7. ASSUME NEW g \in Fcb, ReadSequential(g), IsOpen(g) PROVE TextIsWritten'
  <2> DEFINE of == openFiles[g]
             s == stream[of.fp]
             d == Flushed(s, data[s.ino])
             r == ReadWithConversion(of, Seen(AfterFlush(s), d))
  <2>1. CASE of.eofSeen
    BY <1>2, <1>7, <2>1 DEF ReadSequential
  <2>2. CASE ~of.eofSeen
    <3>1. /\ stream' = [stream EXCEPT ![of.fp] = Advance(AfterFlush(s), d, r.used, r.asked)]
          /\ openFiles' = [openFiles EXCEPT ![g] = [openFiles[g] EXCEPT !.eofSeen = r.atEof]]
      BY <1>7, <2>2 DEF ReadSequential
    <3>2. AfterFlush(s) \in Stream /\ AfterFlush(s).pend = <<>>
      BY <1>7, OpenGood, AfterFlushGood DEF GoodStream
    <3>3. [openFiles[g] EXCEPT !.eofSeen = r.atEof].fp = openFiles[g].fp
      <4> HIDE DEF r
      <4> QED  BY <1>7, OpenGood DEF OpenFile
    <3>4. Advance(AfterFlush(s), d, r.used, r.asked).pend = <<>>
      <4> DEFINE t == AfterFlush(s)
      <4>1. t \in Stream /\ t.pend = <<>>
        BY <3>2
      <4> HIDE DEF t, s, d, r
      <4>2. Advance(t, d, r.used, r.asked).pend = t.pend
        BY <4>1, AdvanceKeeps
      <4>3. QED  BY <4>1, <4>2 DEF t
    <3> DEFINE of2 == [openFiles[g] EXCEPT !.eofSeen = r.atEof]
               s2  == Advance(AfterFlush(s), d, r.used, r.asked)
    <3>5. /\ stream' = [stream EXCEPT ![of.fp] = s2] /\ openFiles' = [openFiles EXCEPT ![g] = of2]
          /\ of2.fp = openFiles[g].fp /\ s2.pend = <<>>
      BY <3>1, <3>3, <3>4
    <3> HIDE DEF r, d, of2, s2
    <3>6. QED  BY <1>6, <1>7, <3>5
  <2>3. QED  BY <2>1, <2>2
<1>8. ASSUME NEW g \in Fcb, NEW n \in Name, WriteSequential(g, n) PROVE TextIsWritten'
  <2>1. CASE NotOpenError
    BY <1>2, <2>1 DEF NotOpenError
  <2>2. CASE ~NotOpenError
    <3>1. PICK o \in IF IsOpen(g) THEN {[files |-> openFiles, streams |-> stream]}
                     ELSE Opening(g, n) :
            /\ openFiles' = o.files
            /\ stream' = [o.streams EXCEPT ![o.files[g].fp] =
                            Written(o.files[g], o.streams[o.files[g].fp])]
      BY Zenon, <1>8, <2>2 DEF WriteSequential
    <3> DEFINE of == o.files[g]
               w == Written(of, o.streams[of.fp])
    <3>2. ASSUME o.streams[of.fp] \in Stream, GoodStream(o.streams[of.fp]), Converts(of) PROVE w.pend = <<>>
      <4>1. dma \in Seq(Byte)
        BY <1>1, RecordIsSeq DEF TypeOK
      <4>2. WriteWithConversion(of, dma) \in Seq(Byte)
        BY <4>1, CollapseType DEF WriteWithConversion
      <4> DEFINE put == IF o.streams[of.fp].writable
                        THEN Put(o.streams[of.fp], WriteWithConversion(of, dma))
                        ELSE o.streams[of.fp]
      <4>3. put \in Stream
        BY <3>2, <4>2, PutGood DEF GoodStream
      <4>4. w = Synced(put)
        BY <3>2 DEF Written
      <4> HIDE DEF put, w
      <4>5. QED  BY <4>3, <4>4 DEF Synced, Stream
    <3>3. CASE IsOpen(g)
      <4>1. of = openFiles[g] /\ o.streams = stream
        BY <3>1, <3>3
      <4>2. stream' = [stream EXCEPT ![of.fp] = w] /\ openFiles' = [openFiles EXCEPT ![g] = of]
        BY <1>1, <3>1, <3>3, <4>1 DEF TypeOK
      <4>3. GoodStream(stream[of.fp])
        BY <3>3, <4>1, OpenGood
      <4> HIDE DEF of, w
      <4>4. QED  BY <3>2, <3>3, <4>1, <4>2, <4>3, NotShared, TextStays DEF GoodStream
    <3>4. CASE ~IsOpen(g)
      <4>1. Takes(g, o)
        BY <1>1, <3>1, <3>4, OpeningType
      <4>2. PICK fd \in FreeFd, e \in OpenFile, t \in Stream :
              /\ GoodStream(t) /\ e.fp = fd
              /\ o.files = [openFiles EXCEPT ![g] = e] /\ o.streams = [stream EXCEPT ![fd] = t]
        BY <4>1 DEF Takes
      <4>3. of = e /\ o.streams[of.fp] = t
        BY <1>1, <4>2 DEF TypeOK, FreeFd
      <4>4. stream' = [stream EXCEPT ![fd] = w] /\ openFiles' = [openFiles EXCEPT ![g] = of]
        BY <3>1, <4>2, <4>3
      <4>5. of.fp = fd /\ (Converts(of) => w.pend = <<>>)
        BY <3>2, <4>2, <4>3
      <4> HIDE DEF of, w
      <4>6. QED  BY <4>4, <4>5, NotShared, TextStays
    <3>5. QED  BY <3>3, <3>4
  <2>3. QED  BY <2>1, <2>2
<1>9. ASSUME NEW g \in Fcb, ReadRandom(g) \/ WriteRandom(g), IsOpen(g) PROVE TextIsWritten'
  <2> DEFINE s == stream[openFiles[g].fp]
             at == SeekTo(AfterFlush(s), Position(g))
  <2>1. GoodStream(at) /\ at.pend = <<>> /\ at.writable = s.writable
    <3>1. GoodStream(AfterFlush(s)) /\ AfterFlush(s).pend = <<>> /\ AfterFlush(s).writable = s.writable
      BY <1>9, OpenGood, AfterFlushGood DEF AfterFlush, GoodStream, Stream
    <3>2. QED  BY <1>1, <3>1, PositionType, SeekToGood
  <2> HIDE DEF at
  <2>2. openFiles' = [openFiles EXCEPT ![g] = openFiles[g]]
    BY <1>1, <1>9 DEF TypeOK, ReadRandom, WriteRandom
  <2>3. CASE ReadRandom(g)
    <3>1. PICK d, used : stream' = [stream EXCEPT ![openFiles[g].fp] = Advance(at, d, used, RecSize)]
      BY <1>9, <2>3 DEF ReadRandom, at
    <3>2. Advance(at, d, used, RecSize).pend = <<>>
      BY <2>1, AdvanceKeeps DEF GoodStream
    <3>3. QED  BY <1>6, <1>9, <2>2, <3>1, <3>2
  <2>4. CASE WriteRandom(g)
    <3> DEFINE put == IF s.writable THEN Put(at, dma) ELSE at
    <3>1. stream' = [stream EXCEPT ![openFiles[g].fp] = Synced(put)]
      BY <1>9, <2>4 DEF WriteRandom, at
    <3>2. put \in Stream
      BY <1>1, <2>1, RecordIsSeq, PutGood DEF GoodStream, TypeOK
    <3> HIDE DEF put
    <3>3. Synced(put).pend = <<>>
      BY <3>2 DEF Synced, Stream
    <3>4. QED  BY <1>6, <1>9, <2>2, <3>1, <3>3
  <2>5. QED  BY <1>9, <2>3, <2>4
<1>10. CASE Reset \/ Exit \/ Crash
  BY <1>10 DEF Reset, Exit, Crash, Restarted, TextIsWritten, IsOpen
<1>11. QED
  <2>1. ASSUME NEW g \in Fcb, FcbCall(g) PROVE TextIsWritten'
    <3>1. CASE IsOpen(g) \/ SetRandomRecord(g) \/ StoreFcb(g)
      BY <1>2, <1>5, <1>7, <1>9, <2>1, <3>1 DEF FcbCall, SetRandomRecord, StoreFcb
    <3>2. CASE ~IsOpen(g) /\ ~(SetRandomRecord(g) \/ StoreFcb(g))
      BY Zenon, <1>2, <2>1, <3>2
         DEF FcbCall, Close, ReadSequential, ReadRandom, WriteRandom, NotOpenError
    <3>3. QED  BY <3>1, <3>2
  <2>2. ASSUME NEW g \in Fcb, NEW n \in Name, Open(g, n) PROVE TextIsWritten'
    BY <1>2, <1>3, <2>2 DEF Open
  <2>3. ASSUME NEW g \in Fcb, NEW n \in Name, Make(g, n) PROVE TextIsWritten'
    <3>1. CASE CanMake(n)
      BY <1>4, <2>3, <3>1
    <3>2. CASE ~CanMake(n)
      BY <1>2, <2>3, <3>2 DEF Make
    <3>3. QED  BY <3>1, <3>2
  <2>4. ASSUME NEW g \in Fcb, NEW n \in Name, FileSize(g, n) PROVE TextIsWritten'
    BY <1>2, <2>4 DEF FileSize
  <2>5. ASSUME NEW n \in Name, Delete(n) \/ \E new \in Name : Rename(n, new)
        PROVE  TextIsWritten'
    BY <1>2, <2>5 DEF Delete, Rename
  <2>6. CASE StoreDma \/ UNCHANGED vars
    BY <1>2, <2>6 DEF StoreDma, vars
  <2>7. QED  BY <1>8, <1>10, <2>1, <2>2, <2>3, <2>4, <2>5, <2>6 DEF Next, NameCall

\* A call that reports failure has changed no file: what fails in a write is either
\* refused before anything is written, or has nothing to write (1490-1857).
LEMMA FailureStep ==
  ASSUME Inv, TextIsWritten, [Next]_vars, a # Failure, a' = Failure
  PROVE  UNCHANGED <<dir, data>>
<1>1. TypeOK
  BY DEF Inv
<1>2. Success # Failure /\ AtEof # Failure
  BY DEF Success, AtEof, Failure
<1>3. \A i \in Inode : data = [data EXCEPT ![i] = data[i]]
  BY <1>1 DEF TypeOK, Contents
<1>4. CASE NotOpenError
  BY <1>4 DEF NotOpenError, host
<1>5. ASSUME NEW g \in Fcb, NEW n \in Name, WriteSequential(g, n), ~NotOpenError
      PROVE  UNCHANGED <<dir, data>>
  <2>1. PICK o \in IF IsOpen(g) THEN {[files |-> openFiles, streams |-> stream]} ELSE Opening(g, n) :
          LET of  == o.files[g]
              s   == o.streams[of.fp]
              out == WriteWithConversion(of, dma)
          IN  /\ data' = IF s.writable /\ Converts(of)
                         THEN [data EXCEPT ![s.ino] = Flushed(Put(s, out), data[s.ino])] ELSE data
              /\ a' = IF s.writable /\ out # <<>> THEN Success ELSE Failure
              /\ dir' = dir
    BY Zenon, <1>5 DEF WriteSequential
  <2> DEFINE of  == o.files[g]
             s   == o.streams[of.fp]
             out == WriteWithConversion(of, dma)
  <2>2. s.ino \in Inode /\ (Converts(of) => s.pend = <<>>)
    <3>1. CASE IsOpen(g)
      <4>1. of = openFiles[g] /\ s = stream[of.fp]
        BY <2>1, <3>1
      <4> HIDE DEF of, s
      <4>2. QED  BY <3>1, <4>1, OpenGood DEF TextIsWritten
    <3>2. CASE ~IsOpen(g)
      <4>1. Takes(g, o)
        BY <1>1, <2>1, <3>2, OpeningType
      <4>2. PICK fd \in FreeFd, e \in OpenFile, t \in Stream :
              /\ e.fp = fd /\ t.pend = <<>>
              /\ o.files = [openFiles EXCEPT ![g] = e] /\ o.streams = [stream EXCEPT ![fd] = t]
        BY <4>1 DEF Takes
      <4>3. s = t
        BY <1>1, <4>2 DEF TypeOK, FreeFd
      <4>4. QED  BY <4>2, <4>3 DEF Stream
    <3>3. QED  BY <3>1, <3>2
  <2>3. CASE s.writable /\ Converts(of)
    <3>1. out = <<>>
      BY <1>2, <2>1, <2>3
    <3>2. Put(s, out) = s /\ Flushed(s, data[s.ino]) = data[s.ino]
      BY Zenon, <2>2, <2>3, <3>1, OverwriteNothing DEF Put, Flushed
    <3>3. data' = [data EXCEPT ![s.ino] = data[s.ino]] /\ dir' = dir
      BY <2>1, <2>3, <3>2
    <3>4. QED  BY <1>3, <2>2, <3>3
  <2>4. CASE ~(s.writable /\ Converts(of))
    BY <2>1, <2>4
  <2>5. QED  BY <2>3, <2>4
<1>6. ASSUME NEW g \in Fcb, WriteRandom(g), IsOpen(g) PROVE UNCHANGED <<dir, data>>
  <2> DEFINE s  == stream[openFiles[g].fp]
             d  == Flushed(s, data[s.ino])
             at == SeekTo(AfterFlush(s), Position(g))
  <2>1. ~s.writable
    BY <1>2, <1>6 DEF WriteRandom
  <2>2. data' = [data EXCEPT ![s.ino] = Flushed(at, d)] /\ dir' = dir
    BY <1>6, <2>1 DEF WriteRandom
  <2>3. GoodStream(s) /\ s.ino \in Inode /\ s.pend = <<>>
    BY <1>6, <2>1, OpenGood DEF GoodStream, Shaped
  <2>4. at.pend = <<>>
    BY <1>1, <2>3, AfterFlushGood, PositionType, SeekToGood
  <2>5. Flushed(at, d) = d /\ d = data[s.ino]
    BY <2>3, <2>4, OverwriteNothing DEF Flushed
  <2>6. QED  BY <1>3, <2>2, <2>3, <2>5
<1>7. QED
  <2>1. ASSUME NEW g \in Fcb, FcbCall(g) PROVE UNCHANGED <<dir, data>>
    BY Zenon, <1>2, <1>4, <1>6, <2>1
       DEF FcbCall, Close, ReadSequential, ReadRandom, WriteRandom, SetRandomRecord, StoreFcb, host
  <2>2. ASSUME NEW g \in Fcb, NEW n \in Name, NameCall(g, n) \/ FileSize(g, n)
        PROVE  UNCHANGED <<dir, data>>
    BY <1>2, <1>4, <1>5, <2>2 DEF NameCall, Open, Make, MakeSucceeds, FileSize, host
  <2>3. ASSUME NEW n \in Name, Delete(n) \/ \E new \in Name : Rename(n, new)
        PROVE  UNCHANGED <<dir, data>>
    BY <1>2, <2>3 DEF Delete, Rename, host
  <2>4. CASE Reset \/ StoreDma \/ Exit \/ Crash \/ UNCHANGED vars
    BY <1>2, <2>4 DEF Reset, StoreDma, Exit, Crash, Restarted, vars, guest, host
  <2>5. QED  BY <2>1, <2>2, <2>3, <2>4 DEF Next

\* No call that reports failure has changed a file or a directory, whatever was
\* buffered before it (1490-1857).
THEOREM FailuresChangeNoFile == Spec => FailureChangesNoFile
<1>1. Init => Inv /\ TextIsWritten
  BY InitInv DEF Init, Idle, TextIsWritten, IsOpen
<1>2. Inv /\ TextIsWritten /\ [Next]_vars => Inv' /\ TextIsWritten'
  BY NextInv, TextNext
<1>3. Inv /\ TextIsWritten /\ [Next]_vars => [a # Failure /\ a' = Failure => UNCHANGED <<dir, data>>]_vars
  BY FailureStep
<1>4. QED  BY <1>1, <1>2, <1>3, PTL DEF Spec, FailureChangesNoFile

---------------------------------------------------------------------------
(* The operators DirectFiles shares with BdosFiles are the same             *)

\* DirectFiles has a copy of the operators below it: they are the same.
LEMMA SameHost ==
  /\ \A k, n : Direct!AtMost(k, n) = AtMost(k, n)
  /\ \A d, at, bytes : Direct!Overwrite(d, at, bytes) = Overwrite(d, at, bytes)
  /\ \A d, p : Direct!Exists(d, p) = Exists(d, p)
  /\ \A d : Direct!Linked(d) = Linked(d)
BY DEF Direct!AtMost, AtMost, Direct!Overwrite, Overwrite, Direct!Exists, Exists,
       Direct!Linked, Linked

\* The same for Cardinality, which both modules take from FiniteSets.
LEMMA SameSize == \A S : Direct!Cardinality(S) = Cardinality(S)
BY DEF Direct!Cardinality, Cardinality

\* The same for the counting operators of the text conversion.
LEMMA SameText ==
  /\ \A s : Direct!HasCtrlZ(s) = HasCtrlZ(s)
  /\ \A s : Direct!TextLength(s) = TextLength(s)
  /\ \A s, k : Direct!Width(s, k) = Width(s, k)
  /\ \A out, used, asked, atEof :
       Direct!ReadResult(out, used, asked, atEof) = ReadResult(out, used, asked, atEof)
  /\ \A of : Direct!Converts(of) = Converts(of)
  /\ \A out : Direct!Pad(out) = Pad(out)
BY SameSize DEF Direct!HasCtrlZ, HasCtrlZ, Direct!TextLength, TextLength, Direct!Width, Width,
       Direct!ReadResult, ReadResult, Direct!Converts, Converts, Direct!Pad, Pad

\* Both modules convert what is read alike (read_with_conversion, 722-774).
LEMMA SameReading ==
  ASSUME NEW of, NEW seen
  PROVE  Direct!ReadWithConversion(of, seen) = ReadWithConversion(of, seen)
<1>1. \A s : Direct!Expand(s) = Expand(s)
  <2>1. TAKE s
  <2>2. \A j : {i \in DOMAIN s : Direct!Width(s, i) < j} = {i \in DOMAIN s : Width(s, i) < j}
    BY SameText
  <2>3. QED  BY <2>2, SameText, SameSize DEF Direct!Expand, Expand
<1>2. \A s : Direct!Fitting(s) = Fitting(s)
  <2>1. TAKE s
  <2>2. {k \in 1..Direct!TextLength(s) : Direct!Width(s, k) <= RecSize}
          = {k \in 1..TextLength(s) : Width(s, k) <= RecSize}
    BY SameText
  <2>3. QED  BY <2>2, SameSize DEF Direct!Fitting, Fitting
<1>3. \A s : Direct!ReadExpanded(s) = ReadExpanded(s)
  BY <1>1, <1>2, SameText DEF Direct!ReadExpanded, ReadExpanded
<1>4. \A m, s : Direct!ReadDirect(m, s) = ReadDirect(m, s)
  BY SameHost, SameText DEF Direct!ReadDirect, ReadDirect
<1>5. QED  BY <1>3, <1>4, SameText DEF Direct!ReadWithConversion, ReadWithConversion

\* Both modules convert what is written alike (write_with_conversion, 776-809).
LEMMA SameWriting ==
  ASSUME NEW of, NEW rec
  PROVE  Direct!WriteWithConversion(of, rec) = WriteWithConversion(of, rec)
<1>1. \A r, k : Direct!Dropped(r, k) = Dropped(r, k)
  BY DEF Direct!Dropped, Dropped
<1>2. \A r, k : Direct!Kept(r, k) = Kept(r, k)
  <2>1. TAKE r, k
  <2>2. {i \in 1..k : Direct!Dropped(r, i)} = {i \in 1..k : Dropped(r, i)}
    BY <1>1
  <2>3. QED  BY <2>2, SameSize DEF Direct!Kept, Kept
<1>3. \A r : Direct!Collapse(r) = Collapse(r)
  <2>1. TAKE r
  <2>2. \A n, j : {i \in 1..n : Direct!Kept(r, i) < j} = {i \in 1..n : Kept(r, i) < j}
    BY <1>2
  <2>3. QED  BY <1>2, <2>2, SameText, SameSize DEF Direct!Collapse, Collapse
<1>4. QED  BY <1>3, SameText DEF Direct!WriteWithConversion, WriteWithConversion

\* Both modules lead a name to the same path (find_unix_file_ex).
LEMMA SamePath ==
  ASSUME NEW n, NEW d, NEW map
  PROVE  /\ Direct!Mapped(n, d) = Mapped(n, d)
         /\ Direct!FirstMapping(n, d) = FirstMapping(n, d)
         /\ Direct!FindPath(n, d, map) = FindPath(n, d, map)
<1>1. \A p, x : Direct!MatchPattern(p, x) = MatchPattern(p, x)
  BY DEF Direct!MatchPattern, MatchPattern
<1>2. \A i, x, y : Direct!Applies(i, x, y) = Applies(i, x, y)
  BY <1>1, SameHost DEF Direct!Applies, Applies
<1>3. Direct!Mapped(n, d) = Mapped(n, d)
  BY <1>2 DEF Direct!Mapped, Mapped
<1>4. Direct!FirstMapping(n, d) = FirstMapping(n, d)
  BY <1>2 DEF Direct!FirstMapping, FirstMapping
<1>5. QED  BY <1>3, <1>4, SameHost DEF Direct!FindPath, FindPath

\* The lookup reads the bytes of one file, the one it finds.
LEMMA SameLookup ==
  ASSUME NEW n, NEW d, NEW map, NEW contents, NEW other,
         contents[d[FindPath(n, d, map)]] = other[d[FindPath(n, d, map)]]
  PROVE  Direct!FindUnixFileEx(n, d, other, map) = FindUnixFileEx(n, d, contents, map)
<1> DEFINE p == FindPath(n, d, map)
<1>1. \A bytes : Direct!LooksLikeText(bytes) = LooksLikeText(bytes)
  BY SameSize DEF Direct!LooksLikeText, LooksLikeText, Direct!AtMost, AtMost
<1>2. Direct!DetectFileMode(n, p, d, other) = DetectFileMode(n, p, d, contents)
  <2>1. contents[d[p]] = other[d[p]]
    OBVIOUS
  <2> HIDE DEF p
  <2>2. QED  BY <1>1, <2>1, SameHost DEF Direct!DetectFileMode, DetectFileMode
<1>3. QED  BY <1>2, SamePath DEF Direct!FindUnixFileEx, FindUnixFileEx

\* The path does not depend on what files hold.
LEMMA PathOnly ==
  ASSUME NEW n, NEW d, NEW contents, NEW map
  PROVE  /\ FindUnixFileEx(n, d, contents, map).path = FindPath(n, d, map)
         /\ Direct!FindUnixFileEx(n, d, contents, map).path = FindPath(n, d, map)
BY SamePath DEF FindUnixFileEx, Direct!FindUnixFileEx

---------------------------------------------------------------------------
(* Files and open FCBs as the program sees them                             *)

AllFresh == \A fd \in Live : Fresh(stream[fd], data[stream[fd].ino])

Careful == Inv /\ Unshared /\ AllFresh

\* Unshared, Logical and Joined as functions of the streams, files and table, so that
\* what is proved of them holds of the next state, too.
Sole(st) == \A x, y \in Fd : st[x] # Closed /\ st[y] # Closed /\ st[x].ino = st[y].ino => x = y

Whole(st, dt) ==
  [i \in Inode |->
     IF i \notin InUse(st) THEN dt[i]
     ELSE LET s == st[CHOOSE fd \in {g \in Fd : st[g] # Closed} : st[fd].ino = i]
          IN  Flushed(s, dt[i])]

Shown(of, s) ==
  [ino |-> s.ino, off |-> s.off, writable |-> s.writable, mode |-> of.mode, eol |-> of.eol,
   eofSeen |-> of.eofSeen]

View(table, st) ==
  [f \in Fcb |-> IF table[f] = NotOpen THEN NotOpen ELSE Shown(table[f], st[table[f].fp])]

\* The three are the functions above of the variables, now and after a step.
LEMMA Views ==
  /\ Unshared = Sole(stream) /\ Logical = Whole(stream, data) /\ Joined = View(openFiles, stream)
  /\ Unshared' = Sole(stream') /\ Logical' = Whole(stream', data')
  /\ Joined' = View(openFiles', stream')
BY DEF Unshared, Sole, Logical, Whole, Joined, View, Shown, Live, IsOpen

\* With no file open twice, a file in use is what its only stream makes of it.
LEMMA WholeInUse ==
  ASSUME NEW st, Sole(st), NEW dt, NEW fd \in Fd, st[fd] # Closed, st[fd].ino \in Inode
  PROVE  Whole(st, dt)[st[fd].ino] = Flushed(st[fd], dt[st[fd].ino])
<1> DEFINE i == st[fd].ino
           live == {g \in Fd : st[g] # Closed}
           x == CHOOSE g \in live : st[g].ino = i
<1>1. i \in InUse(st)
  BY DEF InUse
<1>2. x \in live /\ st[x].ino = i
  <2>1. fd \in live /\ st[fd].ino = i
    OBVIOUS
  <2> HIDE DEF i, live
  <2>2. QED  BY <2>1
<1>3. x = fd
  BY <1>2 DEF Sole
<1>4. Whole(st, dt)[i] = Flushed(st[x], dt[i])
  BY <1>1 DEF Whole
<1>5. QED  BY <1>3, <1>4

\* The same after a step.
LEMMA WholeInUseNext ==
  ASSUME NEW fd \in Fd, Sole(stream'), stream'[fd] # Closed, stream'[fd].ino \in Inode
  PROVE  Whole(stream', data')[stream'[fd].ino] = Flushed(stream'[fd], data'[stream'[fd].ino])
BY WholeInUse

\* A file no stream is on is what the host holds.
LEMMA WholeFree ==
  ASSUME NEW st, NEW dt, NEW i \in Inode, \A fd \in Fd : st[fd] = Closed \/ st[fd].ino # i
  PROVE  Whole(st, dt)[i] = dt[i]
BY DEF Whole, InUse

\* Streams that stay on files that stay the same hold the same files.
Alike(st, st2, i) ==
  \A fd \in Fd : \/ st[fd] # Closed /\ st[fd].ino = i
                 \/ st2[fd] # Closed /\ st2[fd].ino = i
                 => st2[fd] = st[fd]

\* A file that keeps its bytes and its streams stays whole.
LEMMA WholeKeeps ==
  ASSUME NEW st, NEW st2, NEW dt, NEW dt2, NEW i \in Inode, Sole(st), Sole(st2),
         dt2[i] = dt[i], Alike(st, st2, i)
  PROVE  Whole(st2, dt2)[i] = Whole(st, dt)[i]
<1>1. CASE \E fd \in Fd : st[fd] # Closed /\ st[fd].ino = i
  <2>1. PICK fd \in Fd : st[fd] # Closed /\ st[fd].ino = i
    BY <1>1
  <2>2. st2[fd] = st[fd]
    BY <2>1 DEF Alike
  <2>3. QED  BY <2>1, <2>2, WholeInUse
<1>2. CASE ~\E fd \in Fd : st[fd] # Closed /\ st[fd].ino = i
  <2>1. \A fd \in Fd : st2[fd] = Closed \/ st2[fd].ino # i
    BY <1>2 DEF Alike
  <2>2. \A fd \in Fd : st[fd] = Closed \/ st[fd].ino # i
    BY <1>2
  <2>3. QED  BY <2>1, <2>2, WholeFree
<1>3. QED  BY <1>1, <1>2

\* A step that gives one FCB's entry and its stream new values, and changes no file but
\* the stream's.
Moves(f, of, fd, t) ==
  /\ of # NotOpen /\ fd \in Fd /\ of.fp = fd /\ t \in Stream
  /\ openFiles' = [openFiles EXCEPT ![f] = of] /\ stream' = [stream EXCEPT ![fd] = t]
  /\ \/ IsOpen(f) /\ openFiles[f].fp = fd /\ stream[fd].ino = t.ino
     \/ fd \in FreeFd /\ Unshared'
  /\ \A i \in Inode \ {t.ino} : data'[i] = data[i]
  /\ Fresh(t, data'[t.ino])

\* Then nothing else moves in the other view: every transfer is such a step, and every
\* open.
LEMMA StreamMoves ==
  ASSUME Careful, NEW f \in Fcb, NEW of, NEW fd, NEW t, Moves(f, of, fd, t)
  PROVE  /\ Unshared' /\ AllFresh'
         /\ Logical' = [Logical EXCEPT ![t.ino] = Flushed(t, data'[t.ino])]
         /\ Joined' = [Joined EXCEPT ![f] = Shown(of, t)]
<1> of # NotOpen /\ fd \in Fd /\ of.fp = fd /\ t \in Stream
  BY DEF Moves
<1>0. /\ openFiles' = [openFiles EXCEPT ![f] = of] /\ stream' = [stream EXCEPT ![fd] = t]
  BY DEF Moves
<1>stream. \/ IsOpen(f) /\ openFiles[f].fp = fd /\ stream[fd].ino = t.ino
           \/ fd \in FreeFd /\ Unshared'
  BY DEF Moves
<1>others. \A i \in Inode \ {t.ino} : data'[i] = data[i]
  BY DEF Moves
<1>1. /\ TypeOK /\ HandleOwnership /\ Closed \notin Stream /\ stream \in [Fd -> Stream \cup {Closed}]
      /\ openFiles \in [Fcb -> OpenFile \cup {NotOpen}]
  BY BdosFilesAssumption DEF Careful, Inv, TypeOK
<1>2. stream'[fd] = t /\ t # Closed /\ \A g \in Fd \ {fd} : stream'[g] = stream[g]
  BY <1>0, <1>1
<1>3. stream[fd] = Closed \/ stream[fd].ino = t.ino
  BY <1>stream DEF FreeFd, Live
<1>4. Sole(stream)
  BY Views DEF Careful
<1>5. Sole(stream')
  <2>1. CASE IsOpen(f) /\ openFiles[f].fp = fd /\ stream[fd].ino = t.ino
    <3>1. stream[fd] # Closed
      BY <1>1, <2>1 DEF HandleOwnership
    <3>2. QED  BY <1>2, <1>4, <2>1, <3>1 DEF Sole
  <2>2. CASE fd \in FreeFd /\ Unshared'
    BY <2>2, Views
  <2>3. QED  BY <1>stream, <2>1, <2>2
<1>6. AllFresh'
  <2>1. ASSUME NEW g \in Fd, stream'[g] # Closed
        PROVE  Fresh(stream'[g], data'[stream'[g].ino])
    <3>1. CASE g = fd
      BY <1>2, <3>1 DEF Moves
    <3>2. CASE g # fd
      <4>1. stream'[g] = stream[g] /\ stream[g] # Closed
        BY <1>2, <2>1, <3>2
      <4>2. stream[g].ino \in Inode /\ stream[g].ino # t.ino
        BY <1>1, <1>2, <1>5, <3>2, <4>1 DEF Sole, Stream
      <4>3. Fresh(stream[g], data[stream[g].ino])
        BY <4>1 DEF Careful, AllFresh, Live
      <4>4. QED  BY <1>others, <4>1, <4>2, <4>3
    <3>3. QED  BY <3>1, <3>2
  <2>2. QED  BY <2>1 DEF AllFresh, Live
<1>7. Whole(stream', data') = [Whole(stream, data) EXCEPT ![t.ino] = Flushed(t, data'[t.ino])]
  <2>1. t.ino \in Inode
    BY DEF Stream
  <2>2. Whole(stream', data')[t.ino] = Flushed(t, data'[t.ino])
    <3>1. stream'[fd] # Closed /\ stream'[fd].ino = t.ino /\ stream'[fd].ino \in Inode /\ fd \in Fd
      BY <1>2, <2>1
    <3>2. Whole(stream', data')[stream'[fd].ino] = Flushed(stream'[fd], data'[stream'[fd].ino])
      BY <1>5, <3>1, WholeInUseNext
    <3>3. QED  BY <1>2, <3>2
  <2>3. ASSUME NEW i \in Inode, i # t.ino PROVE Whole(stream', data')[i] = Whole(stream, data)[i]
    <3>1. data'[i] = data[i]
      BY <1>others, <2>3
    <3>2. Alike(stream, stream', i)
      BY <1>2, <1>3, <2>3 DEF Alike
    <3>3. QED  BY <1>4, <1>5, <2>3, <3>1, <3>2, WholeKeeps
  <2>4. DOMAIN Whole(stream', data') = Inode /\ DOMAIN Whole(stream, data) = Inode
    BY DEF Whole
  <2>5. Whole(stream', data') = [i \in Inode |-> Whole(stream', data')[i]]
        /\ Whole(stream, data) = [i \in Inode |-> Whole(stream, data)[i]]
    BY DEF Whole
  <2> DEFINE W == Whole(stream, data)
             V == Whole(stream', data')
  <2> HIDE DEF W, V
  <2>6. V = [i \in Inode |-> V[i]] /\ W = [i \in Inode |-> W[i]]
        /\ V[t.ino] = Flushed(t, data'[t.ino]) /\ \A i \in Inode : i # t.ino => V[i] = W[i]
    BY <2>2, <2>3, <2>5 DEF W, V
  <2>7. V = [W EXCEPT ![t.ino] = Flushed(t, data'[t.ino])]
    BY <2>1, <2>6
  <2>8. QED  BY <2>7 DEF W, V
<1>8. View(openFiles', stream') = [View(openFiles, stream) EXCEPT ![f] = Shown(of, t)]
  <2>1. openFiles'[f] = of /\ \A g \in Fcb \ {f} : openFiles'[g] = openFiles[g]
    BY <1>0, <1>1
  <2>2. ASSUME NEW g \in Fcb \ {f}, openFiles[g] # NotOpen
        PROVE  stream'[openFiles[g].fp] = stream[openFiles[g].fp]
    <3>1. openFiles[g].fp \in Fd /\ stream[openFiles[g].fp] # Closed
      BY <1>1, <2>2 DEF HandleOwnership, IsOpen, OpenFile
    <3>2. openFiles[g].fp # fd
      BY <1>1, <1>stream, <2>2, <3>1 DEF HandleOwnership, IsOpen, FreeFd, Live
    <3>3. QED  BY <1>2, <3>1, <3>2
  <2> DEFINE W == View(openFiles, stream)
             V == View(openFiles', stream')
  <2>3. V[f] = Shown(of, t)
    BY <1>2, <2>1 DEF View
  <2>4. \A g \in Fcb \ {f} : V[g] = W[g]
    BY <2>1, <2>2 DEF View
  <2>5. V = [g \in Fcb |-> V[g]] /\ W = [g \in Fcb |-> W[g]]
    BY DEF View
  <2> HIDE DEF W, V
  <2>6. V = [W EXCEPT ![f] = Shown(of, t)]
    BY <2>3, <2>4, <2>5
  <2>7. QED  BY <2>6 DEF W, V
<1>9. QED  BY <1>5, <1>6, <1>7, <1>8, Views

\* A step that closes the streams in gone, after writing out what they held back where the
\* file can still be reached, and keeps the other files in use: linked is what has a path
\* afterwards.
LEMMA StreamsClose ==
  ASSUME Careful, NEW gone, NEW linked \in SUBSET Inode,
         \A fd \in Fd : stream'[fd] = IF fd \in gone THEN Closed ELSE stream[fd],
         \A fd \in Live : fd \in gone /\ stream[fd].ino \in linked
            => data'[stream[fd].ino] = Flushed(stream[fd], data[stream[fd].ino]),
         \A i \in linked \cup InUse(stream') :
            (\A fd \in Live : fd \in gone => stream[fd].ino # i) => data'[i] = data[i]
  PROVE  /\ Unshared' /\ AllFresh'
         /\ \A i \in linked \cup InUse(stream') : Logical'[i] = Logical[i]
<1>1. /\ stream \in [Fd -> Stream \cup {Closed}] /\ Sole(stream)
  BY Views DEF Careful, Inv, TypeOK
<1>2. \A fd \in Fd : stream'[fd] # Closed => fd \notin gone /\ stream'[fd] = stream[fd] /\ fd \in Live
  BY DEF Live
<1>3. Sole(stream')
  BY <1>1, <1>2 DEF Sole
<1>4. InUse(stream') \subseteq Inode
  BY <1>1, <1>2 DEF InUse, Live, Stream
<1>5. \A fd \in Fd : stream'[fd] # Closed => data'[stream[fd].ino] = data[stream[fd].ino]
  <2>1. SUFFICES ASSUME NEW fd \in Fd, stream'[fd] # Closed
                 PROVE  data'[stream[fd].ino] = data[stream[fd].ino]
    OBVIOUS
  <2>2. fd \in Live /\ stream'[fd] = stream[fd] /\ fd \notin gone
    BY <1>2, <2>1
  <2>3. stream[fd].ino \in InUse(stream')
    BY <2>1, <2>2 DEF InUse
  <2>4. \A g \in Live : g \in gone => stream[g].ino # stream[fd].ino
    BY <1>1, <2>2 DEF Sole, Live
  <2>5. QED  BY <2>3, <2>4
<1>6. AllFresh'
  BY <1>2, <1>5 DEF Careful, AllFresh, Live
<1>7. ASSUME NEW i \in linked \cup InUse(stream')
      PROVE  Whole(stream', data')[i] = Whole(stream, data)[i]
  <2>1. i \in Inode
    BY <1>4
  <2>2. CASE \E fd \in Live : fd \in gone /\ stream[fd].ino = i
    <3>1. PICK fd \in Live : fd \in gone /\ stream[fd].ino = i
      BY <2>2
    <3>2. fd \in Fd /\ stream[fd] # Closed
      BY <3>1 DEF Live
    <3>3. \A g \in Fd : stream'[g] = Closed \/ stream'[g].ino # i
      BY <1>1, <1>2, <3>1, <3>2 DEF Sole, Live
    <3>4. i \in linked
      BY <1>7, <3>3 DEF InUse
    <3>5. data'[i] = Flushed(stream[fd], data[i])
      BY <3>1, <3>4
    <3>6. QED  BY <1>1, <2>1, <3>1, <3>2, <3>3, <3>5, WholeFree, WholeInUse
  <2>3. CASE \A fd \in Live : fd \in gone => stream[fd].ino # i
    <3>1. data'[i] = data[i]
      BY <1>7, <2>3
    <3>2. Alike(stream, stream', i)
      BY <1>2, <2>3 DEF Alike, Live
    <3>3. QED  BY <1>1, <1>3, <2>1, <3>1, <3>2, WholeKeeps
  <2>4. QED  BY <2>2, <2>3
<1>8. QED  BY <1>3, <1>6, <1>7, Views

\* An FCB is open in both views or in neither.
LEMMA OpenView ==
  ASSUME Careful, NEW f \in Fcb
  PROVE  /\ IsOpen(f) => /\ Joined[f] = Shown(openFiles[f], stream[openFiles[f].fp])
                         /\ Joined[f] # NotOpen
         /\ ~IsOpen(f) => Joined[f] = NotOpen
         /\ Direct!IsOpen(f) <=> IsOpen(f)
<1>1. ASSUME IsOpen(f) PROVE Joined[f] = Shown(openFiles[f], stream[openFiles[f].fp])
  BY <1>1, Views DEF View, IsOpen
<1>2. ASSUME IsOpen(f) PROVE Joined[f] # NotOpen
  <2>1. openFiles[f] \in OpenFile /\ stream[openFiles[f].fp] \in Stream
    BY <1>2, OpenGood DEF Careful, GoodStream
  <2>2. Shown(openFiles[f], stream[openFiles[f].fp]) \in
          [ino : Inode, off : Nat, writable : BOOLEAN, mode : Mode, eol : BOOLEAN,
           eofSeen : BOOLEAN]
    BY <2>1 DEF Shown, OpenFile, Stream
  <2>3. QED  BY <1>1, <1>2, <2>2, ViewAssumption
<1>3. ASSUME ~IsOpen(f) PROVE Joined[f] = NotOpen
  BY <1>3, Views DEF View, IsOpen
<1>4. QED  BY <1>1, <1>2, <1>3 DEF Direct!IsOpen

\* A step that changes no stream, file or entry changes nothing in the other view.
LEMMA ViewStays ==
  ASSUME Careful, UNCHANGED <<stream, data, openFiles>>
  PROVE  Unshared' /\ AllFresh' /\ Logical' = Logical /\ Joined' = Joined
BY Views DEF Careful, AllFresh, Live

\* What an open FCB's stream is, and what its file holds.
LEMMA OpenStream ==
  ASSUME Careful, NEW f \in Fcb, IsOpen(f), NEW s, s = stream[openFiles[f].fp]
  PROVE  /\ openFiles[f] \in OpenFile /\ openFiles[f].fp \in Fd /\ GoodStream(s) /\ s \in Stream
         /\ s.ino \in Inode /\ data[s.ino] \in Seq(Byte) /\ Fresh(s, data[s.ino])
         /\ Logical[s.ino] = Flushed(s, data[s.ino])
<1>1. /\ openFiles[f] \in OpenFile /\ openFiles[f].fp \in Live /\ openFiles[f].fp \in Fd
      /\ GoodStream(s) /\ s.ino \in Inode
  BY OpenGood DEF Careful, Live
<1>2. Fresh(s, data[s.ino]) /\ data[s.ino] \in Seq(Byte)
  BY <1>1 DEF Careful, AllFresh, Inv, TypeOK, Contents
<1>3. Sole(stream) /\ s # Closed
  BY <1>1, Views DEF Careful, Live
<1>4. QED  BY <1>1, <1>2, <1>3, WholeInUse, Views DEF GoodStream

\* A view that moved, field by field.
ViewAt(j, off, eofSeen) == [j EXCEPT !.off = off, !.eofSeen = eofSeen]
ViewOff(j, off) == [j EXCEPT !.off = off]

\* A view whose position alone moved.
LEMMA ShownOff ==
  ASSUME NEW of, NEW s, NEW j, j = Shown(of, s), NEW off
  PROVE  ViewOff(j, off) =
           [ino |-> s.ino, off |-> off, writable |-> s.writable, mode |-> of.mode,
            eol |-> of.eol, eofSeen |-> of.eofSeen]
BY DEF Shown, ViewOff

\* A view whose position and end-of-file mark moved.
LEMMA ShownAt ==
  ASSUME NEW of, NEW s, NEW j, j = Shown(of, s), NEW off, NEW eofSeen
  PROVE  ViewAt(j, off, eofSeen) =
           [ino |-> s.ino, off |-> off, writable |-> s.writable, mode |-> of.mode,
            eol |-> of.eol, eofSeen |-> eofSeen]
<1> DEFINE k == ViewOff(j, off)
<1>1. ViewAt(j, off, eofSeen) = [k EXCEPT !.eofSeen = eofSeen]
  BY DEF ViewAt, ViewOff
<1>2. k = [ino |-> s.ino, off |-> off, writable |-> s.writable, mode |-> of.mode, eol |-> of.eol,
           eofSeen |-> of.eofSeen]
  BY ShownOff
<1> HIDE DEF k
<1>3. QED  BY <1>1, <1>2

---------------------------------------------------------------------------
(* Transfers                                                                *)

\* fn 20: the bytes a sequential read delivers are those of the file with everything
\* written so far, wherever they come from (1571-1600).
LEMMA ReadRefined ==
  ASSUME Careful, NEW f \in Fcb, ReadSequential(f)
  PROVE  Unshared' /\ AllFresh' /\ Direct!ReadSequential(f)
<1>1. CASE ~IsOpen(f) /\ NotOpenError
  <2>1. UNCHANGED <<stream, data, openFiles, dir, fileMap, fcb, dma>> /\ a' = Failure
    BY <1>1 DEF NotOpenError, host
  <2>2. Unshared' /\ AllFresh' /\ Logical' = Logical /\ Joined' = Joined
    BY <2>1, ViewStays
  <2>3. QED  BY <1>1, <2>1, <2>2, OpenView DEF Direct!ReadSequential, Direct!Fails, Direct!Failure, Failure
<1>2. CASE IsOpen(f)
  <2> DEFINE of == openFiles[f]
             fd == of.fp
             s  == stream[fd]
             d  == Flushed(s, data[s.ino])
             t  == AfterFlush(s)
             r  == ReadWithConversion(of, Seen(t, d))
             u  == Advance(t, d, r.used, r.asked)
             j  == Joined[f]
             dr == Direct!ReadWithConversion(j, Direct!Rest(j, j.off))
  <2>1. /\ of \in OpenFile /\ of # NotOpen /\ fd \in Fd /\ GoodStream(s) /\ s \in Stream /\ s.ino \in Inode
        /\ data[s.ino] \in Seq(Byte) /\ Fresh(s, data[s.ino]) /\ Logical[s.ino] = d
    BY <1>2, OpenStream DEF IsOpen
  <2>2. /\ d \in Seq(Byte) /\ GoodStream(t) /\ t.pend = <<>> /\ Fresh(t, d) /\ t.off = s.off /\ t.ino = s.ino
        /\ t.writable = s.writable
    BY <2>1, FlushedType, AfterFlushGood, AfterFlushFresh
  <2>3. Seen(t, d) = SubSeq(d, s.off + 1, Len(d)) /\ Seen(t, d) \in Seq(Byte)
    BY Zenon, <2>2, SeenIsRest, SeenType
  <2>4. j = Shown(of, s)
    BY <1>2, OpenView
  <2>5. j.ino = s.ino /\ j.off = s.off /\ j.mode = of.mode /\ j.eol = of.eol /\ j.eofSeen = of.eofSeen
    BY <2>4 DEF Shown
  <2>6. Direct!Rest(j, j.off) = Seen(t, d)
    BY Zenon, <2>1, <2>3, <2>5 DEF Direct!Rest
  <2>7. dr = r
    BY <2>5, <2>6, SameReading DEF ReadWithConversion, Converts
  <2>8. IsReadResult(r, Seen(t, d))
    BY Zenon, <2>3, ReadType
  <2>9. GoodStream(u) /\ Fresh(u, d)
    BY Zenon, <2>2, <2>8, AdvanceGood, AdvanceFresh DEF IsReadResult
  <2>10. u \in Stream /\ u.ino = s.ino /\ u.pend = <<>> /\ u.writable = s.writable /\ u.off = s.off + r.used
    <3>1. t \in Stream
      BY <2>2 DEF GoodStream
    <3> HIDE DEF of, fd, s, d, t, r
    <3>2. /\ u.pend = t.pend /\ u.ino = t.ino /\ u.writable = t.writable
          /\ u.off = t.off + r.used
      BY <3>1, AdvanceKeeps
    <3> HIDE DEF u
    <3>3. QED  BY <2>2, <2>9, <3>2 DEF GoodStream
  <2>11. Flushed(u, d) = d
    BY Zenon, <2>2, <2>9, <2>10, FlushedLength
  <2>12. /\ fcb' = NextCr(f) /\ UNCHANGED <<dir, fileMap>>
         /\ \/ of.eofSeen /\ a' = AtEof /\ UNCHANGED <<data, stream, openFiles, dma>>
            \/ /\ ~of.eofSeen
               /\ data' = [data EXCEPT ![s.ino] = d]
               /\ stream' = [stream EXCEPT ![fd] = u]
               /\ openFiles' = [openFiles EXCEPT ![f].eofSeen = r.atEof]
               /\ IF r.out = <<>> \/ r.atEof THEN a' = AtEof /\ dma' = dma
                  ELSE a' = Success /\ dma' = Pad(r.out)
    BY Zenon, <1>2 DEF ReadSequential
  <2>13. Direct!IsOpen(f) /\ Direct!NextCr(f) = NextCr(f)
    BY <1>2, OpenView DEF Direct!NextCr, NextCr
  <2> HIDE DEF of, fd, s, d, t, r, u, j, dr
  <2>14. CASE of.eofSeen /\ a' = AtEof /\ UNCHANGED <<data, stream, openFiles, dma>>
    <3>1. Unshared' /\ AllFresh' /\ Logical' = Logical /\ Joined' = Joined
      BY <2>14, ViewStays
    <3>2. j.eofSeen
      BY <2>5, <2>14
    <3>3. QED  BY <2>12, <2>13, <2>14, <3>1, <3>2 DEF Direct!ReadSequential, Direct!AtEof, AtEof, j
  <2>15. CASE ~of.eofSeen
    <3> DEFINE of2 == [of EXCEPT !.eofSeen = r.atEof]
               j2 == [j EXCEPT !.off = j.off + r.used, !.eofSeen = r.atEof]
    <3>1. of2.fp = fd /\ of2 \in OpenFile /\ of2 # NotOpen
      BY <2>1, <2>8, NotOpenAssumption DEF OpenFile, IsReadResult, fd
    <3>2. openFiles' = [openFiles EXCEPT ![f] = of2] /\ stream' = [stream EXCEPT ![fd] = u]
      BY <2>12, <2>15 DEF of
    <3>3. data'[u.ino] = d /\ \A i \in Inode \ {u.ino} : data'[i] = data[i]
      BY <2>1, <2>10, <2>12, <2>15 DEF Careful, Inv, TypeOK, Contents
    <3>4. IsOpen(f) /\ openFiles[f].fp = fd /\ stream[fd].ino = u.ino
      BY <1>2, <2>10 DEF fd, of, s
    <3>5. Shown(of2, u) = j2
      <4>1. of2.mode = of.mode /\ of2.eol = of.eol /\ of2.eofSeen = r.atEof
        BY <2>1 DEF OpenFile
      <4>2. j2 = [ino |-> s.ino, off |-> j.off + r.used, writable |-> s.writable, mode |-> of.mode,
                  eol |-> of.eol, eofSeen |-> r.atEof]
        <5> DEFINE p == j.off + r.used
                   e == r.atEof
        <5> HIDE DEF p, e
        <5>1. ViewAt(j, p, e) =
                [ino |-> s.ino, off |-> p, writable |-> s.writable, mode |-> of.mode,
                 eol |-> of.eol, eofSeen |-> e]
          BY <2>4, ShownAt
        <5>2. QED  BY <5>1 DEF p, e, ViewAt
      <4>3. QED  BY <2>5, <2>10, <4>1, <4>2 DEF Shown
    <3> HIDE DEF of2, j2
    <3>moves. Moves(f, of2, fd, u)
      BY <2>1, <2>9, <2>10, <3>1, <3>2, <3>3, <3>4 DEF Moves
    <3>6. /\ Unshared' /\ AllFresh'
          /\ Logical' = [Logical EXCEPT ![u.ino] = Flushed(u, data'[u.ino])]
          /\ Joined' = [Joined EXCEPT ![f] = Shown(of2, u)]
      BY <3>moves, StreamMoves
    <3>7. Logical' = Logical
      <4>1. Logical \in [Inode -> {Logical[i] : i \in Inode}]
        BY DEF Logical
      <4>2. QED  BY <2>1, <2>10, <2>11, <3>3, <3>6, <4>1
    <3>8. Joined' = [Joined EXCEPT ![f] = j2]
      BY <3>5, <3>6
    <3>9. IF dr.out = <<>> \/ dr.atEof THEN a' = AtEof /\ dma' = dma
          ELSE a' = Success /\ dma' = Direct!Pad(dr.out)
      BY <2>7, <2>12, <2>15, SameText
    <3>10. ~j.eofSeen
      BY <2>5, <2>15
    <3>11. /\ Direct!IsOpen(f)
           /\ IF j.eofSeen THEN a' = AtEof /\ UNCHANGED <<Joined, dma>>
              ELSE /\ Joined' = [Joined EXCEPT ![f] = [j EXCEPT !.off = j.off + dr.used, !.eofSeen = dr.atEof]]
                   /\ IF dr.out = <<>> \/ dr.atEof THEN a' = AtEof /\ dma' = dma
                      ELSE a' = Success /\ dma' = Direct!Pad(dr.out)
           /\ fcb' = Direct!NextCr(f) /\ UNCHANGED <<dir, Logical, fileMap>>
      BY <2>7, <2>12, <2>13, <3>7, <3>8, <3>9, <3>10 DEF j2
    <3>12. Direct!ReadSequential(f)
      BY <3>11 DEF Direct!ReadSequential, Direct!AtEof, AtEof, Direct!Success, Success, j, dr
    <3>13. QED  BY <3>6, <3>12
  <2>16. QED  BY <2>12, <2>14, <2>15
<1>3. QED  BY <1>1, <1>2 DEF ReadSequential

\* What the two kinds of transfer do to the other view.
Uses(f, s, u, d) ==
  /\ IsOpen(f) /\ s = stream[openFiles[f].fp]
  /\ GoodStream(u) /\ u.ino = s.ino /\ u.writable = s.writable /\ Fresh(u, d)
  /\ data' = [data EXCEPT ![s.ino] = d]
  /\ stream' = [stream EXCEPT ![openFiles[f].fp] = u] /\ openFiles' = openFiles

\* Then only the position moves, and the file becomes what the stream makes of it.
LEMMA StreamUsed ==
  ASSUME Careful, NEW f \in Fcb, NEW s, NEW u, NEW d, Uses(f, s, u, d)
  PROVE  /\ Unshared' /\ AllFresh'
         /\ Logical' = [Logical EXCEPT ![s.ino] = Flushed(u, d)]
         /\ Joined' = [Joined EXCEPT ![f].off = u.off]
<1> DEFINE of == openFiles[f]
           fd == of.fp
<1> /\ IsOpen(f) /\ s = stream[openFiles[f].fp]
    /\ GoodStream(u) /\ u.ino = s.ino /\ u.writable = s.writable /\ Fresh(u, d)
  BY DEF Uses
<1>1. /\ of \in OpenFile /\ of # NotOpen /\ fd \in Fd /\ s.ino \in Inode
  BY OpenStream DEF IsOpen
<1>2. data'[u.ino] = d /\ \A i \in Inode \ {u.ino} : data'[i] = data[i]
  BY <1>1 DEF Uses, Careful, Inv, TypeOK, Contents
<1>3. openFiles' = [openFiles EXCEPT ![f] = of]
  BY DEF Uses, Careful, Inv, TypeOK
<1>4. Moves(f, of, fd, u)
  BY <1>1, <1>2, <1>3 DEF Moves, Uses, GoodStream
<1>5. Joined[f] = Shown(of, s) /\ Joined[f] # NotOpen
  BY OpenView
<1> HIDE DEF of, fd
<1>6. /\ Unshared' /\ AllFresh'
      /\ Logical' = [Logical EXCEPT ![u.ino] = Flushed(u, data'[u.ino])]
      /\ Joined' = [Joined EXCEPT ![f] = Shown(of, u)]
  BY <1>4, StreamMoves
<1>7. ViewOff(Joined[f], u.off) = Shown(of, u)
  BY <1>5, ShownOff DEF Shown
<1>8. Joined' = [Joined EXCEPT ![f].off = u.off]
  BY <1>6, <1>7 DEF ViewOff
<1>9. QED  BY <1>2, <1>6, <1>8

\* Replacing what a file holds by itself changes nothing.
LEMMA LogicalSame ==
  ASSUME NEW i, NEW w, w = Logical[i]
  PROVE  Logical = [Logical EXCEPT ![i] = w]
<1>1. Logical = [j \in Inode |-> Logical[j]]
  BY DEF Logical
<1> DEFINE L == Logical
<1> HIDE DEF L
<1>2. L = [j \in Inode |-> L[j]] /\ w = L[i]
  BY <1>1 DEF L
<1>3. L = [L EXCEPT ![i] = w]
  BY <1>2
<1>4. QED  BY <1>3 DEF L

\* A transfer on an FCB that is not open fails in both views.
LEMMA ErrorRefined ==
  ASSUME Careful, NEW f \in Fcb, ~IsOpen(f), NotOpenError
  PROVE  Unshared' /\ AllFresh' /\ Direct!Fails(Failure) /\ ~Direct!IsOpen(f)
<1>1. UNCHANGED <<stream, data, openFiles, dir, fileMap, fcb, dma>> /\ a' = Failure
  BY DEF NotOpenError, host
<1>2. Unshared' /\ AllFresh' /\ Logical' = Logical /\ Joined' = Joined
  BY <1>1, ViewStays
<1>3. QED  BY <1>1, <1>2, OpenView DEF Direct!Fails

\* Where a random transfer starts, and what is there.
LEMMA SeekRefined ==
  ASSUME Careful, NEW f \in Fcb, IsOpen(f), NEW s, s = stream[openFiles[f].fp],
         NEW d, d = Flushed(s, data[s.ino]), NEW at, at = SeekTo(AfterFlush(s), Position(f))
  PROVE  /\ GoodStream(s) /\ GoodStream(at) /\ at.pend = <<>> /\ at.ino = s.ino /\ at.writable = s.writable
         /\ Position(f) \in Nat /\ at.off = Position(f) /\ d \in Seq(Byte) /\ Fresh(at, d)
         /\ Seen(at, d) = SubSeq(d, Position(f) + 1, Len(d)) /\ Seen(at, d) \in Seq(Byte)
         /\ Logical[s.ino] = d /\ Joined[f].ino = s.ino /\ Joined[f].writable = s.writable
         /\ s.ino \in Inode /\ Direct!Position(f) = Position(f)
<1>1. /\ GoodStream(s) /\ s.ino \in Inode /\ data[s.ino] \in Seq(Byte) /\ Fresh(s, data[s.ino])
      /\ Logical[s.ino] = d
  BY OpenStream
<1> DEFINE t == AfterFlush(s)
<1>2. /\ d \in Seq(Byte) /\ GoodStream(t) /\ t.pend = <<>> /\ Fresh(t, d) /\ t.ino = s.ino
      /\ t.writable = s.writable
  BY <1>1, FlushedType, AfterFlushGood, AfterFlushFresh
<1>3. Position(f) \in Nat
  BY PositionType DEF Careful, Inv
<1> HIDE DEF t
<1>4. /\ GoodStream(at) /\ at.pend = <<>> /\ at.ino = s.ino /\ at.writable = s.writable
      /\ at.off = Position(f) /\ Fresh(at, d)
  BY <1>2, <1>3, SeekToGood, SeekToFresh DEF t
<1>5. Seen(at, d) = SubSeq(d, Position(f) + 1, Len(d)) /\ Seen(at, d) \in Seq(Byte)
  BY Zenon, <1>2, <1>4, SeenIsRest, SeenType
<1>6. Joined[f].ino = s.ino /\ Joined[f].writable = s.writable
  <2>1. Joined[f] = Shown(openFiles[f], s)
    BY OpenView
  <2>2. QED  BY <2>1 DEF Shown
<1>7. QED  BY Zenon, <1>1, <1>2, <1>3, <1>4, <1>5, <1>6 DEF Direct!Position, Position

\* fn 33: a random read sees every earlier write (1690-1726).
LEMMA ReadRandomRefined ==
  ASSUME Careful, NEW f \in Fcb, ReadRandom(f)
  PROVE  Unshared' /\ AllFresh' /\ Direct!ReadRandom(f)
<1>1. CASE ~IsOpen(f) /\ NotOpenError
  BY <1>1, ErrorRefined DEF Direct!ReadRandom, Direct!Failure, Failure
<1>2. CASE IsOpen(f)
  <2> DEFINE fd   == openFiles[f].fp
             s    == stream[fd]
             d    == Flushed(s, data[s.ino])
             at   == SeekTo(AfterFlush(s), Position(f))
             seen == Seen(at, d)
             used == AtMost(RecSize, Len(seen))
             u    == Advance(at, d, used, RecSize)
             rest == Direct!Rest(Joined[f], Direct!Position(f))
  <2>3. /\ UNCHANGED <<dir, openFiles, fileMap, fcb>>
        /\ data' = [data EXCEPT ![s.ino] = d] /\ stream' = [stream EXCEPT ![fd] = u]
        /\ IF used = 0 THEN a' = AtEof /\ dma' = dma
           ELSE a' = Success /\ dma' = Pad(SubSeq(seen, 1, used))
    BY <1>2 DEF ReadRandom
  <2>0. s = stream[openFiles[f].fp] /\ d = Flushed(s, data[s.ino]) /\ at = SeekTo(AfterFlush(s), Position(f))
    OBVIOUS
  <2> HIDE DEF s, d, at, fd
  <2>at. /\ GoodStream(s) /\ GoodStream(at) /\ at.pend = <<>> /\ at.ino = s.ino /\ at.writable = s.writable
         /\ Position(f) \in Nat /\ at.off = Position(f) /\ d \in Seq(Byte) /\ Fresh(at, d)
         /\ Logical[s.ino] = d /\ Joined[f].ino = s.ino
         /\ s.ino \in Inode /\ Direct!Position(f) = Position(f)
    BY <1>2, <2>0, SeekRefined
  <2>rest. Seen(at, d) = SubSeq(d, Position(f) + 1, Len(d)) /\ Seen(at, d) \in Seq(Byte)
    BY ZenonT(60), <1>2, <2>0, SeekRefined
  <2>1. /\ GoodStream(s) /\ GoodStream(at) /\ at.pend = <<>> /\ at.ino = s.ino /\ at.writable = s.writable
        /\ Position(f) \in Nat /\ at.off = Position(f) /\ d \in Seq(Byte) /\ Fresh(at, d)
        /\ seen = SubSeq(d, Position(f) + 1, Len(d)) /\ seen \in Seq(Byte)
        /\ Logical[s.ino] = d /\ Joined[f].ino = s.ino
        /\ s.ino \in Inode /\ Direct!Position(f) = Position(f)
    BY <2>at, <2>rest
  <2>2. rest = seen
    BY <2>1 DEF Direct!Rest
  <2>4. u.pend = at.pend /\ u.ino = at.ino /\ u.writable = at.writable /\ u.off = at.off + used
    <3>1. \A x, y : LET v == Advance(at, d, x, y)
                    IN  /\ v.pend = at.pend /\ v.ino = at.ino /\ v.writable = at.writable
                        /\ v.off = at.off + x
      BY <2>1, AdvanceKeeps DEF GoodStream
    <3> HIDE DEF seen, used
    <3>2. QED  BY <3>1
  <2> HIDE DEF rest
  <2>5. /\ used \in 0..Len(Seen(at, d)) /\ used <= RecSize /\ RecSize \in Nat
        /\ RecSize <= used + 1 \/ used = Len(Seen(at, d))
    BY <2>1, LenProperties, RecSizeAssumption DEF AtMost
  <2> HIDE DEF used
  <2>6. GoodStream(u) /\ Fresh(u, d)
    BY <2>1, <2>5, AdvanceGood, AdvanceFresh
  <2> HIDE DEF seen, u
  <2>7. Flushed(u, d) = d
    BY <2>1, <2>4, <2>6, FlushedLength
  <2>8. /\ Unshared' /\ AllFresh' /\ Logical' = [Logical EXCEPT ![s.ino] = Flushed(u, d)]
        /\ Joined' = [Joined EXCEPT ![f].off = u.off]
    <3>1. Uses(f, s, u, d)
      BY <1>2, <2>1, <2>3, <2>4, <2>6 DEF s, fd, Uses
    <3>2. QED  BY <3>1, StreamUsed
  <2>9. Logical' = Logical
    BY <2>1, <2>7, <2>8, LogicalSame
  <2>10. Direct!AtMost(RecSize, Len(rest)) = used
    BY <2>2, SameHost DEF used
  <2>11. Joined' = [Joined EXCEPT ![f].off = Direct!Position(f) + Direct!AtMost(RecSize, Len(rest))]
    BY <2>1, <2>4, <2>8, <2>10
  <2>12. IF Direct!AtMost(RecSize, Len(rest)) = 0 THEN a' = AtEof /\ dma' = dma
         ELSE a' = Success /\ dma' = Direct!Pad(SubSeq(rest, 1, Direct!AtMost(RecSize, Len(rest))))
    BY <2>2, <2>3, <2>10, SameText
  <2>13. Direct!ReadRandom(f)
    BY <1>2, <2>3, <2>9, <2>11, <2>12, OpenView
      DEF Direct!ReadRandom, rest, Direct!AtEof, AtEof, Direct!Success, Success
  <2>14. QED  BY <2>8, <2>13
<1>3. QED  BY <1>1, <1>2 DEF ReadRandom

\* fn 34 and fn 40: a random write changes the file at its record only (1728-1761).
LEMMA WriteRandomRefined ==
  ASSUME Careful, NEW f \in Fcb, WriteRandom(f)
  PROVE  Unshared' /\ AllFresh' /\ Direct!WriteRandom(f)
<1>1. CASE ~IsOpen(f) /\ NotOpenError
  BY <1>1, ErrorRefined DEF Direct!WriteRandom, Direct!Failure, Failure
<1>2. CASE IsOpen(f)
  <2> DEFINE fd   == openFiles[f].fp
             s    == stream[fd]
             d    == Flushed(s, data[s.ino])
             at   == SeekTo(AfterFlush(s), Position(f))
             put  == IF s.writable THEN Put(at, dma) ELSE at
             out  == IF s.writable THEN dma ELSE <<>>
             e    == Flushed(put, d)
             u    == Synced(put)
  <2>0. s = stream[openFiles[f].fp] /\ d = Flushed(s, data[s.ino]) /\ at = SeekTo(AfterFlush(s), Position(f))
    OBVIOUS
  <2>2. /\ UNCHANGED <<dir, openFiles, fileMap, fcb, dma>>
        /\ data' = [data EXCEPT ![s.ino] = e] /\ stream' = [stream EXCEPT ![fd] = u]
        /\ a' = IF s.writable THEN Success ELSE Failure
    BY <1>2 DEF WriteRandom
  <2> HIDE DEF s, d, at, fd
  <2>1. /\ GoodStream(s) /\ GoodStream(at) /\ at.pend = <<>> /\ at.ino = s.ino /\ at.writable = s.writable
        /\ Position(f) \in Nat /\ at.off = Position(f) /\ d \in Seq(Byte) /\ Fresh(at, d)
        /\ Logical[s.ino] = d /\ Joined[f].ino = s.ino /\ Joined[f].writable = s.writable
        /\ s.ino \in Inode /\ Direct!Position(f) = Position(f)
    BY <1>2, <2>0, SeekRefined
  <2>3. dma \in Seq(Byte) /\ <<>> \in Seq(Byte) /\ Len(<<>>) = 0
    BY RecordIsSeq, EmptySeq DEF Careful, Inv, TypeOK
  <2>4. /\ GoodStream(put) /\ Fresh(put, d) /\ put.ino = s.ino /\ put.writable = s.writable
        /\ put.off = Position(f) + Len(out) /\ e = Overwrite(d, Position(f), out)
    <3>1. CASE s.writable
      <4>1. put = Put(at, dma) /\ out = dma
        BY <3>1
      <4>2. GoodStream(put) /\ Fresh(put, d) /\ put.ino = s.ino
        BY <2>1, <2>3, <3>1, <4>1, PutGood, PutFresh
      <4>3. put.off = at.off + Len(dma) /\ put.writable = at.writable
        BY <2>1, <2>3, <4>1, PutFields DEF GoodStream
      <4>4. Flushed(at, d) = d
        BY <2>1, FlushedLength
      <4>5. Flushed(put, d) = Overwrite(d, Position(f), dma)
        BY <2>1, <2>3, <4>1, <4>4, FlushedPut
      <4>6. QED  BY <2>1, <4>1, <4>2, <4>3, <4>5
    <3>2. CASE ~s.writable
      <4>1. put = at /\ out = <<>>
        BY <3>2
      <4>2. Flushed(at, d) = d
        BY <2>1, FlushedLength
      <4>3. Overwrite(d, Position(f), <<>>) = d
        BY DEF Overwrite
      <4>4. Position(f) + Len(<<>>) = Position(f)
        BY <2>1, <2>3
      <4>5. QED  BY <2>1, <4>1, <4>2, <4>3, <4>4
    <3>3. QED  BY <3>1, <3>2
  <2> HIDE DEF put
  <2>5. /\ GoodStream(u) /\ Fresh(u, e) /\ u.ino = s.ino /\ u.writable = s.writable
        /\ u.off = Position(f) + Len(out) /\ u.pend = <<>> /\ e \in Seq(Byte)
    BY <2>1, <2>4, SyncedGood, SyncedFresh, FlushedType
  <2> HIDE DEF e, u
  <2>6. Flushed(u, e) = e
    BY <2>5, FlushedLength
  <2>7. /\ Unshared' /\ AllFresh' /\ Logical' = [Logical EXCEPT ![s.ino] = Flushed(u, e)]
        /\ Joined' = [Joined EXCEPT ![f].off = u.off]
    <3>1. Uses(f, s, u, e)
      BY <1>2, <2>1, <2>2, <2>5 DEF s, fd, Uses
    <3>2. QED  BY <3>1, StreamUsed
  <2> DEFINE of == Joined[f]
             dout == IF of.writable THEN dma ELSE <<>>
  <2>8. dout = out
    BY <2>1
  <2>9. Logical' = [Logical EXCEPT ![of.ino] = Direct!Overwrite(@, Direct!Position(f), dout)]
    BY <2>1, <2>4, <2>6, <2>7, <2>8, SameHost
  <2>10. Joined' = [Joined EXCEPT ![f].off = Direct!Position(f) + Len(dout)]
    BY <2>1, <2>5, <2>7, <2>8
  <2>11. a' = IF of.writable THEN Success ELSE Failure
    BY <2>1, <2>2
  <2>12. Direct!WriteRandom(f)
    BY <1>2, <2>2, <2>9, <2>10, <2>11, OpenView
      DEF Direct!WriteRandom, Direct!Failure, Failure, Direct!Success, Success
  <2>13. QED  BY <2>7, <2>12
<1>3. QED  BY <1>1, <1>2 DEF WriteRandom

---------------------------------------------------------------------------
(* Closing                                                                  *)

\* What DirectFiles can reach has a path or is in use.
LEMMA ReachedUsed ==
  ASSUME NEW d, NEW table, NEW st,
         \A f \in Fcb : table[f] # NotOpen => table[f].fp \in Fd /\ st[table[f].fp] # Closed
  PROVE  Direct!Reached(d, View(table, st)) \subseteq Linked(d) \cup InUse(st)
<1> DEFINE V == View(table, st)
<1>1. ASSUME NEW f \in Fcb, V[f] # NotOpen PROVE V[f].ino \in InUse(st)
  <2>1. table[f] # NotOpen /\ V[f] = Shown(table[f], st[table[f].fp])
    BY <1>1 DEF View
  <2>2. V[f].ino = st[table[f].fp].ino
    BY <2>1 DEF Shown
  <2>3. QED  BY <2>1, <2>2 DEF InUse
<1> HIDE DEF V
<1>2. Direct!Reached(d, V) \subseteq Linked(d) \cup InUse(st)
  BY <1>1, SameHost DEF Direct!Reached, Direct!Fcb, Fcb
<1>3. QED  BY <1>2 DEF V

\* A step that keeps what is linked or in use keeps what DirectFiles can reach.
LEMMA KeepsFiles ==
  ASSUME Inv', \A i \in Linked(dir') \cup InUse(stream') : Logical'[i] = Logical[i]
  PROVE  Direct!Keep
<1>1. \A f \in Fcb : openFiles'[f] # NotOpen =>
        openFiles'[f].fp \in Fd /\ stream'[openFiles'[f].fp] # Closed
  BY DEF Inv, TypeOK, HandleOwnership, IsOpen, OpenFile
<1>2. Direct!Reached(dir', View(openFiles', stream')) \subseteq Linked(dir') \cup InUse(stream')
  BY <1>1, ReachedUsed
<1>3. QED  BY <1>2, Views DEF Direct!Keep

\* A step that changes no file keeps them.
LEMMA KeepsAll ==
  ASSUME Logical' = Logical
  PROVE  Direct!Keep
BY DEF Direct!Keep

\* The view after some streams were closed, and their entries erased.
LEMMA ViewCloses ==
  ASSUME Careful, NEW gone,
         \A fd \in Fd : fd \notin gone => stream'[fd] = stream[fd],
         openFiles' = [f \in Fcb |-> IF IsOpen(f) /\ openFiles[f].fp \in gone THEN NotOpen ELSE openFiles[f]]
  PROVE  Joined' = [f \in Fcb |-> IF IsOpen(f) /\ openFiles[f].fp \in gone THEN NotOpen ELSE Joined[f]]
<1>1. \A f \in Fcb : IsOpen(f) => openFiles[f].fp \in Fd
  BY OpenGood DEF Careful, Live
<1>2. \A f \in Fcb : Joined'[f] = IF IsOpen(f) /\ openFiles[f].fp \in gone THEN NotOpen ELSE Joined[f]
  BY <1>1, Views DEF View, IsOpen
<1>3. Joined' = [f \in Fcb |-> Joined'[f]]
  BY Views DEF View
<1>4. QED  BY <1>2, <1>3

\* fn 16: closing changes no file: what the stream held back the program thought written
\* (1537-1569).
LEMMA CloseRefined ==
  ASSUME Careful, Inv', NEW f \in Fcb, Close(f)
  PROVE  Unshared' /\ AllFresh' /\ Direct!Close(f)
<1>0. Joined = [g \in Fcb |-> Joined[g]] /\ openFiles = [g \in Fcb |-> openFiles[g]]
  BY DEF Joined, Careful, Inv, TypeOK
<1>1. CASE ~IsOpen(f)
  <2>1. UNCHANGED <<stream, data, openFiles, dir, fileMap, fcb, dma>> /\ a' = Success
    BY <1>1 DEF Close
  <2>2. Unshared' /\ AllFresh' /\ Logical' = Logical /\ Joined' = Joined
    BY <2>1, ViewStays
  <2>3. Joined[f] = NotOpen
    BY <1>1, OpenView
  <2>4. Joined = [Joined EXCEPT ![f] = NotOpen]
    BY <1>0, <2>3
  <2>5. QED  BY <2>1, <2>2, <2>4, KeepsAll DEF Direct!Close, Direct!Success, Success
<1>2. CASE IsOpen(f)
  <2> DEFINE fd == openFiles[f].fp
             s  == stream[fd]
  <2>1. /\ UNCHANGED <<dir, fileMap, fcb, dma>> /\ a' = Success
        /\ stream' = [stream EXCEPT ![fd] = Closed] /\ openFiles' = [openFiles EXCEPT ![f] = NotOpen]
        /\ data' = Reclaim(dir, [data EXCEPT ![s.ino] = Flushed(s, @)], InUse(stream'))
    BY <1>2 DEF Close
  <2>2. /\ fd \in Fd /\ s.ino \in Inode /\ stream \in [Fd -> Stream \cup {Closed}] /\ data \in Contents
        /\ \A g \in Fcb : IsOpen(g) /\ openFiles[g].fp = fd => g = f
    BY <1>2, OpenStream DEF Careful, Inv, TypeOK, HandleOwnership
  <2>3. \A g \in Fd : stream'[g] = IF g \in {fd} THEN Closed ELSE stream[g]
    BY <2>1, <2>2
  <2>4. Linked(dir') \in SUBSET Inode /\ Linked(dir') = Linked(dir) /\ InUse(stream') \subseteq Inode
    BY <2>1, <2>2, <2>3 DEF Linked, InUse, Stream
  <2>5. \A i \in Linked(dir') \cup InUse(stream') :
          data'[i] = IF i = s.ino THEN Flushed(s, data[i]) ELSE data[i]
    BY <2>1, <2>2, <2>4 DEF Reclaim, Contents
  <2>6. \A g \in Live : g \in {fd} => g = fd
    OBVIOUS
  <2>7. /\ \A g \in Live : g \in {fd} /\ stream[g].ino \in Linked(dir')
             => data'[stream[g].ino] = Flushed(stream[g], data[stream[g].ino])
        /\ \A i \in Linked(dir') \cup InUse(stream') :
             (\A g \in Live : g \in {fd} => stream[g].ino # i) => data'[i] = data[i]
    BY <1>2, <2>5, <2>2 DEF Careful, Inv, HandleOwnership, Live
  <2>8. /\ Unshared' /\ AllFresh'
        /\ \A i \in Linked(dir') \cup InUse(stream') : Logical'[i] = Logical[i]
    BY <2>3, <2>4, <2>7, StreamsClose
  <2>9. openFiles' = [g \in Fcb |-> IF IsOpen(g) /\ openFiles[g].fp \in {fd} THEN NotOpen ELSE openFiles[g]]
    BY <1>0, <1>2, <2>1, <2>2
  <2>10. Joined' = [g \in Fcb |-> IF IsOpen(g) /\ openFiles[g].fp \in {fd} THEN NotOpen ELSE Joined[g]]
    BY <2>3, <2>9, ViewCloses
  <2>11. Joined' = [Joined EXCEPT ![f] = NotOpen]
    BY <1>0, <1>2, <2>2, <2>10
  <2>12. QED  BY <2>1, <2>8, <2>11, KeepsFiles DEF Direct!Close, Direct!Success, Success
<1>3. QED  BY <1>1, <1>2

\* What an ordered flush of streams that share no file leaves.
LEMMA FlushAll ==
  ASSUME Careful, NEW S \in SUBSET Live, NEW N \in Nat, NEW rank \in [S -> 1..N],
         NEW inUse \in SUBSET Inode, data' = Reclaim(dir, FlushInOrder(rank), inUse), dir' = dir
  PROVE  /\ \A fd \in Live : fd \in S /\ stream[fd].ino \in Linked(dir')
               => data'[stream[fd].ino] = Flushed(stream[fd], data[stream[fd].ino])
         /\ \A i \in Linked(dir') \cup inUse : (\A fd \in Live : fd \in S => stream[fd].ino # i) => data'[i] = data[i]
<1>1. /\ \A i \in Linked(dir') \cup inUse : data'[i] = FlushInOrder(rank)[i]
      /\ Linked(dir') \subseteq Inode
  BY DEF Reclaim, Linked
<1>2. ASSUME NEW fd \in Live, fd \in S, stream[fd].ino \in Linked(dir')
      PROVE  data'[stream[fd].ino] = Flushed(stream[fd], data[stream[fd].ino])
  <2>1. \A g \in S \ {fd} : stream[g].ino # stream[fd].ino
    BY DEF Careful, Unshared
  <2>2. FlushInOrder(rank)[stream[fd].ino] = Flushed(stream[fd], data[stream[fd].ino])
    BY <1>2, <2>1, FlushAlone DEF Careful, Inv
  <2>3. QED  BY <1>1, <1>2, <2>2
<1>3. ASSUME NEW i \in Linked(dir') \cup inUse, \A fd \in Live : fd \in S => stream[fd].ino # i
      PROVE  data'[i] = data[i]
  <2>1. \A g \in DOMAIN rank : stream[g].ino # i
    BY <1>3
  <2>2. FlushInOrder(rank)[i] = data[i]
    BY <1>1, <2>1, FlushUntouched DEF Careful, Inv
  <2>3. QED  BY <1>1, <2>2
<1>4. QED  BY <1>2, <1>3

\* fn 13 and fn 37: the resets change no file, whatever the order in which they close
\* (1884-1898).
LEMMA ResetRefined ==
  ASSUME Careful, Inv', Reset
  PROVE  Unshared' /\ AllFresh' /\ Direct!Reset
<1>1. TableFds \in SUBSET Live /\ TableOrder \in [TableFds -> 1..FcbCount] /\ FcbCount \in Nat
  <2>1. \A x \in TableFds : \E f \in Fcb : IsOpen(f) /\ openFiles[f].fp = x
    BY DEF TableFds
  <2>2. QED  BY <2>1, OpenGood, BdosFilesAssumption DEF TableFds, TableOrder, Fcb, Careful
<1>2. /\ stream' = [fd \in Fd |-> IF fd \in TableFds THEN Closed ELSE stream[fd]]
      /\ data' = Reclaim(dir, FlushInOrder(TableOrder), InUse(stream'))
      /\ openFiles' = [f \in Fcb |-> NotOpen] /\ UNCHANGED <<dir, fileMap, fcb, dma, a>>
  BY DEF Reset, guest
<1>3. /\ \A fd \in Fd : stream'[fd] = IF fd \in TableFds THEN Closed ELSE stream[fd]
      /\ \A fd \in Fd : fd \notin TableFds => stream'[fd] = stream[fd]
  BY <1>2
<1>4. Linked(dir') \in SUBSET Inode /\ Linked(dir') \subseteq Linked(dir) /\ InUse(stream') \in SUBSET Inode
  BY <1>2, <1>3 DEF Linked, InUse, Careful, Inv, TypeOK, Stream
<1>5. /\ \A fd \in Live : fd \in TableFds /\ stream[fd].ino \in Linked(dir')
           => data'[stream[fd].ino] = Flushed(stream[fd], data[stream[fd].ino])
      /\ \A i \in Linked(dir') \cup InUse(stream') :
           (\A fd \in Live : fd \in TableFds => stream[fd].ino # i) => data'[i] = data[i]
  BY <1>1, <1>2, <1>4, FlushAll
<1>6. /\ Unshared' /\ AllFresh'
      /\ \A i \in Linked(dir') \cup InUse(stream') : Logical'[i] = Logical[i]
  BY <1>3, <1>4, <1>5, StreamsClose
<1>7. Joined' = [f \in Fcb |-> NotOpen]
  BY <1>2, Views DEF View
<1>8. QED  BY <1>2, <1>6, <1>7, KeepsFiles DEF Direct!Reset, Direct!Fcb, Fcb

\* exit() changes no file, whatever the order in which the C library closes.
LEMMA ExitRefined ==
  ASSUME Careful, Inv', Exit
  PROVE  Unshared' /\ AllFresh' /\ Direct!Restart
<1>1. PICK rank \in Orders(Live) : data' = Reclaim(dir, FlushInOrder(rank), {})
  BY DEF Exit
<1>2. rank \in [Live -> 1..Cardinality(Live)] /\ Cardinality(Live) \in Nat
  BY FS_Subset, FS_CardinalityType, BdosFilesAssumption DEF Live, Orders
<1>3. /\ stream' = [fd \in Fd |-> Closed] /\ openFiles' = [f \in Fcb |-> NotOpen]
      /\ fileMap' = InitialMap /\ fcb' = [f \in Fcb |-> BlankFcb] /\ a' = Success
      /\ dma' = [k \in 1..RecSize |-> Zero] /\ dir' = dir
  BY DEF Exit, Restarted
<1>4. \A fd \in Fd : stream'[fd] = IF fd \in Live THEN Closed ELSE stream[fd]
  BY <1>3 DEF Live
<1>5. /\ Linked(dir') \in SUBSET Inode /\ Linked(dir') \subseteq Linked(dir) /\ {} \in SUBSET Inode
      /\ InUse(stream') = {}
  BY <1>3 DEF Linked, InUse
<1>6. /\ \A fd \in Live : fd \in Live /\ stream[fd].ino \in Linked(dir')
           => data'[stream[fd].ino] = Flushed(stream[fd], data[stream[fd].ino])
      /\ \A i \in Linked(dir') \cup {} :
           (\A fd \in Live : fd \in Live => stream[fd].ino # i) => data'[i] = data[i]
  <2> DEFINE S == Live
             N == Cardinality(Live)
             none == {}
  <2>1. /\ S \in SUBSET Live /\ N \in Nat /\ rank \in [S -> 1..N] /\ none \in SUBSET Inode
        /\ data' = Reclaim(dir, FlushInOrder(rank), none)
    BY <1>1, <1>2
  <2> HIDE DEF S, N, none
  <2>2. /\ \A fd \in Live : fd \in S /\ stream[fd].ino \in Linked(dir')
             => data'[stream[fd].ino] = Flushed(stream[fd], data[stream[fd].ino])
        /\ \A i \in Linked(dir') \cup none :
             (\A fd \in Live : fd \in S => stream[fd].ino # i) => data'[i] = data[i]
    BY <1>3, <2>1, FlushAll
  <2>3. QED  BY <2>2 DEF S, none
<1>7. /\ Unshared' /\ AllFresh'
      /\ \A i \in Linked(dir') \cup InUse(stream') : Logical'[i] = Logical[i]
  BY <1>4, <1>5, <1>6, StreamsClose
<1>8. Joined' = [f \in Fcb |-> NotOpen]
  BY <1>3, Views DEF View
<1>9. QED  BY <1>3, <1>7, <1>8, KeepsFiles
           DEF Direct!Restart, Direct!Idle, Direct!Fcb, Fcb, Direct!BlankFcb, BlankFcb, Direct!Success, Success

---------------------------------------------------------------------------
(* Calls on names, and the stores of the program                            *)

\* Both modules find the same path, and find a file or none alike.
LEMMA SameFound ==
  ASSUME NEW n
  PROVE  /\ Lookup(n).path = FindPath(n, dir, fileMap)
         /\ Direct!Lookup(n).path = Lookup(n).path /\ (Direct!Found(n) => Found(n)) /\ (Found(n) => Direct!Found(n))
<1>1. Lookup(n).path = FindPath(n, dir, fileMap) /\ Direct!Lookup(n).path = FindPath(n, dir, fileMap)
  BY PathOnly DEF Lookup, Direct!Lookup
<1>2. QED  BY <1>1, SameHost DEF Found, Direct!Found

\* Deleting and renaming leave every file that can still be reached as it is.
LEMMA NamesRefined ==
  ASSUME Careful, Inv', UNCHANGED <<stream, openFiles>>, data' = Reclaim(dir', data, InUse(stream))
  PROVE  Unshared' /\ AllFresh' /\ Direct!Keep /\ Joined' = Joined
<1>1. Linked(dir') \in SUBSET Inode /\ InUse(stream') \subseteq Inode /\ InUse(stream') = InUse(stream)
  BY DEF Linked, InUse, Careful, Inv, TypeOK, Stream
<1>2. \A i \in Linked(dir') \cup InUse(stream') : data'[i] = data[i]
  BY <1>1 DEF Reclaim
<1> DEFINE none == {}
<1>3. \A fd \in Fd : stream'[fd] = IF fd \in none THEN Closed ELSE stream[fd]
  OBVIOUS
<1>4. /\ \A fd \in Live : fd \in none /\ stream[fd].ino \in Linked(dir')
           => data'[stream[fd].ino] = Flushed(stream[fd], data[stream[fd].ino])
      /\ \A i \in Linked(dir') \cup InUse(stream') :
           (\A fd \in Live : fd \in none => stream[fd].ino # i) => data'[i] = data[i]
  BY <1>2
<1> HIDE DEF none
<1>5. /\ Unshared' /\ AllFresh'
      /\ \A i \in Linked(dir') \cup InUse(stream') : Logical'[i] = Logical[i]
  BY <1>1, <1>3, <1>4, StreamsClose
<1>6. QED  BY <1>5, KeepsFiles, Views

\* A call that fails without a trace fails so in both views.
LEMMA FailRefined ==
  ASSUME Careful, UNCHANGED <<host, stream, openFiles, fileMap, fcb, dma>>, a' = Failure
  PROVE  Unshared' /\ AllFresh' /\ Direct!Fails(Direct!Failure)
<1>1. Unshared' /\ AllFresh' /\ Logical' = Logical /\ Joined' = Joined
  BY ViewStays DEF host
<1>2. QED  BY <1>1 DEF Direct!Fails, Direct!Failure, Failure, host

\* fn 19: a deleted file stays what it is for the streams on it (1670-1688).
LEMMA DeleteRefined ==
  ASSUME Careful, Inv', NEW n, Delete(n)
  PROVE  Unshared' /\ AllFresh' /\ Direct!Delete(n)
<1>1. CASE Found(n) /\ a' = Success
  <2>1. /\ dir' = [dir EXCEPT ![Lookup(n).path] = NoFile] /\ data' = Reclaim(dir', data, InUse(stream))
        /\ UNCHANGED <<stream, openFiles, fileMap, fcb, dma>>
    BY <1>1 DEF Delete
  <2>2. Unshared' /\ AllFresh' /\ Direct!Keep /\ Joined' = Joined
    BY <2>1, NamesRefined
  <2>3. QED  BY <1>1, <2>1, <2>2, SameFound DEF Direct!Delete, Direct!Success, Success
<1>2. CASE ~Found(n)
  <2>1. UNCHANGED <<host, stream, openFiles, fileMap, fcb, dma>> /\ a' = Failure
    BY <1>2 DEF Delete
  <2>2. Unshared' /\ AllFresh' /\ Direct!Fails(Direct!Failure)
    BY <2>1, FailRefined
  <2>3. ~Direct!Found(n)
    BY <1>2, SameFound
  <2>4. QED  BY <2>2, <2>3 DEF Direct!Delete
<1>3. QED  BY <1>1, <1>2 DEF Delete

\* fn 23 (1813-1857).
LEMMA RenameRefined ==
  ASSUME Careful, Inv', NEW old, NEW new, Rename(old, new)
  PROVE  Unshared' /\ AllFresh' /\ Direct!Rename(old, new)
<1> DEFINE from == Lookup(old).path
           to   == Sibling[from][new]
<1>1. CASE Found(old)
  <2>1. /\ dir' = [p \in Path |-> IF p = to THEN dir[from] ELSE IF p = from THEN NoFile ELSE dir[p]]
        /\ data' = Reclaim(dir', data, InUse(stream))
        /\ fileMap' = [fileMap EXCEPT ![new] = to] /\ a' = Success
        /\ UNCHANGED <<stream, openFiles, fcb, dma>>
    BY <1>1 DEF Rename
  <2>2. Unshared' /\ AllFresh' /\ Direct!Keep /\ Joined' = Joined
    BY <2>1, NamesRefined
  <2>3. Direct!Lookup(old).path = from /\ Direct!Found(old)
    BY <1>1, SameFound
  <2>4. QED  BY <2>1, <2>2, <2>3 DEF Direct!Rename, Direct!Success, Success
<1>2. CASE ~Found(old)
  <2>1. UNCHANGED <<host, stream, openFiles, fileMap, fcb, dma>> /\ a' = Failure
    BY <1>2 DEF Rename
  <2>2. Unshared' /\ AllFresh' /\ Direct!Fails(Direct!Failure)
    BY <2>1, FailRefined
  <2>3. ~Direct!Found(old)
    BY <1>2, SameFound
  <2>4. QED  BY <2>2, <2>3 DEF Direct!Rename
<1>3. QED  BY <1>1, <1>2

\* With nothing held back a file is as long on the host as the program thinks.
LEMMA FileSizeRefined ==
  ASSUME Careful, NEW f \in Fcb, NEW n \in Name, NothingHeldBack, FileSize(f, n)
  PROVE  Unshared' /\ AllFresh' /\ Direct!FileSize(f, n)
<1>1. CASE Found(n)
  <2> DEFINE i == dir[Lookup(n).path]
  <2>1. i \in Inode
    <3>1. Lookup(n).path \in Path /\ i # NoFile
      BY <1>1, LookupType DEF Found, Exists, Careful, Inv
    <3>2. QED  BY <3>1 DEF Careful, Inv, TypeOK, Directory
  <2>2. Logical[i] = data[i]
    <3>1. CASE \E fd \in Fd : stream[fd] # Closed /\ stream[fd].ino = i
      <4>1. PICK fd \in Fd : stream[fd] # Closed /\ stream[fd].ino = i
        BY <3>1
      <4>2. stream[fd].pend = <<>> /\ fd \in Live
        BY <4>1 DEF NothingHeldBack, Live
      <4>3. Whole(stream, data)[i] = Flushed(stream[fd], data[i])
        BY <2>1, <4>1, WholeInUse, Views DEF Careful
      <4>4. GoodStream(stream[fd]) /\ data[i] \in Seq(Byte)
        BY <2>1, <4>2, LiveGood DEF Careful, Inv, TypeOK, Contents
      <4>5. Flushed(stream[fd], data[i]) = data[i]
        BY <4>2 DEF Flushed, Overwrite
      <4>6. QED  BY <4>3, <4>5, Views
    <3>2. CASE ~\E fd \in Fd : stream[fd] # Closed /\ stream[fd].ino = i
      BY <2>1, <3>2, WholeFree, Views
    <3>3. QED  BY <3>1, <3>2
  <2>3. /\ fcb' = [fcb EXCEPT ![f].rr = (Len(data[i]) + RecSize - 1) \div RecSize] /\ a' = Success
        /\ UNCHANGED <<dir, data, stream, openFiles, fileMap, dma>>
    BY <1>1 DEF FileSize, host
  <2>4. Unshared' /\ AllFresh' /\ Logical' = Logical /\ Joined' = Joined
    BY <2>3, ViewStays
  <2>5. dir[Direct!Lookup(n).path] = i /\ Direct!Found(n)
    BY <1>1, SameFound
  <2> HIDE DEF i
  <2>6. fcb' = [fcb EXCEPT ![f].rr = (Len(Logical[dir[Direct!Lookup(n).path]]) + RecSize - 1) \div RecSize]
    BY <2>2, <2>3, <2>5
  <2>7. QED  BY <2>3, <2>4, <2>5, <2>6 DEF Direct!FileSize, Direct!Success, Success
<1>2. CASE ~Found(n)
  <2>1. UNCHANGED <<host, stream, openFiles, fileMap, fcb, dma>> /\ a' = Failure
    BY <1>2 DEF FileSize
  <2>2. Unshared' /\ AllFresh' /\ Direct!Fails(Direct!Failure)
    BY <2>1, FailRefined
  <2>3. ~Direct!Found(n)
    BY <1>2, SameFound
  <2>4. QED  BY <2>2, <2>3 DEF Direct!FileSize
<1>3. QED  BY <1>1, <1>2

\* The program's own stores, and fn 36, touch no file.
LEMMA StoreRefined ==
  ASSUME Careful, NEW f \in Fcb, SetRandomRecord(f) \/ StoreFcb(f) \/ StoreDma
  PROVE  Unshared' /\ AllFresh' /\ (Direct!SetRandomRecord(f) \/ Direct!Store)
<1>1. UNCHANGED <<stream, data, openFiles, dir, fileMap, a>>
  BY DEF SetRandomRecord, StoreFcb, StoreDma, host
<1>2. Unshared' /\ AllFresh' /\ Logical' = Logical /\ Joined' = Joined
  BY <1>1, ViewStays
<1>3. CASE SetRandomRecord(f)
  BY <1>1, <1>2, <1>3 DEF SetRandomRecord, Direct!SetRandomRecord
<1>4. CASE StoreFcb(f)
  BY <1>1, <1>2, <1>4 DEF StoreFcb, Direct!Store, Direct!Fcb, Fcb
<1>5. CASE StoreDma
  BY <1>1, <1>2, <1>5 DEF StoreDma, Direct!Store
<1>6. QED  BY <1>2, <1>3, <1>4, <1>5

---------------------------------------------------------------------------
(* Opening, and the write that opens                                        *)

\* What bdos_open_file gives the FCB when fopen succeeds.
TakesFile(n, of, fd, t) ==
  /\ Found(n) /\ fd \in FreeFd
  /\ of = [fp |-> fd, mode |-> Lookup(n).mode, eol |-> Lookup(n).eol, eofSeen |-> FALSE]
  /\ t = Opened(dir[Lookup(n).path], Lookup(n).path \notin ReadOnly)

\* The table and the streams it leaves are those of o.
OpensAs(o, f, n, of, fd, t) ==
  /\ TakesFile(n, of, fd, t)
  /\ o.files = [openFiles EXCEPT ![f] = of] /\ o.streams = [stream EXCEPT ![fd] = t]

\* Every success of bdos_open_file is of that form.
LEMMA OpeningForm ==
  ASSUME NEW f, NEW n, NEW o \in Opening(f, n)
  PROVE  \E fd, of, t : OpensAs(o, f, n, of, fd, t)
<1>1. Found(n)
  BY DEF Opening, Found
<1>2. PICK fd \in FreeFd :
        o = [files   |-> [openFiles EXCEPT ![f] =
                            [fp |-> fd, mode |-> Lookup(n).mode, eol |-> Lookup(n).eol,
                             eofSeen |-> FALSE]],
             streams |-> [stream EXCEPT ![fd] =
                            Opened(dir[Lookup(n).path], Lookup(n).path \notin ReadOnly)]]
  BY <1>1 DEF Opening, Found
<1>3. QED  BY <1>1, <1>2 DEF OpensAs, TakesFile

\* A file no stream is on is opened as it is, and the other view opens the same.
LEMMA TakenView ==
  ASSUME Careful, NEW n \in Name, NEW of, NEW fd, NEW t, TakesFile(n, of, fd, t),
         \A g \in Fd : stream[g] = Closed \/ stream[g].ino # t.ino
  PROVE  /\ of \in OpenFile /\ of # NotOpen /\ of.fp = fd /\ fd \in Fd
         /\ GoodStream(t) /\ t \in Stream /\ t.ino \in Inode /\ t.pend = <<>>
         /\ data[t.ino] \in Seq(Byte) /\ Fresh(t, data[t.ino])
         /\ Logical[t.ino] = data[t.ino] /\ Flushed(t, data[t.ino]) = data[t.ino]
         /\ Direct!Found(n) /\ Direct!Opened(n) = Shown(of, t)
<1> DEFINE path == Lookup(n).path
<1>1. /\ path \in Path /\ Lookup(n).mode \in Mode /\ Lookup(n).eol \in BOOLEAN /\ dir[path] \in Inode
  <2>1. path \in Path /\ dir[path] # NoFile /\ Lookup(n).mode \in Mode /\ Lookup(n).eol \in BOOLEAN
    BY LookupType DEF TakesFile, Found, Exists, Careful, Inv
  <2>2. QED  BY <2>1 DEF Careful, Inv, TypeOK, Directory
<1>2. of \in OpenFile /\ of # NotOpen /\ of.fp = fd /\ fd \in Fd
  <2>1. of \in OpenFile /\ of.fp = fd /\ fd \in Fd
    BY <1>1 DEF TakesFile, OpenFile, FreeFd
  <2>2. QED  BY <2>1, NotOpenAssumption
<1>3. t = Opened(dir[path], path \notin ReadOnly) /\ t.ino = dir[path] /\ t.pend = <<>> /\ t.win = <<>> /\ t.eof = FALSE
  BY DEF TakesFile, Opened
<1>4. GoodStream(t) /\ t \in Stream /\ t.ino \in Inode
  BY <1>1, <1>3, OpenedGood DEF GoodStream
<1>5. data[t.ino] \in Seq(Byte)
  BY <1>4 DEF Careful, Inv, TypeOK, Contents
<1>6. Fresh(t, data[t.ino]) /\ Flushed(t, data[t.ino]) = data[t.ino]
  BY <1>3, <1>4, <1>5, FreshEmpty, FlushedLength
<1>7. Logical[t.ino] = data[t.ino]
  BY <1>4, WholeFree, Views
<1>8. Direct!Found(n) /\ path = FindPath(n, dir, fileMap)
  BY SameFound DEF TakesFile
<1>9. Direct!Lookup(n) = Lookup(n)
  <2>1. data[dir[FindPath(n, dir, fileMap)]] = Logical[dir[FindPath(n, dir, fileMap)]]
    BY <1>3, <1>7, <1>8
  <2> DEFINE L == Logical
  <2> HIDE DEF L
  <2>2. data[dir[FindPath(n, dir, fileMap)]] = L[dir[FindPath(n, dir, fileMap)]]
    BY <2>1 DEF L
  <2>3. Direct!FindUnixFileEx(n, dir, L, fileMap) = FindUnixFileEx(n, dir, data, fileMap)
    BY <2>2, SameLookup
  <2>4. QED  BY <2>3 DEF L, Lookup, Direct!Lookup
<1>10. /\ of.mode = Lookup(n).mode /\ of.eol = Lookup(n).eol /\ of.eofSeen = FALSE
       /\ t.off = 0 /\ t.writable = (path \notin ReadOnly)
  BY <1>3 DEF TakesFile, Opened
<1>11. Direct!Opened(n) = Shown(of, t)
  BY <1>3, <1>9, <1>10 DEF Direct!Opened, Direct!OpenOn, Shown
<1>12. QED  BY <1>2, <1>4, <1>3, <1>5, <1>6, <1>7, <1>8, <1>11

\* A file that a free stream takes, and none shares afterwards, was in no stream's use.
LEMMA WasFree ==
  ASSUME Inv, Unshared', NEW fd \in FreeFd, NEW t, t # Closed, stream' = [stream EXCEPT ![fd] = t]
  PROVE  \A g \in Fd : stream[g] = Closed \/ stream[g].ino # t.ino
<1>1. /\ stream[fd] = Closed /\ fd \in Fd /\ stream'[fd] = t
      /\ \A g \in Fd : g # fd => stream'[g] = stream[g]
  BY DEF FreeFd, Live, Inv, TypeOK
<1>2. Sole(stream')
  BY Views
<1>3. QED  BY <1>1, <1>2 DEF Sole

\* fn 15: opening a file that is not in use shows the file as it is (1490-1535).
LEMMA OpenRefined ==
  ASSUME Careful, NEW f \in Fcb, NEW n \in Name, Open(f, n), Unshared'
  PROVE  AllFresh' /\ Direct!Open(f, n)
<1>1. ASSUME NEW o \in Opening(f, n), openFiles' = o.files, stream' = o.streams,
             fcb' = [fcb EXCEPT ![f].ex = 0], a' = Success
      PROVE  AllFresh' /\ Direct!Open(f, n)
  <2>0. PICK fd, of, t : OpensAs(o, f, n, of, fd, t)
    BY OpeningForm
  <2>1. /\ TakesFile(n, of, fd, t) /\ o.files = [openFiles EXCEPT ![f] = of]
        /\ o.streams = [stream EXCEPT ![fd] = t]
    BY <2>0 DEF OpensAs
  <2>2. t # Closed
    <3>1. t \in Stream
      <4>1. dir[Lookup(n).path] \in Inode
        BY <2>1, LookupType DEF TakesFile, Found, Exists, Careful, Inv, TypeOK, Directory
      <4>2. QED  BY <2>1, <4>1, OpenedGood DEF TakesFile, GoodStream
    <3>2. QED  BY <3>1, BdosFilesAssumption
  <2>3. fd \in FreeFd
    BY <2>1 DEF TakesFile
  <2>4. \A g \in Fd : stream[g] = Closed \/ stream[g].ino # t.ino
    <3>1. stream' = [stream EXCEPT ![fd] = t]
      BY <1>1, <2>1
    <3>2. QED  BY <2>2, <2>3, <3>1, WasFree DEF Careful
  <2>5. /\ of # NotOpen /\ of.fp = fd /\ fd \in Fd /\ t \in Stream /\ t.ino \in Inode
        /\ Fresh(t, data[t.ino]) /\ Logical[t.ino] = data[t.ino] /\ Flushed(t, data[t.ino]) = data[t.ino]
        /\ Direct!Found(n) /\ Direct!Opened(n) = Shown(of, t)
    BY <2>1, <2>4, TakenView
  <2>6. data' = data /\ UNCHANGED <<dir, fileMap, dma>>
    BY DEF Open, host
  <2>7. Moves(f, of, fd, t)
    BY <1>1, <2>1, <2>3, <2>5, <2>6 DEF Moves
  <2>8. /\ AllFresh' /\ Logical' = [Logical EXCEPT ![t.ino] = Flushed(t, data'[t.ino])]
        /\ Joined' = [Joined EXCEPT ![f] = Shown(of, t)]
    BY <2>7, StreamMoves
  <2>9. Logical' = Logical
    BY <2>5, <2>6, <2>8, LogicalSame
  <2>10. QED  BY <1>1, <2>5, <2>6, <2>8, <2>9 DEF Direct!Open, Direct!Success, Success
<1>2. CASE Opening(f, n) = {} /\ a' = Failure /\ UNCHANGED <<openFiles, stream, fcb>>
  <2>1. UNCHANGED <<host, stream, openFiles, fileMap, fcb, dma>> /\ a' = Failure
    BY <1>2 DEF Open
  <2>2. AllFresh' /\ Direct!Fails(Direct!Failure)
    BY <2>1, FailRefined
  <2>3. QED  BY <2>2 DEF Direct!Open
<1>3. QED  BY <1>1, <1>2 DEF Open

\* fn 22: a made file is empty in both views, and a new one was out of reach (1632-1668).
LEMMA MakeRefined ==
  ASSUME Careful, NEW f \in Fcb, NEW n \in Name, Make(f, n), Unshared'
  PROVE  AllFresh' /\ Direct!Make(f, n)
<1>1. ASSUME NEW fd \in FreeFd, NEW ino \in (IF Exists(dir, Lower[n]) THEN {dir[Lower[n]]} ELSE FreeInode),
             MakeSucceeds(f, n, ino, fd)
      PROVE  AllFresh' /\ Direct!Make(f, n)
  <2> DEFINE of == [fp |-> fd, mode |-> DefaultMode, eol |-> DefaultEol, eofSeen |-> FALSE]
             t  == Opened(ino, TRUE)
  <2>1. /\ dir' = [dir EXCEPT ![Lower[n]] = ino] /\ data' = [data EXCEPT ![ino] = <<>>]
        /\ stream' = [stream EXCEPT ![fd] = t] /\ openFiles' = [openFiles EXCEPT ![f] = of]
        /\ fcb' = [fcb EXCEPT ![f].ex = 0] /\ a' = Success
    BY <1>1 DEF MakeSucceeds
  <2>2. UNCHANGED <<fileMap, dma>>
    BY DEF Make
  <2>3. ino \in Inode
    <3>1. Lower[n] \in Path
      BY MappingAssumption
    <3>2. QED  BY <1>1, <3>1 DEF Exists, FreeInode, Careful, Inv, TypeOK, Directory
  <2>4. of \in OpenFile /\ of # NotOpen /\ of.fp = fd /\ fd \in Fd
    <3>1. of \in OpenFile /\ of.fp = fd /\ fd \in Fd
      BY MappingAssumption DEF OpenFile, FreeFd
    <3> HIDE DEF of
    <3>2. QED  BY <3>1, NotOpenAssumption
  <2>5. GoodStream(t) /\ t \in Stream /\ t.ino = ino /\ t.pend = <<>> /\ t.win = <<>> /\ t.eof = FALSE
        /\ t.off = 0 /\ t.writable = TRUE
    BY <2>3, OpenedGood DEF GoodStream, Opened
  <2>6. data'[ino] = <<>> /\ \A i \in Inode \ {ino} : data'[i] = data[i]
    BY <2>1, <2>3 DEF Careful, Inv, TypeOK, Contents
  <2>7. <<>> \in Seq(Byte)
    OBVIOUS
  <2>8. Fresh(t, <<>>) /\ Flushed(t, <<>>) = <<>>
    BY <2>5, <2>7, FreshEmpty, FlushedLength
  <2>9. Shown(of, t) = Direct!OpenOn(ino, TRUE, DefaultMode, DefaultEol)
    BY <2>5 DEF Shown, Direct!OpenOn
  <2> HIDE DEF of, t
  <2>10. Moves(f, of, fd, t)
    BY <1>1, <2>1, <2>4, <2>5, <2>6, <2>8 DEF Moves
  <2>11. /\ AllFresh' /\ Logical' = [Logical EXCEPT ![t.ino] = Flushed(t, data'[t.ino])]
         /\ Joined' = [Joined EXCEPT ![f] = Shown(of, t)]
    BY <2>10, StreamMoves
  <2>12. Logical' = [Logical EXCEPT ![ino] = <<>>]
    BY <2>5, <2>6, <2>8, <2>11
  <2>13. dir[Lower[n]] = ino \/ (~Direct!Exists(dir, Lower[n]) /\ ino \notin Direct!Reached(dir, Joined))
    <3>1. CASE Exists(dir, Lower[n])
      BY <1>1, <3>1
    <3>2. CASE ~Exists(dir, Lower[n])
      <4>1. \A g \in Fcb : openFiles[g] # NotOpen => openFiles[g].fp \in Fd /\ stream[openFiles[g].fp] # Closed
        BY OpenGood DEF Careful, IsOpen, Live
      <4>2. Direct!Reached(dir, Joined) \subseteq Linked(dir) \cup InUse(stream)
        BY <4>1, ReachedUsed, Views
      <4>3. ~Direct!Exists(dir, Lower[n])
        BY <3>2 DEF Exists, Direct!Exists
      <4>4. QED  BY <1>1, <3>2, <4>2, <4>3 DEF FreeInode
    <3>3. QED  BY <3>1, <3>2
  <2>14. QED
    BY <2>1, <2>2, <2>3, <2>9, <2>11, <2>12, <2>13 DEF Direct!Make, Direct!Success, Success
<1>2. CASE ~CanMake(n) /\ a' = Failure /\ UNCHANGED <<host, stream, openFiles, fcb>>
  <2>1. UNCHANGED <<host, stream, openFiles, fileMap, fcb, dma>> /\ a' = Failure
    BY <1>2 DEF Make
  <2>2. AllFresh' /\ Direct!Fails(Direct!Failure)
    BY <2>1, FailRefined
  <2>3. QED  BY <2>2 DEF Direct!Make
<1>3. QED  BY <1>1, <1>2 DEF Make

\* What a sequential write makes of the stream and of what its file holds in the end.
LEMMA WrittenFresh ==
  ASSUME TypeOK, NEW of, NEW s, GoodStream(s), NEW d \in Seq(Byte), Fresh(s, d),
         NEW conv, conv = WriteWithConversion(of, dma),
         NEW out, out = (IF s.writable THEN conv ELSE <<>>),
         NEW e, e = (IF s.writable /\ Converts(of) THEN Flushed(Put(s, conv), d) ELSE d)
  PROVE  LET w == Written(of, s)
         IN  /\ GoodStream(w) /\ Fresh(w, e) /\ w.ino = s.ino /\ w.writable = s.writable
             /\ w.off = s.off + Len(out) /\ Flushed(w, e) = Overwrite(Flushed(s, d), s.off, out)
<1> DEFINE put == IF s.writable THEN Put(s, conv) ELSE s
           w   == Written(of, s)
<1>1. conv \in Seq(Byte) /\ GoodStream(w) /\ s \in Stream /\ s.off \in Nat
  BY WrittenType DEF GoodStream, Stream
<1>2. /\ GoodStream(put) /\ Fresh(put, d) /\ put.ino = s.ino /\ put.writable = s.writable
      /\ put.off = s.off + Len(out) /\ Flushed(put, d) = Overwrite(Flushed(s, d), s.off, out)
  <2>1. CASE s.writable
    BY <1>1, <2>1, PutGood, PutFresh, PutFields, FlushedPut
  <2>2. CASE ~s.writable
    <3>1. put = s /\ out = <<>> /\ Len(out) = 0
      BY <2>2, EmptySeq
    <3>2. QED  BY <1>1, <3>1, OverwriteNothing
  <2>3. QED  BY <2>1, <2>2
<1>3. w = IF Converts(of) THEN Synced(put) ELSE put
  BY DEF Written
<1>4. ~s.writable => Flushed(put, d) = d
  BY FlushedLength DEF GoodStream, Shaped
<1>5. e = IF Converts(of) THEN Flushed(put, d) ELSE d
  BY <1>4
<1> HIDE DEF w, put
<1>6. CASE Converts(of)
  <2>1. w = Synced(put) /\ e = Flushed(put, d) /\ e \in Seq(Byte)
    BY <1>2, <1>3, <1>5, <1>6, FlushedType
  <2>2. Fresh(w, e) /\ w.pend = <<>> /\ w.off = put.off /\ w.ino = put.ino /\ w.writable = put.writable
    BY <1>2, <2>1, SyncedFresh
  <2>3. Flushed(w, e) = e
    BY <1>1, <2>1, <2>2, FlushedLength
  <2>4. QED  BY <1>1, <1>2, <2>1, <2>2, <2>3 DEF w
<1>7. CASE ~Converts(of)
  <2>1. w = put /\ e = d
    BY <1>3, <1>5, <1>7
  <2>2. QED  BY <1>1, <1>2, <2>1 DEF w
<1>8. QED  BY <1>6, <1>7

\* A sequential write on an FCB whose entry is of and whose stream is s: already there, or
\* just taken.
WritesAs(f, n, of, fd, s) ==
  /\ of \in OpenFile /\ of.fp = fd /\ fd \in Fd /\ GoodStream(s) /\ s.ino \in Inode
  /\ Fresh(s, data[s.ino]) /\ Logical[s.ino] = Flushed(s, data[s.ino])
  /\ openFiles' = [openFiles EXCEPT ![f] = of] /\ stream' = [stream EXCEPT ![fd] = Written(of, s)]
  /\ \/ IsOpen(f) /\ openFiles[f] = of /\ stream[fd] = s
     \/ ~IsOpen(f) /\ fd \in FreeFd /\ Unshared' /\ Direct!Found(n) /\ Direct!Opened(n) = Shown(of, s)
  /\ data' = IF s.writable /\ Converts(of)
             THEN [data EXCEPT ![s.ino] = Flushed(Put(s, WriteWithConversion(of, dma)), @)] ELSE data
  /\ a' = IF s.writable /\ WriteWithConversion(of, dma) # <<>> THEN Success ELSE Failure
  /\ fcb' = [NextCr(f) EXCEPT ![f].ex = IF IsOpen(f) THEN @ ELSE 0]
  /\ UNCHANGED <<dir, fileMap, dma>>

\* Then the other view writes the same bytes at the same position.
LEMMA WritesRefined ==
  ASSUME Careful, NEW f \in Fcb, NEW n \in Name, NEW of, NEW fd, NEW s, WritesAs(f, n, of, fd, s)
  PROVE  Unshared' /\ AllFresh' /\ Direct!WriteSequential(f, n)
<1> DEFINE i    == s.ino
           d    == data[i]
           conv == WriteWithConversion(of, dma)
           out  == IF s.writable THEN conv ELSE <<>>
           e    == IF s.writable /\ Converts(of) THEN Flushed(Put(s, conv), d) ELSE d
           w    == Written(of, s)
           v    == Shown(of, s)
<1>1. /\ of \in OpenFile /\ of # NotOpen /\ of.fp = fd /\ fd \in Fd /\ GoodStream(s) /\ i \in Inode
      /\ d \in Seq(Byte) /\ Fresh(s, d) /\ Logical[i] = Flushed(s, d)
  BY NotOpenAssumption DEF WritesAs, Careful, Inv, TypeOK, Contents
<1>2. data' = [data EXCEPT ![i] = e]
  BY DEF WritesAs, Careful, Inv, TypeOK, Contents
<1>3. data'[i] = e /\ \A j \in Inode \ {i} : data'[j] = data[j]
  BY <1>1, <1>2 DEF Careful, Inv, TypeOK, Contents
<1>4. /\ openFiles' = [openFiles EXCEPT ![f] = of] /\ stream' = [stream EXCEPT ![fd] = w]
      /\ UNCHANGED <<dir, fileMap, dma>> /\ fcb' = [NextCr(f) EXCEPT ![f].ex = IF IsOpen(f) THEN @ ELSE 0]
      /\ a' = IF s.writable /\ conv # <<>> THEN Success ELSE Failure
  BY DEF WritesAs
<1>5. \/ IsOpen(f) /\ openFiles[f] = of /\ stream[fd] = s
      \/ ~IsOpen(f) /\ fd \in FreeFd /\ Unshared' /\ Direct!Found(n) /\ Direct!Opened(n) = v
  BY DEF WritesAs
<1>6. conv = WriteWithConversion(of, dma) /\ out = (IF s.writable THEN conv ELSE <<>>)
      /\ e = (IF s.writable /\ Converts(of) THEN Flushed(Put(s, conv), d) ELSE d)
  OBVIOUS
<1> HIDE DEF conv, out, e, d
<1>7. /\ GoodStream(w) /\ Fresh(w, e) /\ w.ino = i /\ w.writable = s.writable
      /\ w.off = s.off + Len(out) /\ Flushed(w, e) = Overwrite(Flushed(s, d), s.off, out)
  BY <1>1, <1>6, WrittenFresh DEF Careful, Inv
<1> HIDE DEF w
<1>8. Moves(f, of, fd, w)
  BY <1>1, <1>3, <1>4, <1>5, <1>7 DEF Moves, GoodStream
<1>9. /\ Unshared' /\ AllFresh' /\ Logical' = [Logical EXCEPT ![w.ino] = Flushed(w, data'[w.ino])]
      /\ Joined' = [Joined EXCEPT ![f] = Shown(of, w)]
  BY <1>8, StreamMoves
<1>10. Logical' = [Logical EXCEPT ![i] = Overwrite(Logical[i], s.off, out)]
  BY <1>1, <1>3, <1>7, <1>9
<1> DEFINE dof  == IF Direct!IsOpen(f) THEN Joined[f] ELSE Direct!Opened(n)
           dout == IF dof.writable THEN Direct!WriteWithConversion(dof, dma) ELSE <<>>
<1>11. (Direct!IsOpen(f) => IsOpen(f)) /\ (IsOpen(f) => Direct!IsOpen(f))
  BY OpenView
<1>12. dof = v
  <2>1. CASE IsOpen(f)
    <3>1. v = Shown(openFiles[f], stream[openFiles[f].fp])
      BY <1>1, <1>5, <2>1
    <3>2. QED  BY <1>11, <2>1, <3>1, OpenView
  <2>2. CASE ~IsOpen(f)
    BY <1>5, <1>11, <2>2
  <2>3. QED  BY <2>1, <2>2
<1>13. v.ino = i /\ v.off = s.off /\ v.writable = s.writable /\ v.mode = of.mode /\ v.eol = of.eol
  BY DEF Shown
<1>14. WriteWithConversion(v, dma) = conv
  BY <1>13 DEF WriteWithConversion, Converts, conv
<1>15. dout = out
  BY <1>12, <1>13, <1>14, SameWriting DEF out
<1>16. [dof EXCEPT !.off = dof.off + Len(dout)] = Shown(of, w)
  <2> DEFINE p == s.off + Len(out)
  <2>0. v = Shown(of, s)
    OBVIOUS
  <2> HIDE DEF p, v
  <2>1. ViewOff(v, p) = [ino |-> s.ino, off |-> p, writable |-> s.writable, mode |-> of.mode,
                         eol |-> of.eol, eofSeen |-> of.eofSeen]
    BY <2>0, ShownOff
  <2>2. Shown(of, w) = ViewOff(v, p)
    BY <1>7, <2>1 DEF Shown, p
  <2>3. QED  BY <1>12, <1>13, <1>15, <2>2 DEF ViewOff, p
<1>17. a' = IF dout # <<>> THEN Success ELSE Failure
  BY <1>4, <1>15 DEF out
<1>18. dof.ino = i /\ dof.off = s.off
  BY <1>12, <1>13
<1>19. fcb' = [Direct!NextCr(f) EXCEPT ![f].ex = IF Direct!IsOpen(f) THEN @ ELSE 0]
  <2>1. CASE IsOpen(f)
    BY <1>4, <1>11, <2>1 DEF NextCr, Direct!NextCr
  <2>2. CASE ~IsOpen(f)
    BY <1>4, <1>11, <2>2 DEF NextCr, Direct!NextCr
  <2>3. QED  BY <2>1, <2>2
<1> HIDE DEF dout, dof, v
<1>20. /\ Joined' = [Joined EXCEPT ![f] = [dof EXCEPT !.off = dof.off + Len(dout)]]
       /\ Logical' = [Logical EXCEPT ![dof.ino] = Direct!Overwrite(@, dof.off, dout)]
  BY <1>9, <1>10, <1>15, <1>16, <1>18, SameHost
<1>21. Direct!IsOpen(f) \/ Direct!Found(n)
  BY <1>5, <1>11
<1>22. Direct!WriteSequential(f, n)
  BY <1>4, <1>17, <1>19, <1>20, <1>21
     DEF Direct!WriteSequential, Direct!Success, Success, Direct!Failure, Failure, dout, dof
<1>23. QED  BY <1>9, <1>22

\* fn 21, with the open it may begin with (1602-1630).
LEMMA WriteRefined ==
  ASSUME Careful, NEW f \in Fcb, NEW n \in Name, WriteSequential(f, n), Unshared'
  PROVE  AllFresh' /\ Direct!WriteSequential(f, n)
<1>1. CASE ~IsOpen(f) /\ NotOpenError
  BY <1>1, ErrorRefined DEF Direct!WriteSequential, Direct!Failure, Failure
<1> DEFINE already == [files |-> openFiles, streams |-> stream]
           goes(o) == LET of  == o.files[f]
                          s   == o.streams[of.fp]
                          out == WriteWithConversion(of, dma)
                      IN  /\ openFiles' = o.files
                          /\ stream' = [o.streams EXCEPT ![of.fp] = Written(of, s)]
                          /\ data' = IF s.writable /\ Converts(of)
                                     THEN [data EXCEPT ![s.ino] = Flushed(Put(s, out), data[s.ino])]
                                     ELSE data
                          /\ a' = IF s.writable /\ out # <<>> THEN Success ELSE Failure
<1>2. CASE ~(~IsOpen(f) /\ NotOpenError)
  <2>1. /\ \E o \in (IF IsOpen(f) THEN {already} ELSE Opening(f, n)) : goes(o)
        /\ fcb' = [NextCr(f) EXCEPT ![f].ex = IF IsOpen(f) THEN @ ELSE 0]
        /\ UNCHANGED <<dir, fileMap, dma>>
    BY Zenon, <1>2 DEF WriteSequential
  <2>2. PICK o \in (IF IsOpen(f) THEN {already} ELSE Opening(f, n)) : goes(o)
    BY Zenon, <2>1
  <2>3. CASE IsOpen(f)
    <3> DEFINE of == openFiles[f]
               s  == stream[of.fp]
    <3>1. /\ of \in OpenFile /\ of.fp \in Fd /\ GoodStream(s) /\ s.ino \in Inode
          /\ Fresh(s, data[s.ino]) /\ Logical[s.ino] = Flushed(s, data[s.ino])
      BY <2>3, OpenStream
    <3>2. o.files = openFiles /\ o.streams = stream
      BY <2>2, <2>3
    <3>3. openFiles' = [openFiles EXCEPT ![f] = of]
      BY <2>2, <3>2 DEF Careful, Inv, TypeOK
    <3>4. /\ stream' = [stream EXCEPT ![of.fp] = Written(of, s)]
          /\ data' = IF s.writable /\ Converts(of)
                     THEN [data EXCEPT ![s.ino] = Flushed(Put(s, WriteWithConversion(of, dma)), data[s.ino])]
                     ELSE data
          /\ a' = IF s.writable /\ WriteWithConversion(of, dma) # <<>> THEN Success ELSE Failure
      BY <2>2, <3>2
    <3>5. of = openFiles[f] /\ s = stream[of.fp]
      OBVIOUS
    <3> HIDE DEF of, s
    <3>6. WritesAs(f, n, of, of.fp, s)
      BY Zenon, <2>1, <2>3, <3>1, <3>3, <3>4, <3>5 DEF WritesAs
    <3>7. QED  BY <3>6, WritesRefined
  <2>4. CASE ~IsOpen(f)
    <3>1. PICK fd, of, t : OpensAs(o, f, n, of, fd, t)
      BY <2>2, <2>4, OpeningForm
    <3>2. /\ TakesFile(n, of, fd, t) /\ o.files = [openFiles EXCEPT ![f] = of]
          /\ o.streams = [stream EXCEPT ![fd] = t]
      BY <3>1 DEF OpensAs
    <3>3. fd \in FreeFd /\ of.fp = fd /\ fd \in Fd
      BY <3>2 DEF TakesFile, FreeFd
    <3>4. o.files[f] = of /\ o.streams[of.fp] = t
      BY <3>2, <3>3 DEF Careful, Inv, TypeOK
    <3>5. GoodStream(t) /\ t.ino \in Inode
      <4>1. dir[Lookup(n).path] \in Inode
        BY <3>2, LookupType DEF TakesFile, Found, Exists, Careful, Inv, TypeOK, Directory
      <4>2. QED  BY <3>2, <4>1, OpenedGood DEF TakesFile, GoodStream, Stream
    <3>6. GoodStream(Written(of, t)) /\ Written(of, t).ino = t.ino /\ Written(of, t) # Closed
      <4>1. WriteWithConversion(of, dma) \in Seq(Byte) /\ GoodStream(Written(of, t))
        BY <3>5, WrittenType DEF Careful, Inv
      <4>2. IF t.writable THEN /\ Put(t, WriteWithConversion(of, dma)).ino = t.ino
                               /\ Put(t, WriteWithConversion(of, dma)) \in Stream ELSE TRUE
        BY <3>5, <4>1, WrittenType DEF Careful, Inv, GoodStream
      <4>3. \A x \in Stream : Synced(x).ino = x.ino
        BY DEF Synced, Stream
      <4>4. Written(of, t).ino = t.ino
        BY <3>5, <4>2, <4>3 DEF Written, GoodStream
      <4>5. QED  BY <4>1, <4>4, BdosFilesAssumption DEF GoodStream
    <3>7. stream' = [stream EXCEPT ![fd] = Written(of, t)]
      <4>1. stream' = [o.streams EXCEPT ![of.fp] = Written(of, t)]
        BY <2>2, <3>4
      <4>2. QED  BY <3>2, <3>3, <4>1
    <3>8. \A g \in Fd : stream[g] = Closed \/ stream[g].ino # t.ino
      <4> DEFINE w == Written(of, t)
      <4> HIDE DEF w
      <4>1. w # Closed /\ stream' = [stream EXCEPT ![fd] = w] /\ w.ino = t.ino
        BY <3>6, <3>7 DEF w
      <4>2. \A g \in Fd : stream[g] = Closed \/ stream[g].ino # w.ino
        BY <3>3, <4>1, WasFree DEF Careful
      <4>3. QED  BY <4>1, <4>2
    <3>9. /\ of \in OpenFile /\ Fresh(t, data[t.ino]) /\ Logical[t.ino] = Flushed(t, data[t.ino])
          /\ Direct!Found(n) /\ Direct!Opened(n) = Shown(of, t)
      BY <3>2, <3>8, TakenView
    <3>10. /\ data' = IF t.writable /\ Converts(of)
                      THEN [data EXCEPT ![t.ino] = Flushed(Put(t, WriteWithConversion(of, dma)), data[t.ino])]
                      ELSE data
           /\ a' = IF t.writable /\ WriteWithConversion(of, dma) # <<>> THEN Success ELSE Failure
           /\ openFiles' = [openFiles EXCEPT ![f] = of]
      BY <2>2, <3>2, <3>4
    <3>11. WritesAs(f, n, of, fd, t)
      BY <2>1, <2>4, <3>3, <3>5, <3>7, <3>9, <3>10 DEF WritesAs
    <3>12. QED  BY <3>11, WritesRefined
  <2>5. QED  BY <2>3, <2>4
<1>3. QED  BY <1>1, <1>2

---------------------------------------------------------------------------
(* Every step of a careful program                                          *)

\* Nothing is open and nothing held back when the emulator starts.
LEMMA InitCareful ==
  Init => Careful /\ Direct!Init
<1> SUFFICES ASSUME Init PROVE Careful /\ Direct!Init
  OBVIOUS
<1>1. Inv
  BY InitInv
<1>2. /\ stream = [fd \in Fd |-> Closed] /\ openFiles = [f \in Fcb |-> NotOpen]
      /\ fileMap = InitialMap /\ fcb = [f \in Fcb |-> BlankFcb] /\ a = Success
      /\ dma = [k \in 1..RecSize |-> Zero] /\ \E disk \in InitialDisk : dir = disk.dir /\ data = disk.data
  BY DEF Init, Idle
<1>3. Live = {}
  BY <1>2 DEF Live
<1>4. Unshared /\ AllFresh
  BY <1>3 DEF Unshared, AllFresh
<1>5. Logical = data
  <2>1. \A i \in Inode : Logical[i] = data[i]
    BY <1>2, WholeFree, Views
  <2>2. Logical = [i \in Inode |-> Logical[i]] /\ data = [i \in Inode |-> data[i]]
    BY <1>1 DEF Logical, Inv, TypeOK, Contents
  <2> DEFINE L == Logical
  <2> HIDE DEF L
  <2>3. L = data
    BY <2>1, <2>2 DEF L
  <2>4. QED  BY <2>3 DEF L
<1>6. Joined = [f \in Fcb |-> NotOpen]
  BY <1>2, Views DEF View
<1>7. QED
  BY <1>1, <1>2, <1>4, <1>5, <1>6
     DEF Careful, Direct!Init, Direct!Idle, Direct!Fcb, Fcb, Direct!BlankFcb, BlankFcb,
         Direct!Success, Success

\* One step of a careful program.
LEMMA CarefulStep ==
  ASSUME Careful, [CarefulCall(Name)]_vars
  PROVE  Careful' /\ [Direct!Next]_(Direct!vars)
<1>1. ASSUME Inv', Unshared', AllFresh' PROVE Careful'
  BY <1>1 DEF Careful
<1>2. CASE UNCHANGED vars
  <2>1. UNCHANGED <<stream, data, openFiles, dir, fileMap, fcb, dma, a>>
    BY <1>2 DEF vars
  <2>2. Unshared' /\ AllFresh' /\ Logical' = Logical /\ Joined' = Joined
    BY <2>1, ViewStays
  <2>3. Inv'
    BY <1>2, NextInv DEF Careful
  <2>4. QED  BY <1>1, <2>1, <2>2, <2>3 DEF Direct!vars
<1>3. CASE CarefulCall(Name)
  <2>1. Inv'
    BY <1>3, NextInv DEF Careful, CarefulCall, Next
  <2>2. ASSUME NEW f \in Fcb, FcbCall(f) PROVE Unshared' /\ AllFresh' /\ Direct!Next
    <3> f \in Direct!Fcb
      BY DEF Direct!Fcb, Fcb
    <3>1. CASE Close(f)
      BY <2>1, <3>1, CloseRefined DEF Direct!Next
    <3>2. CASE ReadSequential(f)
      BY <3>2, ReadRefined DEF Direct!Next
    <3>3. CASE ReadRandom(f)
      BY <3>3, ReadRandomRefined DEF Direct!Next
    <3>4. CASE WriteRandom(f)
      BY <3>4, WriteRandomRefined DEF Direct!Next
    <3>5. CASE SetRandomRecord(f) \/ StoreFcb(f)
      BY <3>5, StoreRefined DEF Direct!Next
    <3>6. QED  BY <2>2, <3>1, <3>2, <3>3, <3>4, <3>5 DEF FcbCall
  <2>3. ASSUME NEW f \in Fcb, NEW n \in Name, NameCall(f, n), Unshared'
        PROVE  Unshared' /\ AllFresh' /\ Direct!Next
    <3> f \in Direct!Fcb
      BY DEF Direct!Fcb, Fcb
    <3>1. CASE Open(f, n)
      BY <2>3, <3>1, OpenRefined DEF Direct!Next
    <3>2. CASE Make(f, n)
      BY <2>3, <3>2, MakeRefined DEF Direct!Next
    <3>3. CASE WriteSequential(f, n)
      BY <2>3, <3>3, WriteRefined DEF Direct!Next
    <3>4. QED  BY <2>3, <3>1, <3>2, <3>3 DEF NameCall
  <2>4. ASSUME NEW f \in Fcb, NEW n \in Name, NothingHeldBack, FileSize(f, n)
        PROVE  Unshared' /\ AllFresh' /\ Direct!Next
    <3> f \in Direct!Fcb
      BY DEF Direct!Fcb, Fcb
    <3>1. QED  BY <2>4, FileSizeRefined DEF Direct!Next
  <2>5. ASSUME NEW n \in Name, Delete(n) PROVE Unshared' /\ AllFresh' /\ Direct!Next
    BY <2>1, <2>5, DeleteRefined DEF Direct!Next
  <2>6. ASSUME NEW n \in Name, NEW new \in Name, Rename(n, new)
        PROVE  Unshared' /\ AllFresh' /\ Direct!Next
    BY <2>1, <2>6, RenameRefined DEF Direct!Next
  <2>7. CASE Reset
    BY <2>1, <2>7, ResetRefined, <1>1 DEF Direct!Next
  <2>8. CASE StoreDma
    <3>1. Unshared' /\ AllFresh' /\ UNCHANGED <<stream, data, openFiles, dir, fileMap, fcb, a>>
      BY <2>8, ViewStays DEF StoreDma, host
    <3>2. Logical' = Logical /\ Joined' = Joined
      BY <3>1, ViewStays
    <3>3. Direct!Store
      BY <2>8, <3>1, <3>2 DEF StoreDma, Direct!Store
    <3>4. QED  BY <1>1, <2>1, <3>1, <3>3 DEF Direct!Next
  <2>9. CASE Exit
    BY <2>1, <2>9, ExitRefined, <1>1 DEF Direct!Next
  <2>10. QED  BY <1>1, <1>3, <2>1, <2>2, <2>3, <2>4, <2>5, <2>6, <2>7, <2>8, <2>9 DEF CarefulCall
<1>4. QED  BY <1>2, <1>3

\* What is read through a stream is what the file holds.
LEMMA CarefulFresh ==
  ASSUME Careful
  PROVE  WindowFresh
<1>1. ASSUME NEW fd \in Live
      PROVE  LET s == stream[fd]
             IN  /\ s.win = SubSeq(data[s.ino], s.base + 1, WindowEnd(s))
                 /\ s.eof => s.off >= Len(Logical[s.ino])
  <2>1. Fresh(stream[fd], data[stream[fd].ino])
    BY DEF Careful, AllFresh
  <2>2. Logical[stream[fd].ino] = Flushed(stream[fd], data[stream[fd].ino])
    <3>1. fd \in Fd /\ stream[fd] # Closed /\ stream[fd].ino \in Inode /\ Sole(stream)
      BY LiveGood, Views DEF Careful, Inv, Live
    <3>2. QED  BY <3>1, WholeInUse, Views
  <2>3. QED  BY <2>1, <2>2 DEF Fresh
<1>2. QED  BY <1>1 DEF WindowFresh

\* For every program that is careful: no window is ever stale and the end of the file a
\* stream remembers is the end, across every mix of reads, writes and seeks on one FILE
\* (1571-1761).
THEOREM WindowsStayFresh == CarefulSpec => []WindowFresh
<1>1. Init => Careful
  BY InitCareful
<1>2. Careful /\ [CarefulCall(Name)]_vars => Careful'
  BY CarefulStep
<1>3. Careful => WindowFresh
  BY CarefulFresh
<1>4. QED  BY <1>1, <1>2, <1>3, PTL DEF CarefulSpec

\* For every program that is careful: BdosFiles implements DirectFiles, so the buffers of
\* the C library cannot be observed. Reads see every earlier write, whichever kind of
\* transfer made it, and closing, resetting and exiting change no file (1490-1898).
THEOREM BufferingIsInvisible == CarefulSpec => DirectSpec
<1>1. Init => Careful /\ Direct!Init
  BY InitCareful
<1>2. Careful /\ [CarefulCall(Name)]_vars => Careful' /\ [Direct!Next]_(Direct!vars)
  BY CarefulStep
<1>3. QED  BY <1>1, <1>2, PTL DEF CarefulSpec, DirectSpec, Direct!Spec

---------------------------------------------------------------------------
(* An open file that holds nothing back                                     *)

StreamOf(f) == stream[openFiles[f].fp]
FileOf(f)   == data[StreamOf(f).ino]

\* What reading would deliver.
Rest(f) == SubSeq(FileOf(f), StreamOf(f).off + 1, Len(FileOf(f)))

Clean(f) == IsOpen(f) /\ StreamOf(f).pend = <<>> /\ Fresh(StreamOf(f), FileOf(f))

\* What is behind a position of a file.
LEMMA RestType ==
  ASSUME NEW d \in Seq(Byte), NEW off \in Nat
  PROVE  /\ SubSeq(d, off + 1, Len(d)) \in Seq(Byte)
         /\ Len(SubSeq(d, off + 1, Len(d))) = IF off < Len(d) THEN Len(d) - off ELSE 0
         /\ \A i \in 1..(Len(d) - off) : SubSeq(d, off + 1, Len(d))[i] = d[off + i]
<1>1. Len(d) \in Nat /\ Len(d) <= Len(d)
  BY LenProperties
<1>2. QED  BY <1>1, PartOf

\* A stream that holds nothing back is not changed by flushing it.
LEMMA NothingToFlush ==
  ASSUME NEW s, GoodStream(s), s.pend = <<>>, NEW d \in Seq(Byte)
  PROVE  AfterFlush(s) = s /\ Flushed(s, d) = d
<1>1. AfterFlush(s) = s
  BY DEF AfterFlush, GoodStream, Stream
<1>2. QED  BY <1>1, FlushedLength

\* An open clean file, as its call finds it.
LEMMA CleanType ==
  ASSUME Inv, NEW f \in Fcb, Clean(f)
  PROVE  /\ openFiles[f] \in OpenFile /\ openFiles[f].fp \in Fd /\ GoodStream(StreamOf(f))
         /\ StreamOf(f) \in Stream /\ StreamOf(f).ino \in Inode /\ StreamOf(f).off \in Nat
         /\ FileOf(f) \in Seq(Byte) /\ Len(FileOf(f)) \in Nat
         /\ AfterFlush(StreamOf(f)) = StreamOf(f) /\ Flushed(StreamOf(f), FileOf(f)) = FileOf(f)
         /\ Seen(StreamOf(f), FileOf(f)) = Rest(f) /\ Rest(f) \in Seq(Byte)
<1> DEFINE s == StreamOf(f)
           d == FileOf(f)
<1>1. openFiles[f] \in OpenFile /\ openFiles[f].fp \in Fd /\ GoodStream(s) /\ s.ino \in Inode
  BY OpenGood DEF Clean, StreamOf, Live
<1>2. s \in Stream /\ s.off \in Nat /\ s.pend = <<>> /\ Fresh(s, d)
  BY <1>1 DEF GoodStream, Stream, Clean
<1>3. d \in Seq(Byte) /\ Len(d) \in Nat
  BY <1>1, LenProperties DEF Inv, TypeOK, Contents, FileOf
<1> HIDE DEF s, d
<1>4. AfterFlush(s) = s /\ Flushed(s, d) = d
  BY <1>1, <1>2, <1>3, NothingToFlush
<1>5. Seen(s, d) = SubSeq(d, s.off + 1, Len(d))
  BY <1>1, <1>2, <1>3, SeenIsRest
<1>6. SubSeq(d, s.off + 1, Len(d)) \in Seq(Byte)
  BY <1>2, <1>3, RestType
<1>7. QED  BY <1>1, <1>2, <1>3, <1>4, <1>5, <1>6 DEF s, d, Rest

\* The call moves one stream, and leaves the others and all files as they are.
MovesTo(f, t) ==
  /\ stream' = [stream EXCEPT ![openFiles[f].fp] = t] /\ data' = data /\ dir' = dir
  /\ fileMap' = fileMap /\ IsOpen(f)' /\ openFiles'[f].fp = openFiles[f].fp
  /\ openFiles'[f].mode = openFiles[f].mode /\ openFiles'[f].eol = openFiles[f].eol
  /\ \A g \in Fcb \ {f} : openFiles'[g] = openFiles[g]

\* The streams and the entries of the other FCBs stay as they are.
LEMMA OthersStay ==
  ASSUME Inv, NEW f \in Fcb, IsOpen(f), NEW t, MovesTo(f, t)
  PROVE  /\ StreamOf(f)' = t
         /\ \A g \in Fcb \ {f} : IsOpen(g) => IsOpen(g)' /\ StreamOf(g)' = StreamOf(g)
<1>1. openFiles[f].fp \in Fd /\ stream \in [Fd -> Stream \cup {Closed}]
  BY OpenGood DEF Live, Inv, TypeOK
<1>2. StreamOf(f)' = t
  BY <1>1 DEF MovesTo, StreamOf
<1>3. ASSUME NEW g \in Fcb \ {f}, IsOpen(g) PROVE IsOpen(g)' /\ StreamOf(g)' = StreamOf(g)
  <2>1. openFiles[g].fp # openFiles[f].fp
    BY <1>3 DEF Inv, HandleOwnership
  <2>2. openFiles'[g] = openFiles[g]
    BY <1>3 DEF MovesTo
  <2>3. QED  BY <1>1, <1>3, <2>1, <2>2 DEF MovesTo, StreamOf, IsOpen
<1>4. QED  BY <1>2, <1>3

\* A sequential read delivers what the conversion makes of the rest of the file.
Delivers(f, r) ==
  /\ IF r.out = <<>> \/ r.atEof THEN a' = AtEof /\ dma' = dma
     ELSE a' = Success /\ dma' = Pad(r.out)
  /\ openFiles'[f].eofSeen = r.atEof /\ fcb' = NextCr(f)

\* A sequential read of a clean file: what it takes from the stream, what it delivers to
\* the program, and that the file stays clean.
LEMMA CleanRead ==
  ASSUME Inv, NEW f \in Fcb, Clean(f), ~openFiles[f].eofSeen, ReadSequential(f),
         NEW r, r = ReadWithConversion(openFiles[f], Rest(f))
  PROVE  /\ IsReadResult(r, Rest(f)) /\ Delivers(f, r) /\ Clean(f)'
         /\ StreamOf(f)'.off = StreamOf(f).off + r.used /\ StreamOf(f)'.ino = StreamOf(f).ino
         /\ \E t : MovesTo(f, t)
<1> DEFINE of == openFiles[f]
           s  == StreamOf(f)
           d  == FileOf(f)
           t  == Advance(s, d, r.used, r.asked)
<1>1. /\ of \in OpenFile /\ of.fp \in Fd /\ GoodStream(s) /\ s \in Stream /\ s.ino \in Inode
      /\ d \in Seq(Byte) /\ AfterFlush(s) = s /\ Flushed(s, d) = d /\ Seen(s, d) = Rest(f)
      /\ Rest(f) \in Seq(Byte)
  BY CleanType
<1>2. s.pend = <<>> /\ Fresh(s, d) /\ IsOpen(f)
  BY DEF Clean
<1>3. r = ReadWithConversion(of, Seen(AfterFlush(s), Flushed(s, d)))
  BY <1>1
<1>4. /\ data' = [data EXCEPT ![s.ino] = Flushed(s, d)]
      /\ stream' = [stream EXCEPT ![of.fp] = Advance(AfterFlush(s), Flushed(s, d), r.used, r.asked)]
      /\ openFiles' = [openFiles EXCEPT ![f].eofSeen = r.atEof]
      /\ IF r.out = <<>> \/ r.atEof THEN a' = AtEof /\ dma' = dma
         ELSE a' = Success /\ dma' = Pad(r.out)
      /\ fcb' = NextCr(f) /\ UNCHANGED <<dir, fileMap>>
  BY Zenon, <1>2, <1>3 DEF ReadSequential, StreamOf, FileOf
<1>5. IsReadResult(r, Rest(f))
  BY <1>1, ReadType
<1>6. data' = data /\ stream' = [stream EXCEPT ![of.fp] = t]
  BY <1>1, <1>4 DEF Inv, TypeOK, Contents, FileOf
<1>7. /\ openFiles'[f] = [of EXCEPT !.eofSeen = r.atEof]
      /\ \A g \in Fcb \ {f} : openFiles'[g] = openFiles[g]
  BY <1>4 DEF Inv, TypeOK
<1>8. /\ [of EXCEPT !.eofSeen = r.atEof].fp = of.fp /\ [of EXCEPT !.eofSeen = r.atEof].mode = of.mode
      /\ [of EXCEPT !.eofSeen = r.atEof].eol = of.eol
      /\ [of EXCEPT !.eofSeen = r.atEof].eofSeen = r.atEof
      /\ [of EXCEPT !.eofSeen = r.atEof] \in OpenFile
  BY <1>1, <1>5 DEF OpenFile, IsReadResult
<1>9. IsOpen(f)'
  BY <1>7, <1>8, NotOpenAssumption DEF IsOpen
<1>10. MovesTo(f, t)
  BY <1>4, <1>6, <1>7, <1>8, <1>9 DEF MovesTo
<1>11. /\ t.pend = s.pend /\ t.ino = s.ino /\ t.off = s.off + r.used
  BY <1>1, AdvanceKeeps
<1>12. Fresh(t, d)
  BY <1>1, <1>2, <1>5, AdvanceFresh DEF IsReadResult
<1>13. StreamOf(f)' = t
  BY <1>2, <1>10, OthersStay
<1>14. FileOf(f)' = d
  BY <1>6, <1>11, <1>13 DEF FileOf
<1> HIDE DEF s, d, t
<1>15. Clean(f)'
  BY <1>2, <1>9, <1>11, <1>12, <1>13, <1>14 DEF Clean
<1>16. Delivers(f, r)
  BY <1>4, <1>7, <1>8 DEF Delivers
<1>17. QED  BY <1>5, <1>10, <1>11, <1>13, <1>15, <1>16 DEF s

\* So does a random read, from where R0-R2 say.
LEMMA CleanReadRandom ==
  ASSUME Inv, NEW f \in Fcb, Clean(f), ReadRandom(f),
         NEW rest, rest = SubSeq(FileOf(f), Position(f) + 1, Len(FileOf(f))),
         NEW used, used = AtMost(RecSize, Len(rest))
  PROVE  /\ Clean(f)' /\ StreamOf(f)'.ino = StreamOf(f).ino /\ fcb' = fcb /\ openFiles' = openFiles
         /\ \E t : MovesTo(f, t)
         /\ IF used = 0 THEN a' = AtEof /\ dma' = dma
            ELSE a' = Success /\ dma' = Pad(SubSeq(rest, 1, used))
<1> DEFINE of == openFiles[f]
           s  == StreamOf(f)
           d  == FileOf(f)
           at == SeekTo(s, Position(f))
           t  == Advance(at, d, used, RecSize)
<1>1. /\ of \in OpenFile /\ of.fp \in Fd /\ GoodStream(s) /\ s \in Stream /\ s.ino \in Inode
      /\ d \in Seq(Byte) /\ Len(d) \in Nat /\ AfterFlush(s) = s /\ Flushed(s, d) = d
  BY CleanType
<1>2. s.pend = <<>> /\ Fresh(s, d) /\ IsOpen(f) /\ Position(f) \in Nat
  BY PositionType DEF Clean, Inv
<1>3. GoodStream(at) /\ at.pend = <<>> /\ Fresh(at, d) /\ at.off = Position(f)
  BY <1>1, <1>2, SeekToGood, SeekToFresh
<1>4. at.ino = s.ino
  BY <1>1, <1>2, SeekToGood
<1>5. Seen(at, d) = rest /\ rest \in Seq(Byte) /\ Len(rest) \in Nat
  BY <1>1, <1>2, <1>3, SeenIsRest, RestType, LenProperties
<1>6. /\ data' = [data EXCEPT ![s.ino] = Flushed(s, d)]
      /\ stream' = [stream EXCEPT ![of.fp] = t]
      /\ IF used = 0 THEN a' = AtEof /\ dma' = dma
         ELSE a' = Success /\ dma' = Pad(SubSeq(rest, 1, used))
      /\ UNCHANGED <<dir, openFiles, fileMap, fcb>>
  <2>1. /\ data' = [data EXCEPT ![s.ino] = Flushed(s, d)]
        /\ stream' = [stream EXCEPT ![of.fp] =
              Advance(SeekTo(AfterFlush(s), Position(f)), Flushed(s, d),
                AtMost(RecSize, Len(Seen(SeekTo(AfterFlush(s), Position(f)), Flushed(s, d)))), RecSize)]
        /\ IF AtMost(RecSize, Len(Seen(SeekTo(AfterFlush(s), Position(f)), Flushed(s, d)))) = 0
           THEN a' = AtEof /\ dma' = dma
           ELSE a' = Success
                /\ dma' = Pad(SubSeq(Seen(SeekTo(AfterFlush(s), Position(f)), Flushed(s, d)), 1,
                     AtMost(RecSize, Len(Seen(SeekTo(AfterFlush(s), Position(f)), Flushed(s, d))))))
        /\ UNCHANGED <<dir, openFiles, fileMap, fcb>>
    BY Zenon, <1>2 DEF ReadRandom, StreamOf, FileOf
  <2>2. AfterFlush(s) = s /\ Flushed(s, d) = d
    BY <1>1
  <2> HIDE DEF s, d
  <2>3. QED  BY <1>5, <2>1, <2>2
<1>7. data' = data
  BY <1>1, <1>6 DEF Inv, TypeOK, Contents, FileOf
<1>8. MovesTo(f, t)
  BY <1>2, <1>6, <1>7 DEF MovesTo, IsOpen
<1>9. used \in 0..Len(Seen(at, d)) /\ used <= RecSize /\ RecSize \in Nat
      /\ (RecSize <= used + 1 \/ used = Len(Seen(at, d)))
  BY <1>5, RecSizeAssumption DEF AtMost
<1>10. t.pend = <<>> /\ t.ino = s.ino
  <2>1. at \in Stream
    BY <1>3 DEF GoodStream
  <2>2. QED  BY <1>3, <1>4, <2>1, AdvanceKeeps
<1>11. Fresh(t, d)
  BY <1>1, <1>3, <1>9, AdvanceFresh
<1>12. StreamOf(f)' = t
  BY <1>2, <1>8, OthersStay
<1>13. FileOf(f)' = d
  BY <1>7, <1>10, <1>12 DEF FileOf
<1> HIDE DEF s, d, at, t
<1>14. Clean(f)'
  BY <1>2, <1>6, <1>10, <1>11, <1>12, <1>13 DEF Clean, IsOpen
<1>15. QED  BY <1>6, <1>8, <1>10, <1>12, <1>14 DEF s

\* An open that succeeds finds the file of the name and stands at its beginning.
LEMMA CleanOpen ==
  ASSUME Inv, NEW f \in Fcb, NEW n \in Name, Open(f, n), a' = Success
  PROVE  /\ Clean(f)' /\ StreamOf(f)'.off = 0 /\ ~openFiles'[f].eofSeen
         /\ openFiles'[f].mode = Lookup(n).mode /\ openFiles'[f].eol = Lookup(n).eol
         /\ StreamOf(f)'.ino = dir[Lookup(n).path] /\ dir[Lookup(n).path] \in Inode
         /\ fcb' = [fcb EXCEPT ![f].ex = 0] /\ UNCHANGED <<host, fileMap, dma>>
         /\ \A g \in Fcb \ {f} : openFiles'[g] = openFiles[g]
                                   /\ (IsOpen(g) => StreamOf(g)' = StreamOf(g))
<1> DEFINE found == Lookup(n)
           s == Opened(dir[found.path], found.path \notin ReadOnly)
<1>1. PICK o \in Opening(f, n) : openFiles' = o.files /\ stream' = o.streams
                                   /\ fcb' = [fcb EXCEPT ![f].ex = 0]
  BY DEF Open, Success, Failure
<1>2. found.path # NoFile /\ Exists(dir, found.path)
  BY <1>1 DEF Opening
<1>3. PICK fd \in FreeFd :
        /\ openFiles' = [openFiles EXCEPT ![f] =
             [fp |-> fd, mode |-> found.mode, eol |-> found.eol, eofSeen |-> FALSE]]
        /\ stream' = [stream EXCEPT ![fd] = s]
  <2>1. PICK fd \in FreeFd :
           o = [files   |-> [openFiles EXCEPT ![f] =
                  [fp |-> fd, mode |-> found.mode, eol |-> found.eol, eofSeen |-> FALSE]],
                streams |-> [stream EXCEPT ![fd] = s]]
    BY <1>1, <1>2 DEF Opening
  <2>2. /\ o.files = [openFiles EXCEPT ![f] =
             [fp |-> fd, mode |-> found.mode, eol |-> found.eol, eofSeen |-> FALSE]]
        /\ o.streams = [stream EXCEPT ![fd] = s]
    BY <2>1
  <2>3. QED  BY <1>1, <2>2
<1>4. fd \in Fd /\ fd \notin Live /\ stream \in [Fd -> Stream \cup {Closed}]
      /\ openFiles \in [Fcb -> OpenFile \cup {NotOpen}] /\ data \in Contents
  BY DEF FreeFd, Inv, TypeOK
<1>5. found.path \in Path /\ found.mode \in Mode /\ found.eol \in BOOLEAN /\ dir[found.path] \in Inode
  BY <1>2, LookupType DEF Inv, TypeOK, Directory, Exists
<1>6. /\ GoodStream(s) /\ s.pend = <<>> /\ s.off = 0 /\ s.win = <<>> /\ s.eof = FALSE
      /\ s.ino = dir[found.path]
  BY <1>5, OpenedGood DEF Opened
<1> DEFINE of == [fp |-> fd, mode |-> found.mode, eol |-> found.eol, eofSeen |-> FALSE]
<1>7. of \in OpenFile
  BY <1>4, <1>5 DEF OpenFile
<1>8. openFiles'[f] = of /\ \A g \in Fcb \ {f} : openFiles'[g] = openFiles[g]
  BY <1>3, <1>4
<1>9. IsOpen(f)' /\ openFiles'[f].fp = fd
  <2>1. of.fp = fd
    OBVIOUS
  <2> HIDE DEF of
  <2>2. QED  BY <1>7, <1>8, <2>1, NotOpenAssumption DEF IsOpen
<1>10. StreamOf(f)' = s
  BY <1>3, <1>4, <1>9 DEF StreamOf
<1>11. UNCHANGED <<host, fileMap, dma>> /\ data' = data
  BY DEF Open, host
<1>12. FileOf(f)' = data[s.ino] /\ data[s.ino] \in Seq(Byte)
  BY <1>4, <1>5, <1>6, <1>10, <1>11 DEF FileOf, Contents
<1>13. ASSUME NEW g \in Fcb \ {f}, IsOpen(g) PROVE StreamOf(g)' = StreamOf(g)
  <2>1. openFiles[g].fp # fd
    BY <1>4, <1>13, OpenGood
  <2>2. QED  BY <1>3, <1>4, <1>8, <2>1 DEF StreamOf
<1> HIDE DEF s, found
<1>14. Fresh(s, data[s.ino])
  BY <1>6, <1>12, FreshEmpty
<1>15. Clean(f)'
  BY <1>6, <1>9, <1>10, <1>12, <1>14 DEF Clean
<1>16. /\ openFiles'[f].mode = found.mode /\ openFiles'[f].eol = found.eol /\ ~openFiles'[f].eofSeen
  BY <1>8
<1>17. QED  BY <1>1, <1>5, <1>6, <1>8, <1>10, <1>11, <1>13, <1>15, <1>16 DEF s, found

---------------------------------------------------------------------------
(* A program that notes positions                                           *)

\* Record k of a file, as read random gives it.
RecordAt(d, k) ==
  LET rest == SubSeq(d, k * RecSize + 1, Len(d))
  IN  Pad(SubSeq(rest, 1, AtMost(RecSize, Len(rest))))

\* What an entry says is true of the file, as far as CR counts.
EntryHolds(d, e) ==
  /\ e.nth \in Nat /\ e.at \in Nat /\ (e.nth < CrMod => e.at = e.nth)
  /\ e.nth * RecSize < Len(d) /\ e.rec = RecordAt(d, e.nth)

Indexing ==
  /\ Clean(1) /\ ~Converts(openFiles[1]) /\ fcb[1].ex = 0
  /\ \A e \in index \cup sought : EntryHolds(FileOf(1), e)

\* While it reads, the file is where the program thinks it is.
InSequence ==
  /\ ~openFiles[1].eofSeen
  /\ StreamOf(1).off = AtMost(reads * RecSize, Len(FileOf(1)))
  /\ reads < CrMod => fcb[1].cr = reads

IndexStages == {"open", "read", "told", "store", "seek", "found", "done"}

IndexInv ==
  /\ Inv /\ client = "index" /\ reads \in Nat /\ pc \in IndexStages
  /\ pc = "open" => /\ ~Converts(Lookup(Indexed)) /\ reads = 0
                    /\ index = {} /\ sought = {} /\ fcb[1].cr = 0
  /\ pc \in {"read", "told", "store", "seek", "found"} => Indexing
  /\ pc \in {"read", "told"} => InSequence
  /\ pc = "told" => fcb[1].rr = fcb[1].cr
  /\ pc = "seek" => \A e \in sought : fcb[1].rr = e.at
  /\ IndexFindsRecord

\* The FCB the indexing program uses.
LEMMA OneIsFcb == 1 \in Fcb
BY IndexAssumption, BdosFilesAssumption DEF Fcb

\* What a raw read that succeeds gives and takes.
LEMMA RawRead ==
  ASSUME NEW of, ~Converts(of), NEW seen \in Seq(Byte), NEW r, r = ReadWithConversion(of, seen),
         r.out # <<>>, ~r.atEof
  PROVE  /\ r.used = AtMost(RecSize, Len(seen)) /\ r.used > 0 /\ Len(seen) > 0
         /\ r.out = SubSeq(seen, 1, r.used)
<1> DEFINE used == AtMost(RecSize, Len(seen))
           raw  == SubSeq(seen, 1, used)
           cut  == of.mode = "text" /\ HasCtrlZ(raw)
<1>1. r = ReadResult(IF cut THEN SubSeq(raw, 1, TextLength(raw)) ELSE raw, used, RecSize, cut)
  BY DEF ReadWithConversion, ReadDirect
<1>2. used \in Nat /\ Len(seen) \in Nat /\ RecSize \in Nat \ {0} /\ used <= Len(seen)
  BY LenProperties, RecSizeAssumption DEF AtMost
<1>3. ~cut /\ r.used = used /\ r.out = raw
  <2> HIDE DEF used, raw, cut
  <2>1. r.atEof = cut /\ r.used = used /\ r.out = IF cut THEN SubSeq(raw, 1, TextLength(raw)) ELSE raw
    BY <1>1 DEF ReadResult
  <2>2. QED  BY <2>1
<1>4. r.used = used /\ r.out = raw
  BY <1>3
<1>5. used # 0
  <2>1. ASSUME used = 0 PROVE raw = <<>>
    BY <2>1, SubSeqEmpty
  <2>2. QED  BY <1>4, <2>1
<1>6. QED  BY <1>2, <1>4, <1>5

\* A record more is RecSize bytes more.
LEMMA RecordMore ==
  ASSUME NEW k \in Nat
  PROVE  k * RecSize \in Nat /\ (k + 1) * RecSize = k * RecSize + RecSize
<1>1. RecSize \in Nat
  BY RecSizeAssumption
<1>2. \A x, y \in Nat : x * y \in Nat /\ (x + 1) * y = x * y + y
  OBVIOUS
<1>3. QED  BY <1>1, <1>2

\* Reading the next record.
LEMMA IndexReads ==
  ASSUME IndexInv, Reads, client' = client
  PROVE  IndexInv'
<1> DEFINE r == ReadWithConversion(openFiles[1], Rest(1))
           d == FileOf(1)
           off == StreamOf(1).off
<1>1. /\ Inv /\ client = "index" /\ reads \in Nat /\ Indexing /\ InSequence /\ 1 \in Fcb
      /\ ReadSequential(1) /\ (pc = "told" => fcb[1].rr = fcb[1].cr) /\ pc \in {"read", "told"}
  BY OneIsFcb DEF IndexInv, Reads
<1>2. Clean(1) /\ ~Converts(openFiles[1]) /\ ~openFiles[1].eofSeen
  BY <1>1 DEF Indexing, InSequence
<1>3. /\ IsReadResult(r, Rest(1)) /\ Delivers(1, r) /\ Clean(1)'
      /\ StreamOf(1)'.off = off + r.used /\ StreamOf(1)'.ino = StreamOf(1).ino
      /\ \E t : MovesTo(1, t)
  BY <1>1, <1>2, CleanRead
<1>4. Inv'
  BY <1>1, ReadStep
<1>5. FileOf(1)' = d
  BY <1>3 DEF FileOf, MovesTo
<1>6. ~Converts(openFiles'[1])
  BY <1>2, <1>3 DEF MovesTo, Converts
<1>7. /\ off \in Nat /\ d \in Seq(Byte) /\ Len(d) \in Nat /\ Rest(1) \in Seq(Byte)
      /\ Rest(1) = SubSeq(d, off + 1, Len(d))
  BY <1>1, <1>2, CleanType DEF Rest
<1>8. Len(Rest(1)) = IF off < Len(d) THEN Len(d) - off ELSE 0
  BY <1>7, RestType
<1>9. fcb'[1].cr = (fcb[1].cr + 1) % CrMod /\ fcb'[1].rr = fcb[1].rr /\ fcb'[1].ex = fcb[1].ex
  BY <1>1, <1>3 DEF Delivers, NextCr, Inv, TypeOK, FcbBytes
<1>10. fcb'[1].ex = 0
  BY <1>1, <1>9 DEF Indexing
<1> HIDE DEF r, d, off
<1>11. CASE r.out = <<>> \/ r.atEof
  <2>1. a' = AtEof /\ a' # Success
    BY <1>3, <1>11 DEF Delivers, AtEof, Success
  <2>2. pc' = "store" /\ UNCHANGED <<reads, index, sought>>
    BY <2>1 DEF Reads, Goto
  <2>3. Indexing'
    BY <1>1, <1>3, <1>5, <1>6, <1>10, <2>2 DEF Indexing, d
  <2>4. QED
    BY <1>1, <1>4, <2>2, <2>3 DEF IndexInv, IndexStages, IndexFindsRecord
<1>12. CASE ~(r.out = <<>> \/ r.atEof)
  <2>1. a' = Success /\ dma' = Pad(r.out) /\ openFiles'[1].eofSeen = r.atEof
    BY <1>3, <1>12 DEF Delivers
  <2>2. /\ pc' = "read" /\ reads' = reads + 1 /\ UNCHANGED sought
        /\ index' = index \cup IF pc = "told"
                               THEN {[at |-> fcb[1].rr, nth |-> reads, rec |-> dma']} ELSE {}
    BY <2>1 DEF Reads, Goto
  <2>3. /\ r.used = AtMost(RecSize, Len(Rest(1))) /\ Len(Rest(1)) > 0
        /\ r.out = SubSeq(Rest(1), 1, r.used)
    BY <1>2, <1>7, <1>12, RawRead DEF r
  <2>4. /\ reads * RecSize \in Nat /\ (reads + 1) * RecSize = reads * RecSize + RecSize
        /\ off = AtMost(reads * RecSize, Len(d)) /\ RecSize \in Nat \ {0}
    BY <1>1, RecordMore, RecSizeAssumption DEF InSequence, off, d
  <2>5. off = reads * RecSize /\ reads * RecSize < Len(d)
    BY <1>7, <1>8, <2>3, <2>4 DEF AtMost
  <2>6. off + r.used = AtMost((reads + 1) * RecSize, Len(d))
    BY <1>7, <1>8, <2>3, <2>4, <2>5 DEF AtMost
  <2>7. dma' = RecordAt(d, reads)
    BY <1>7, <2>1, <2>3, <2>5 DEF RecordAt
  <2>8. CrMod \in Nat \ {0} /\ (reads < CrMod => fcb[1].cr = reads) /\ fcb[1].rr \in Nat
    BY <1>1, BdosFilesAssumption DEF InSequence, Inv, TypeOK, FcbBytes
  <2>9. reads + 1 < CrMod => fcb'[1].cr = reads + 1
    BY <1>1, <1>9, <2>8
  <2>10. pc = "told" => EntryHolds(d, [at |-> fcb[1].rr, nth |-> reads, rec |-> dma'])
    BY <1>1, <2>5, <2>7, <2>8 DEF EntryHolds
  <2>11. \A e \in index' \cup sought' : EntryHolds(d, e)
    BY <1>1, <2>2, <2>10 DEF Indexing, d
  <2>12. Indexing'
    BY <1>1, <1>3, <1>5, <1>6, <1>10, <2>11 DEF Indexing
  <2>13. InSequence'
    BY <1>3, <1>5, <1>12, <2>1, <2>2, <2>6, <2>9 DEF InSequence
  <2>14. reads' \in Nat
    BY <1>1, <2>2
  <2>15. QED
    BY <1>1, <1>4, <2>2, <2>12, <2>13, <2>14 DEF IndexInv, IndexStages, IndexFindsRecord
<1>13. QED  BY <1>11, <1>12

\* Reading a noted position.
LEMMA IndexSeeks ==
  ASSUME IndexInv, Seek, client' = client
  PROVE  IndexInv'
<1> DEFINE d == FileOf(1)
           rest == SubSeq(d, Position(1) + 1, Len(d))
           used == AtMost(RecSize, Len(rest))
<1>1. /\ Inv /\ client = "index" /\ reads \in Nat /\ Indexing /\ 1 \in Fcb /\ ReadRandom(1)
      /\ \A e \in sought : fcb[1].rr = e.at
      /\ pc' = "found" /\ UNCHANGED <<reads, index, sought>>
  BY OneIsFcb DEF IndexInv, Seek, Goto
<1>2. /\ Clean(1)' /\ StreamOf(1)'.ino = StreamOf(1).ino /\ fcb' = fcb /\ openFiles' = openFiles
      /\ \E t : MovesTo(1, t)
      /\ IF used = 0 THEN a' = AtEof /\ dma' = dma ELSE a' = Success /\ dma' = Pad(SubSeq(rest, 1, used))
  BY <1>1, CleanReadRandom DEF Indexing
<1>3. Inv'
  BY <1>1, ReadRandomStep
<1>4. FileOf(1)' = d
  BY <1>2 DEF FileOf, MovesTo
<1>5. Indexing'
  BY <1>1, <1>2, <1>4 DEF Indexing
<1>6. d \in Seq(Byte) /\ Len(d) \in Nat /\ Position(1) \in Nat
  BY <1>1, CleanType, PositionType DEF Indexing, Inv
<1>7. Len(rest) = IF Position(1) < Len(d) THEN Len(d) - Position(1) ELSE 0
  BY <1>6, RestType
<1> HIDE DEF d, rest, used
<1>8. ASSUME NEW e \in sought, e.nth < CrMod PROVE a' = Success /\ dma' = e.rec
  <2>1. e.nth \in Nat /\ e.at = e.nth /\ e.nth * RecSize < Len(d) /\ e.rec = RecordAt(d, e.nth)
    BY <1>1, <1>8 DEF Indexing, EntryHolds, d
  <2>2. Position(1) = e.nth * RecSize
    BY <1>1, <2>1 DEF Position
  <2>3. used > 0
    BY <1>6, <1>7, <2>1, <2>2, RecSizeAssumption DEF used, AtMost
  <2>4. RecordAt(d, e.nth) = Pad(SubSeq(rest, 1, used))
    BY <2>2 DEF RecordAt, rest, used
  <2>5. QED  BY <1>2, <2>1, <2>3, <2>4
<1>9. IndexFindsRecord'
  BY <1>1, <1>8 DEF IndexFindsRecord, Answers
<1>10. QED
  BY <1>1, <1>3, <1>5, <1>9 DEF IndexInv, IndexStages

\* The other calls of the program.
LEMMA IndexOpens ==
  ASSUME IndexInv, Opens, client' = client
  PROVE  IndexInv'
<1>1. /\ Inv /\ client = "index" /\ reads = 0 /\ index = {} /\ sought = {} /\ fcb[1].cr = 0
      /\ 1 \in Fcb /\ Indexed \in Name /\ Open(1, Indexed) /\ ~Converts(Lookup(Indexed))
      /\ UNCHANGED <<reads, index, sought>>
  BY OneIsFcb, IndexAssumption DEF IndexInv, Opens
<1>2. Inv'
  BY <1>1, OpenStep
<1>3. CASE a' # Success
  <2>1. pc' = "done"
    BY <1>3 DEF Opens, Goto
  <2>2. QED  BY <1>1, <1>2, <2>1 DEF IndexInv, IndexStages, IndexFindsRecord
<1>4. CASE a' = Success
  <2>1. pc' = "read"
    BY <1>4 DEF Opens, Goto
  <2>2. /\ Clean(1)' /\ StreamOf(1)'.off = 0 /\ ~openFiles'[1].eofSeen
        /\ openFiles'[1].mode = Lookup(Indexed).mode /\ openFiles'[1].eol = Lookup(Indexed).eol
        /\ fcb' = [fcb EXCEPT ![1].ex = 0]
    BY <1>1, <1>4, CleanOpen
  <2>3. fcb'[1].ex = 0 /\ fcb'[1].cr = 0
    BY <1>1, <2>2 DEF Inv, TypeOK, FcbBytes
  <2>4. ~Converts(openFiles'[1])
    BY <1>1, <2>2 DEF Converts
  <2>5. Indexing'
    BY <1>1, <2>2, <2>3, <2>4 DEF Indexing
  <2>6. Len(FileOf(1)') \in Nat
    BY <1>1, <1>2, <2>2, CleanType
  <2>7. InSequence'
    <3>1. AtMost(0 * RecSize, Len(FileOf(1)')) = 0
      BY <2>6, RecSizeAssumption DEF AtMost
    <3>2. QED  BY <1>1, <2>2, <2>3, <3>1 DEF InSequence
  <2>8. QED  BY <1>1, <1>2, <2>1, <2>5, <2>7 DEF IndexInv, IndexStages, IndexFindsRecord
<1>5. QED  BY <1>3, <1>4

\* The positions asked for and chosen are those the index holds.
LEMMA IndexAsks ==
  ASSUME IndexInv, Asks \/ Choose \/ NextEntry, client' = client
  PROVE  IndexInv'
<1>1. Inv /\ client = "index" /\ reads \in Nat /\ 1 \in Fcb /\ Indexing
  BY OneIsFcb DEF IndexInv, Asks, Choose, NextEntry
<1>2. fcb \in [Fcb -> FcbBytes]
  BY <1>1 DEF Inv, TypeOK
<1>3. ASSUME UNCHANGED <<stream, openFiles, data>>
      PROVE  /\ FileOf(1)' = FileOf(1) /\ StreamOf(1)' = StreamOf(1) /\ openFiles' = openFiles
             /\ Clean(1)' /\ ~Converts(openFiles'[1])
  BY <1>1, <1>3 DEF FileOf, StreamOf, Clean, IsOpen, Indexing
<1>4. CASE Asks
  <2>1. /\ pc = "read" /\ pc' = "told" /\ SetRandomRecord(1) /\ UNCHANGED <<reads, index, sought>>
        /\ InSequence
    BY <1>4 DEF Asks, Goto, IndexInv
  <2>2. Inv'
    BY <1>1, <2>1, FcbOnlyStep
  <2>3. UNCHANGED <<stream, openFiles, data>>
        /\ fcb' = [fcb EXCEPT ![1].rr = fcb[1].ex * ExtentRecords + fcb[1].cr]
    BY <2>1 DEF SetRandomRecord, host
  <2>4. fcb[1].ex = 0 /\ fcb[1].cr \in Nat /\ ExtentRecords \in Nat
    BY <1>1, <1>2, BdosFilesAssumption DEF Indexing, FcbBytes
  <2>5. fcb'[1].ex = 0 /\ fcb'[1].cr = fcb[1].cr /\ fcb'[1].rr = fcb[1].ex * ExtentRecords + fcb[1].cr
    BY <1>1, <1>2, <2>3, <2>4 DEF FcbBytes
  <2>6. fcb'[1].rr = fcb'[1].cr
    BY <2>4, <2>5
  <2>7. Indexing' /\ InSequence'
    BY <1>1, <1>3, <2>1, <2>3, <2>5 DEF Indexing, InSequence
  <2>8. QED  BY <1>1, <2>1, <2>2, <2>6, <2>7 DEF IndexInv, IndexStages, IndexFindsRecord
<1>5. CASE Choose
  <2>1. PICK e \in index : sought' = {e} /\ fcb' = [fcb EXCEPT ![1].rr = e.at]
    BY <1>5 DEF Choose
  <2>2. /\ UNCHANGED <<host, stream, openFiles, fileMap, dma, a, reads, index>> /\ pc' = "seek"
        /\ data' = data
    BY <1>5 DEF Choose, Goto, host
  <2>3. e.at \in Nat
    BY <1>1 DEF Indexing, EntryHolds
  <2>4. [fcb[1] EXCEPT !.rr = e.at] \in FcbBytes
    BY <1>1, <1>2, <2>3 DEF FcbBytes
  <2>5. fcb' \in [Fcb -> FcbBytes] /\ fcb'[1].ex = 0 /\ fcb'[1].rr = e.at
    <3>1. fcb'[1] = [fcb[1] EXCEPT !.rr = e.at]
      BY <1>1, <1>2, <2>1
    <3>2. fcb' = [fcb EXCEPT ![1] = [fcb[1] EXCEPT !.rr = e.at]]
      BY <2>1
    <3>3. fcb' \in [Fcb -> FcbBytes]
      <4> HIDE DEF FcbBytes
      <4>1. QED  BY <1>1, <1>2, <2>4, <3>2
    <3>4. fcb[1] \in FcbBytes /\ fcb[1].ex = 0
      BY <1>1, <1>2 DEF Indexing
    <3>5. QED  BY <3>1, <3>3, <3>4 DEF FcbBytes
  <2>6. Inv'
    <3>1. RestOK'
      BY <1>1, <2>2, <2>5 DEF Inv, TypeOK, RestOK, host
    <3>2. QED  BY <1>1, <2>2, <3>1, KeepsStreams
  <2>7. Indexing'
    BY <1>1, <1>3, <2>1, <2>2, <2>5 DEF Indexing
  <2>8. QED  BY <1>1, <2>1, <2>2, <2>5, <2>6, <2>7 DEF IndexInv, IndexStages, IndexFindsRecord
<1>6. CASE NextEntry
  <2>1. UNCHANGED <<vars, reads, sought>> /\ index' = index \ sought /\ pc' = "store"
    BY <1>6 DEF NextEntry, Goto
  <2>2. Inv' /\ UNCHANGED <<stream, openFiles, data, fcb>>
    BY <1>1, <2>1, NextInv DEF vars
  <2>3. Indexing'
    BY <1>1, <1>3, <2>1, <2>2 DEF Indexing
  <2>4. QED  BY <1>1, <2>1, <2>2, <2>3 DEF IndexInv, IndexStages, IndexFindsRecord
<1>7. QED  BY <1>4, <1>5, <1>6

\* Nothing is indexed at the start.
LEMMA IndexStart ==
  ASSUME Init, IndexInit, ~Converts(Lookup(Indexed))
  PROVE  IndexInv
<1>1. Inv
  BY InitInv
<1>2. fcb[1].cr = 0
  BY OneIsFcb DEF Init, Idle, BlankFcb
<1>3. QED  BY <1>1, <1>2 DEF IndexInit, IndexInv, IndexStages, IndexFindsRecord

\* A step of the indexing program.
LEMMA IndexStep ==
  ASSUME IndexInv, [IndexNext]_<<vars, client, pc, indexVars>>
  PROVE  IndexInv'
<1>1. CASE UNCHANGED <<vars, client, pc, indexVars>>
  <2>1. UNCHANGED <<dir, data, stream, openFiles, fileMap, fcb, dma, a, client, pc, reads, index, sought>>
    BY <1>1 DEF vars, indexVars
  <2>2. Inv'
    BY <2>1, NextInv DEF vars, IndexInv
  <2>3. Indexing => Indexing'
    BY <2>1 DEF Indexing, Clean, StreamOf, FileOf, IsOpen
  <2>4. InSequence => InSequence'
    BY <2>1 DEF InSequence, StreamOf, FileOf
  <2>5. Lookup(Indexed)' = Lookup(Indexed)
    BY <2>1 DEF Lookup
  <2>6. QED  BY <2>1, <2>2, <2>3, <2>4, <2>5 DEF IndexInv, IndexFindsRecord, Answers
<1>2. CASE IndexNext
  <2>1. client = "index" /\ client' = client
    BY <1>2 DEF IndexNext, Opens, Asks, Reads, Choose, Seek, NextEntry, Closes, Goto, IndexInv
  <2>2. CASE Opens  BY <2>1, <2>2, IndexOpens
  <2>3. CASE Asks \/ Choose \/ NextEntry  BY <2>1, <2>3, IndexAsks
  <2>4. CASE Reads  BY <2>1, <2>4, IndexReads
  <2>5. CASE Seek  BY <2>1, <2>5, IndexSeeks
  <2>6. CASE Closes
    <3>1. Inv' /\ pc' = "done" /\ UNCHANGED <<reads, index, sought>>
      BY <2>6, OneIsFcb, CloseStep DEF Closes, Goto, IndexInv
    <3>2. QED  BY <2>1, <3>1 DEF IndexInv, IndexStages, IndexFindsRecord
  <2>7. QED  BY <1>2, <2>2, <2>3, <2>4, <2>5, <2>6 DEF IndexNext
<1>3. QED  BY <1>1, <1>2

\* In a file that is read as it is, of any length, with any number of entries: the record
\* whose position the program was told is the one read random finds there (1571-1606,
\* 1690-1726, 1795-1811).
THEOREM RecordsAreFound == IndexSpec => []IndexFindsRecord
<1>1. Init /\ IndexInit /\ ~Converts(Lookup(Indexed)) => IndexInv
  BY IndexStart
<1>2. IndexInv /\ [IndexNext]_<<vars, client, pc, indexVars>> => IndexInv'
  BY IndexStep
<1>3. IndexInv => IndexFindsRecord
  BY DEF IndexInv
<1>4. QED  BY <1>1, <1>2, <1>3, PTL DEF IndexSpec

---------------------------------------------------------------------------
(* Records of text                                                          *)

\* What the fgetc loop gives of a text, and what it means that it gives nothing.
LEMMA TextRead ==
  ASSUME RecSize >= 2, NEW seen \in Seq(Byte), NEW r, r = ReadExpanded(seen)
  PROVE  /\ ~(r.out = <<>> \/ r.atEof) =>
              /\ r.used \in 1..Len(seen) /\ r.out = Expand(SubSeq(seen, 1, r.used))
              /\ Width(seen, r.used) <= RecSize /\ \A j \in 1..r.used : seen[j] # CtrlZ
         /\ (r.out = <<>> \/ r.atEof) => Len(seen) = 0 \/ \E j \in 1..Len(seen) : seen[j] = CtrlZ
<1> DEFINE used  == Fitting(seen)
           full  == Width(seen, used) = RecSize
           atEof == ~full /\ used < Len(seen) /\ seen[used + 1] = CtrlZ
           out   == Expand(SubSeq(seen, 1, used))
<1>1. /\ used \in 0..Len(seen) /\ Width(seen, used) <= RecSize
      /\ \A j \in 1..used : seen[j] # CtrlZ
      /\ used = Len(seen) \/ seen[used + 1] = CtrlZ \/ Width(seen, used + 1) > RecSize
  BY FittingMost
<1>2. used \in Nat /\ Len(seen) \in Nat
  BY <1>1, LenProperties
<1>3. Len(out) = Width(seen, used) /\ out \in Seq(Byte)
  BY <1>1, ExpandOfPart
<1>4. Width(seen, used) \in used..(2 * used)
  BY <1>2, WidthType
<1>5. out = <<>> <=> used = 0
  <2> HIDE DEF used, out
  <2>1. out = <<>> <=> Len(out) = 0
    BY <1>3, EmptySeq
  <2>2. QED  BY <1>2, <1>3, <1>4, <2>1
<1>6. r = ReadResult(out, IF atEof THEN used + 1 ELSE used,
                     IF full THEN used ELSE used + 1, atEof)
  BY DEF ReadExpanded
<1> HIDE DEF used, full, out
<1>7. r.out = out /\ (r.atEof <=> atEof) /\ (~atEof => r.used = used)
  <2> HIDE DEF atEof
  <2>1. r.out = out /\ r.atEof = atEof /\ r.used = IF atEof THEN used + 1 ELSE used
    BY <1>6 DEF ReadResult
  <2>2. QED  BY <2>1
<1>8. ASSUME ~(r.out = <<>> \/ r.atEof)
      PROVE  r.used = used /\ used \in 1..Len(seen)
  BY <1>1, <1>2, <1>5, <1>7, <1>8
<1>9. ASSUME r.out = <<>> \/ r.atEof, Len(seen) # 0
      PROVE  \E j \in 1..Len(seen) : seen[j] = CtrlZ
  <2>1. used + 1 \in 1..Len(seen) /\ seen[used + 1] = CtrlZ
    <3>1. CASE atEof
      BY <1>2, <3>1 DEF atEof
    <3>2. CASE ~atEof
      <4>1. used = 0 /\ used # Len(seen)
        BY <1>5, <1>7, <1>9, <3>2
      <4>2. ~(Width(seen, used + 1) > RecSize)
        <5>1. Width(seen, 1) \in 1..(2 * 1)
          BY WidthType
        <5>2. Width(seen, 1) <= RecSize /\ used + 1 = 1
          BY <4>1, <5>1, RecSizeAssumption
        <5>3. QED  BY <5>1, <5>2, RecSizeAssumption
      <4>3. seen[used + 1] = CtrlZ
        BY <1>1, <4>1, <4>2
      <4>4. QED  BY <1>2, <4>1, <4>3
    <3>3. QED  BY <3>1, <3>2
  <2>2. QED  BY <2>1
<1>10. QED  BY <1>1, <1>7, <1>8, <1>9 DEF out

\* The first bytes of what is behind a position.
LEMMA PartOfRest ==
  ASSUME NEW d \in Seq(Byte), NEW m \in Nat, NEW k \in Nat, m + k <= Len(d),
         NEW rest, rest = SubSeq(d, m + 1, Len(d))
  PROVE  /\ SubSeq(rest, 1, k) = SubSeq(d, m + 1, m + k)
         /\ SubSeq(d, m + 1, m + k) \in Seq(Byte) /\ Len(SubSeq(d, m + 1, m + k)) = k
         /\ \A i \in 1..k : SubSeq(d, m + 1, m + k)[i] = rest[i]
<1>1. Len(d) \in Nat /\ m + k \in Nat
  BY LenProperties
<1>2. /\ rest \in Seq(Byte) /\ Len(rest) = (IF m < Len(d) THEN Len(d) - m ELSE 0)
      /\ \A i \in 1..(Len(d) - m) : rest[i] = d[m + i]
  BY RestType
<1> DEFINE p == SubSeq(rest, 1, k)
           q == SubSeq(d, m + 1, m + k)
<1>3. q \in Seq(Byte) /\ Len(q) = k /\ \A i \in 1..k : q[i] = d[m + i]
  <2>1. (m + k) - m = k /\ (IF m < m + k THEN (m + k) - m ELSE 0) = k
    OBVIOUS
  <2>2. /\ q \in Seq(Byte) /\ Len(q) = (IF m < m + k THEN (m + k) - m ELSE 0)
        /\ \A i \in 1..((m + k) - m) : q[i] = d[m + i]
    BY <1>1, PartOf
  <2> HIDE DEF q
  <2>3. QED  BY <2>1, <2>2
<1>4. p \in Seq(Byte) /\ Len(p) = k /\ \A i \in 1..k : p[i] = rest[i]
  <2>1. k <= Len(rest) /\ k - 0 = k /\ (IF 0 < k THEN k - 0 ELSE 0) = k
    BY <1>1, <1>2
  <2>2. /\ SubSeq(rest, 0 + 1, k) \in Seq(Byte)
        /\ Len(SubSeq(rest, 0 + 1, k)) = (IF 0 < k THEN k - 0 ELSE 0)
        /\ \A i \in 1..(k - 0) : SubSeq(rest, 0 + 1, k)[i] = rest[0 + i]
    BY <1>2, <2>1, PartOf
  <2>3. 0 + 1 = 1 /\ \A i \in 1..k : 0 + i = i
    OBVIOUS
  <2> HIDE DEF p
  <2>4. p = SubSeq(rest, 0 + 1, k)
    BY DEF p
  <2>5. QED  BY <2>1, <2>2, <2>3, <2>4
<1> HIDE DEF p, q
<1>5. ASSUME NEW i \in 1..k PROVE rest[i] = d[m + i]
  <2>1. i \in 1..(Len(d) - m)
    BY <1>1
  <2>2. QED  BY <1>2, <2>1
<1>6. p = q
  <2>1. \A i \in 1..Len(p) : p[i] = q[i]
    BY <1>3, <1>4, <1>5
  <2>2. QED  BY <1>3, <1>4, <2>1, SeqEqual
<1>7. \A i \in 1..k : q[i] = rest[i]
  BY <1>3, <1>5
<1>8. QED  BY <1>3, <1>6, <1>7 DEF p, q

\* Writing the next bytes of a text behind its first ones gives more of it.
LEMMA PartWritten ==
  ASSUME NEW d \in Seq(Byte), NEW m \in Nat, NEW n \in Nat, m < n, n <= Len(d)
  PROVE  Overwrite(SubSeq(d, 1, m), m, SubSeq(d, m + 1, n)) = SubSeq(d, 1, n)
<1> DEFINE p == SubSeq(d, 1, m)
           b == SubSeq(d, m + 1, n)
           q == SubSeq(d, 1, n)
           o == Overwrite(p, m, b)
<1>1. Len(d) \in Nat
  BY LenProperties
<1>2. ASSUME NEW k \in Nat, k <= Len(d)
      PROVE  /\ SubSeq(d, 1, k) \in Seq(Byte) /\ Len(SubSeq(d, 1, k)) = k
             /\ \A i \in 1..k : SubSeq(d, 1, k)[i] = d[i]
  <2> DEFINE x == SubSeq(d, 1, k)
  <2>1. x = SubSeq(d, 0 + 1, k) /\ k - 0 = k /\ (IF 0 < k THEN k - 0 ELSE 0) = k
          /\ \A i \in 1..k : 0 + i = i
    OBVIOUS
  <2>2. /\ SubSeq(d, 0 + 1, k) \in Seq(Byte)
        /\ Len(SubSeq(d, 0 + 1, k)) = (IF 0 < k THEN k - 0 ELSE 0)
        /\ \A i \in 1..(k - 0) : SubSeq(d, 0 + 1, k)[i] = d[0 + i]
    BY <1>1, <1>2, PartOf
  <2> HIDE DEF x
  <2>3. x \in Seq(Byte) /\ Len(x) = k /\ \A i \in 1..k : x[i] = d[i]
    BY <2>1, <2>2
  <2>4. QED  BY <2>3 DEF x
<1>3. /\ p \in Seq(Byte) /\ Len(p) = m /\ \A i \in 1..m : p[i] = d[i]
      /\ q \in Seq(Byte) /\ Len(q) = n /\ \A i \in 1..n : q[i] = d[i]
  BY <1>1, <1>2
<1>4. b \in Seq(Byte) /\ Len(b) = n - m /\ \A i \in 1..(n - m) : b[i] = d[m + i]
  BY <1>1, PartOf
<1>5. b # <<>>
  BY <1>4, EmptySeq
<1> HIDE DEF p, b, q
<1>6. /\ o \in Seq(Byte)
      /\ Len(o) = IF m + Len(b) > Len(p) THEN m + Len(b) ELSE Len(p)
      /\ \A k \in 1..Len(o) : o[k] = IF k > m /\ k <= m + Len(b) THEN b[k - m]
                                     ELSE IF k <= Len(p) THEN p[k] ELSE Zero
  BY <1>3, <1>4, <1>5, OverwriteElements
<1> HIDE DEF o
<1>7. Len(o) = n
  BY <1>3, <1>4, <1>6
<1>8. ASSUME NEW k \in 1..Len(o) PROVE o[k] = q[k]
  <2>1. CASE k > m
    <3>1. k - m \in 1..(n - m) /\ m + (k - m) = k /\ k <= m + Len(b)
      BY <1>4, <1>7, <2>1
    <3>2. o[k] = b[k - m]
      BY <1>6, <2>1, <3>1
    <3>3. b[k - m] = d[m + (k - m)]
      BY <1>4, <3>1
    <3>4. q[k] = d[k]
      BY <1>3, <1>7
    <3>5. QED  BY <3>1, <3>2, <3>3, <3>4
  <2>2. CASE k <= m
    <3>1. k \in 1..m /\ k \in 1..n /\ ~(k > m)
      BY <1>7, <2>2
    <3>2. QED  BY <1>3, <1>6, <2>2, <3>1
  <2>3. QED  BY <2>1, <2>2
<1>9. o = q
  BY <1>3, <1>6, <1>7, <1>8, SeqEqual
<1>10. QED  BY <1>9 DEF o, p, b, q

---------------------------------------------------------------------------
(* Making, writing and closing a file                                       *)

\* A file whose path stays is not reclaimed.
LEMMA LinkedStays ==
  ASSUME NEW d, NEW p \in Path, d[p] \in Inode, NEW contents, NEW inUse
  PROVE  Reclaim(d, contents, inUse)[d[p]] = contents[d[p]]
BY DEF Reclaim, Linked

\* What is made is empty, and no other file's.
LEMMA CleanMake ==
  ASSUME Inv, NEW f \in Fcb, NEW n \in Name, Make(f, n), a' = Success
  PROVE  /\ Clean(f)' /\ StreamOf(f)'.off = 0 /\ StreamOf(f)'.writable /\ FileOf(f)' = <<>>
         /\ openFiles'[f].mode = DefaultMode /\ openFiles'[f].eol = DefaultEol
         /\ StreamOf(f)'.ino = dir'[Lower[n]] /\ dir'[Lower[n]] \in Inode
         /\ \A p \in Path : p # Lower[n] => dir'[p] = dir[p]
         /\ \A g \in Fcb \ {f} : openFiles'[g] = openFiles[g]
                                   /\ (IsOpen(g) => StreamOf(g)' = StreamOf(g))
         /\ \A p \in Path : Exists(dir, p) /\ dir[p] # dir[Lower[n]]
                              => dir[p] # dir'[Lower[n]] /\ data'[dir[p]] = data[dir[p]]
<1>1. PICK fd \in FreeFd,
           ino \in IF Exists(dir, Lower[n]) THEN {dir[Lower[n]]} ELSE FreeInode :
             MakeSucceeds(f, n, ino, fd)
  BY DEF Make, Success, Failure
<1>2. /\ fd \in Fd /\ fd \notin Live /\ stream \in [Fd -> Stream \cup {Closed}] /\ dir \in Directory
      /\ openFiles \in [Fcb -> OpenFile \cup {NotOpen}] /\ data \in Contents /\ Lower[n] \in Path
  BY MappingAssumption DEF FreeFd, Inv, TypeOK
<1>3. ino \in Inode
  BY <1>2 DEF Directory, Exists, FreeInode
<1> DEFINE s  == Opened(ino, TRUE)
           of == [fp |-> fd, mode |-> DefaultMode, eol |-> DefaultEol, eofSeen |-> FALSE]
<1>4. /\ GoodStream(s) /\ s.pend = <<>> /\ s.off = 0 /\ s.win = <<>> /\ s.eof = FALSE
      /\ s.ino = ino /\ s.writable
  BY <1>3, OpenedGood DEF Opened
<1>5. of \in OpenFile /\ of.fp = fd /\ of.mode = DefaultMode /\ of.eol = DefaultEol
  BY <1>2, MappingAssumption DEF OpenFile
<1>6. /\ stream' = [stream EXCEPT ![fd] = s] /\ openFiles' = [openFiles EXCEPT ![f] = of]
      /\ dir' = [dir EXCEPT ![Lower[n]] = ino] /\ data' = [data EXCEPT ![ino] = <<>>]
  BY <1>1 DEF MakeSucceeds
<1> HIDE DEF s, of
<1>7. openFiles'[f] = of /\ \A g \in Fcb \ {f} : openFiles'[g] = openFiles[g]
  BY <1>2, <1>6
<1>8. IsOpen(f)' /\ openFiles'[f].fp = fd
  BY <1>5, <1>7, NotOpenAssumption DEF IsOpen
<1>9. StreamOf(f)' = s
  BY <1>2, <1>6, <1>8 DEF StreamOf
<1>10. FileOf(f)' = <<>> /\ <<>> \in Seq(Byte)
  BY <1>2, <1>3, <1>4, <1>6, <1>9, EmptySeq DEF FileOf, Contents
<1>11. Clean(f)'
  <2>1. Fresh(s, <<>>)
    BY <1>4, <1>10, FreshEmpty
  <2>2. QED  BY <1>4, <1>8, <1>9, <1>10, <2>1 DEF Clean
<1>12. ASSUME NEW g \in Fcb \ {f}, IsOpen(g) PROVE StreamOf(g)' = StreamOf(g)
  <2>1. openFiles[g].fp # fd
    BY <1>2, <1>12, OpenGood
  <2>2. QED  BY <1>2, <1>6, <1>7, <2>1 DEF StreamOf
<1>13. dir'[Lower[n]] = ino /\ \A p \in Path : p # Lower[n] => dir'[p] = dir[p]
  BY <1>2, <1>6 DEF Directory
<1>14. ASSUME NEW p \in Path, Exists(dir, p), dir[p] # dir[Lower[n]]
       PROVE  dir[p] # ino /\ data'[dir[p]] = data[dir[p]]
  <2>1. dir[p] \in Inode
    BY <1>2, <1>14 DEF Directory, Exists
  <2>2. dir[p] \in Linked(dir)
    BY <2>1 DEF Linked
  <2>3. dir[p] # ino
    BY <1>1, <1>14, <2>2 DEF FreeInode
  <2>4. QED  BY <1>2, <1>6, <2>1, <2>3 DEF Contents
<1>15. QED
  BY <1>3, <1>4, <1>5, <1>7, <1>9, <1>10, <1>11, <1>12, <1>13, <1>14

\* A text record that is written is in the file, behind what was there.
LEMMA CleanWrite ==
  ASSUME Inv, NEW f \in Fcb, NEW n, Clean(f), Converts(openFiles[f]), StreamOf(f).writable,
         WriteSequential(f, n), NEW out, out = Collapse(dma), out # <<>>
  PROVE  /\ a' = Success /\ Clean(f)' /\ StreamOf(f)'.writable
         /\ StreamOf(f)'.off = StreamOf(f).off + Len(out) /\ StreamOf(f)'.ino = StreamOf(f).ino
         /\ FileOf(f)' = Overwrite(FileOf(f), StreamOf(f).off, out)
         /\ openFiles' = openFiles /\ UNCHANGED <<dir, fileMap, dma>>
         /\ \A i \in Inode : i # StreamOf(f).ino => data'[i] = data[i]
         /\ \A g \in Fcb \ {f} : IsOpen(g) => StreamOf(g)' = StreamOf(g)
<1> DEFINE of == openFiles[f]
           s  == StreamOf(f)
           d  == FileOf(f)
           w  == Written(of, s)
           e  == Flushed(Put(s, out), d)
<1>1. /\ of \in OpenFile /\ of.fp \in Fd /\ GoodStream(s) /\ s \in Stream /\ s.ino \in Inode
      /\ d \in Seq(Byte) /\ Flushed(s, d) = d
  BY CleanType
<1>2. s.pend = <<>> /\ Fresh(s, d) /\ IsOpen(f) /\ data \in Contents /\ TypeOK
  BY DEF Clean, Inv, TypeOK
<1>3. out = WriteWithConversion(of, dma) /\ out \in Seq(Byte)
  <2>1. out = WriteWithConversion(of, dma)
    BY DEF WriteWithConversion
  <2>2. QED  BY <1>1, <1>2, <2>1, WrittenType
<1>4. /\ openFiles' = openFiles /\ UNCHANGED <<dir, fileMap, dma>>
      /\ stream' = [stream EXCEPT ![of.fp] = w]
      /\ data' = [data EXCEPT ![s.ino] = e] /\ a' = Success
  <2> DEFINE already == [files |-> openFiles, streams |-> stream]
             conv == WriteWithConversion(of, dma)
  <2>1. PICK o \in {already} :
          /\ openFiles' = o.files
          /\ stream' = [o.streams EXCEPT ![o.files[f].fp] =
                          Written(o.files[f], o.streams[o.files[f].fp])]
          /\ data' = (IF o.streams[o.files[f].fp].writable /\ Converts(o.files[f])
                      THEN [data EXCEPT ![o.streams[o.files[f].fp].ino] =
                              Flushed(Put(o.streams[o.files[f].fp],
                                          WriteWithConversion(o.files[f], dma)),
                                      data[o.streams[o.files[f].fp].ino])]
                      ELSE data)
          /\ a' = (IF o.streams[o.files[f].fp].writable /\ WriteWithConversion(o.files[f], dma) # <<>>
                   THEN Success ELSE Failure)
    BY Zenon, <1>2 DEF WriteSequential
  <2>2. o.files = openFiles /\ o.streams = stream
    OBVIOUS
  <2>3. UNCHANGED <<dir, fileMap, dma>>
    BY <1>2 DEF WriteSequential
  <2> HIDE DEF already
  <2>4. /\ openFiles' = openFiles /\ stream' = [stream EXCEPT ![of.fp] = Written(of, s)]
        /\ data' = (IF s.writable /\ Converts(of)
                    THEN [data EXCEPT ![s.ino] = Flushed(Put(s, conv), data[s.ino])] ELSE data)
        /\ a' = (IF s.writable /\ conv # <<>> THEN Success ELSE Failure)
    BY <2>1, <2>2 DEF StreamOf
  <2>5. QED  BY <1>3, <2>3, <2>4 DEF FileOf
<1>5. /\ GoodStream(w) /\ Fresh(w, e) /\ w.ino = s.ino /\ w.writable = s.writable
      /\ w.off = s.off + Len(out) /\ Flushed(w, e) = Overwrite(Flushed(s, d), s.off, out)
  <2>1. out = (IF s.writable THEN out ELSE <<>>)
    OBVIOUS
  <2>2. e = (IF s.writable /\ Converts(of) THEN Flushed(Put(s, out), d) ELSE d)
    OBVIOUS
  <2> HIDE DEF s, d, e, of
  <2>3. QED  BY <1>1, <1>2, <1>3, <2>1, <2>2, WrittenFresh DEF w
<1>6. w.pend = <<>> /\ e \in Seq(Byte)
  <2>1. GoodStream(Put(s, out))
    BY <1>1, <1>3, PutGood
  <2>2. e \in Seq(Byte)
    BY <1>1, <2>1, FlushedType
  <2>3. w = Synced(Put(s, out))
    BY <1>3 DEF Written
  <2>4. QED
    BY <1>1, <1>2, <1>3, <2>1, <2>2, <2>3, PutFresh, SyncedFresh
<1>7. Flushed(w, e) = e
  BY <1>5, <1>6, FlushedLength
<1>8. /\ StreamOf(f)' = w /\ IsOpen(f)'
  BY <1>1, <1>2, <1>4 DEF StreamOf, IsOpen, TypeOK
<1>9. FileOf(f)' = e
  BY <1>1, <1>2, <1>4, <1>5, <1>8 DEF FileOf, Contents
<1>10. e = Overwrite(d, s.off, out)
  BY <1>1, <1>5, <1>7
<1>11. ASSUME NEW g \in Fcb \ {f}, IsOpen(g) PROVE StreamOf(g)' = StreamOf(g)
  <2>1. openFiles[g].fp # of.fp
    BY <1>2, <1>11 DEF Inv, HandleOwnership
  <2>2. QED  BY <1>2, <1>4, <2>1 DEF StreamOf, TypeOK
<1>12. \A i \in Inode : i # s.ino => data'[i] = data[i]
  BY <1>2, <1>4 DEF Contents
<1> HIDE DEF w, e, d
<1>13. Clean(f)'
  BY <1>5, <1>6, <1>8, <1>9 DEF Clean
<1>14. QED
  BY <1>4, <1>5, <1>8, <1>9, <1>10, <1>11, <1>12, <1>13 DEF d

\* Closing a file that holds nothing back changes no file that has a path.
LEMMA CleanClose ==
  ASSUME Inv, NEW f \in Fcb, Clean(f), Close(f)
  PROVE  /\ dir' = dir
         /\ \A p \in Path : dir[p] \in Inode => data'[dir[p]] = data[dir[p]]
         /\ \A g \in Fcb \ {f} : /\ openFiles'[g] = openFiles[g]
                                 /\ IsOpen(g) => IsOpen(g)' /\ StreamOf(g)' = StreamOf(g)
<1> DEFINE s == StreamOf(f)
<1>1. /\ openFiles[f].fp \in Fd /\ Flushed(s, FileOf(f)) = FileOf(f) /\ s.ino \in Inode
  BY CleanType
<1>2. IsOpen(f) /\ data \in Contents /\ stream \in [Fd -> Stream \cup {Closed}]
      /\ openFiles \in [Fcb -> OpenFile \cup {NotOpen}]
  BY DEF Clean, Inv, TypeOK
<1>3. /\ stream' = [stream EXCEPT ![openFiles[f].fp] = Closed] /\ dir' = dir
      /\ data' = Reclaim(dir, [data EXCEPT ![s.ino] = Flushed(s, data[s.ino])], InUse(stream'))
      /\ openFiles' = [openFiles EXCEPT ![f] = NotOpen]
  BY <1>2 DEF Close, StreamOf
<1>4. [data EXCEPT ![s.ino] = Flushed(s, data[s.ino])] = data
  BY <1>1, <1>2 DEF FileOf, Contents
<1>5. ASSUME NEW p \in Path, dir[p] \in Inode PROVE data'[dir[p]] = data[dir[p]]
  <2>1. data' = Reclaim(dir, data, InUse(stream'))
    BY <1>3, <1>4
  <2>2. QED  BY <1>5, <2>1, LinkedStays
<1>6. ASSUME NEW g \in Fcb \ {f}
      PROVE  /\ openFiles'[g] = openFiles[g]
             /\ IsOpen(g) => IsOpen(g)' /\ StreamOf(g)' = StreamOf(g)
  <2>1. openFiles'[g] = openFiles[g]
    BY <1>2, <1>3
  <2>2. ASSUME IsOpen(g) PROVE StreamOf(g)' = StreamOf(g) /\ IsOpen(g)'
    <3>1. openFiles[g].fp # openFiles[f].fp
      BY <1>2, <2>2 DEF Inv, HandleOwnership
    <3>2. QED  BY <1>2, <1>3, <2>1, <2>2, <3>1 DEF StreamOf, IsOpen
  <2>3. QED  BY <2>1, <2>2
<1>7. QED  BY <1>3, <1>5, <1>6

---------------------------------------------------------------------------
(* A program that copies a file                                             *)

WritesText == Converts([mode |-> DefaultMode, eol |-> DefaultEol])

Apart ==
  /\ dir[Lower[Source]] \in Inode /\ dir[Lower[Target]] # dir[Lower[Source]]

\* The source is read as text, from the file it names.
SourceRead ==
  /\ Clean(In) /\ Converts(openFiles[In]) /\ StreamOf(In).ino = dir[Lower[Source]]
  /\ StreamOf(In).off <= Len(Original) /\ Apart

\* The target is written as text, at its end.
TargetWritten ==
  /\ Clean(Out) /\ Converts(openFiles[Out]) /\ StreamOf(Out).writable
  /\ StreamOf(Out).ino = dir[Lower[Target]] /\ dir[Lower[Target]] \in Inode
  /\ StreamOf(Out).off = Len(Copied)

CopiedTo(q) == q \in 0..Len(Original) /\ Copied = SubSeq(Original, 1, q)

\* The buffer holds the text between q and the position of the source.
InBuffer(q) ==
  LET part == SubSeq(Original, q + 1, StreamOf(In).off)
  IN  /\ q < StreamOf(In).off /\ dma = Pad(Expand(part))
      /\ Width(part, Len(part)) <= RecSize /\ \A j \in 1..Len(part) : part[j] # CtrlZ

Exact == ~HasCtrlZ(Original) => Copied = Original

CopyStages == {"open", "make", "read", "write", "close", "closing", "done", "failed"}

CopyInv ==
  /\ Inv /\ client = "copy" /\ pc \in CopyStages /\ WritesText
  /\ pc = "open" => /\ Lookup(Source).path = Lower[Source] /\ Converts(Lookup(Source))
                    /\ dir[Lower[Target]] # dir[Lower[Source]]
  /\ pc \in {"make", "read", "write", "close", "closing"} => SourceRead
  /\ pc = "make" => StreamOf(In).off = 0
  /\ pc \in {"make", "read", "write"} => ~openFiles[In].eofSeen
  /\ pc \in {"read", "write", "close"} => TargetWritten
  /\ pc = "read" => CopiedTo(StreamOf(In).off)
  /\ pc = "write" => \E q \in Nat : CopiedTo(q) /\ InBuffer(q)
  /\ pc = "close" => \E q \in Nat : CopiedTo(q)
  /\ pc \in {"close", "closing", "done"} => Exact
  /\ pc = "closing" => dir[Lower[Target]] \in Inode

\* The two FCBs and the two names.
LEMMA CopyConstants ==
  /\ In \in Fcb /\ Out \in Fcb /\ In # Out /\ Source \in Name /\ Target \in Name
  /\ Lower[Source] \in Path /\ Lower[Target] \in Path /\ RecSize >= 2 /\ RecSize \in Nat
<1>1. FcbCount >= 2 /\ FcbCount \in Nat /\ Source \in Name /\ Target \in Name /\ RecSize >= 2
  BY CopyAssumption, BdosFilesAssumption
<1>2. 1 \in 1..FcbCount /\ 2 \in 1..FcbCount /\ 1 # 2
  BY <1>1
<1>3. QED  BY <1>1, <1>2, MappingAssumption, RecSizeAssumption DEF In, Out, Fcb

\* What CopyIsExact says follows.
LEMMA CopyInvExact ==
  ASSUME CopyInv
  PROVE  CopyIsExact
<1>1. ASSUME pc \in {"read", "write", "close"} PROVE IsPrefix(Copied, Original)
  <2>1. PICK q \in Nat : CopiedTo(q)
    <3>1. CASE pc = "read"
      <4>1. SourceRead
        BY <3>1 DEF CopyInv
      <4>2. StreamOf(In).off \in Nat
        BY <4>1, CleanType, CopyConstants DEF SourceRead, CopyInv
      <4>3. QED  BY <3>1, <4>2 DEF CopyInv
    <3>2. CASE pc \in {"write", "close"}
      BY <3>2 DEF CopyInv
    <3>3. QED  BY <1>1, <3>1, <3>2
  <2>2. Original \in Seq(Byte) /\ Len(Original) \in Nat
    <3>1. SourceRead
      BY <1>1 DEF CopyInv
    <3>2. dir[Lower[Source]] \in Inode
      BY <3>1 DEF SourceRead, Apart
    <3>3. QED  BY <3>2, LenProperties DEF Original, CopyInv, Inv, TypeOK, Contents
  <2> DEFINE o == Original
             c == SubSeq(o, 1, q)
  <2>3. Copied = c /\ q \in 0..Len(o)
    BY <2>1 DEF CopiedTo
  <2>4. o \in Seq(Byte) /\ Len(o) \in Nat
    BY <2>2
  <2> HIDE DEF o
  <2>5. Len(c) = q
    <3>1. c = SubSeq(o, 0 + 1, q) /\ (IF 0 < q THEN q - 0 ELSE 0) = q
      OBVIOUS
    <3>2. q <= Len(o) /\ 0 \in Nat
      BY <2>3, <2>4
    <3>3. Len(SubSeq(o, 0 + 1, q)) = (IF 0 < q THEN q - 0 ELSE 0)
      BY <2>4, <3>2, PartOf
    <3>4. QED  BY <3>1, <3>3
  <2>6. c \in Seq(Byte)
    <3>1. c = SubSeq(o, 0 + 1, q) /\ q <= Len(o)
      BY <2>3, <2>4
    <3>2. QED  BY <2>4, <3>1, PartOf
  <2>7. SubSeq(c, 1, Len(c)) = c
    BY <2>6, WholePart
  <2>8. Len(Copied) <= Len(o) /\ SubSeq(Copied, 1, Len(Copied)) = SubSeq(o, 1, Len(Copied))
    BY <2>3, <2>4, <2>5, <2>7
  <2>9. QED  BY <2>8 DEF IsPrefix, o
<1>2. pc = "done" /\ ~HasCtrlZ(Original) => Copied = Original
  BY DEF CopyInv, Exact
<1>3. QED  BY <1>1, <1>2 DEF CopyIsExact

\* The copy begins.
LEMMA CopyStarts ==
  ASSUME CopyInv, Started, client' = client
  PROVE  CopyInv'
<1>1. Inv /\ client = "copy" /\ WritesText /\ WritesText'
  BY DEF CopyInv, WritesText
<1>2. CASE pc = "open"
  <2>1. /\ Open(In, Source) /\ Goto(IF a' = Success THEN "make" ELSE "failed")
        /\ Lookup(Source).path = Lower[Source] /\ Converts(Lookup(Source))
        /\ dir[Lower[Target]] # dir[Lower[Source]]
    BY <1>2 DEF Started, CopyInv
  <2>2. Inv'
    BY <1>1, <2>1, OpenStep, CopyConstants
  <2>3. CASE a' # Success
    <3>1. pc' = "failed"
      BY <2>1, <2>3 DEF Goto
    <3>2. QED  BY <1>1, <2>2, <3>1 DEF CopyInv, CopyStages
  <2>4. CASE a' = Success
    <3>1. pc' = "make"
      BY <2>1, <2>4 DEF Goto
    <3>2. /\ Clean(In)' /\ StreamOf(In)'.off = 0 /\ ~openFiles'[In].eofSeen
          /\ openFiles'[In].mode = Lookup(Source).mode /\ openFiles'[In].eol = Lookup(Source).eol
          /\ StreamOf(In)'.ino = dir[Lower[Source]] /\ UNCHANGED <<dir, data>>
          /\ StreamOf(In)'.ino \in Inode
      BY <1>1, <2>1, <2>4, CleanOpen, CopyConstants DEF host
    <3>3. Converts(openFiles'[In])
      BY <2>1, <3>2 DEF Converts
    <3>4. StreamOf(In)'.ino \in Inode
      BY <3>2
    <3>5. Apart'
      BY <2>1, <3>2, <3>4 DEF Apart
    <3>6. 0 <= Len(Original)'
      <4>1. Original' \in Seq(Byte)
        BY <2>2, <3>2, <3>4 DEF Original, Inv, TypeOK, Contents
      <4>2. QED  BY <4>1, LenProperties
    <3>7. SourceRead'
      BY <3>2, <3>3, <3>5, <3>6 DEF SourceRead
    <3>8. QED  BY <1>1, <2>2, <3>1, <3>2, <3>7 DEF CopyInv, CopyStages
  <2>5. QED  BY <2>3, <2>4
<1>3. CASE pc = "make"
  <2>1. /\ Make(Out, Target) /\ Goto(IF a' = Success THEN "read" ELSE "failed")
        /\ SourceRead /\ ~openFiles[In].eofSeen /\ StreamOf(In).off = 0
    BY <1>3 DEF Started, CopyInv
  <2>2. Inv'
    BY <1>1, <2>1, MakeStep, CopyConstants
  <2>3. CASE a' # Success
    <3>1. pc' = "failed"
      BY <2>1, <2>3 DEF Goto
    <3>2. QED  BY <1>1, <2>2, <3>1 DEF CopyInv, CopyStages
  <2>4. CASE a' = Success
    <3>1. pc' = "read"
      BY <2>1, <2>4 DEF Goto
    <3>2. /\ Clean(Out)' /\ StreamOf(Out)'.off = 0 /\ StreamOf(Out)'.writable /\ FileOf(Out)' = <<>>
          /\ openFiles'[Out].mode = DefaultMode /\ openFiles'[Out].eol = DefaultEol
          /\ StreamOf(Out)'.ino = dir'[Lower[Target]] /\ dir'[Lower[Target]] \in Inode
          /\ \A p \in Path : p # Lower[Target] => dir'[p] = dir[p]
          /\ \A g \in Fcb \ {Out} : openFiles'[g] = openFiles[g]
                                      /\ (IsOpen(g) => StreamOf(g)' = StreamOf(g))
          /\ \A p \in Path : Exists(dir, p) /\ dir[p] # dir[Lower[Target]]
                               => dir[p] # dir'[Lower[Target]] /\ data'[dir[p]] = data[dir[p]]
      BY <1>1, <2>1, <2>4, CleanMake, CopyConstants
    <3>3. /\ Clean(In) /\ Converts(openFiles[In]) /\ StreamOf(In).ino = dir[Lower[Source]]
          /\ dir[Lower[Source]] \in Inode /\ dir[Lower[Target]] # dir[Lower[Source]]
          /\ In \in Fcb \ {Out} /\ IsOpen(In) /\ Lower[Source] \in Path
      BY <2>1, CopyConstants DEF SourceRead, Apart, Clean
    <3>4. Exists(dir, Lower[Source])
      BY <3>3, HostAssumption DEF Exists
    <3>5. /\ dir'[Lower[Source]] = dir[Lower[Source]] /\ dir[Lower[Source]] # dir'[Lower[Target]]
          /\ data'[dir[Lower[Source]]] = data[dir[Lower[Source]]]
      BY <3>2, <3>3, <3>4
    <3>6. openFiles'[In] = openFiles[In] /\ StreamOf(In)' = StreamOf(In) /\ Original' = Original
      BY <3>2, <3>3, <3>5 DEF Original
    <3>7. FileOf(In)' = FileOf(In)
      BY <3>3, <3>5, <3>6 DEF FileOf
    <3>8. Clean(In)'
      BY <3>3, <3>6, <3>7 DEF Clean, IsOpen
    <3>9. SourceRead'
      BY <2>1, <3>3, <3>5, <3>6, <3>8 DEF SourceRead, Apart, Converts
    <3>10. Copied' = <<>> /\ Len(<<>>) = 0
      BY <3>2, EmptySeq DEF Copied, FileOf
    <3>11. Converts(openFiles'[Out])
      BY <1>1, <3>2 DEF Converts, WritesText
    <3>12. TargetWritten'
      BY <3>2, <3>10, <3>11 DEF TargetWritten
    <3>13. CopiedTo(0)'
      <4>1. SubSeq(Original', 1, 0) = <<>>
        BY SubSeqEmpty
      <4>2. Original \in Seq(Byte)
        BY <1>1, <3>3 DEF Original, Inv, TypeOK, Contents
      <4>3. Len(Original') \in Nat
        BY <3>6, <4>2, LenProperties
      <4>4. 0 \in 0..Len(Original')
        BY <4>3
      <4>5. QED  BY <3>10, <4>1, <4>4 DEF CopiedTo
    <3>14. StreamOf(In)'.off = 0
      BY <2>1, <3>6
    <3>15. CopiedTo(StreamOf(In).off)'
      BY <3>13, <3>14 DEF CopiedTo
    <3>16. QED  BY <1>1, <2>1, <2>2, <3>1, <3>6, <3>9, <3>12, <3>15 DEF CopyInv, CopyStages
  <2>5. QED  BY <2>3, <2>4
<1>4. QED  BY <1>2, <1>3 DEF Started

\* What source and target are to a transfer.
LEMMA CopyFiles ==
  ASSUME CopyInv, SourceRead
  PROVE  /\ FileOf(In) = Original /\ Original \in Seq(Byte) /\ Len(Original) \in Nat
         /\ StreamOf(In).off \in Nat /\ Rest(In) = SubSeq(Original, StreamOf(In).off + 1, Len(Original))
         /\ Rest(In) \in Seq(Byte) /\ Len(Rest(In)) = Len(Original) - StreamOf(In).off
         /\ \A i \in 1..Len(Rest(In)) : Rest(In)[i] = Original[StreamOf(In).off + i]
<1>1. Inv /\ In \in Fcb /\ Clean(In) /\ StreamOf(In).ino = dir[Lower[Source]]
      /\ StreamOf(In).off <= Len(Original)
  BY CopyConstants DEF CopyInv, SourceRead
<1>2. FileOf(In) = Original
  BY <1>1 DEF FileOf, Original
<1> DEFINE d == FileOf(In)
           off == StreamOf(In).off
<1>3. /\ off \in Nat /\ d \in Seq(Byte) /\ Len(d) \in Nat /\ Rest(In) \in Seq(Byte)
      /\ Rest(In) = SubSeq(d, off + 1, Len(d)) /\ off <= Len(d)
  BY <1>1, <1>2, CleanType DEF Rest
<1> HIDE DEF d, off
<1>4. /\ Len(Rest(In)) = (IF off < Len(d) THEN Len(d) - off ELSE 0)
      /\ \A i \in 1..(Len(d) - off) : Rest(In)[i] = d[off + i]
  BY <1>3, RestType
<1>5. Len(Rest(In)) = Len(d) - off
  BY <1>3, <1>4
<1>6. QED  BY <1>2, <1>3, <1>4, <1>5 DEF d, off

\* A record is read.
LEMMA CopyReads ==
  ASSUME CopyInv, pc = "read", ReadSequential(In),
         Goto(IF a' = Success THEN "write" ELSE "close")
  PROVE  CopyInv'
<1> DEFINE of == openFiles[In]
           r == ReadWithConversion(of, Rest(In))
           d == Original
<1>0. PICK off : off = StreamOf(In).off
  OBVIOUS
<1>1. /\ Inv /\ client = "copy" /\ client' = client /\ WritesText /\ WritesText'
      /\ SourceRead /\ TargetWritten /\ ~of.eofSeen /\ CopiedTo(off)
      /\ In \in Fcb /\ Out \in Fcb \ {In} /\ RecSize >= 2
  BY <1>0, CopyConstants DEF CopyInv, Goto, WritesText
<1>2. /\ Clean(In) /\ Converts(of) /\ Clean(Out) /\ IsOpen(Out) /\ IsOpen(In) /\ off <= Len(d)
  BY <1>0, <1>1 DEF SourceRead, TargetWritten, Clean
<1>3. /\ IsReadResult(r, Rest(In)) /\ Delivers(In, r) /\ Clean(In)'
      /\ StreamOf(In)'.off = off + r.used /\ StreamOf(In)'.ino = StreamOf(In).ino
      /\ \E t : MovesTo(In, t)
  BY <1>0, <1>1, <1>2, CleanRead
<1>4. Inv'
  BY <1>1, ReadStep
<1>5. /\ FileOf(In) = d /\ d \in Seq(Byte) /\ Len(d) \in Nat /\ off \in Nat
      /\ Rest(In) = SubSeq(d, off + 1, Len(d)) /\ Rest(In) \in Seq(Byte)
      /\ Len(Rest(In)) = Len(d) - off /\ \A i \in 1..Len(Rest(In)) : Rest(In)[i] = d[off + i]
  BY <1>0, <1>1, CopyFiles
<1>6. PICK t : MovesTo(In, t)
  BY <1>3
<1>7. /\ dir' = dir /\ data' = data /\ openFiles'[Out] = openFiles[Out] /\ Converts(openFiles'[In])
  BY <1>1, <1>2, <1>6 DEF MovesTo, Converts
<1>8. IsOpen(Out)' /\ StreamOf(Out)' = StreamOf(Out)
  BY <1>1, <1>2, <1>6, OthersStay
<1>9. Original' = d /\ Copied' = Copied /\ FileOf(Out)' = FileOf(Out)
  BY <1>7, <1>8 DEF Original, Copied, FileOf
<1>10. TargetWritten'
  BY <1>1, <1>7, <1>8, <1>9 DEF TargetWritten, Clean
<1>11. r.used \in Nat /\ off + r.used <= Len(d)
  BY <1>3, <1>5 DEF IsReadResult
<1>12. SourceRead'
  BY <1>1, <1>3, <1>7, <1>9, <1>11 DEF SourceRead, Apart
<1>13. r = ReadExpanded(Rest(In))
  BY <1>2 DEF ReadWithConversion
<1> HIDE DEF r, d, of
<1>14. CASE ~(r.out = <<>> \/ r.atEof)
  <2>1. /\ r.used \in 1..Len(Rest(In)) /\ r.out = Expand(SubSeq(Rest(In), 1, r.used))
        /\ Width(Rest(In), r.used) <= RecSize /\ \A j \in 1..r.used : Rest(In)[j] # CtrlZ
    BY <1>1, <1>5, <1>13, <1>14, TextRead
  <2>2. a' = Success /\ dma' = Pad(r.out) /\ openFiles'[In].eofSeen = FALSE
    BY <1>3, <1>14 DEF Delivers, IsReadResult
  <2>3. pc' = "write"
    BY <2>2 DEF Goto
  <2> DEFINE part == SubSeq(d, off + 1, off + r.used)
  <2>4. /\ SubSeq(Rest(In), 1, r.used) = part /\ part \in Seq(Byte) /\ Len(part) = r.used
        /\ \A i \in 1..r.used : part[i] = Rest(In)[i]
    BY <1>5, <1>11, PartOfRest
  <2>5. dma' = Pad(Expand(part))
    BY <2>1, <2>2, <2>4
  <2> HIDE DEF part
  <2>6. Width(part, Len(part)) <= RecSize
    <3>1. Width(part, r.used) = Width(Rest(In), r.used)
      BY <1>11, <2>4, WidthOfPart
    <3>2. QED  BY <2>1, <2>4, <3>1
  <2>7. \A j \in 1..Len(part) : part[j] # CtrlZ
    BY <2>1, <2>4
  <2>8. off < off + r.used
    BY <1>5, <2>1
  <2>9. InBuffer(off)'
    <3>1. part = SubSeq(Original', off + 1, StreamOf(In)'.off)
      BY <1>3, <1>9 DEF part
    <3>2. QED  BY <1>3, <2>5, <2>6, <2>7, <2>8, <3>1 DEF InBuffer
  <2>10. CopiedTo(off)'
    BY <1>1, <1>9 DEF CopiedTo, d
  <2>11. \E q \in Nat : CopiedTo(q)' /\ InBuffer(q)'
    BY <1>5, <2>9, <2>10
  <2>12. QED
    BY <1>1, <1>4, <1>10, <1>12, <2>2, <2>3, <2>11 DEF CopyInv, CopyStages
<1>15. CASE r.out = <<>> \/ r.atEof
  <2>1. a' = AtEof /\ a' # Success
    BY <1>3, <1>15 DEF Delivers, AtEof, Success
  <2>2. pc' = "close"
    BY <2>1 DEF Goto
  <2>3. CopiedTo(off)'
    BY <1>1, <1>9 DEF CopiedTo, d
  <2>4. Len(Rest(In)) = 0 \/ \E j \in 1..Len(Rest(In)) : Rest(In)[j] = CtrlZ
    BY <1>1, <1>5, <1>13, <1>15, TextRead
  <2>5. Exact'
    <3>1. SUFFICES ASSUME ~HasCtrlZ(d) PROVE Copied = d
      BY <1>9 DEF Exact
    <3>2. ~ \E j \in 1..Len(Rest(In)) : Rest(In)[j] = CtrlZ
      <4>1. SUFFICES ASSUME NEW j \in 1..Len(Rest(In)), Rest(In)[j] = CtrlZ PROVE FALSE
        OBVIOUS
      <4>2. off + j \in 1..Len(d) /\ d[off + j] = CtrlZ
        BY <1>5, <4>1
      <4>3. DOMAIN d = 1..Len(d)
        BY <1>5, LenProperties
      <4>4. QED  BY <3>1, <4>2, <4>3 DEF HasCtrlZ
    <3>3. off = Len(d)
      <4>1. Len(Rest(In)) = 0
        BY Zenon, <2>4, <3>2
      <4>2. Len(Rest(In)) = Len(d) - off /\ Len(d) \in Nat /\ off \in Nat
        BY Zenon, <1>5
      <4>3. QED  BY <4>1, <4>2
    <3>4. Copied = SubSeq(d, 1, off)
      BY <1>1 DEF CopiedTo, d
    <3>5. QED  BY <1>5, <3>3, <3>4, WholePart
  <2>6. \E q \in Nat : CopiedTo(q)'
    BY <1>5, <2>3
  <2>7. QED
    BY <1>1, <1>4, <1>10, <1>12, <2>2, <2>5, <2>6 DEF CopyInv, CopyStages
<1>16. QED  BY <1>14, <1>15

\* A record is written.
LEMMA CopyWrites ==
  ASSUME CopyInv, pc = "write", WriteSequential(Out, Target),
         Goto(IF a' = Success THEN "read" ELSE "failed")
  PROVE  CopyInv'
<1> DEFINE d == Original
           p == StreamOf(In).off
<1>1. /\ Inv /\ client = "copy" /\ client' = client /\ WritesText /\ WritesText'
      /\ SourceRead /\ TargetWritten /\ ~openFiles[In].eofSeen
      /\ Out \in Fcb /\ In \in Fcb \ {Out} /\ Target \in Name
  BY CopyConstants DEF CopyInv, Goto, WritesText
<1>2. PICK q \in Nat : CopiedTo(q) /\ InBuffer(q)
  BY DEF CopyInv
<1>3. /\ d \in Seq(Byte) /\ Len(d) \in Nat /\ p \in Nat /\ p <= Len(d)
  BY <1>1, CopyFiles DEF SourceRead
<1> DEFINE part == SubSeq(d, q + 1, p)
<1>4. /\ q < p /\ dma = Pad(Expand(part)) /\ Width(part, Len(part)) <= RecSize
      /\ \A j \in 1..Len(part) : part[j] # CtrlZ
  BY <1>2 DEF InBuffer
<1>5. Copied = SubSeq(d, 1, q)
  BY <1>2 DEF CopiedTo
<1>6. part \in Seq(Byte) /\ Len(part) = p - q
  BY <1>3, <1>4, PartOf
<1>7. part # <<>>
  <2>1. Len(part) > 0
    BY <1>3, <1>4, <1>6
  <2>2. Len(<<>>) = 0
    OBVIOUS
  <2> HIDE DEF part
  <2>3. QED  BY <2>1, <2>2
<1> HIDE DEF part
<1>8. Collapse(dma) = part
  BY <1>4, <1>6, RoundTrip
<1>9. Inv'
  BY <1>1, WriteStep
<1>10. /\ Clean(Out) /\ Converts(openFiles[Out]) /\ StreamOf(Out).writable
       /\ StreamOf(Out).ino = dir[Lower[Target]] /\ StreamOf(Out).off = Len(Copied)
       /\ dir[Lower[Target]] \in Inode
       /\ Clean(In) /\ Converts(openFiles[In]) /\ StreamOf(In).ino = dir[Lower[Source]]
       /\ dir[Lower[Source]] \in Inode /\ dir[Lower[Target]] # dir[Lower[Source]]
       /\ IsOpen(In)
  BY <1>1 DEF SourceRead, TargetWritten, Apart, Clean
<1>11. /\ a' = Success /\ Clean(Out)' /\ StreamOf(Out)'.writable
       /\ StreamOf(Out)'.off = StreamOf(Out).off + Len(part) /\ StreamOf(Out)'.ino = StreamOf(Out).ino
       /\ FileOf(Out)' = Overwrite(FileOf(Out), StreamOf(Out).off, part)
       /\ openFiles' = openFiles /\ UNCHANGED <<dir, fileMap, dma>>
       /\ \A i \in Inode : i # StreamOf(Out).ino => data'[i] = data[i]
       /\ \A g \in Fcb \ {Out} : IsOpen(g) => StreamOf(g)' = StreamOf(g)
  BY <1>1, <1>7, <1>8, <1>10, CleanWrite
<1>12. pc' = "read"
  BY <1>11 DEF Goto
<1>13. StreamOf(In)' = StreamOf(In) /\ Original' = d /\ FileOf(In)' = FileOf(In) /\ IsOpen(In)'
  BY <1>1, <1>10, <1>11 DEF Original, FileOf, IsOpen
<1>14. SourceRead'
  BY <1>1, <1>3, <1>10, <1>11, <1>13 DEF SourceRead, Apart, Clean
<1>15. FileOf(Out) = Copied /\ FileOf(Out)' = Copied'
  BY <1>10, <1>11 DEF FileOf, Copied
<1>16. Len(Copied) = q
  <2>1. SubSeq(d, 1, q) = SubSeq(d, 0 + 1, q) /\ (IF 0 < q THEN q - 0 ELSE 0) = q
    OBVIOUS
  <2>2. q <= Len(d)
    BY <1>3, <1>4
  <2> HIDE DEF d
  <2>3. Len(SubSeq(d, 0 + 1, q)) = (IF 0 < q THEN q - 0 ELSE 0)
    BY <1>3, <2>2, PartOf
  <2>4. QED  BY <1>5, <2>1, <2>3
<1>17. Copied' = SubSeq(d, 1, p)
  <2>1. Copied' = Overwrite(SubSeq(d, 1, q), q, part)
    BY <1>5, <1>10, <1>11, <1>15, <1>16
  <2> HIDE DEF d, p
  <2>2. QED  BY <1>3, <1>4, <2>1, PartWritten DEF part
<1>18. Len(Copied') = p
  <2>1. SubSeq(d, 1, p) = SubSeq(d, 0 + 1, p) /\ (IF 0 < p THEN p - 0 ELSE 0) = p
    BY <1>3
  <2> HIDE DEF d, p
  <2>2. Len(SubSeq(d, 0 + 1, p)) = (IF 0 < p THEN p - 0 ELSE 0)
    BY <1>3, PartOf
  <2>3. QED  BY <1>17, <2>1, <2>2
<1>19. StreamOf(Out)'.off = Len(Copied')
  BY <1>3, <1>4, <1>6, <1>10, <1>11, <1>16, <1>18
<1>20. TargetWritten'
  BY <1>10, <1>11, <1>19 DEF TargetWritten
<1>21. CopiedTo(StreamOf(In).off)'
  <2>1. p \in 0..Len(d)
    BY <1>3
  <2>2. QED  BY <1>13, <1>17, <2>1 DEF CopiedTo
<1>22. QED
  BY <1>1, <1>9, <1>11, <1>12, <1>14, <1>20, <1>21 DEF CopyInv, CopyStages

\* The two closes.
LEMMA CopyEnding ==
  ASSUME CopyInv, Finished, client' = client
  PROVE  CopyInv'
<1>1. Inv /\ client = "copy" /\ WritesText /\ WritesText' /\ In \in Fcb /\ Out \in Fcb /\ In # Out
      /\ Lower[Source] \in Path /\ Lower[Target] \in Path
  BY CopyConstants DEF CopyInv, WritesText
<1>2. SourceRead /\ Exact /\ dir[Lower[Target]] \in Inode
  BY DEF CopyInv, Finished, TargetWritten
<1>3. dir[Lower[Source]] \in Inode /\ Clean(In) /\ IsOpen(In)
  BY <1>2 DEF SourceRead, Apart, Clean
<1>4. CASE pc = "close"
  <2>1. Close(Out) /\ pc' = "closing" /\ Clean(Out)
    BY <1>4 DEF Finished, Goto, CopyInv, TargetWritten
  <2>2. Inv'
    BY <1>1, <2>1, CloseStep
  <2>3. /\ dir' = dir /\ \A p \in Path : dir[p] \in Inode => data'[dir[p]] = data[dir[p]]
        /\ \A g \in Fcb \ {Out} : /\ openFiles'[g] = openFiles[g]
                                  /\ IsOpen(g) => IsOpen(g)' /\ StreamOf(g)' = StreamOf(g)
    BY <1>1, <2>1, CleanClose
  <2>4. Original' = Original /\ Copied' = Copied
    BY <1>1, <1>2, <1>3, <2>3 DEF Original, Copied
  <2>5. StreamOf(In)' = StreamOf(In) /\ IsOpen(In)' /\ openFiles'[In] = openFiles[In]
    BY <1>1, <1>3, <2>3
  <2>6. FileOf(In)' = FileOf(In)
    BY <1>2, <2>3, <2>4, <2>5 DEF FileOf, Original, SourceRead
  <2>7. SourceRead'
    BY <1>2, <1>3, <2>3, <2>4, <2>5, <2>6 DEF SourceRead, Apart, Clean
  <2>8. Exact'
    BY <1>2, <2>4 DEF Exact
  <2>9. QED  BY <1>1, <1>2, <2>1, <2>2, <2>3, <2>7, <2>8 DEF CopyInv, CopyStages
<1>5. CASE pc = "closing"
  <2>1. Close(In) /\ pc' = "done"
    BY <1>5 DEF Finished, Goto
  <2>2. Inv'
    BY <1>1, <2>1, CloseStep
  <2>3. /\ dir' = dir /\ \A p \in Path : dir[p] \in Inode => data'[dir[p]] = data[dir[p]]
    BY <1>1, <1>3, <2>1, CleanClose
  <2>4. Original' = Original /\ Copied' = Copied
    BY <1>1, <1>2, <1>3, <2>3 DEF Original, Copied
  <2>5. Exact'
    BY <1>2, <2>4 DEF Exact
  <2>6. QED  BY <1>1, <2>1, <2>2, <2>5 DEF CopyInv, CopyStages
<1>6. QED  BY <1>4, <1>5 DEF Finished

\* A step of the program.
LEMMA CopyStep ==
  ASSUME CopyInv, [CopyNext]_<<vars, client, pc>>
  PROVE  CopyInv'
<1>1. CASE UNCHANGED <<vars, client, pc>>
  <2>1. UNCHANGED <<dir, data, stream, openFiles, fileMap, fcb, dma, a, client, pc>>
    BY <1>1 DEF vars
  <2>2. Inv'
    BY <2>1, NextInv DEF vars, CopyInv
  <2>3. /\ Lookup(Source)' = Lookup(Source) /\ Original' = Original /\ Copied' = Copied
        /\ StreamOf(In)' = StreamOf(In) /\ StreamOf(Out)' = StreamOf(Out)
        /\ (Clean(In) <=> Clean(In)') /\ (Clean(Out) <=> Clean(Out)')
    BY <2>1 DEF Lookup, Original, Copied, StreamOf, Clean, IsOpen, FileOf
  <2>4. (SourceRead => SourceRead') /\ (TargetWritten => TargetWritten')
    BY <2>1, <2>3 DEF SourceRead, TargetWritten, Apart
  <2>5. /\ \A q \in Nat : (CopiedTo(q) => CopiedTo(q)') /\ (InBuffer(q) => InBuffer(q)')
        /\ (Exact => Exact') /\ (CopiedTo(StreamOf(In).off) => CopiedTo(StreamOf(In).off)')
    BY <2>1, <2>3 DEF CopiedTo, InBuffer, Exact
  <2>6. WritesText => WritesText'
    BY DEF WritesText
  <2>7. QED  BY <2>1, <2>2, <2>3, <2>4, <2>5, <2>6 DEF CopyInv
<1>2. CASE CopyNext
  <2>1. client = "copy" /\ client' = client
    BY <1>2 DEF CopyNext, Started, Transfer, Finished, Goto
  <2>2. CASE Started  BY <2>1, <2>2, CopyStarts
  <2>3. CASE Transfer  BY <2>3, CopyReads, CopyWrites DEF Transfer
  <2>4. CASE Finished  BY <2>1, <2>4, CopyEnding
  <2>5. QED  BY <1>2, <2>2, <2>3, <2>4 DEF CopyNext
<1>3. QED  BY <1>1, <1>2

\* A text of any length, in records of any size that has room for a line end: while it
\* is copied the target is the beginning of the source, and the copy of a text without
\* ^Z is the text (722-816, 1571-1630).
THEOREM CopiesAreExact == CopySpec => []CopyIsExact
<1> DEFINE Begins == /\ Init /\ CopyInit
                     /\ Lookup(Source).path = Lower[Source] /\ Converts(Lookup(Source))
                     /\ dir[Lower[Target]] # dir[Lower[Source]] /\ WritesText
<1>1. Begins => CopyInv
  BY InitInv DEF CopyInit, CopyInv, CopyStages
<1>2. CopyInv /\ [CopyNext]_<<vars, client, pc>> => CopyInv'
  BY CopyStep
<1>3. CopyInv => CopyIsExact
  BY CopyInvExact
<1>4. CopySpec => Begins /\ [][CopyNext]_<<vars, client, pc>>
  BY DEF CopySpec, WritesText
<1> HIDE DEF Begins
<1>5. QED  BY <1>1, <1>2, <1>3, <1>4, PTL

---------------------------------------------------------------------------
(* A text in records                                                        *)

\* Products with the size of a record.
LEMMA RecordProducts ==
  ASSUME NEW m \in Nat, NEW n \in Nat
  PROVE  /\ m * RecSize \in Nat /\ (m <= n => m * RecSize <= n * RecSize)
         /\ (m + 1) * RecSize = m * RecSize + RecSize
         /\ (m * RecSize) % RecSize = 0
<1>1. RecSize \in Nat /\ RecSize > 0
  BY RecSizeAssumption
<1>2. \A x, y, z \in Nat : x * z \in Nat /\ (x <= y => x * z <= y * z) /\ (x + 1) * z = x * z + z
  OBVIOUS
<1>3. \A x \in Nat : \A y \in Nat \ {0} : ((x * y) % y) = 0
  OBVIOUS
<1>4. RecSize \in Nat \ {0}
  BY <1>1
<1>5. ((m * RecSize) % RecSize) = 0
  BY <1>3, <1>4
<1>6. QED  BY <1>1, <1>2, <1>5

\* The number of records a text of w bytes fills.
LEMMA RecordCount ==
  ASSUME NEW w \in Nat, NEW m, m = (w + RecSize - 1) \div RecSize
  PROVE  m \in Nat /\ \A n \in Nat : (n < m <=> n * RecSize < w)
<1>1. RecSize \in Nat /\ RecSize > 0 /\ w + RecSize - 1 \in Nat
  BY RecSizeAssumption
<1>2. \A x \in Nat, y \in Nat : y > 0 =>
        (x \div y) \in Nat /\ (x \div y) * y <= x /\ x < (x \div y) * y + y
  OBVIOUS
<1>3. m \in Nat /\ m * RecSize <= w + RecSize - 1 /\ w + RecSize - 1 < m * RecSize + RecSize
  BY <1>1, <1>2
<1>4. ASSUME NEW n \in Nat PROVE n < m <=> n * RecSize < w
  <2>1. n * RecSize \in Nat /\ m * RecSize \in Nat /\ (n + 1) * RecSize = n * RecSize + RecSize
    BY <1>3, RecordProducts
  <2>2. CASE n < m
    <3>1. n + 1 <= m /\ n + 1 \in Nat
      BY <1>3, <2>2
    <3>2. (n + 1) * RecSize <= m * RecSize
      BY <1>3, <3>1, RecordProducts
    <3>3. QED  BY <1>1, <1>3, <2>1, <2>2, <3>2
  <2>3. CASE m <= n
    <3>1. m * RecSize <= n * RecSize
      BY <1>3, <2>3, RecordProducts
    <3>2. QED  BY <1>1, <1>3, <2>1, <2>3, <3>1
  <2>4. QED  BY <1>3, <2>2, <2>3
<1>5. QED  BY <1>3, <1>4

\* The first k bytes of u make its first n records.
Marked(u, n, k) == k \in 0..Len(u) /\ Width(u, k) = AtMost(n * RecSize, Width(u, Len(u)))

\* Each byte of what n bytes make is made of one of them.
LEMMA WidthCovers ==
  ASSUME NEW u, NEW n \in Nat, NEW j \in Nat, 0 < j, j <= Width(u, n)
  PROVE  \E k \in Nat : k < n /\ Width(u, k) < j /\ j <= Width(u, k + 1)
<1> DEFINE T == {k \in 0..n : Width(u, k) < j}
<1>1. 0 \in T
  <2>1. Width(u, 0) = 0
    BY WidthType
  <2>2. QED  BY <2>1
<1>2. PICK k \in T : \A i \in T : i <= k
  <2>1. T \in SUBSET (0..n) /\ T # {}
    BY <1>1
  <2> HIDE DEF T
  <2>2. QED  BY <2>1, GreatestNatural
<1>3. k \in Nat /\ k <= n /\ Width(u, k) < j
  OBVIOUS
<1>4. k < n
  <2>1. Width(u, k) \in Nat /\ Width(u, n) \in Nat
    BY <1>3, WidthNext
  <2>2. k # n
    BY <1>3, <2>1
  <2>3. QED  BY <1>3, <2>2
<1>5. j <= Width(u, k + 1)
  <2>1. k + 1 \in 0..n /\ ~(k + 1 <= k) /\ k + 1 \in Nat
    BY <1>3, <1>4
  <2>2. k + 1 \notin T
    BY ONLY <1>2, <2>1
  <2>3. ~(Width(u, k + 1) < j)
    BY <2>1, <2>2
  <2>4. Width(u, k + 1) \in Nat
    BY <2>1, WidthNext
  <2>5. QED  BY <2>3, <2>4
<1>6. QED  BY <1>3, <1>4, <1>5

\* Where no line end lies across a border, every border lies between two bytes.
LEMMA RecordBorder ==
  ASSUME NEW u \in Seq(Byte), ~SplitLineEnd(Expand(u)), NEW n \in Nat
  PROVE  \E k : Marked(u, n, k)
<1> DEFINE w == Width(u, Len(u))
           b == n * RecSize
<1>1. /\ Len(u) \in Nat /\ w \in Nat /\ b \in Nat /\ RecSize \in Nat /\ (b % RecSize) = 0
  <2>1. Len(u) \in Nat
    BY LenProperties
  <2>2. QED  BY <2>1, WidthNext, RecordProducts, RecSizeAssumption
<1>2. Expand(u) = MadeOf(u, Len(u)) /\ Len(Expand(u)) = w
  BY <1>1, WholePart, ExpandOfPart
<1>3. CASE w <= b
  <2>1. AtMost(b, w) = w
    BY <1>1, <1>3 DEF AtMost
  <2>2. Marked(u, n, Len(u))
    BY <1>1, <2>1 DEF Marked
  <2>3. QED  BY <2>2
<1>4. CASE b < w
  <2>1. PICK k \in Nat : k < Len(u) /\ Width(u, k) < b + 1 /\ b + 1 <= Width(u, k + 1)
    <3>1. b + 1 \in Nat /\ 0 < b + 1 /\ b + 1 <= w
      BY <1>1, <1>4
    <3> HIDE DEF b
    <3>2. QED  BY <1>1, <3>1, WidthCovers
  <2>2. /\ Width(u, k) \in Nat
        /\ (u[k + 1] = Lf => Width(u, k + 1) = Width(u, k) + 2)
        /\ (u[k + 1] # Lf => Width(u, k + 1) = Width(u, k) + 1)
    BY WidthNext
  <2>3. Width(u, k) = b
    <3>1. SUFFICES ASSUME Width(u, k) # b PROVE FALSE
      OBVIOUS
    <3>2. Width(u, k) + 1 = b /\ u[k + 1] = Lf /\ Width(u, k + 1) = b + 1
      BY <1>1, <2>1, <2>2, <3>1
    <3>3. MadeOf(u, Len(u))[b] = Cr /\ MadeOf(u, Len(u))[b + 1] = Lf
      <4>1. \A j \in Nat : Width(u, k) < j /\ j <= Width(u, k + 1) =>
              MadeOf(u, Len(u))[j] = IF u[k + 1] = Lf /\ j < Width(u, k + 1) THEN Cr ELSE u[k + 1]
        BY <1>1, <2>1, MadeAt
      <4> HIDE DEF b
      <4>2. b \in Nat /\ b + 1 \in Nat /\ Width(u, k) < b /\ Width(u, k) < b + 1 /\ b < b + 1
        BY <1>1, <2>2, <3>2
      <4>3. QED  BY <3>2, <4>1, <4>2
    <3>4. b \in 1..(w - 1)
      BY <1>1, <1>4, <2>2, <3>2
    <3>5. SplitLineEnd(Expand(u))
      BY <1>1, <1>2, <3>3, <3>4 DEF SplitLineEnd
    <3>6. QED  BY <3>5
  <2>4. AtMost(b, w) = b /\ k \in 0..Len(u)
    BY <1>1, <1>4, <2>1 DEF AtMost
  <2>5. QED  BY <2>3, <2>4 DEF Marked
<1>5. QED  BY <1>1, <1>3, <1>4

\* Width counts line ends, in a part as in the whole.
LEMMA WidthOfRest ==
  ASSUME NEW u, NEW p, NEW k \in Nat, NEW n \in Nat, \A i \in 1..n : p[i] = u[k + i]
  PROVE  \A i \in 0..n : Width(u, k + i) = Width(u, k) + Width(p, i)
<1> DEFINE T == {i \in 0..n : Width(u, k + i) # Width(u, k) + Width(p, i)}
<1>1. SUFFICES ASSUME T # {} PROVE FALSE
  OBVIOUS
<1>2. PICK i \in T : \A j \in T : i <= j
  <2>1. T \in SUBSET Nat
    OBVIOUS
  <2> HIDE DEF T
  <2>2. QED  BY <1>1, <2>1, LeastNatural
<1>3. i \in Nat /\ i <= n /\ Width(u, k + i) # Width(u, k) + Width(p, i)
  OBVIOUS
<1>4. i # 0
  <2>1. Width(p, 0) = 0 /\ Width(u, k) \in Nat /\ k + 0 = k
    BY WidthType, WidthNext
  <2>2. QED  BY <1>3, <2>1
<1> DEFINE h == i - 1
<1>5. h \in Nat /\ h + 1 = i /\ h \in 0..n /\ ~(i <= h) /\ i \in 1..n /\ k + h \in Nat
      /\ (k + h) + 1 = k + i
  BY <1>3, <1>4
<1>6. Width(u, k + h) = Width(u, k) + Width(p, h)
  <2>1. h \notin T
    BY ONLY <1>2, <1>5
  <2> HIDE DEF h
  <2>2. QED  BY <1>5, <2>1
<1> HIDE DEF h
<1>7. /\ Width(p, h) \in Nat
      /\ (p[i] = Lf => Width(p, i) = Width(p, h) + 2)
      /\ (p[i] # Lf => Width(p, i) = Width(p, h) + 1)
  BY <1>5, WidthNext
<1>8. /\ Width(u, k + h) \in Nat
      /\ (u[k + i] = Lf => Width(u, k + i) = Width(u, k + h) + 2)
      /\ (u[k + i] # Lf => Width(u, k + i) = Width(u, k + h) + 1)
  BY <1>5, WidthNext
<1>9. p[i] = u[k + i] /\ Width(u, k) \in Nat
  BY <1>5, WidthNext
<1>10. QED  BY <1>3, <1>6, <1>7, <1>8, <1>9

\* A part of a text, and what it makes.
MakesPart(u, k, m, part) ==
  /\ part \in Seq(Byte) /\ Len(part) = m - k /\ \A i \in 1..(m - k) : part[i] = u[k + i]
  /\ \A i \in 0..(m - k) : Width(u, k + i) = Width(u, k) + Width(part, i)
  /\ Expand(part) \in Seq(Byte) /\ Len(Expand(part)) = Width(part, m - k)
  /\ \A j \in 1..Width(part, m - k) : Expand(part)[j] = Expand(u)[Width(u, k) + j]

\* A part of a text makes a part of what the text makes.
LEMMA ExpandOfRest ==
  ASSUME NEW u \in Seq(Byte), NEW k \in Nat, NEW m \in Nat, k <= m, m <= Len(u),
         NEW part, part = SubSeq(u, k + 1, m)
  PROVE  MakesPart(u, k, m, part)
<1> DEFINE n == m - k
<1>1. n \in Nat /\ k + n = m /\ Len(u) \in Nat
  BY LenProperties
<1>2. part \in Seq(Byte) /\ Len(part) = n /\ \A i \in 1..n : part[i] = u[k + i]
  <2>1. Len(part) = (IF k < m THEN m - k ELSE 0) /\ part \in Seq(Byte)
        /\ \A i \in 1..(m - k) : part[i] = u[k + i]
    BY PartOf
  <2>2. QED  BY <2>1
<1> HIDE DEF n
<1>3. \A i \in 0..n : Width(u, k + i) = Width(u, k) + Width(part, i)
  <2>1. n \in Nat /\ \A i \in 1..n : part[i] = u[k + i]
    BY <1>1, <1>2
  <2>2. QED  BY ONLY <2>1, k \in Nat, WidthOfRest
<1>4. Expand(part) = MadeOf(part, n) /\ Expand(part) \in Seq(Byte) /\ Len(Expand(part)) = Width(part, n)
  <2>1. part \in Seq(Byte) /\ n \in 0..Len(part) /\ part = SubSeq(part, 1, n)
    BY <1>1, <1>2, WholePart
  <2>2. /\ Expand(part) = MadeOf(part, n) /\ MadeOf(part, n) \in Seq(Byte)
        /\ Len(MadeOf(part, n)) = Width(part, n)
    BY ONLY <2>1, ExpandOfPart
  <2>3. QED  BY <2>2
<1>5. Expand(u) = MadeOf(u, Len(u))
  BY <1>1, WholePart, ExpandOfPart
<1>6. ASSUME NEW j \in 1..Width(part, n) PROVE Expand(part)[j] = Expand(u)[Width(u, k) + j]
  <2>1. j \in Nat /\ 0 < j /\ j <= Width(part, n) /\ Width(u, k) \in Nat
    BY <1>1, WidthNext
  <2>2. PICK i \in Nat : i < n /\ Width(part, i) < j /\ j <= Width(part, i + 1)
    BY <1>1, <2>1, WidthCovers
  <2>3. /\ i \in 0..n /\ i + 1 \in 0..n /\ i + 1 \in 1..n /\ k + i \in Nat /\ i + 1 \in Nat
        /\ k + (i + 1) = (k + i) + 1 /\ k + i < Len(u) /\ Width(u, k) + j \in Nat
    BY <1>1, <2>1, <2>2
  <2>4. /\ Width(u, k + i) = Width(u, k) + Width(part, i) /\ Width(part, i) \in Nat
        /\ Width(u, (k + i) + 1) = Width(u, k) + Width(part, i + 1) /\ Width(part, i + 1) \in Nat
    <3>1. Width(part, i) \in Nat /\ Width(part, i + 1) \in Nat
      BY <2>3, WidthNext
    <3>2. Width(u, k + (i + 1)) = Width(u, k) + Width(part, i + 1)
      BY <1>3, <2>3
    <3>3. QED  BY <1>3, <2>3, <3>1, <3>2
  <2>5. part[i + 1] = u[(k + i) + 1]
    BY <1>2, <2>3
  <2>6. Width(u, k + i) < Width(u, k) + j /\ Width(u, k) + j <= Width(u, (k + i) + 1)
    BY <2>1, <2>2, <2>4
  <2>7. MadeOf(part, n)[j] = IF part[i + 1] = Lf /\ j < Width(part, i + 1) THEN Cr ELSE part[i + 1]
    <3>1. part \in Seq(Byte) /\ n \in Nat /\ i \in Nat /\ i < n /\ j \in Nat
          /\ Width(part, i) < j /\ j <= Width(part, i + 1)
      BY <1>1, <1>2, <2>1, <2>2
    <3>2. QED  BY ONLY <3>1, MadeAt
  <2>8. MadeOf(u, Len(u))[Width(u, k) + j]
          = IF u[(k + i) + 1] = Lf /\ Width(u, k) + j < Width(u, (k + i) + 1) THEN Cr ELSE u[(k + i) + 1]
    BY <1>1, <2>3, <2>6, MadeAt
  <2>9. j < Width(part, i + 1) <=> Width(u, k) + j < Width(u, (k + i) + 1)
    BY <2>1, <2>4
  <2>10. QED  BY <1>4, <1>5, <2>5, <2>7, <2>8, <2>9
<1>7. QED  BY <1>2, <1>3, <1>4, <1>6 DEF n, MakesPart

\* What a text makes is a text: no byte of it is a ^Z.
LEMMA ExpandIsText ==
  ASSUME NEW u \in Seq(Byte), ~HasCtrlZ(u)
  PROVE  /\ Expand(u) \in Seq(Byte) /\ Len(Expand(u)) = Width(u, Len(u)) /\ Len(u) \in Nat
         /\ Width(u, Len(u)) \in Nat /\ \A j \in 1..Len(u) : u[j] # CtrlZ
         /\ \A j \in 1..Len(Expand(u)) : Expand(u)[j] # CtrlZ
<1>1. Len(u) \in Nat /\ DOMAIN u = 1..Len(u)
  BY LenProperties
<1>2. \A j \in 1..Len(u) : u[j] # CtrlZ
  BY <1>1 DEF HasCtrlZ
<1>3. /\ Expand(u) = MadeOf(u, Len(u)) /\ Expand(u) \in Seq(Byte)
      /\ Len(Expand(u)) = Width(u, Len(u))
  BY <1>1, WholePart, ExpandOfPart
<1>4. Width(u, Len(u)) \in Nat
  BY <1>1, WidthNext
<1>5. ASSUME NEW j \in 1..Len(Expand(u)) PROVE Expand(u)[j] # CtrlZ
  <2>1. j \in Nat /\ 0 < j /\ j <= Width(u, Len(u))
    BY <1>3, <1>4
  <2>2. PICK k \in Nat : k < Len(u) /\ Width(u, k) < j /\ j <= Width(u, k + 1)
    BY <1>1, <2>1, WidthCovers
  <2>3. MadeOf(u, Len(u))[j] = IF u[k + 1] = Lf /\ j < Width(u, k + 1) THEN Cr ELSE u[k + 1]
    BY <1>1, <2>1, <2>2, MadeAt
  <2>4. u[k + 1] # CtrlZ /\ Cr # CtrlZ
    <3>1. k + 1 \in 1..Len(u)
      BY <1>1, <2>2
    <3>2. QED  BY <1>2, <3>1, HostAssumption
  <2>5. QED  BY <1>3, <2>3, <2>4
<1>6. QED  BY <1>1, <1>2, <1>3, <1>4, <1>5

\* How far the marks of the records reach.
LEMMA MarkIs ==
  ASSUME NEW u \in Seq(Byte), NEW n \in Nat, NEW k, Marked(u, n, k)
  PROVE  /\ k \in Nat /\ k <= Len(u) /\ Len(u) \in Nat /\ Width(u, k) \in Nat
         /\ Width(u, Len(u)) \in Nat /\ n * RecSize \in Nat
         /\ n * RecSize <= Width(u, Len(u)) => Width(u, k) = n * RecSize
         /\ Width(u, Len(u)) <= n * RecSize => k = Len(u)
<1>1. Len(u) \in Nat /\ k \in Nat /\ k <= Len(u) /\ n * RecSize \in Nat
  BY LenProperties, RecordProducts DEF Marked
<1>2. Width(u, k) \in Nat /\ Width(u, Len(u)) \in Nat
  BY <1>1, WidthNext
<1>3. k < Len(u) => Width(u, k) < Width(u, Len(u))
  BY <1>1, WidthGrows
<1>4. Width(u, k) = AtMost(n * RecSize, Width(u, Len(u)))
  BY DEF Marked
<1>5. ASSUME Width(u, Len(u)) <= n * RecSize PROVE k = Len(u)
  <2>1. Width(u, k) = Width(u, Len(u))
    BY <1>1, <1>2, <1>4, <1>5 DEF AtMost
  <2>2. QED  BY <1>1, <1>2, <1>3, <2>1
<1>6. ASSUME n * RecSize <= Width(u, Len(u)) PROVE Width(u, k) = n * RecSize
  BY <1>1, <1>2, <1>4, <1>6 DEF AtMost
<1>7. QED  BY <1>1, <1>2, <1>5, <1>6

\* part, the bytes of u from the k-th to the m-th, makes the record after the first n.
MakesRecord(u, n, k, m, part) ==
  /\ k \in Nat /\ m \in Nat /\ k < m /\ m <= Len(u) /\ Len(u) \in Nat
  /\ part \in Seq(Byte) /\ Len(part) = m - k /\ \A i \in 1..(m - k) : part[i] = u[k + i]
  /\ Width(part, Len(part)) <= RecSize /\ \A i \in 1..Len(part) : part[i] # CtrlZ
  /\ \A i \in 0..(m - k) : Width(u, k + i) = Width(u, k) + Width(part, i)
  /\ Pad(Expand(part)) = Records(Expand(u))[n + 1] /\ Len(Expand(part)) > 0

\* A record of a text is what the bytes between two marks make.
LEMMA RecordText ==
  ASSUME NEW u \in Seq(Byte), ~HasCtrlZ(u), NEW n \in Nat, NEW k, NEW m, Marked(u, n, k),
         Marked(u, n + 1, m), n * RecSize < Width(u, Len(u)),
         NEW part, part = SubSeq(u, k + 1, m)
  PROVE  MakesRecord(u, n, k, m, part)
<1> DEFINE w == Width(u, Len(u))
           b == n * RecSize
           e == Expand(u)
           x == Expand(part)
<1>1. /\ RecSize \in Nat /\ RecSize > 0 /\ b \in Nat /\ (n + 1) * RecSize = b + RecSize
      /\ (n + 1) - 1 = n /\ n + 1 \in Nat
  BY RecSizeAssumption, RecordProducts
<1>2. /\ k \in Nat /\ k <= Len(u) /\ Len(u) \in Nat /\ w \in Nat /\ Width(u, k) = b
  BY <1>1, MarkIs
<1>3. /\ m \in Nat /\ m <= Len(u) /\ Width(u, m) \in Nat /\ Width(u, m) = AtMost(b + RecSize, w)
  BY <1>1, MarkIs DEF Marked
<1>4. b < Width(u, m) /\ Width(u, m) <= b + RecSize /\ Width(u, m) <= w
  BY <1>1, <1>2, <1>3 DEF AtMost
<1>5. k < m
  <2>1. m < k => Width(u, m) < Width(u, k)
    BY <1>2, <1>3, WidthGrows
  <2>2. m # k
    BY <1>1, <1>2, <1>3, <1>4
  <2>3. QED  BY <1>1, <1>2, <1>3, <1>4, <2>1, <2>2
<1>6. /\ part \in Seq(Byte) /\ Len(part) = m - k /\ \A i \in 1..(m - k) : part[i] = u[k + i]
      /\ \A i \in 0..(m - k) : Width(u, k + i) = Width(u, k) + Width(part, i)
      /\ x \in Seq(Byte) /\ Len(x) = Width(part, m - k)
      /\ \A j \in 1..Width(part, m - k) : x[j] = e[Width(u, k) + j]
  <2>1. k <= m /\ k \in Nat /\ m \in Nat /\ m <= Len(u)
    BY <1>2, <1>3, <1>5
  <2>2. MakesPart(u, k, m, part)
    BY <2>1, ExpandOfRest
  <2>3. QED  BY <2>2 DEF MakesPart
<1>7. Width(u, m) = b + Len(x) /\ Len(x) \in Nat
  <2>1. m - k \in 0..(m - k) /\ k + (m - k) = m
    BY <1>2, <1>3, <1>5
  <2>2. Width(u, k + (m - k)) = Width(u, k) + Width(part, m - k)
    BY <1>6, <2>1
  <2>3. Len(x) \in Nat
    BY <1>6, LenProperties
  <2>4. QED  BY <1>2, <1>6, <2>1, <2>2, <2>3
<1>8. \A i \in 1..Len(part) : part[i] # CtrlZ
  <2>1. \A j \in 1..Len(u) : u[j] # CtrlZ
    BY ExpandIsText
  <2>2. TAKE i \in 1..Len(part)
  <2>3. k + i \in 1..Len(u) /\ i \in 1..(m - k)
    BY <1>2, <1>3, <1>5, <1>6
  <2>4. QED  BY <1>6, <2>1, <2>3
<1> HIDE DEF w, b, e, x
<1>9. Len(x) > 0 /\ Len(x) <= RecSize
  BY <1>1, <1>3, <1>4, <1>7
<1>10. Len(e) = w /\ DOMAIN x = 1..Len(x)
  BY <1>6, ExpandIsText, LenProperties DEF e, w
<1>11. Pad(x) = Records(e)[n + 1]
  <2>1. n + 1 \in 1..((Len(e) + RecSize - 1) \div RecSize)
    <3>1. (w + RecSize - 1) \div RecSize \in Nat
            /\ (n < (w + RecSize - 1) \div RecSize <=> n * RecSize < w)
      BY <1>2, RecordCount
    <3>2. n < (w + RecSize - 1) \div RecSize
      BY <3>1 DEF w
    <3>3. QED  BY <1>10, <3>1, <3>2
  <2>2. Records(e)[n + 1] = [i \in 1..RecSize |->
          LET at == ((n + 1) - 1) * RecSize + i IN IF at <= Len(e) THEN e[at] ELSE CtrlZ]
    BY <2>1 DEF Records
  <2>3. ((n + 1) - 1) * RecSize = b
    BY <1>1 DEF b
  <2>4. Records(e)[n + 1] = [i \in 1..RecSize |-> IF b + i <= Len(e) THEN e[b + i] ELSE CtrlZ]
    BY <2>2, <2>3
  <2>5. ASSUME NEW i \in 1..RecSize
        PROVE  (IF i \in DOMAIN x THEN x[i] ELSE CtrlZ)
                 = (IF b + i <= Len(e) THEN e[b + i] ELSE CtrlZ)
    <3>1. i \in 1..Len(x) <=> b + i <= Len(e)
      BY <1>1, <1>2, <1>3, <1>7, <1>9, <1>10 DEF AtMost
    <3>2. i \in 1..Len(x) => x[i] = e[b + i]
      BY <1>2, <1>6
    <3>3. QED  BY <1>10, <3>1, <3>2
  <2>6. QED  BY <2>4, <2>5 DEF Pad
<1>12. Width(part, Len(part)) <= RecSize
  BY <1>6, <1>9
<1>13. QED  BY <1>2, <1>3, <1>5, <1>6, <1>8, <1>9, <1>11, <1>12 DEF x, e, MakesRecord

\* Where no line end lies across a border, the fgetc loop takes a text record by record.
LEMMA RecordRead ==
  ASSUME NEW u \in Seq(Byte), ~HasCtrlZ(u), ~SplitLineEnd(Expand(u)), NEW n \in Nat, NEW k,
         Marked(u, n, k), NEW rest, rest = SubSeq(u, k + 1, Len(u)), NEW r, r = ReadExpanded(rest)
  PROVE  /\ ~r.atEof
         /\ n * RecSize < Width(u, Len(u)) =>
              Marked(u, n + 1, k + r.used) /\ r.out # <<>> /\ Pad(r.out) = Records(Expand(u))[n + 1]
         /\ Width(u, Len(u)) <= n * RecSize => k = Len(u) /\ r.out = <<>>
<1> DEFINE used == Fitting(rest)
<1>1. /\ k \in Nat /\ k <= Len(u) /\ Len(u) \in Nat /\ Width(u, k) \in Nat
      /\ Width(u, Len(u)) \in Nat /\ n * RecSize \in Nat
      /\ (n * RecSize <= Width(u, Len(u)) => Width(u, k) = n * RecSize)
      /\ (Width(u, Len(u)) <= n * RecSize => k = Len(u))
  BY MarkIs
<1>2. /\ rest \in Seq(Byte) /\ Len(rest) = Len(u) - k
      /\ \A i \in 1..(Len(u) - k) : rest[i] = u[k + i]
      /\ \A i \in 0..(Len(u) - k) : Width(u, k + i) = Width(u, k) + Width(rest, i)
  <2>1. MakesPart(u, k, Len(u), rest)
    <3>1. Len(u) <= Len(u)
      BY <1>1
    <3>2. QED  BY <1>1, <3>1, ExpandOfRest
  <2>2. QED  BY <2>1 DEF MakesPart
<1>3. \A i \in 1..Len(rest) : rest[i] # CtrlZ
  <2>1. \A j \in 1..Len(u) : u[j] # CtrlZ
    BY ExpandIsText
  <2>2. TAKE i \in 1..Len(rest)
  <2>3. k + i \in 1..Len(u) /\ i \in 1..(Len(u) - k)
    BY <1>1, <1>2
  <2>4. QED  BY <1>2, <2>1, <2>3
<1>4. used \in 0..Len(rest) /\ Len(rest) \in Nat
  <2>1. rest \in Seq(Byte) /\ Len(rest) \in Nat
    BY <1>2, LenProperties
  <2>2. Fitting(rest) \in 0..Len(rest)
    BY ONLY <2>1, FittingMost
  <2>3. QED  BY <2>1, <2>2
<1>5. /\ r.out = Expand(SubSeq(rest, 1, used))
      /\ r.atEof = (~(Width(rest, used) = RecSize) /\ used < Len(rest) /\ rest[used + 1] = CtrlZ)
      /\ r.used = (IF r.atEof THEN used + 1 ELSE used)
  BY DEF ReadExpanded, ReadResult
<1> HIDE DEF used
<1>6. ~r.atEof /\ r.used = used
  <2>1. used < Len(rest) => rest[used + 1] # CtrlZ
    <3>1. used < Len(rest) => used + 1 \in 1..Len(rest)
      BY ONLY <1>4
    <3>2. QED  BY <1>3, <3>1
  <2>2. ~r.atEof
    BY <1>5, <2>1
  <2>3. QED  BY <1>5, <2>2
<1>7. ASSUME n * RecSize < Width(u, Len(u))
      PROVE  Marked(u, n + 1, k + used) /\ r.out # <<>> /\ Pad(r.out) = Records(Expand(u))[n + 1]
  <2>1. n + 1 \in Nat
    OBVIOUS
  <2>2. PICK m : Marked(u, n + 1, m)
    BY <2>1, RecordBorder
  <2> DEFINE part == SubSeq(u, k + 1, m)
  <2>3. MakesRecord(u, n, k, m, part)
    BY <1>7, <2>2, RecordText
  <2> HIDE DEF part
  <2>4. /\ m \in Nat /\ k < m /\ m <= Len(u) /\ Len(part) = m - k
        /\ Width(part, m - k) <= RecSize
        /\ \A i \in 0..(m - k) : Width(u, k + i) = Width(u, k) + Width(part, i)
        /\ Pad(Expand(part)) = Records(Expand(u))[n + 1] /\ Len(Expand(part)) > 0
    BY <2>3 DEF MakesRecord
  <2> DEFINE h == m - k
  <2>5. h \in Nat /\ h \in 0..Len(rest) /\ k + h = m /\ h \in 0..h /\ h \in 0..(Len(u) - k)
    BY <1>1, <1>2, <2>4
  <2>6. /\ Width(u, k + h) = Width(u, k) + Width(part, h)
        /\ Width(u, k + h) = Width(u, k) + Width(rest, h)
        /\ Width(part, h) \in Nat /\ Width(rest, h) \in Nat
    <3>1. Width(part, h) \in Nat /\ Width(rest, h) \in Nat
      BY <2>5, WidthNext
    <3> HIDE DEF h
    <3>2. \A i \in 0..h : Width(u, k + i) = Width(u, k) + Width(part, i)
      BY <2>4 DEF h
    <3>3. QED  BY <1>2, <2>5, <3>1, <3>2
  <2>7. Width(rest, h) <= RecSize
    BY <1>1, <2>4, <2>6
  <2>8. h = Len(rest) \/ Width(rest, h + 1) > RecSize
    <3>1. SUFFICES ASSUME h # Len(rest) PROVE Width(rest, h + 1) > RecSize
      OBVIOUS
    <3>2. m < Len(u)
      BY <1>1, <1>2, <2>4, <2>5, <3>1
    <3>3. Width(u, m) = (n + 1) * RecSize
      <4>1. Width(u, Len(u)) <= (n + 1) * RecSize => m = Len(u)
        BY <2>1, <2>2, MarkIs
      <4>2. (n + 1) * RecSize <= Width(u, Len(u)) => Width(u, m) = (n + 1) * RecSize
        BY <2>1, <2>2, MarkIs
      <4>3. (n + 1) * RecSize \in Nat
        BY <2>1, RecordProducts
      <4>4. QED  BY <1>1, <2>4, <3>2, <4>1, <4>2, <4>3
    <3>4. Width(u, m) = n * RecSize + RecSize /\ Width(u, k) = n * RecSize /\ RecSize \in Nat
      BY <1>1, <1>7, <3>3, RecordProducts, RecSizeAssumption
    <3>5. Width(rest, h) = RecSize
      BY <1>1, <2>5, <2>6, <3>4
    <3>6. Width(rest, h) < Width(rest, h + 1) /\ Width(rest, h + 1) \in Nat
      <4>1. h + 1 \in Nat /\ h < h + 1
        BY <2>5
      <4> HIDE DEF h
      <4>2. QED  BY <2>5, <4>1, WidthGrows, WidthNext
    <3>7. QED  BY <3>4, <3>5, <3>6
  <2> HIDE DEF h
  <2>9. used = h
    <3>1. \A j \in 1..h : rest[j] # CtrlZ
      <4>1. \A j \in 1..h : j \in 1..Len(rest)
        BY ONLY <1>4, <2>5
      <4>2. QED  BY <1>3, <4>1
    <3>2. QED  BY <1>2, <2>5, <2>7, <2>8, <3>1, FittingIs DEF used
  <2>10. SubSeq(rest, 1, h) = part
    <3>1. SubSeq(rest, 1, h) = SubSeq(u, k + 1, k + h)
      <4>1. u \in Seq(Byte) /\ k \in Nat /\ h \in Nat /\ k + h <= Len(u)
        BY <1>1, <2>4, <2>5
      <4>2. rest = SubSeq(u, k + 1, Len(u))
        OBVIOUS
      <4>3. QED  BY ONLY <4>1, <4>2, PartOfRest
    <3>2. QED  BY <2>5, <3>1 DEF part
  <2>11. r.out = Expand(part)
    BY <1>5, <2>9, <2>10
  <2>12. Len(<<>>) = 0
    OBVIOUS
  <2>13. Marked(u, n + 1, k + used)
    BY <2>2, <2>5, <2>9
  <2>14. QED  BY <2>4, <2>11, <2>12, <2>13
<1>8. ASSUME Width(u, Len(u)) <= n * RecSize
      PROVE  k = Len(u) /\ r.out = <<>>
  <2>1. k = Len(u)
    BY <1>1, <1>8
  <2>2. used = 0
    BY <1>1, <1>2, <1>4, <2>1
  <2>3. r.out = Expand(<<>>)
    <3>1. SubSeq(rest, 1, 0) = <<>>
      BY SubSeqEmpty
    <3>2. QED  BY <1>5, <2>2, <3>1
  <2>4. Expand(<<>>) \in Seq(Byte) /\ Len(Expand(<<>>)) = 0
    <3>1. <<>> \in Seq(Byte) /\ Len(<<>>) = 0 /\ 0 \in 0..Len(<<>>) /\ <<>> = SubSeq(<<>>, 1, 0)
      BY EmptySeq, SubSeqEmpty
    <3>2. /\ Expand(<<>>) = MadeOf(<<>>, 0) /\ MadeOf(<<>>, 0) \in Seq(Byte)
          /\ Len(MadeOf(<<>>, 0)) = Width(<<>>, 0)
      BY Zenon, <3>1, ExpandOfPart
    <3>3. Width(<<>>, 0) = 0
      BY WidthType
    <3>4. QED  BY <3>2, <3>3
  <2>5. QED  BY <2>1, <2>3, <2>4, EmptySeq
<1>9. QED  BY <1>6, <1>7, <1>8

\* A text is found again in its records, behind it only ^Z.
LEMMA TextOfRecords ==
  ASSUME NEW t \in Seq(Byte), \A j \in 1..Len(t) : t[j] # CtrlZ
  PROVE  /\ Text(Bytes(Records(t))) = t /\ Records(t) \in Seq(Record)
         /\ \A n \in Nat : (n < Len(Records(t)) <=> n * RecSize < Len(t))
<1> DEFINE w == Len(t)
           count == (w + RecSize - 1) \div RecSize
           b == Bytes(Records(t))
           size == count * RecSize
<1>1. w \in Nat /\ RecSize \in Nat /\ RecSize > 0
  BY LenProperties, RecSizeAssumption
<1>2. count \in Nat /\ \A n \in Nat : (n < count <=> n * RecSize < w)
  BY <1>1, RecordCount
<1>3. size \in Nat /\ w <= size
  <2>1. count * RecSize \in Nat
    BY <1>2, RecordProducts
  <2>2. ~(count < count)
    BY <1>2
  <2>3. ~(count * RecSize < w)
    BY <1>2, <2>2
  <2>4. QED  BY <1>1, <2>1, <2>3
<1> HIDE DEF w, count
<1>4. Records(t) =
        [r \in 1..count |->
           [k \in 1..RecSize |->
              LET at == (r - 1) * RecSize + k IN IF at <= w THEN t[at] ELSE CtrlZ]]
  BY DEF Records, w, count
<1>5. Records(t) \in Seq(Record)
  <2>1. ASSUME NEW r \in 1..count, NEW k \in 1..RecSize
        PROVE  (LET at == (r - 1) * RecSize + k IN IF at <= w THEN t[at] ELSE CtrlZ) \in Byte
    <3>1. r - 1 \in Nat
      BY <1>2
    <3>2. (r - 1) * RecSize \in Nat
      BY <3>1, RecordProducts
    <3>3. (r - 1) * RecSize + k \in Nat /\ (r - 1) * RecSize + k > 0
      BY <1>1, <3>2
    <3> DEFINE at == (r - 1) * RecSize + k
    <3>4. at \in Nat /\ at > 0
      BY <3>3
    <3> HIDE DEF at
    <3>5. at <= w => t[at] \in Byte
      <4>1. at <= w => at \in 1..Len(t)
        BY <1>1, <3>4 DEF w
      <4>2. QED  BY <4>1, ElementOfSeq
    <3>6. (IF at <= w THEN t[at] ELSE CtrlZ) \in Byte
      BY <3>5, HostAssumption
    <3>7. QED  BY <3>6 DEF at
  <2>2. ASSUME NEW r \in 1..count
        PROVE  [k \in 1..RecSize |->
                  LET at == (r - 1) * RecSize + k IN IF at <= w THEN t[at] ELSE CtrlZ] \in Record
    BY <2>1 DEF Record
  <2>3. Records(t) \in [1..count -> Record]
    BY <1>4, <2>2
  <2>4. QED  BY <1>2, <2>3, IsASeq
<1>6. Len(Records(t)) = count /\ \A r \in 1..count : \A k \in 1..RecSize :
        Records(t)[r][k] = (LET at == (r - 1) * RecSize + k IN IF at <= w THEN t[at] ELSE CtrlZ)
  BY <1>2, <1>4
<1>7. ASSUME NEW k \in 1..size
      PROVE  b[k] = IF k <= w THEN t[k] ELSE CtrlZ
  <2> DEFINE q == (k - 1) \div RecSize
             m == (k - 1) % RecSize
  <2>1. q \in Nat /\ m \in Nat /\ m < RecSize /\ k - 1 = q * RecSize + m
    <3>1. \A x \in Nat, y \in Nat : y > 0 =>
            (x \div y) \in Nat /\ (x % y) \in Nat /\ (x % y) < y /\ x = (x \div y) * y + (x % y)
      OBVIOUS
    <3>2. k - 1 \in Nat
      BY <1>3
    <3>3. QED  BY <1>1, <3>1, <3>2
  <2>2. q < count
    <3>1. SUFFICES ASSUME count <= q PROVE FALSE
      BY <1>2, <2>1
    <3>2. count * RecSize <= q * RecSize /\ q * RecSize \in Nat
      BY <1>2, <2>1, <3>1, RecordProducts
    <3>3. QED  BY <1>3, <2>1, <3>2
  <2>3. b[k] = Records(t)[q + 1][m + 1]
    BY <1>6 DEF Bytes
  <2> HIDE DEF q, m
  <2>4. q + 1 \in 1..count /\ m + 1 \in 1..RecSize /\ (q + 1) - 1 = q
    BY <1>1, <1>2, <2>1, <2>2
  <2>5. q * RecSize + (m + 1) = k
    <3>1. q * RecSize \in Nat
      BY <2>1, RecordProducts
    <3>2. k \in Nat
      BY <1>3
    <3>3. QED  BY ONLY <2>1, <3>1, <3>2
  <2>6. Records(t)[q + 1][m + 1] = (LET at == ((q + 1) - 1) * RecSize + (m + 1)
                                    IN  IF at <= w THEN t[at] ELSE CtrlZ)
    BY <1>6, <2>4
  <2>7. QED  BY <2>3, <2>4, <2>5, <2>6
<1>8. b \in Seq(Byte) /\ Len(b) = size
  <2>1. b = [k \in 1..size |-> b[k]]
    BY <1>6 DEF Bytes
  <2>2. ASSUME NEW k \in 1..size PROVE b[k] \in Byte
    <3>1. k <= w => k \in 1..Len(t)
      BY <1>1, <1>3 DEF w
    <3>2. QED  BY <1>7, <3>1, ElementOfSeq, HostAssumption
  <2> HIDE DEF b
  <2>3. b \in [1..size -> Byte]
    BY <2>1, <2>2
  <2>4. QED  BY <1>3, <2>3, IsASeq, LenProperties
<1> HIDE DEF b, size
<1>9. TextLength(b) = w
  <2>1. w \in 0..Len(b)
    BY <1>1, <1>3, <1>8
  <2>2. ASSUME NEW j \in 1..w PROVE b[j] # CtrlZ
    <3>1. j \in 1..size /\ j <= w /\ j \in 1..Len(t)
      BY <1>1, <1>3 DEF w
    <3>2. QED  BY <1>7, <3>1
  <2>3. w = Len(b) \/ b[w + 1] = CtrlZ
    <3>1. SUFFICES ASSUME w # Len(b) PROVE b[w + 1] = CtrlZ
      OBVIOUS
    <3>2. w + 1 \in 1..size /\ ~(w + 1 <= w)
      BY <1>1, <1>3, <1>8, <3>1
    <3>3. QED  BY <1>7, <3>2
  <2>4. QED  BY <1>8, <2>1, <2>2, <2>3, TextLengthIs
<1>10. SubSeq(b, 1, w) = t
  <2>1. SubSeq(b, 0 + 1, w) \in Seq(Byte) /\ Len(SubSeq(b, 0 + 1, w)) = (IF 0 < w THEN w - 0 ELSE 0)
        /\ \A i \in 1..(w - 0) : SubSeq(b, 0 + 1, w)[i] = b[0 + i]
    BY <1>1, <1>3, <1>8, PartOf
  <2> DEFINE p == SubSeq(b, 0 + 1, w)
  <2>2. p \in Seq(Byte) /\ Len(p) = w /\ \A i \in 1..w : p[i] = b[i]
    <3>1. (IF 0 < w THEN w - 0 ELSE 0) = w /\ w - 0 = w /\ \A i \in 1..w : 0 + i = i
      BY <1>1
    <3> HIDE DEF p
    <3>2. /\ p \in Seq(Byte) /\ Len(p) = (IF 0 < w THEN w - 0 ELSE 0)
          /\ \A i \in 1..(w - 0) : p[i] = b[0 + i]
      BY <2>1 DEF p
    <3>3. QED  BY <3>1, <3>2
  <2>3. p = SubSeq(b, 1, w)
    OBVIOUS
  <2> HIDE DEF p
  <2>4. \A i \in 1..Len(p) : p[i] = t[i]
    <3>1. \A i \in 1..w : i \in 1..size /\ i <= w
      BY <1>1, <1>3
    <3>2. QED  BY <1>7, <2>2, <3>1
  <2>5. Len(p) = Len(t)
    BY <2>2 DEF w
  <2>6. p = t
    BY <2>2, <2>4, <2>5, SeqEqual
  <2>7. QED  BY <2>3, <2>6
<1>11. Text(b) = t
  BY <1>9, <1>10 DEF Text
<1>12. QED  BY <1>2, <1>5, <1>6, <1>11 DEF b, w

---------------------------------------------------------------------------
(* A program that saves a text                                              *)

\* The name is one of a text file, and the file is made and read as text.
NamedText ==
  /\ ExtOf[Saved] \in TextExt /\ \A i \in DOMAIN Mappings : ~MatchPattern(Mappings[i].pattern, Saved)
  /\ Converts([mode |-> DefaultMode, eol |-> DefaultEol])

\* The file is written at its end, and holds of u what the records sent were made of.
Storing(u) ==
  /\ Clean(1) /\ Converts(openFiles[1]) /\ StreamOf(1).writable
  /\ StreamOf(1).ino = dir[Lower[Saved]] /\ dir[Lower[Saved]] \in Inode
  /\ StreamOf(1).off = Len(HostFile) /\ HostFile = SubSeq(u, 1, Len(HostFile))
  /\ sent \in Nat /\ Marked(u, sent, Len(HostFile))

\* The file is read, as far as records were loaded.
Loading(u) ==
  /\ Clean(1) /\ Converts(openFiles[1]) /\ ~openFiles[1].eofSeen
  /\ StreamOf(1).ino = dir[Lower[Saved]] /\ Marked(u, Len(loaded), StreamOf(1).off)

\* They are the document's.
LoadedSoFar ==
  /\ loaded \in Seq(Record) /\ Len(loaded) <= Len(document)
  /\ \A i \in 1..Len(loaded) : loaded[i] = document[i]

HostHolds(u) == dir[Lower[Saved]] \in Inode /\ HostFile = u

Saving(u) ==
  /\ pc \in {"make", "store", "write", "close", "open"} => loaded = <<>>
  /\ pc \in {"store", "write", "close"} => Storing(u)
  /\ pc = "write" => dma = document[sent + 1]
  /\ pc = "close" => sent = Len(document)
  /\ pc \in {"open", "read", "done"} => HostHolds(u)
  /\ pc = "read" => Loading(u) /\ LoadedSoFar
  /\ pc = "done" => loaded = document

\* u is the text of the document, and no line end lies across a border.
IsTextOf(u) ==
  u \in Seq(Byte) /\ ~HasCtrlZ(u) /\ document = Records(Expand(u)) /\ ~SplitLineEnd(Expand(u))

SaveStages == {"make", "store", "write", "close", "open", "read", "done", "failed"}

\* Whatever the document is.
SaveBase ==
  /\ Inv /\ client = "save" /\ pc \in SaveStages
  /\ NamedText /\ fileMap[Saved] \in {NoFile, Lower[Saved]}
  /\ document \in Seq(Record) /\ sent \in Nat /\ (pc = "make" => sent = 0)
  /\ pc \in {"store", "write"} => sent < Len(document)

SaveInv ==
  /\ SaveBase
  /\ \E u \in Seq(Byte) : /\ ~HasCtrlZ(u) /\ document = Records(Expand(u))
                          /\ SplitLineEnd(Expand(u)) \/ Saving(u)

\* The FCB and the name.
LEMMA SaveConstants ==
  1 \in Fcb /\ Saved \in Name /\ Lower[Saved] \in Path
<1>1. Saved \in Name /\ FcbCount >= 1 /\ FcbCount \in Nat
  BY SaveAssumption, BdosFilesAssumption
<1>2. QED  BY <1>1, MappingAssumption DEF Fcb

\* What a text is to the program that saves it.
LEMMA TextFacts ==
  ASSUME NEW u, IsTextOf(u)
  PROVE  /\ u \in Seq(Byte) /\ Len(u) \in Nat /\ Width(u, Len(u)) \in Nat
         /\ document \in Seq(Record) /\ Len(document) \in Nat /\ SavedText = Expand(u)
         /\ \A n \in Nat : (n < Len(document) <=> n * RecSize < Width(u, Len(u)))
         /\ \A n \in Nat : \A k : Marked(u, n, k) /\ Len(document) <= n => k = Len(u)
         /\ Marked(u, 0, 0)
<1>1. u \in Seq(Byte) /\ ~HasCtrlZ(u) /\ document = Records(Expand(u))
  BY DEF IsTextOf
<1>2. /\ Expand(u) \in Seq(Byte) /\ Len(Expand(u)) = Width(u, Len(u)) /\ Len(u) \in Nat
      /\ Width(u, Len(u)) \in Nat /\ \A j \in 1..Len(Expand(u)) : Expand(u)[j] # CtrlZ
  BY <1>1, ExpandIsText
<1>3. /\ Text(Bytes(Records(Expand(u)))) = Expand(u) /\ Records(Expand(u)) \in Seq(Record)
      /\ \A n \in Nat : (n < Len(Records(Expand(u))) <=> n * RecSize < Len(Expand(u)))
  BY <1>2, TextOfRecords
<1>4. Len(document) \in Nat
  BY <1>1, <1>3, LenProperties
<1>5. ASSUME NEW n \in Nat, NEW k, Marked(u, n, k), Len(document) <= n PROVE k = Len(u)
  <2>1. ~(n < Len(document))
    BY <1>4, <1>5
  <2>2. ~(n * RecSize < Width(u, Len(u)))
    BY <1>1, <1>2, <1>3, <2>1
  <2>3. n * RecSize \in Nat
    BY RecordProducts
  <2>4. Width(u, Len(u)) <= n * RecSize
    BY <1>2, <2>2, <2>3
  <2>5. QED  BY <1>1, <1>5, <2>4, MarkIs
<1>6. Marked(u, 0, 0)
  <2>1. 0 * RecSize = 0
    <3>1. \A x \in Nat : 0 * x = 0
      OBVIOUS
    <3>2. QED  BY <3>1, RecSizeAssumption
  <2>2. Width(u, 0) = 0
    BY WidthType
  <2>3. AtMost(0, Width(u, Len(u))) = 0
    BY <1>2 DEF AtMost
  <2>4. QED  BY <1>2, <2>1, <2>2, <2>3 DEF Marked
<1>7. QED  BY <1>1, <1>2, <1>3, <1>4, <1>5, <1>6 DEF SavedText

\* The file is made.
LEMMA SaveMakes ==
  ASSUME SaveBase, NEW u, IsTextOf(u), Saving(u), Makes
  PROVE  Saving(u)'
<1>1. /\ Inv /\ NamedText /\ pc = "make" /\ sent = 0 /\ loaded = <<>> /\ Make(1, Saved)
      /\ UNCHANGED <<document, sent, loaded>>
  BY DEF SaveBase, Saving, Makes
<1>2. CASE a' # Success
  <2>1. pc' = "failed"
    BY <1>2 DEF Makes, Goto
  <2>2. QED  BY <2>1 DEF Saving
<1>3. CASE a' = Success
  <2>1. pc' = IF 0 < Len(document) THEN "store" ELSE "close"
    BY <1>3 DEF Makes, AfterWrite, Goto
  <2>2. /\ Clean(1)' /\ StreamOf(1)'.off = 0 /\ StreamOf(1)'.writable /\ FileOf(1)' = <<>>
        /\ openFiles'[1].mode = DefaultMode /\ openFiles'[1].eol = DefaultEol
        /\ StreamOf(1)'.ino = dir'[Lower[Saved]] /\ dir'[Lower[Saved]] \in Inode
    BY <1>1, <1>3, CleanMake, SaveConstants
  <2>3. Converts(openFiles'[1])
    BY <1>1, <2>2 DEF Converts, NamedText
  <2>4. HostFile' = <<>> /\ Len(<<>>) = 0
    BY <2>2 DEF HostFile, FileOf
  <2>5. Marked(u, 0, 0) /\ SubSeq(u, 1, 0) = <<>> /\ Len(document) \in Nat
    BY TextFacts, SubSeqEmpty
  <2>6. Len(HostFile') = 0 /\ HostFile' = SubSeq(u, 1, Len(HostFile'))
    BY <2>4, <2>5
  <2>7. sent' = 0 /\ document' = document /\ loaded' = <<>>
    BY <1>1
  <2>8. Storing(u)'
    BY <2>2, <2>3, <2>5, <2>6, <2>7 DEF Storing
  <2>9. CASE 0 < Len(document)
    <3>1. pc' = "store"
      BY <2>1, <2>9
    <3>2. QED  BY <2>7, <2>8, <2>9, <3>1 DEF Saving
  <2>10. CASE ~(0 < Len(document))
    <3>1. pc' = "close" /\ Len(document) = 0
      BY <2>1, <2>5, <2>10
    <3>2. QED  BY <2>7, <2>8, <3>1 DEF Saving
  <2>11. QED  BY <2>9, <2>10
<1>4. QED  BY <1>2, <1>3

\* A record is put into the buffer.
LEMMA SaveStores ==
  ASSUME SaveBase, NEW u, IsTextOf(u), Saving(u), Stores
  PROVE  Saving(u)'
<1>1. /\ Inv /\ pc' = "write" /\ dma' = document[sent + 1] /\ Storing(u) /\ loaded = <<>>
      /\ sent < Len(document)
      /\ UNCHANGED <<dir, data, stream, openFiles, fileMap, fcb, a, document, sent, loaded>>
  BY DEF SaveBase, Saving, Stores, Goto, host
<1>2. /\ HostFile' = HostFile /\ StreamOf(1)' = StreamOf(1) /\ FileOf(1)' = FileOf(1)
  BY <1>1 DEF HostFile, StreamOf, FileOf
<1>3. Storing(u)'
  BY <1>1, <1>2 DEF Storing, Clean, IsOpen
<1>4. QED  BY <1>1, <1>3 DEF Saving

\* A record is written.
LEMMA SaveWrites ==
  ASSUME SaveBase, NEW u, IsTextOf(u), Saving(u), Writes
  PROVE  Saving(u)'
<1>1. /\ Inv /\ WriteSequential(1, Saved) /\ sent' = sent + 1 /\ Storing(u) /\ loaded = <<>>
      /\ sent < Len(document) /\ dma = document[sent + 1] /\ document' = document /\ loaded' = <<>>
  BY DEF SaveBase, Saving, Writes
<1>2. /\ u \in Seq(Byte) /\ ~HasCtrlZ(u) /\ ~SplitLineEnd(Expand(u)) /\ document = Records(Expand(u))
      /\ Len(u) \in Nat /\ Len(document) \in Nat
      /\ \A n \in Nat : (n < Len(document) <=> n * RecSize < Width(u, Len(u)))
  BY TextFacts DEF IsTextOf
<1> DEFINE k == Len(HostFile)
<1>3. /\ Clean(1) /\ Converts(openFiles[1]) /\ StreamOf(1).writable
      /\ StreamOf(1).ino = dir[Lower[Saved]] /\ dir[Lower[Saved]] \in Inode
      /\ StreamOf(1).off = k /\ HostFile = SubSeq(u, 1, k) /\ sent \in Nat /\ Marked(u, sent, k)
  BY <1>1 DEF Storing
<1>4. sent + 1 \in Nat /\ sent * RecSize < Width(u, Len(u))
  BY <1>1, <1>2, <1>3
<1>5. PICK m : Marked(u, sent + 1, m)
  BY <1>2, <1>4, RecordBorder
<1> DEFINE part == SubSeq(u, k + 1, m)
<1>6. MakesRecord(u, sent, k, m, part)
  <2> HIDE DEF k
  <2>1. QED  BY <1>2, <1>3, <1>4, <1>5, RecordText
<1> HIDE DEF k
<1>7. k \in Nat /\ m \in Nat /\ k < m /\ m <= Len(u)
  BY <1>6 DEF MakesRecord
<1>8. Collapse(dma) = part /\ Len(part) = m - k
  <2> HIDE DEF part
  <2>1. /\ part \in Seq(Byte) /\ \A i \in 1..Len(part) : part[i] # CtrlZ
        /\ Width(part, Len(part)) <= RecSize /\ Len(part) = m - k
        /\ Pad(Expand(part)) = Records(Expand(u))[sent + 1]
    BY <1>6 DEF MakesRecord
  <2>2. dma = Pad(Expand(part))
    BY <1>1, <1>2, <2>1
  <2>3. Collapse(Pad(Expand(part))) = part
    BY <2>1, RoundTrip
  <2>4. QED  BY <2>1, <2>2, <2>3
<1>9. part # <<>>
  <2>1. Len(<<>>) = 0
    OBVIOUS
  <2> HIDE DEF part
  <2>2. QED  BY <1>7, <1>8, <2>1
<1>10. Overwrite(SubSeq(u, 1, k), k, part) = SubSeq(u, 1, m)
  BY <1>2, <1>7, PartWritten DEF part
<1> HIDE DEF part
<1>11. /\ a' = Success /\ Clean(1)' /\ StreamOf(1)'.writable
       /\ StreamOf(1)'.off = StreamOf(1).off + Len(part) /\ StreamOf(1)'.ino = StreamOf(1).ino
       /\ FileOf(1)' = Overwrite(FileOf(1), StreamOf(1).off, part)
       /\ openFiles' = openFiles /\ UNCHANGED <<dir, fileMap, dma>>
  BY <1>1, <1>3, <1>8, <1>9, CleanWrite, SaveConstants
<1>12. FileOf(1) = HostFile /\ FileOf(1)' = HostFile'
  BY <1>3, <1>11 DEF FileOf, HostFile
<1>13. HostFile' = SubSeq(u, 1, m)
  BY <1>3, <1>10, <1>11, <1>12
<1>14. Len(SubSeq(u, 1, m)) = m
  <2>1. SubSeq(u, 1, m) = SubSeq(u, 0 + 1, m) /\ (IF 0 < m THEN m - 0 ELSE 0) = m
    BY <1>7
  <2>2. Len(SubSeq(u, 0 + 1, m)) = (IF 0 < m THEN m - 0 ELSE 0)
    BY <1>2, <1>7, PartOf
  <2>3. QED  BY <2>1, <2>2
<1>15. StreamOf(1)'.off = m
  BY <1>3, <1>7, <1>8, <1>11
<1>16. Storing(u)'
  BY <1>1, <1>3, <1>4, <1>5, <1>11, <1>13, <1>14, <1>15 DEF Storing
<1>17. pc' = IF sent + 1 < Len(document) THEN "store" ELSE "close"
  BY <1>11 DEF Writes, AfterWrite, Goto
<1>18. CASE sent + 1 < Len(document)
  <2>1. pc' = "store"
    BY <1>17, <1>18
  <2>2. QED  BY <1>1, <1>16, <1>18, <2>1 DEF Saving
<1>19. CASE ~(sent + 1 < Len(document))
  <2>1. pc' = "close" /\ sent + 1 = Len(document)
    BY <1>1, <1>2, <1>3, <1>17, <1>19
  <2>2. QED  BY <1>1, <1>16, <2>1 DEF Saving
<1>20. QED  BY <1>18, <1>19

\* The name leads to the file that was made, to be read as text.
LEMMA SavedLookup ==
  ASSUME SaveBase, dir[Lower[Saved]] \in Inode
  PROVE  Lookup(Saved).path = Lower[Saved] /\ Converts(Lookup(Saved))
<1>1. /\ ExtOf[Saved] \in TextExt /\ DefaultEol /\ fileMap[Saved] \in {NoFile, Lower[Saved]}
      /\ \A i \in DOMAIN Mappings : ~MatchPattern(Mappings[i].pattern, Saved)
  BY DEF SaveBase, NamedText, Converts
<1>2. ~Mapped(Saved, dir)
  BY <1>1 DEF Mapped, Applies
<1>3. Exists(dir, Lower[Saved]) /\ Lower[Saved] # NoFile
  BY HostAssumption, SaveConstants DEF Exists
<1>4. FindPath(Saved, dir, fileMap) = Lower[Saved]
  BY <1>1, <1>2, <1>3 DEF FindPath
<1>5. DetectFileMode(Saved, Lower[Saved], dir, data) = "text"
  <2>1. ExtOf[Saved] \notin BinaryExt
    BY <1>1, MappingAssumption
  <2>2. QED  BY <1>1, <2>1 DEF DetectFileMode
<1>6. Lookup(Saved) = [path |-> Lower[Saved], eol |-> DefaultEol, mode |-> "text"]
  BY <1>2, <1>3, <1>4, <1>5 DEF Lookup, FindUnixFileEx
<1>7. QED  BY <1>1, <1>6 DEF Converts

\* The file is closed, and opened again.
LEMMA SaveReloads ==
  ASSUME SaveBase, NEW u, IsTextOf(u), Saving(u), Reload
  PROVE  Saving(u)'
<1>1. Inv /\ loaded = <<>> /\ loaded' = <<>> /\ document' = document /\ sent' = sent
  BY DEF SaveBase, Saving, Reload
<1>2. CASE pc = "close"
  <2>1. Close(1) /\ pc' = "open" /\ Storing(u) /\ sent = Len(document)
    BY <1>2 DEF Reload, Goto, Saving
  <2>2. /\ Clean(1) /\ dir[Lower[Saved]] \in Inode /\ HostFile = SubSeq(u, 1, Len(HostFile))
        /\ sent \in Nat /\ Marked(u, sent, Len(HostFile)) /\ Lower[Saved] \in Path
    BY <2>1, SaveConstants DEF Storing
  <2>3. dir' = dir /\ \A p \in Path : dir[p] \in Inode => data'[dir[p]] = data[dir[p]]
    BY <1>1, <2>1, <2>2, CleanClose, SaveConstants
  <2>4. HostFile' = HostFile
    BY <2>2, <2>3 DEF HostFile
  <2>5. Len(HostFile) = Len(u)
    <3>1. Len(document) <= sent
      BY <2>1, <2>2
    <3>2. QED  BY <2>2, <3>1, TextFacts
  <2>6. HostFile = u
    <3>1. u \in Seq(Byte)
      BY TextFacts
    <3>2. QED  BY <2>2, <2>5, <3>1, WholePart
  <2>7. HostHolds(u)'
    BY <2>2, <2>3, <2>4, <2>6 DEF HostHolds
  <2>8. QED  BY <1>1, <2>1, <2>7 DEF Saving
<1>3. CASE pc = "open"
  <2>1. Open(1, Saved) /\ HostHolds(u) /\ pc' = IF a' = Success THEN "read" ELSE "failed"
    BY <1>3 DEF Reload, Goto, Saving
  <2>2. CASE a' # Success
    <3>1. pc' = "failed"
      BY <2>1, <2>2
    <3>2. QED  BY <3>1 DEF Saving
  <2>3. CASE a' = Success
    <3>1. Lookup(Saved).path = Lower[Saved] /\ Converts(Lookup(Saved))
      BY <2>1, SavedLookup DEF HostHolds
    <3>2. /\ Clean(1)' /\ StreamOf(1)'.off = 0 /\ ~openFiles'[1].eofSeen
          /\ openFiles'[1].mode = Lookup(Saved).mode /\ openFiles'[1].eol = Lookup(Saved).eol
          /\ StreamOf(1)'.ino = dir[Lower[Saved]] /\ UNCHANGED <<dir, data>>
      BY <1>1, <2>1, <2>3, <3>1, CleanOpen, SaveConstants DEF host
    <3>3. Converts(openFiles'[1])
      BY <3>1, <3>2 DEF Converts
    <3>4. HostHolds(u)'
      BY <2>1, <3>2 DEF HostHolds, HostFile
    <3>5. Len(loaded') = 0 /\ Marked(u, 0, 0) /\ Len(document) \in Nat
      BY <1>1, TextFacts
    <3>6. Loading(u)'
      BY <3>2, <3>3, <3>5 DEF Loading
    <3>7. LoadedSoFar'
      BY <1>1, <3>5, EmptySeq DEF LoadedSoFar
    <3>8. pc' = "read"
      BY <2>1, <2>3
    <3>9. QED  BY <3>4, <3>6, <3>7, <3>8 DEF Saving
  <2>4. QED  BY <2>2, <2>3
<1>4. QED  BY <1>2, <1>3 DEF Reload

\* A record is loaded, or the end of the file is found.
LEMMA SaveLoads ==
  ASSUME SaveBase, NEW u, IsTextOf(u), Saving(u), Load
  PROVE  Saving(u)'
<1> DEFINE r == ReadWithConversion(openFiles[1], Rest(1))
           n == Len(loaded)
           k == StreamOf(1).off
<1>1. /\ Inv /\ pc = "read" /\ ReadSequential(1) /\ HostHolds(u) /\ Loading(u) /\ LoadedSoFar
      /\ document' = document /\ sent' = sent
      /\ IF a' = Success THEN loaded' = Append(loaded, dma') /\ pc' = "read"
         ELSE pc' = "done" /\ loaded' = loaded
  BY DEF SaveBase, Saving, Load, Goto
<1>2. /\ Clean(1) /\ Converts(openFiles[1]) /\ ~openFiles[1].eofSeen
      /\ StreamOf(1).ino = dir[Lower[Saved]] /\ Marked(u, n, k)
  BY <1>1 DEF Loading
<1>3. /\ loaded \in Seq(Record) /\ n \in Nat /\ n <= Len(document)
      /\ \A i \in 1..n : loaded[i] = document[i]
  BY <1>1, LenProperties DEF LoadedSoFar
<1>4. /\ Delivers(1, r) /\ Clean(1)' /\ StreamOf(1)'.off = k + r.used
      /\ StreamOf(1)'.ino = StreamOf(1).ino /\ \E t : MovesTo(1, t)
  BY <1>1, <1>2, CleanRead, SaveConstants
<1>5. PICK t : MovesTo(1, t)
  BY <1>4
<1>6. /\ dir' = dir /\ data' = data /\ Converts(openFiles'[1]) /\ HostHolds(u)'
      /\ StreamOf(1)'.ino = dir'[Lower[Saved]]
  BY <1>1, <1>2, <1>4, <1>5 DEF MovesTo, Converts, HostHolds, HostFile
<1>7. r = ReadExpanded(SubSeq(u, k + 1, Len(u)))
  <2>1. FileOf(1) = u
    BY <1>1, <1>2 DEF FileOf, HostHolds, HostFile
  <2>2. QED  BY <1>2, <2>1 DEF ReadWithConversion, Rest
<1>8. /\ u \in Seq(Byte) /\ ~HasCtrlZ(u) /\ ~SplitLineEnd(Expand(u)) /\ document = Records(Expand(u))
      /\ document \in Seq(Record) /\ Len(document) \in Nat
      /\ \A m \in Nat : (m < Len(document) <=> m * RecSize < Width(u, Len(u)))
      /\ n * RecSize \in Nat /\ Width(u, Len(u)) \in Nat
  BY <1>3, TextFacts, RecordProducts DEF IsTextOf
<1> HIDE DEF r, n, k
<1>9. /\ ~r.atEof
      /\ n * RecSize < Width(u, Len(u)) =>
           Marked(u, n + 1, k + r.used) /\ r.out # <<>> /\ Pad(r.out) = Records(Expand(u))[n + 1]
      /\ Width(u, Len(u)) <= n * RecSize => k = Len(u) /\ r.out = <<>>
  <2>1. u \in Seq(Byte) /\ ~HasCtrlZ(u) /\ ~SplitLineEnd(Expand(u)) /\ n \in Nat /\ Marked(u, n, k)
    BY <1>2, <1>3, <1>8
  <2>2. ReadExpanded(SubSeq(u, k + 1, Len(u))) = r
    BY <1>7
  <2>3. QED  BY ONLY <2>1, <2>2, RecordRead
<1>10. CASE n < Len(document)
  <2>1. Marked(u, n + 1, k + r.used) /\ r.out # <<>> /\ Pad(r.out) = document[n + 1]
    BY <1>3, <1>8, <1>9, <1>10
  <2>2. a' = Success /\ dma' = document[n + 1] /\ openFiles'[1].eofSeen = r.atEof
    BY <1>4, <1>9, <2>1 DEF Delivers
  <2>3. loaded' = Append(loaded, dma') /\ pc' = "read"
    BY <1>1, <2>2
  <2>4. dma' \in Record
    <3>1. n + 1 \in 1..Len(document)
      BY <1>3, <1>8, <1>10
    <3>2. QED  BY <1>8, <2>2, <3>1, ElementOfSeq
  <2>5. /\ loaded' \in Seq(Record) /\ Len(loaded') = n + 1
        /\ (\A i \in 1..n : loaded'[i] = loaded[i]) /\ loaded'[n + 1] = dma'
    BY <1>3, <2>3, <2>4, AppendProperties DEF n
  <2>6. LoadedSoFar'
    <3>1. n + 1 <= Len(document)
      BY <1>3, <1>8, <1>10
    <3>2. \A i \in 1..(n + 1) : loaded'[i] = document[i]
      <4>1. TAKE i \in 1..(n + 1)
      <4>2. CASE i = n + 1
        BY <2>2, <2>5, <4>2
      <4>3. CASE i # n + 1
        <5>1. i \in 1..n
          BY <1>3, <4>3
        <5>2. QED  BY <1>3, <2>5, <5>1
      <4>4. QED  BY <4>2, <4>3
    <3>3. QED  BY <1>1, <2>5, <3>1, <3>2 DEF LoadedSoFar
  <2>7. Loading(u)'
    BY <1>4, <1>6, <1>9, <2>1, <2>2, <2>5 DEF Loading
  <2>8. QED  BY <1>6, <2>3, <2>6, <2>7 DEF Saving
<1>11. CASE ~(n < Len(document))
  <2>1. n = Len(document) /\ ~(n * RecSize < Width(u, Len(u)))
    BY <1>3, <1>8, <1>11
  <2>2. r.out = <<>>
    <3>1. Width(u, Len(u)) <= n * RecSize
      BY <1>8, <2>1
    <3>2. QED  BY <1>9, <3>1
  <2>3. a' = AtEof /\ a' # Success
    BY <1>4, <2>2 DEF Delivers, AtEof, Success
  <2>4. pc' = "done" /\ loaded' = loaded
    BY <1>1, <2>3
  <2>5. loaded = document
    BY <1>3, <1>8, <2>1, SeqEqual DEF n
  <2>6. QED  BY <1>1, <1>6, <2>4, <2>5 DEF Saving
<1>12. QED  BY <1>10, <1>11

\* What holds whatever the document is.
LEMMA SaveBaseStep ==
  ASSUME SaveBase, SaveNext
  PROVE  SaveBase' /\ document' = document
<1>1. /\ Inv /\ client = "save" /\ pc \in SaveStages
      /\ NamedText /\ fileMap[Saved] \in {NoFile, Lower[Saved]}
      /\ document \in Seq(Record) /\ sent \in Nat /\ (pc = "make" => sent = 0)
      /\ (pc \in {"store", "write"} => sent < Len(document))
      /\ 1 \in Fcb /\ Saved \in Name
  BY SaveConstants DEF SaveBase
<1>2. NamedText' /\ Len(document) \in Nat
  BY <1>1, LenProperties DEF NamedText
<1>3. CASE Makes
  <2>1. Make(1, Saved) /\ fileMap' = fileMap /\ UNCHANGED <<document, sent>> /\ sent = 0 /\ client' = client
        /\ pc' \in {"store", "close", "failed"} /\ (pc' = "store" => 0 < Len(document))
    BY <1>1, <1>3 DEF Makes, Make, AfterWrite, Goto
  <2>2. Inv'
    BY <1>1, <2>1, MakeStep
  <2>3. QED  BY <1>1, <1>2, <2>1, <2>2 DEF SaveBase, SaveStages
<1>4. CASE Stores
  <2>1. /\ pc' = "write" /\ dma' = document[sent + 1] /\ client' = client
        /\ UNCHANGED <<dir, data, stream, openFiles, fileMap, fcb, a, document, sent>>
    BY <1>4 DEF Stores, Goto, host
  <2>2. dma' \in Record
    <3>1. sent + 1 \in 1..Len(document)
      BY <1>1, <1>2, <1>4 DEF Stores
    <3>2. QED  BY <1>1, <2>1, <3>1, ElementOfSeq
  <2>3. Inv'
    <3>1. RestOK'
      BY <1>1, <2>1, <2>2 DEF Inv, TypeOK, RestOK
    <3>2. QED  BY <1>1, <2>1, <3>1, KeepsStreams
  <2>4. sent < Len(document)
    BY <1>1, <1>4 DEF Stores
  <2>5. QED  BY <1>1, <1>2, <2>1, <2>3, <2>4 DEF SaveBase, SaveStages
<1>5. CASE Writes
  <2>1. /\ WriteSequential(1, Saved) /\ fileMap' = fileMap /\ document' = document
        /\ sent' = sent + 1 /\ client' = client /\ pc' \in {"store", "close", "failed"}
        /\ (pc' = "store" => sent + 1 < Len(document))
    BY Zenon, <1>5 DEF Writes, WriteSequential, NotOpenError, AfterWrite, Goto
  <2>2. Inv'
    BY <1>1, <2>1, WriteStep
  <2>3. QED  BY <1>1, <1>2, <2>1, <2>2 DEF SaveBase, SaveStages
<1>6. CASE Reload
  <2>1. /\ Close(1) \/ Open(1, Saved)
        /\ fileMap' = fileMap /\ UNCHANGED <<document, sent>> /\ client' = client
        /\ pc' \in {"open", "read", "failed"}
    BY <1>6 DEF Reload, Close, Open, Goto
  <2>2. Inv'
    BY <1>1, <2>1, CloseStep, OpenStep
  <2>3. QED  BY <1>1, <1>2, <2>1, <2>2 DEF SaveBase, SaveStages
<1>7. CASE Load
  <2>1. /\ ReadSequential(1) /\ fileMap' = fileMap /\ UNCHANGED <<document, sent>> /\ client' = client
        /\ pc' \in {"read", "done"}
    BY Zenon, <1>7 DEF Load, ReadSequential, NotOpenError, Goto
  <2>2. Inv'
    BY <1>1, <2>1, ReadStep
  <2>3. QED  BY <1>1, <1>2, <2>1, <2>2 DEF SaveBase, SaveStages
<1>8. QED  BY <1>3, <1>4, <1>5, <1>6, <1>7 DEF SaveNext

\* Every call keeps the invariant.
LEMMA SaveStep ==
  ASSUME SaveInv, [SaveNext]_<<vars, client, pc, saveVars>>
  PROVE  SaveInv'
<1>1. PICK u \in Seq(Byte) : /\ ~HasCtrlZ(u) /\ document = Records(Expand(u))
                             /\ SplitLineEnd(Expand(u)) \/ Saving(u)
  BY DEF SaveInv
<1>2. SaveBase
  BY DEF SaveInv
<1>3. CASE SaveNext
  <2>1. SaveBase' /\ document' = document
    BY <1>2, <1>3, SaveBaseStep
  <2>2. SplitLineEnd(Expand(u)) \/ Saving(u)'
    <3>1. SUFFICES ASSUME ~SplitLineEnd(Expand(u)) PROVE Saving(u)'
      OBVIOUS
    <3>2. IsTextOf(u) /\ Saving(u)
      BY <1>1, <3>1 DEF IsTextOf
    <3>3. QED
      BY <1>2, <1>3, <3>2, SaveMakes, SaveStores, SaveWrites, SaveReloads, SaveLoads DEF SaveNext
  <2>3. QED  BY <1>1, <2>1, <2>2 DEF SaveInv
<1>4. CASE UNCHANGED <<vars, client, pc, saveVars>>
  <2>1. /\ UNCHANGED <<dir, data, stream, openFiles, fileMap, fcb, dma, a, client, pc>>
        /\ UNCHANGED <<document, sent, loaded>>
    BY <1>4 DEF vars, saveVars
  <2>2. Inv'
    BY <1>2, <2>1 DEF SaveBase, Inv, TypeOK, HandleOwnership, StreamShape, IsOpen, Live
  <2>3. SaveBase'
    BY <1>2, <2>1, <2>2 DEF SaveBase, NamedText
  <2>4. Saving(u) => Saving(u)'
    BY <2>1 DEF Saving, Storing, Loading, LoadedSoFar, HostHolds, HostFile, Clean, IsOpen, StreamOf,
                FileOf
  <2>5. QED  BY <1>1, <2>1, <2>3, <2>4 DEF SaveInv
<1>5. QED  BY <1>3, <1>4

\* What SaveIsExact says follows.
LEMMA SaveInvExact ==
  ASSUME SaveInv
  PROVE  SaveIsExact
<1>1. PICK u \in Seq(Byte) : /\ ~HasCtrlZ(u) /\ document = Records(Expand(u))
                             /\ SplitLineEnd(Expand(u)) \/ Saving(u)
  BY DEF SaveInv
<1>2. /\ Expand(u) \in Seq(Byte) /\ \A j \in 1..Len(Expand(u)) : Expand(u)[j] # CtrlZ
  BY <1>1, ExpandIsText
<1>3. SavedText = Expand(u)
  BY <1>1, <1>2, TextOfRecords DEF SavedText
<1>4. SUFFICES ASSUME Saving(u) PROVE HostHasUnixText /\ LoadsWhatWasSaved
  BY <1>1, <1>3 DEF SaveIsExact
<1>5. HostHasUnixText
  BY <1>3, <1>4 DEF Saving, HostHolds, HostHasUnixText
<1>6. LoadsWhatWasSaved
  BY <1>4 DEF Saving, LoadsWhatWasSaved, SavedText
<1>7. QED  BY <1>5, <1>6

\* A text whose line ends lie within records is loaded as it was saved, and meanwhile the
\* host has it with one Lf for each line end, whatever its length, the size of a record
\* and what the file held before (722-816, 1571-1630).
THEOREM SavesAreExact == SaveSpec => []SaveIsExact
<1> DEFINE Start ==
      /\ Init /\ SaveInit
      /\ \E u \in Seq(Byte) : ~HasCtrlZ(u) /\ document = Records(Expand(u))
      /\ ExtOf[Saved] \in TextExt /\ fileMap[Saved] \in {NoFile, Lower[Saved]}
      /\ \A i \in DOMAIN Mappings : ~MatchPattern(Mappings[i].pattern, Saved)
      /\ Converts([mode |-> DefaultMode, eol |-> DefaultEol])
<1>1. Start => SaveInv
  <2>1. SUFFICES ASSUME Start PROVE SaveInv
    OBVIOUS
  <2>2. Inv
    BY <2>1, InitInv
  <2>3. PICK u \in Seq(Byte) : ~HasCtrlZ(u) /\ document = Records(Expand(u))
    BY <2>1
  <2>4. document \in Seq(Record)
    BY <2>1, SaveAssumption DEF SaveInit
  <2>5. client = "save" /\ pc = "make" /\ sent = 0 /\ loaded = <<>>
    BY <2>1 DEF SaveInit
  <2>6. NamedText /\ fileMap[Saved] \in {NoFile, Lower[Saved]}
    BY <2>1 DEF NamedText
  <2>7. SaveBase
    BY <2>2, <2>4, <2>5, <2>6 DEF SaveBase, SaveStages
  <2>8. Saving(u)
    BY <2>5 DEF Saving
  <2>9. QED  BY <2>3, <2>7, <2>8 DEF SaveInv
<1>2. SaveInv /\ [SaveNext]_<<vars, client, pc, saveVars>> => SaveInv'
  BY SaveStep
<1>3. SaveInv => SaveIsExact
  BY SaveInvExact
<1>4. QED  BY <1>1, <1>2, <1>3, PTL DEF SaveSpec
=============================================================================
