------------------------------ MODULE BdosFiles ------------------------------
(***************************************************************************)
(* The BDOS file calls of src/src/cpmemu.cc: open (15), close (16), delete *)
(* (19), read and write sequential (20, 21), make (22), rename (23), read  *)
(* and write random (33, 34, 40), file size (35), set random record (36),  *)
(* reset disk (13) and reset drive (37).                                   *)
(*                                                                         *)
(* The actors are the CP/M program, which makes the calls in any order and *)
(* with any arguments, the emulator's table open_files, the C library's    *)
(* streams, and the host's files, which survive the end of the emulator.   *)
(* What a call reads from guest memory and the code never changes (the     *)
(* name in an FCB) is a parameter; what the code changes (EX, CR, R0-R2,   *)
(* the DMA buffer, register A) is state.                                   *)
(***************************************************************************)
EXTENDS FileMapping, Stdio

CONSTANTS
  FcbCount,       \* FCBs the program uses, in the order of their addresses
  Fd,             \* streams the host lets the process have open
  NotOpen,        \* an FCB without an entry in open_files
  ReadOnly,       \* paths the process may read but not write
  CrMod,          \* CR is one byte: 256
  ExtentRecords,  \* records of an extent: 128
  GuestFcb,       \* the [ex, cr, rr] a program may store in an FCB itself
  GuestDma,       \* the records a program may place in the DMA buffer
  InitialDisk,    \* the [dir, data] the emulator may be started on
  InitialMap,     \* file_map as the command line leaves it
  FileBound       \* bound of the model: the longest file, in bytes

Fcb == 1..FcbCount

FcbBytes == [ex : Nat, cr : 0..(CrMod - 1), rr : Nat]

ASSUME BdosFilesAssumption ==
  /\ FcbCount \in Nat /\ IsFiniteSet(Fd) /\ CrMod \in Nat \ {0} /\ ExtentRecords \in Nat /\ FileBound \in Nat
  /\ ReadOnly \subseteq Path /\ GuestFcb \subseteq FcbBytes /\ GuestDma \subseteq Record
  /\ InitialDisk \subseteq [dir : Directory, data : Contents]
  /\ InitialMap \in FileMap
  /\ Closed \notin Stream

\* Values of register A.
Success == 0
AtEof   == 1
Failure == 255

VARIABLES
  dir, data,   \* the host
  stream,      \* the C library: a Stream or Closed for every Fd
  openFiles,   \* open_files: an OpenFile or NotOpen for every FCB
  fileMap,     \* file_map
  fcb,         \* the FCB bytes the code changes
  dma,         \* the record at current_dma
  a            \* register A

vars == <<dir, data, stream, openFiles, fileMap, fcb, dma, a>>
host == <<dir, data>>
guest == <<fcb, dma, a>>

OpenFile == [fp : Fd, mode : Mode, eol : BOOLEAN, eofSeen : BOOLEAN]

ASSUME NotOpenAssumption == NotOpen \notin OpenFile

TypeOK ==
  /\ dir \in Directory /\ data \in Contents
  /\ stream \in [Fd -> Stream \cup {Closed}]
  /\ openFiles \in [Fcb -> OpenFile \cup {NotOpen}]
  /\ fileMap \in FileMap
  /\ fcb \in [Fcb -> FcbBytes] /\ dma \in Record /\ a \in {Success, AtEof, Failure}

BlankFcb == [ex |-> 0, cr |-> 0, rr |-> 0]

Idle ==
  /\ stream = [fd \in Fd |-> Closed]
  /\ openFiles = [f \in Fcb |-> NotOpen]
  /\ fileMap = InitialMap
  /\ fcb = [f \in Fcb |-> BlankFcb] /\ a = Success
  /\ dma = [k \in 1..RecSize |-> Zero]

Init ==
  /\ \E disk \in InitialDisk : dir = disk.dir /\ data = disk.data
  /\ Idle

---------------------------------------------------------------------------
(* Streams and files in use                                                 *)

IsOpen(f) == openFiles[f] # NotOpen

Live == {fd \in Fd : stream[fd] # Closed}

FreeFd == Fd \ Live

InUse(streams) == {streams[fd].ino : fd \in {g \in Fd : streams[g] # Closed}}

FreeInode == Inode \ (Linked(dir) \cup InUse(stream))

\* data once the streams of DOMAIN rank have written what they hold back, in the
\* order of their ranks: a byte that several of them hold is the last one's.
Holds(fd, i, k) ==
  /\ stream[fd].ino = i /\ stream[fd].pend # <<>>
  /\ stream[fd].off - Len(stream[fd].pend) < k /\ k <= stream[fd].off

HeldByte(fd, k) == stream[fd].pend[k - (stream[fd].off - Len(stream[fd].pend))]

LastHolder(rank, i, k) ==
  CHOOSE fd \in DOMAIN rank :
    /\ Holds(fd, i, k)
    /\ \A g \in DOMAIN rank : Holds(g, i, k) => rank[g] <= rank[fd]

SizeAfter(rank, i) ==
  Cardinality((1..Len(data[i])) \cup
    UNION {1..stream[fd].off :
             fd \in {g \in DOMAIN rank : stream[g].ino = i /\ stream[g].pend # <<>>}})

FlushInOrder(rank) ==
  [i \in Inode |-> [k \in 1..SizeAfter(rank, i) |->
     IF \E fd \in DOMAIN rank : Holds(fd, i, k) THEN HeldByte(LastHolder(rank, i, k), k)
     ELSE IF k <= Len(data[i]) THEN data[i][k] ELSE Zero]]

\* The streams of open_files, ranked by their FCBs' addresses.
TableFds == {openFiles[f].fp : f \in {g \in Fcb : IsOpen(g)}}

TableOrder ==
  [fd \in TableFds |-> CHOOSE f \in Fcb : IsOpen(f) /\ openFiles[f].fp = fd]

---------------------------------------------------------------------------
(* Opening and closing                                                      *)

Lookup(n) == FindUnixFileEx(n, dir, data, fileMap)

\* bdos_open_file: every way fopen may succeed; {} when it fails.
Opening(f, n) ==
  LET found == Lookup(n)
  IN  IF found.path = NoFile \/ FreeFd = {} THEN {}
      ELSE IF ~Exists(dir, found.path) THEN {}
      ELSE {[files   |-> [openFiles EXCEPT ![f] =
                            [fp |-> fd, mode |-> found.mode, eol |-> found.eol,
                             eofSeen |-> FALSE]],
             streams |-> [stream EXCEPT ![fd] =
                            Opened(dir[found.path], found.path \notin ReadOnly)]]
              : fd \in FreeFd}

\* fn 15.  A stream the table already held for f is overwritten, not closed.
Open(f, n) ==
  /\ \/ \E o \in Opening(f, n) :
          /\ openFiles' = o.files /\ stream' = o.streams
          /\ fcb' = [fcb EXCEPT ![f].ex = 0]
          /\ a' = Success
     \/ /\ Opening(f, n) = {}
        /\ a' = Failure
        /\ UNCHANGED <<openFiles, stream, fcb>>
  /\ UNCHANGED <<host, fileMap, dma>>

\* Faulty: the entry of open_files is not erased.
CloseKeepsEntry(f) ==
  /\ IsOpen(f) /\ a' = Success
  /\ stream' = [stream EXCEPT ![openFiles[f].fp] = Closed]
  /\ UNCHANGED <<host, openFiles, fileMap, fcb, dma>>

\* Faulty: what the stream holds back is not written out.
CloseDiscards(f) ==
  /\ IsOpen(f) /\ a' = Success
  /\ stream' = [stream EXCEPT ![openFiles[f].fp] = Closed]
  /\ data' = Reclaim(dir, data, InUse(stream'))
  /\ openFiles' = [openFiles EXCEPT ![f] = NotOpen]
  /\ UNCHANGED <<dir, fileMap, fcb, dma>>

\* fn 16.  Closing what is not open succeeds.
Close(f) ==
  /\ a' = Success
  /\ \/ /\ IsOpen(f)
        /\ LET fd == openFiles[f].fp
               s  == stream[fd]
           IN  /\ stream' = [stream EXCEPT ![fd] = Closed]
               /\ data' = Reclaim(dir, [data EXCEPT ![s.ino] = Flushed(s, @)], InUse(stream'))
        /\ openFiles' = [openFiles EXCEPT ![f] = NotOpen]
     \/ ~IsOpen(f) /\ UNCHANGED <<stream, data, openFiles>>
  /\ UNCHANGED <<dir, fileMap, fcb, dma>>

\* fn 22: fopen(lower case name, "w+b") empties the file, or creates it.
MakeSucceeds(f, n, ino, fd) ==
  /\ dir' = [dir EXCEPT ![Lower[n]] = ino]
  /\ data' = [data EXCEPT ![ino] = <<>>]
  /\ stream' = [stream EXCEPT ![fd] = Opened(ino, TRUE)]
  /\ openFiles' = [openFiles EXCEPT ![f] =
                     [fp |-> fd, mode |-> DefaultMode, eol |-> DefaultEol, eofSeen |-> FALSE]]
  /\ fcb' = [fcb EXCEPT ![f].ex = 0]
  /\ a' = Success

CanMake(n) == FreeFd # {} /\ ~(Exists(dir, Lower[n]) /\ Lower[n] \in ReadOnly)

\* Faulty: the file is emptied before it is known whether a stream is free.
MakeEmptiesFirst(f, n) ==
  /\ Exists(dir, Lower[n]) /\ data' = [data EXCEPT ![dir[Lower[n]]] = <<>>]
  /\ FreeFd = {} /\ a' = Failure
  /\ UNCHANGED <<dir, stream, openFiles, fcb, fileMap, dma>>

Make(f, n) ==
  /\ \/ /\ CanMake(n)
        /\ \E fd \in FreeFd,
              ino \in IF Exists(dir, Lower[n]) THEN {dir[Lower[n]]} ELSE FreeInode :
             MakeSucceeds(f, n, ino, fd)
     \/ ~CanMake(n) /\ a' = Failure /\ UNCHANGED <<host, stream, openFiles, fcb>>
  /\ UNCHANGED <<fileMap, dma>>

\* Faulty: the table is cleared and nothing is closed.
ResetForgets ==
  /\ openFiles' = [f \in Fcb |-> NotOpen]
  /\ UNCHANGED <<host, stream, fileMap, guest>>

\* fn 13 and fn 37 (which ignores its bitmap of drives): close what the table holds.
Reset ==
  /\ stream' = [fd \in Fd |-> IF fd \in TableFds THEN Closed ELSE stream[fd]]
  /\ data' = Reclaim(dir, FlushInOrder(TableOrder), InUse(stream'))
  /\ openFiles' = [f \in Fcb |-> NotOpen]
  /\ UNCHANGED <<dir, fileMap, guest>>

---------------------------------------------------------------------------
(* Sequential transfers                                                     *)

\* Faulty: CR does not wrap.
NextCrUnbounded(f) == [fcb EXCEPT ![f].cr = @ + 1]

NextCr(f) == [fcb EXCEPT ![f].cr = (@ + 1) % CrMod]

NotOpenError == a' = Failure /\ UNCHANGED <<host, stream, openFiles, fileMap, fcb, dma>>

\* fn 20.  Reading from a stream first writes out what the stream holds back.
ReadSequential(f) ==
  \/ ~IsOpen(f) /\ NotOpenError
  \/ /\ IsOpen(f)
     /\ LET of == openFiles[f]
            s  == stream[of.fp]
            d  == Flushed(s, data[s.ino])
            r  == ReadWithConversion(of, Seen(AfterFlush(s), d))
        IN  IF of.eofSeen
            THEN a' = AtEof /\ UNCHANGED <<data, stream, openFiles, dma>>
            ELSE /\ data' = [data EXCEPT ![s.ino] = d]
                 /\ stream' = [stream EXCEPT ![of.fp] =
                                 Advance(AfterFlush(s), d, r.used, r.asked)]
                 /\ openFiles' = [openFiles EXCEPT ![f].eofSeen = r.atEof]
                 /\ IF r.out = <<>> \/ r.atEof
                    THEN a' = AtEof /\ dma' = dma
                    ELSE a' = Success /\ dma' = Pad(r.out)
     /\ fcb' = NextCr(f)
     /\ UNCHANGED <<dir, fileMap>>

\* write_with_conversion on stream fd: text is flushed, raw records wait.
Written(of, s) ==
  LET put == IF s.writable THEN Put(s, WriteWithConversion(of, dma)) ELSE s
  IN  IF Converts(of) THEN Synced(put) ELSE put

\* Faulty: succeeds only when the text, too, has as many bytes as the record.
WriteWholeRecords(f, n) ==
  /\ IsOpen(f)
  /\ LET of  == openFiles[f]
         s   == stream[of.fp]
         out == WriteWithConversion(of, dma)
     IN  /\ s.off + Len(out) <= FileBound
         /\ stream' = [stream EXCEPT ![of.fp] = Written(of, s)]
         /\ data' = IF Converts(of) THEN [data EXCEPT ![s.ino] = Flushed(Put(s, out), @)] ELSE data
         /\ a' = IF Len(out) = RecSize THEN Success ELSE Failure
  /\ fcb' = NextCr(f) /\ UNCHANGED <<dir, openFiles, fileMap, dma>>

\* fn 21.  An FCB that is not open is opened first, by the same bdos_open_file.
WriteSequential(f, n) ==
  \/ ~IsOpen(f) /\ Opening(f, n) = {} /\ NotOpenError
  \/ /\ \E o \in IF IsOpen(f) THEN {[files |-> openFiles, streams |-> stream]}
                 ELSE Opening(f, n) :
          LET of  == o.files[f]
              s   == o.streams[of.fp]
              out == WriteWithConversion(of, dma)
          IN  /\ s.off + Len(out) <= FileBound
              /\ openFiles' = o.files
              /\ stream' = [o.streams EXCEPT ![of.fp] = Written(of, s)]
              /\ data' = IF s.writable /\ Converts(of)
                         THEN [data EXCEPT ![s.ino] = Flushed(Put(s, out), @)] ELSE data
              /\ a' = IF s.writable /\ out # <<>> THEN Success ELSE Failure
     /\ fcb' = [NextCr(f) EXCEPT ![f].ex = IF IsOpen(f) THEN @ ELSE 0]
     /\ UNCHANGED <<dir, fileMap, dma>>

---------------------------------------------------------------------------
(* Random transfers                                                         *)

\* Faulty: only R0 counts, within the extent.
PositionInExtent(f) == (fcb[f].rr % ExtentRecords) * RecSize

Position(f) == fcb[f].rr * RecSize

\* Faulty: positions the descriptor, with bytes still held back.
ReadRandomUnflushed(f) ==
  /\ IsOpen(f)
  /\ LET fd   == openFiles[f].fp
         at   == SeekTo(stream[fd], Position(f))
         d    == data[at.ino]
         used == AtMost(RecSize, Len(Seen(at, d)))
     IN  /\ stream' = [stream EXCEPT ![fd] = Advance(at, d, used, RecSize)]
         /\ used > 0 /\ a' = Success /\ dma' = Pad(SubSeq(Seen(at, d), 1, used))
  /\ UNCHANGED <<host, openFiles, fileMap, fcb>>

\* Faulty: the stream is not positioned.
ReadRandomNoSeek(f) ==
  /\ IsOpen(f)
  /\ LET fd   == openFiles[f].fp
         s    == AfterFlush(stream[fd])
         d    == Flushed(stream[fd], data[s.ino])
         used == AtMost(RecSize, Len(Seen(s, d)))
     IN  /\ data' = [data EXCEPT ![s.ino] = d]
         /\ stream' = [stream EXCEPT ![fd] = Advance(s, d, used, RecSize)]
         /\ used > 0 /\ a' = Success /\ dma' = Pad(SubSeq(Seen(s, d), 1, used))
  /\ UNCHANGED <<dir, openFiles, fileMap, fcb>>

\* fn 33: fseek, then fread of a whole record, never converted.
ReadRandom(f) ==
  \/ ~IsOpen(f) /\ NotOpenError
  \/ /\ IsOpen(f)
     /\ LET fd   == openFiles[f].fp
            s    == stream[fd]
            d    == Flushed(s, data[s.ino])
            at   == SeekTo(AfterFlush(s), Position(f))
            used == AtMost(RecSize, Len(Seen(at, d)))
        IN  /\ data' = [data EXCEPT ![s.ino] = d]
            /\ stream' = [stream EXCEPT ![fd] = Advance(at, d, used, RecSize)]
            /\ IF used = 0
               THEN a' = AtEof /\ dma' = dma
               ELSE a' = Success /\ dma' = Pad(SubSeq(Seen(at, d), 1, used))
     /\ UNCHANGED <<dir, openFiles, fileMap, fcb>>

\* Faulty: fflush is forgotten.
WriteRandomBuffered(f) ==
  /\ IsOpen(f) /\ Position(f) + RecSize <= FileBound
  /\ LET fd == openFiles[f].fp
         s  == stream[fd]
     IN  /\ stream' = [stream EXCEPT ![fd] = Put(SeekTo(AfterFlush(s), Position(f)), dma)]
         /\ data' = [data EXCEPT ![s.ino] = Flushed(s, @)]
  /\ a' = Success /\ UNCHANGED <<dir, openFiles, fileMap, fcb, dma>>

\* Faulty: write(2) on the descriptor, behind the stream's back.
WriteRandomUnbuffered(f) ==
  /\ IsOpen(f) /\ Position(f) + RecSize <= FileBound
  /\ LET ino == stream[openFiles[f].fp].ino
     IN  data' = [data EXCEPT ![ino] = Overwrite(@, Position(f), dma)]
  /\ a' = Success /\ UNCHANGED <<dir, stream, openFiles, fileMap, fcb, dma>>

\* fn 34 and fn 40: fseek, fwrite of a whole record, fflush.
WriteRandom(f) ==
  \/ ~IsOpen(f) /\ NotOpenError
  \/ /\ IsOpen(f)
     /\ Position(f) + RecSize <= FileBound
     /\ LET fd  == openFiles[f].fp
            s   == stream[fd]
            d   == Flushed(s, data[s.ino])
            at  == SeekTo(AfterFlush(s), Position(f))
            put == IF s.writable THEN Put(at, dma) ELSE at
        IN  /\ stream' = [stream EXCEPT ![fd] = Synced(put)]
            /\ data' = [data EXCEPT ![s.ino] = Flushed(put, d)]
            /\ a' = IF s.writable THEN Success ELSE Failure
     /\ UNCHANGED <<dir, openFiles, fileMap, fcb, dma>>

\* fn 36: EX * 128 + CR.
SetRandomRecord(f) ==
  /\ fcb' = [fcb EXCEPT ![f].rr = fcb[f].ex * ExtentRecords + fcb[f].cr]
  /\ UNCHANGED <<host, stream, openFiles, fileMap, dma, a>>

---------------------------------------------------------------------------
(* Calls on names                                                           *)

Found(n) == Lookup(n).path # NoFile /\ Exists(dir, Lookup(n).path)

\* fn 35: the size on the host, in records, rounded up.
FileSize(f, n) ==
  /\ \/ /\ Found(n)
        /\ LET size == Len(data[dir[Lookup(n).path]])
           IN  fcb' = [fcb EXCEPT ![f].rr = (size + RecSize - 1) \div RecSize]
        /\ a' = Success
     \/ ~Found(n) /\ a' = Failure /\ fcb' = fcb
  /\ UNCHANGED <<host, stream, openFiles, fileMap, dma>>

\* fn 19: unlink; streams on the file stay usable.
Delete(n) ==
  /\ \/ /\ Found(n)
        /\ dir' = [dir EXCEPT ![Lookup(n).path] = NoFile]
        /\ data' = Reclaim(dir', data, InUse(stream))
        /\ a' = Success
     \/ ~Found(n) /\ a' = Failure /\ UNCHANGED host
  /\ UNCHANGED <<stream, openFiles, fileMap, fcb, dma>>

\* Faulty: file_map gets the old path for the new name.
RenameMapsOldPath(old, new) ==
  LET from == Lookup(old).path
      to   == Sibling[from][new]
  IN  /\ Found(old)
      /\ dir' = [p \in Path |-> IF p = to THEN dir[from]
                                ELSE IF p = from THEN NoFile ELSE dir[p]]
      /\ data' = Reclaim(dir', data, InUse(stream))
      /\ fileMap' = [fileMap EXCEPT ![new] = from] /\ a' = Success
      /\ UNCHANGED <<stream, openFiles, fcb, dma>>

\* fn 23: rename(2), which replaces a file that has the new path, then file_map.
Rename(old, new) ==
  LET from == Lookup(old).path
      to   == Sibling[from][new]
  IN  /\ \/ /\ Found(old)
            /\ dir' = [p \in Path |-> IF p = to THEN dir[from]
                                      ELSE IF p = from THEN NoFile ELSE dir[p]]
            /\ data' = Reclaim(dir', data, InUse(stream))
            /\ fileMap' = [fileMap EXCEPT ![new] = to]
            /\ a' = Success
         \/ ~Found(old) /\ a' = Failure /\ UNCHANGED <<host, fileMap>>
      /\ UNCHANGED <<stream, openFiles, fcb, dma>>

---------------------------------------------------------------------------
(* The program's own stores, and the end of the emulator                    *)

StoreFcb(f) ==
  /\ \E bytes \in GuestFcb : fcb' = [fcb EXCEPT ![f] = bytes]
  /\ UNCHANGED <<host, stream, openFiles, fileMap, dma, a>>

StoreDma ==
  /\ dma' \in GuestDma
  /\ UNCHANGED <<host, stream, openFiles, fileMap, fcb, a>>

\* The next emulator starts with nothing open.
Restarted ==
  /\ stream' = [fd \in Fd |-> Closed]
  /\ openFiles' = [f \in Fcb |-> NotOpen]
  /\ fileMap' = InitialMap
  /\ fcb' = [f \in Fcb |-> BlankFcb] /\ a' = Success
  /\ dma' = [k \in 1..RecSize |-> Zero]
  /\ dir' = dir

\* exit(): the C library writes out every stream, in an order of its own.
Orders(S) ==
  {rank \in [S -> 1..Cardinality(S)] : \A j, k \in S : rank[j] = rank[k] => j = k}

Exit ==
  /\ Restarted
  /\ \E rank \in Orders(Live) : data' = Reclaim(dir, FlushInOrder(rank), {})

\* The process is killed: what streams hold back is lost.
Crash ==
  /\ Restarted
  /\ data' = Reclaim(dir, data, {})

---------------------------------------------------------------------------
FcbCall(f) == Close(f) \/ ReadSequential(f) \/ ReadRandom(f) \/ WriteRandom(f)
                \/ SetRandomRecord(f) \/ StoreFcb(f)

NameCall(f, n) == Open(f, n) \/ Make(f, n) \/ WriteSequential(f, n)

Next ==
  \/ \E f \in Fcb : FcbCall(f)
  \/ \E f \in Fcb, n \in Name : NameCall(f, n) \/ FileSize(f, n)
  \/ \E n \in Name : Delete(n) \/ \E new \in Name : Rename(n, new)
  \/ Reset \/ StoreDma \/ Exit \/ Crash

Spec == Init /\ [][Next]_vars

---------------------------------------------------------------------------
(* Properties                                                               *)

\* No FCB holds a stream that is closed, and no two hold the same one: no call
\* uses a FILE after its fclose and none is closed twice (open_files, 1490-1630).
HandleOwnership ==
  /\ \A f \in Fcb : IsOpen(f) => stream[openFiles[f].fp] # Closed
  /\ \A f, g \in Fcb : IsOpen(f) /\ IsOpen(g) /\ openFiles[f].fp = openFiles[g].fp => f = g

\* What a stream holds back was written by a stream that may write, lies before
\* its position, and shares the buffer with no fetched bytes; the position is
\* inside what was fetched (the streams of read and write, 722-809, 1690-1761).
StreamShape == \A fd \in Live : Shaped(stream[fd])

Held(table, fd) == \E f \in Fcb : table[f] # NotOpen /\ table[f].fp = fd

\* A stream that stays open drops out of the table only where open or make puts
\* another one in its place; close, the resets and exit leak none (1490-1668).
OrphanOnlyByReopen ==
  [][\A fd \in Live : Held(openFiles, fd) /\ stream'[fd] # Closed /\ ~Held(openFiles', fd)
       => \E f \in Fcb : IsOpen(f) /\ openFiles[f].fp = fd /\ openFiles'[f] # NotOpen]_vars

Alone(fd) == \A other \in Live \ {fd} : stream[other].ino # stream[fd].ino

\* Unless the process is killed, a stream is never closed without its bytes
\* reaching the file, as long as the file has a path (1537-1569, 1884-1898).
ClosingWritesOut ==
  [][\A fd \in Live :
       stream'[fd] = Closed /\ Alone(fd) /\ stream[fd].ino \in Linked(dir)
         => data'[stream[fd].ino] = Flushed(stream[fd], data[stream[fd].ino]) \/ Crash]_vars

\* A record that write random reports as written is in the file when the call
\* returns: a crash of the emulator cannot lose it (1728-1761).
RandomWriteIsDurable ==
  [][\A f \in Fcb : IsOpen(f) /\ a' = Success /\ fcb' = fcb /\ WriteRandom(f)
       => LET s == stream'[openFiles[f].fp]
          IN  /\ s.pend = <<>>
              /\ SubSeq(data'[s.ino], Position(f) + 1, Position(f) + RecSize) = dma]_vars

\* A call that reports failure has not touched any file (1490-1857).
FailureChangesNoFile == [][a # Failure /\ a' = Failure => UNCHANGED <<dir, data>>]_vars

PathNow(n) == FindPath(n, dir, fileMap)

\* After a rename the new name leads to the file the old one led to (1813-1857), unless a
\* mapping of the new name comes before file_map and leads elsewhere (672-690).
RenameMovesFile ==
  [][\A old, new \in Name :
       a' = Success /\ dir' # dir /\ Rename(old, new) /\ ~Mapped(new, dir')
       => PathNow(new)' # NoFile /\ dir'[PathNow(new)'] = dir[PathNow(old)]]_vars
=============================================================================
