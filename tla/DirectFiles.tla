----------------------------- MODULE DirectFiles -----------------------------
(***************************************************************************)
(* What the BDOS file calls promise a program: files without streams and   *)
(* without buffers.  An open FCB is a file and a position in it; a call    *)
(* acts on the bytes of the file at once and a later read sees them.       *)
(* BdosFiles implements this as long as no file is open twice (module      *)
(* SoleUse).  Only the number of files that can be open is left            *)
(* unspecified: an open or a make may fail for it.                         *)
(***************************************************************************)
EXTENDS FileMapping

CONSTANTS FcbCount, NotOpen, ReadOnly, CrMod, ExtentRecords, GuestFcb, GuestDma,
          InitialDisk, InitialMap

Fcb == 1..FcbCount

Success == 0
AtEof   == 1
Failure == 255

VARIABLES dir, disk, openFiles, fileMap, fcb, dma, a

vars == <<dir, disk, openFiles, fileMap, fcb, dma, a>>

OpenOn(ino, writable, mode, eol) ==
  [ino |-> ino, off |-> 0, writable |-> writable, mode |-> mode, eol |-> eol,
   eofSeen |-> FALSE]

BlankFcb == [ex |-> 0, cr |-> 0, rr |-> 0]

Idle ==
  /\ openFiles = [f \in Fcb |-> NotOpen]
  /\ fileMap = InitialMap
  /\ fcb = [f \in Fcb |-> BlankFcb] /\ a = Success
  /\ dma = [k \in 1..RecSize |-> Zero]

Init ==
  /\ \E d \in InitialDisk : dir = d.dir /\ disk = d.data
  /\ Idle

IsOpen(f) == openFiles[f] # NotOpen

Lookup(n) == FindUnixFileEx(n, dir, disk, fileMap)

Found(n) == Lookup(n).path # NoFile /\ Exists(dir, Lookup(n).path)

Fails(code) == a' = code /\ UNCHANGED <<dir, disk, openFiles, fileMap, fcb, dma>>

\* The files a path or an open FCB leads to.
Reached(d, table) == Linked(d) \cup {table[f].ino : f \in {g \in Fcb : table[g] # NotOpen}}

\* The bytes of every file that can still be reached stay as they are.
Keep == \A i \in Reached(dir', openFiles') : disk'[i] = disk[i]

Opened(n) == OpenOn(dir[Lookup(n).path], Lookup(n).path \notin ReadOnly,
                    Lookup(n).mode, Lookup(n).eol)

Open(f, n) ==
  \/ /\ Found(n)
     /\ openFiles' = [openFiles EXCEPT ![f] = Opened(n)]
     /\ fcb' = [fcb EXCEPT ![f].ex = 0] /\ a' = Success
     /\ UNCHANGED <<dir, disk, fileMap, dma>>
  \/ Fails(Failure)

Close(f) ==
  /\ openFiles' = [openFiles EXCEPT ![f] = NotOpen] /\ a' = Success
  /\ Keep
  /\ UNCHANGED <<dir, fileMap, fcb, dma>>

Make(f, n) ==
  \/ \E ino \in Inode :
       /\ dir' = [dir EXCEPT ![Lower[n]] = ino]
       /\ \/ dir[Lower[n]] = ino
          \/ ~Exists(dir, Lower[n]) /\ ino \notin Reached(dir, openFiles)
       /\ disk' = [disk EXCEPT ![ino] = <<>>]
       /\ openFiles' = [openFiles EXCEPT ![f] = OpenOn(ino, TRUE, DefaultMode, DefaultEol)]
       /\ fcb' = [fcb EXCEPT ![f].ex = 0] /\ a' = Success
       /\ UNCHANGED <<fileMap, dma>>
  \/ Fails(Failure)

Reset ==
  /\ openFiles' = [f \in Fcb |-> NotOpen]
  /\ Keep
  /\ UNCHANGED <<dir, fileMap, fcb, dma, a>>

NextCr(f) == [fcb EXCEPT ![f].cr = (@ + 1) % CrMod]

\* The bytes of the file from the position of an open FCB on.
Rest(of, at) == SubSeq(disk[of.ino], at + 1, Len(disk[of.ino]))

ReadSequential(f) ==
  \/ ~IsOpen(f) /\ Fails(Failure)
  \/ /\ IsOpen(f)
     /\ LET of == openFiles[f]
            r  == ReadWithConversion(of, Rest(of, of.off))
        IN  IF of.eofSeen
            THEN a' = AtEof /\ UNCHANGED <<openFiles, dma>>
            ELSE /\ openFiles' = [openFiles EXCEPT ![f] =
                      [of EXCEPT !.off = of.off + r.used, !.eofSeen = r.atEof]]
                 /\ IF r.out = <<>> \/ r.atEof
                    THEN a' = AtEof /\ dma' = dma
                    ELSE a' = Success /\ dma' = Pad(r.out)
     /\ fcb' = NextCr(f)
     /\ UNCHANGED <<dir, disk, fileMap>>

WriteSequential(f, n) ==
  \/ ~IsOpen(f) /\ Fails(Failure)
  \/ /\ IsOpen(f) \/ Found(n)
     /\ LET of  == IF IsOpen(f) THEN openFiles[f] ELSE Opened(n)
            out == IF of.writable THEN WriteWithConversion(of, dma) ELSE <<>>
        IN  /\ openFiles' = [openFiles EXCEPT ![f] =
                               [of EXCEPT !.off = of.off + Len(out)]]
            /\ disk' = [disk EXCEPT ![of.ino] = Overwrite(@, of.off, out)]
            /\ a' = IF out # <<>> THEN Success ELSE Failure
     /\ fcb' = [NextCr(f) EXCEPT ![f].ex = IF IsOpen(f) THEN @ ELSE 0]
     /\ UNCHANGED <<dir, fileMap, dma>>

Position(f) == fcb[f].rr * RecSize

ReadRandom(f) ==
  \/ ~IsOpen(f) /\ Fails(Failure)
  \/ /\ IsOpen(f)
     /\ LET of   == openFiles[f]
            rest == Rest(of, Position(f))
            used == AtMost(RecSize, Len(rest))
        IN  /\ openFiles' = [openFiles EXCEPT ![f].off = Position(f) + used]
            /\ IF used = 0
               THEN a' = AtEof /\ dma' = dma
               ELSE a' = Success /\ dma' = Pad(SubSeq(rest, 1, used))
     /\ UNCHANGED <<dir, disk, fileMap, fcb>>

WriteRandom(f) ==
  \/ ~IsOpen(f) /\ Fails(Failure)
  \/ /\ IsOpen(f)
     /\ LET of  == openFiles[f]
            out == IF of.writable THEN dma ELSE <<>>
        IN  /\ openFiles' = [openFiles EXCEPT ![f].off = Position(f) + Len(out)]
            /\ disk' = [disk EXCEPT ![of.ino] = Overwrite(@, Position(f), out)]
            /\ a' = IF of.writable THEN Success ELSE Failure
     /\ UNCHANGED <<dir, fileMap, fcb, dma>>

SetRandomRecord(f) ==
  /\ fcb' = [fcb EXCEPT ![f].rr = fcb[f].ex * ExtentRecords + fcb[f].cr]
  /\ UNCHANGED <<dir, disk, openFiles, fileMap, dma, a>>

FileSize(f, n) ==
  \/ ~Found(n) /\ Fails(Failure)
  \/ /\ Found(n)
     /\ fcb' = [fcb EXCEPT ![f].rr =
                  (Len(disk[dir[Lookup(n).path]]) + RecSize - 1) \div RecSize]
     /\ a' = Success
     /\ UNCHANGED <<dir, disk, openFiles, fileMap, dma>>

Delete(n) ==
  \/ ~Found(n) /\ Fails(Failure)
  \/ /\ Found(n)
     /\ dir' = [dir EXCEPT ![Lookup(n).path] = NoFile] /\ a' = Success
     /\ Keep
     /\ UNCHANGED <<openFiles, fileMap, fcb, dma>>

Rename(old, new) ==
  LET from == Lookup(old).path
      to   == Sibling[from][new]
  IN  \/ ~Found(old) /\ Fails(Failure)
      \/ /\ Found(old)
         /\ dir' = [p \in Path |-> IF p = to THEN dir[from]
                                   ELSE IF p = from THEN NoFile ELSE dir[p]]
         /\ fileMap' = [fileMap EXCEPT ![new] = to] /\ a' = Success
         /\ Keep
         /\ UNCHANGED <<openFiles, fcb, dma>>

Store ==
  /\ \/ dma' \in GuestDma /\ UNCHANGED fcb
     \/ \E f \in Fcb, bytes \in GuestFcb : fcb' = [fcb EXCEPT ![f] = bytes] /\ UNCHANGED dma
  /\ UNCHANGED <<dir, disk, openFiles, fileMap, a>>

\* The emulator ends; the next one starts on the same files.
Restart == dir' = dir /\ Keep /\ Idle'

Next ==
  \/ \E f \in Fcb : Close(f) \/ ReadSequential(f) \/ ReadRandom(f) \/ WriteRandom(f)
                      \/ SetRandomRecord(f)
  \/ \E f \in Fcb, n \in Name : Open(f, n) \/ Make(f, n) \/ WriteSequential(f, n)
                                  \/ FileSize(f, n)
  \/ \E n \in Name : Delete(n) \/ \E new \in Name : Rename(n, new)
  \/ Reset \/ Store \/ Restart

Spec == Init /\ [][Next]_vars
=============================================================================
