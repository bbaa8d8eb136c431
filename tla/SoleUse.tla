------------------------------- MODULE SoleUse -------------------------------
(***************************************************************************)
(* BdosFiles used with care: no file is open through two streams at once,  *)
(* the size of a file is asked only while no stream holds bytes back, and  *)
(* the emulator is not killed.  Then the buffering of the C library cannot *)
(* be observed: every step is a step of DirectFiles, or none.              *)
(***************************************************************************)
EXTENDS BdosFiles

ASSUME ViewAssumption ==
  NotOpen \notin [ino : Inode, off : Nat, writable : BOOLEAN, mode : Mode, eol : BOOLEAN,
                  eofSeen : BOOLEAN]

Unshared == \A x, y \in Live : stream[x].ino = stream[y].ino => x = y

\* What each file holds once everything held back is written out.
Logical ==
  [i \in Inode |->
     IF i \notin InUse(stream) THEN data[i]
     ELSE LET s == stream[CHOOSE fd \in Live : stream[fd].ino = i] IN Flushed(s, data[i])]

NothingHeldBack == \A fd \in Live : stream[fd].pend = <<>>

\* Calls with the names in names; only one that opens a stream can make it share a
\* file.
CarefulCall(names) ==
  \/ \E f \in Fcb : FcbCall(f)
  \/ \E f \in Fcb, n \in names : NameCall(f, n) /\ Unshared'
  \/ \E f \in Fcb, n \in names : NothingHeldBack /\ FileSize(f, n)
  \/ \E n \in names : Delete(n) \/ \E new \in names : Rename(n, new)
  \/ Reset \/ StoreDma \/ Exit

CarefulSpec == Init /\ [][CarefulCall(Name)]_vars

\* The view of an open FCB that DirectFiles has.
Joined ==
  [f \in Fcb |->
     IF ~IsOpen(f) THEN NotOpen
     ELSE LET of == openFiles[f]
              s  == stream[of.fp]
          IN  [ino |-> s.ino, off |-> s.off, writable |-> s.writable,
               mode |-> of.mode, eol |-> of.eol, eofSeen |-> of.eofSeen]]

Direct == INSTANCE DirectFiles WITH disk <- Logical, openFiles <- Joined

\* Buffering is invisible: reads see every earlier write, in both kinds of
\* transfer, and closing, resetting and exiting change no file (1490-1898).
DirectSpec == Direct!Spec

\* A stream's window is never stale, and the end of the file it remembers is
\* still the end (fread after fwrite and fseek on one FILE, 1571-1761).
WindowFresh ==
  \A fd \in Live :
    LET s == stream[fd]
    IN  /\ s.win = SubSeq(data[s.ino], s.base + 1, WindowEnd(s))
        /\ s.eof => s.off >= Len(Logical[s.ino])
=============================================================================
