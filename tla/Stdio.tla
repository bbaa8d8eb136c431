-------------------------------- MODULE Stdio --------------------------------
(***************************************************************************)
(* The C library's FILE streams as src/src/cpmemu.cc relies on them: fopen *)
(* in the modes "r+b", "rb" and "w+b", fread and fgetc/ungetc, fwrite and  *)
(* fputc, fseek, fflush, fclose.  A stream is a record of its own and the  *)
(* operators are pure; d is the contents of the file at the time.          *)
(*                                                                         *)
(* A stream buffers.  win is the part of the file, from offset base on,    *)
(* that the last read(2) fetched: it does not follow later changes of the  *)
(* file.  pend is what was written but not yet handed to write(2); it ends *)
(* at offset off.  A file of at most one buffer (4096 bytes, which         *)
(* FileBound stays below) is fetched whole and never flushed for lack of   *)
(* room.  The end-of-file flag, once set, ends every read until fseek.     *)
(***************************************************************************)
EXTENDS HostFiles

CONSTANT Closed     \* a stream that is not open

Stream == [ino : Inode, off : Nat, base : Nat, win : Seq(Byte), pend : Seq(Byte),
           eof : BOOLEAN, writable : BOOLEAN]

Opened(ino, writable) ==
  [ino |-> ino, off |-> 0, base |-> 0, win |-> <<>>, pend |-> <<>>, eof |-> FALSE,
   writable |-> writable]

\* The contents of the file once the stream's pending bytes are written out.
Flushed(s, d) == Overwrite(d, s.off - Len(s.pend), s.pend)

AfterFlush(s) == [s EXCEPT !.pend = <<>>]

\* fflush also gives up what a reading stream has fetched but not delivered.
Synced(s) == [s EXCEPT !.pend = <<>>, !.win = SubSeq(@, 1, s.off - s.base)]

---------------------------------------------------------------------------
(* Reading                                                                  *)

WindowEnd(s) == s.base + Len(s.win)

\* What is left in the window, and what the next read(2) would bring.
Buffered(s) == SubSeq(s.win, s.off - s.base + 1, Len(s.win))

Unread(s, d) == IF s.eof THEN <<>> ELSE SubSeq(d, WindowEnd(s) + 1, Len(d))

\* What reading from s would deliver, to the end of the file.
Seen(s, d) == Buffered(s) \o Unread(s, d)

\* s after used bytes were taken and asked >= used were wanted: the window is
\* fetched anew when it does not hold what was wanted, and the end-of-file flag
\* is set when the file does not either.
Advance(s, d, used, asked) ==
  LET off == s.off + used
  IN  IF asked <= Len(Buffered(s)) THEN [s EXCEPT !.off = off]
      ELSE IF asked <= Len(Seen(s, d))
      THEN [s EXCEPT !.off = off, !.base = WindowEnd(s), !.win = Unread(s, d)]
      ELSE [s EXCEPT !.off = off, !.base = off, !.win = <<>>, !.eof = TRUE]

\* What the C library maintains: the position is inside what was fetched; pending
\* bytes lie before it, share the buffer with none fetched, and may be written.
Shaped(s) ==
  /\ s.base <= s.off /\ s.off <= WindowEnd(s) /\ Len(s.pend) <= s.off
  /\ s.pend # <<>> => s.win = <<>> /\ s.writable

---------------------------------------------------------------------------
(* Seeking and writing                                                      *)

\* fseek(SEEK_SET) keeps a window that holds the target.
SeekTo(s, at) ==
  IF s.base <= at /\ at < WindowEnd(s)
  THEN [s EXCEPT !.off = at, !.eof = FALSE]
  ELSE [s EXCEPT !.off = at, !.base = at, !.win = <<>>, !.eof = FALSE]

\* fwrite, or a run of fputc: the window is given up, the bytes wait in pend.
Put(s, bytes) ==
  LET off == s.off + Len(bytes)
  IN  IF bytes = <<>> THEN s
      ELSE [s EXCEPT !.off = off, !.base = off, !.win = <<>>, !.pend = @ \o bytes]
=============================================================================
