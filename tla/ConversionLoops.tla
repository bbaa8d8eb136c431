--------------------------- MODULE ConversionLoops ---------------------------
(***************************************************************************)
(* The two loops of src/src/cpmemu.cc that convert text a byte at a time:  *)
(* the fgetc loop of read_with_conversion and the fputc loop of            *)
(* write_with_conversion.  BdosFiles uses what they compute as a whole,    *)
(* ReadExpanded and Collapse of TextConversion; here each iteration is a   *)
(* step, and the loops are shown to compute just that.                     *)
(***************************************************************************)
EXTENDS TextConversion

CONSTANT InputBound   \* bound of the model: the bytes a stream delivers

VARIABLES
  input,     \* what the stream delivers, or the record to write
  loop,      \* "read", "write", or "done" once the loop is left
  next,      \* the bytes of the input consumed so far
  asked,     \* the bytes fgetc was asked for, end of file included
  out,       \* buffer[0 .. out_pos - 1], or what was given to fputc
  eofSeen    \* of.eof_seen

loopVars == <<input, loop, next, asked, out, eofSeen>>

Inputs(kind) == IF kind = "read" THEN UNION {[1..n -> Byte] : n \in 0..InputBound}
                ELSE Record

Start(kind) ==
  /\ loop = kind /\ input \in Inputs(kind)
  /\ next = 0 /\ asked = 0 /\ out = <<>> /\ eofSeen = FALSE

LoopInit == Start("read") \/ Start("write")

Reading == loop = "read" /\ UNCHANGED input
Writing == loop = "write" /\ UNCHANGED <<input, asked, eofSeen>>

Leave == loop' = "done"
Stay  == loop' = loop

\* while (out_pos < size)
ReadFull ==
  Reading /\ Len(out) = RecSize /\ Leave /\ UNCHANGED <<next, asked, out, eofSeen>>

\* fgetc delivers a byte, or nothing.
Fetch == Reading /\ Len(out) < RecSize /\ asked' = next + 1

ReadEnd == Fetch /\ next = Len(input) /\ Leave /\ UNCHANGED <<next, out, eofSeen>>

\* Faulty: no test for room.
ReadLfAnyway ==
  /\ Fetch /\ next < Len(input) /\ input[next + 1] = Lf
  /\ out' = out \o <<Cr, Lf>> /\ next' = next + 1 /\ Stay /\ UNCHANGED eofSeen

ReadLf ==
  /\ Fetch /\ next < Len(input) /\ input[next + 1] = Lf
  /\ \/ /\ Len(out) + 1 < RecSize
        /\ out' = out \o <<Cr, Lf>> /\ next' = next + 1 /\ Stay
     \/ /\ Len(out) + 1 >= RecSize     \* ungetc
        /\ Leave /\ UNCHANGED <<next, out>>
  /\ UNCHANGED eofSeen

\* Faulty: the end of the text is not remembered.
ReadCtrlZForgets ==
  /\ Fetch /\ next < Len(input) /\ input[next + 1] = CtrlZ
  /\ next' = next + 1 /\ Leave /\ UNCHANGED <<out, eofSeen>>

ReadCtrlZ ==
  /\ Fetch /\ next < Len(input) /\ input[next + 1] = CtrlZ
  /\ eofSeen' = TRUE /\ next' = next + 1 /\ Leave /\ UNCHANGED out

ReadPlain ==
  /\ Fetch /\ next < Len(input) /\ input[next + 1] \notin {Lf, CtrlZ}
  /\ out' = Append(out, input[next + 1]) /\ next' = next + 1 /\ Stay
  /\ UNCHANGED eofSeen

\* The end of the record, or a ^Z in it.
WriteEnd ==
  /\ Writing /\ \/ next = Len(input)
                \/ next < Len(input) /\ input[next + 1] = CtrlZ
  /\ Leave /\ UNCHANGED <<next, out>>

WriteByte ==
  /\ Writing /\ next < Len(input) /\ input[next + 1] # CtrlZ
  /\ next' = next + 1 /\ Stay
  /\ \/ Dropped(input, next + 1) /\ UNCHANGED out
     \/ ~Dropped(input, next + 1) /\ out' = Append(out, input[next + 1])

LoopNext ==
  ReadFull \/ ReadEnd \/ ReadLf \/ ReadCtrlZ \/ ReadPlain \/ WriteEnd \/ WriteByte

LoopSpec == LoopInit /\ [][LoopNext]_loopVars

-----------------------------------------------------------------------------
(* Properties                                                                 *)

\* The loops never write past the 128 bytes of the caller's buffer: a line end
\* that does not fit whole is put back (738-770, 1582).
BufferBound == Len(out) <= RecSize

\* Left by the read loop, the buffer, the position of the stream, the bytes asked
\* for and eof_seen are those of ReadExpanded; left by the write loop, what went to
\* fputc is Collapse of the record (744-774, 782-809).
LoopsCompute ==
  [][loop' = "done" =>
       /\ loop = "read" => ReadResult(out', next', asked', eofSeen') = ReadExpanded(input)
       /\ loop = "write" => out' = Collapse(input)]_loopVars
=============================================================================
