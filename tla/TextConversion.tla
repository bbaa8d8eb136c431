--------------------------- MODULE TextConversion ---------------------------
(***************************************************************************)
(* The record conversions of src/src/cpmemu.cc: read_with_conversion,      *)
(* write_with_conversion and pad_to_128.  A record is RecSize bytes (128   *)
(* in the program).                                                        *)
(***************************************************************************)
EXTENDS HostFiles

CONSTANT RecSize

ASSUME RecSizeAssumption == RecSize \in Nat \ {0}

Record == [1..RecSize -> Byte]

Mode == {"binary", "text", "auto"}

\* How an open file treats its bytes: the fields of OpenFile the conversions read.
Converts(of) == of.mode # "binary" /\ of.eol

\* pad_to_128: the tail of a short record is filled with ^Z.
Pad(out) == [i \in 1..RecSize |-> IF i \in DOMAIN out THEN out[i] ELSE CtrlZ]

---------------------------------------------------------------------------
(* Reading.  "seen" is what the stream would deliver from its position on;  *)
(* a result says what reaches the buffer, how many bytes of the stream were *)
(* used up, how many were asked for (ungetc gives the last one back) and    *)
(* whether a ^Z was met.                                                    *)

ReadResult(out, used, asked, atEof) ==
  [out |-> out, used |-> used, asked |-> asked, atEof |-> atEof]

HasCtrlZ(s) == \E k \in DOMAIN s : s[k] = CtrlZ

\* The number of bytes of s before its first ^Z.
TextLength(s) == Cardinality({k \in DOMAIN s : \A j \in 1..k : s[j] # CtrlZ})

\* The fread branch: a whole record; in text mode it is cut at ^Z.
ReadDirect(mode, seen) ==
  LET used == AtMost(RecSize, Len(seen))
      raw  == SubSeq(seen, 1, used)
      cut  == mode = "text" /\ HasCtrlZ(raw)
  IN  ReadResult(IF cut THEN SubSeq(raw, 1, TextLength(raw)) ELSE raw, used, RecSize, cut)

\* Expand(s): the bytes of s with every Lf written as Cr Lf.  The first k bytes
\* of s make the first Width(s, k) bytes of it.
Width(s, k) == k + Cardinality({i \in 1..k : s[i] = Lf})

Expand(s) ==
  [j \in 1..Width(s, Len(s)) |->
     LET k == Cardinality({i \in DOMAIN s : Width(s, i) < j}) + 1
     IN  IF s[k] = Lf /\ j < Width(s, k) THEN Cr ELSE s[k]]

\* The fgetc loop: as many of the bytes before a ^Z as fit when expanded.
Fitting(seen) == Cardinality({k \in 1..TextLength(seen) : Width(seen, k) <= RecSize})

\* Faulty: a line end that does not fit is not given back.
ReadExpandedLosesLf(seen) ==
  LET used == Fitting(seen)
      lost == IF used < TextLength(seen) THEN used + 1 ELSE used
  IN  ReadResult(Expand(SubSeq(seen, 1, used)), lost, used + 1,
                 used < Len(seen) /\ seen[used + 1] = CtrlZ)

ReadExpanded(seen) ==
  LET used  == Fitting(seen)
      full  == Width(seen, used) = RecSize
      atEof == ~full /\ used < Len(seen) /\ seen[used + 1] = CtrlZ
  IN  ReadResult(Expand(SubSeq(seen, 1, used)), IF atEof THEN used + 1 ELSE used,
                 IF full THEN used ELSE used + 1, atEof)

ReadWithConversion(of, seen) ==
  IF Converts(of) THEN ReadExpanded(seen) ELSE ReadDirect(of.mode, seen)

---------------------------------------------------------------------------
(* Writing.                                                                 *)

\* The Cr at position k is dropped when the record's next byte is an Lf.
Dropped(rec, k) == rec[k] = Cr /\ k < Len(rec) /\ rec[k + 1] = Lf

\* The first k bytes of rec make the first Kept(rec, k) bytes of Collapse(rec).
Kept(rec, k) == k - Cardinality({i \in 1..k : Dropped(rec, i)})

\* The bytes of rec that write_with_conversion hands to fputc.
Collapse(rec) ==
  LET n == TextLength(rec)
  IN  [j \in 1..Kept(rec, n) |->
         rec[Cardinality({i \in 1..n : Kept(rec, i) < j}) + 1]]

\* Faulty: text is written as it is, the ^Z of its last record included.
WriteRaw(of, rec) == rec

WriteWithConversion(of, rec) == IF Converts(of) THEN Collapse(rec) ELSE rec
=============================================================================
