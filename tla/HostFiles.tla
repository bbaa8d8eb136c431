------------------------------ MODULE HostFiles ------------------------------
(***************************************************************************)
(* The host's files as src/src/cpmemu.cc uses them: a directory from paths *)
(* to files, and the bytes of each file.  Bytes are told apart only where  *)
(* the code does: Cr, Lf, CtrlZ (0x1A, CP/M's end of file), the Zero that  *)
(* fills a gap, and any number of plain ones.                              *)
(***************************************************************************)
EXTENDS Integers, Sequences, FiniteSets

CONSTANTS
  Byte, Cr, Lf, CtrlZ, Zero,
  Path,       \* Unix paths
  Inode,      \* files, whatever their paths
  NoFile      \* "no such file" and "no such entry"

ASSUME HostAssumption ==
  /\ {Cr, Lf, CtrlZ, Zero} \subseteq Byte
  /\ Cr # Lf /\ Cr # CtrlZ /\ Lf # CtrlZ
  /\ NoFile \notin Inode /\ NoFile \notin Path

Directory == [Path -> Inode \cup {NoFile}]
Contents  == [Inode -> Seq(Byte)]

Exists(dir, p) == dir[p] # NoFile

Linked(dir) == {i \in Inode : \E p \in Path : dir[p] = i}

\* A file that no path and no stream leads to any more is gone.
Reclaim(dir, data, inUse) ==
  [i \in Inode |-> IF i \in Linked(dir) \cup inUse THEN data[i] ELSE <<>>]

AtMost(k, n) == IF k < n THEN k ELSE n

\* d after bytes were written at offset at; a gap is filled with zeros.
Overwrite(d, at, bytes) ==
  LET end  == at + Len(bytes)
      size == IF end > Len(d) THEN end ELSE Len(d)
  IN  IF bytes = <<>> THEN d
      ELSE [k \in 1..size |-> CASE k > at /\ k <= end -> bytes[k - at]
                                [] (k <= at \/ k > end) /\ k <= Len(d) -> d[k]
                                [] OTHER -> Zero]
=============================================================================
