------------------------------ MODULE MCSoleUse ------------------------------
(* Two worlds.  In one the file is a text, and one stream is open at a time.  *)
(* In the other it is raw, transfers go beyond its end and leave gaps, and    *)
(* there may be a second stream, left over, with what it holds back, when the *)
(* FCB is opened again after its name has come to mean another file.          *)
EXTENDS SoleUse, TLC

CONSTANTS x, cr, lf, z, zero, textFile, rawFile, p1, p2, i1, i2

VARIABLE world     \* the name that programs use

MCByte == {x, cr, lf, z, zero}
MCExtOf == textFile :> "BAS" @@ rawFile :> "COM"
MCLower == textFile :> p1 @@ rawFile :> p2
MCSibling == p1 :> MCLower @@ p2 :> MCLower
MCMappings == <<>>
MCGuestFcb == {[ex |-> 0, cr |-> 0, rr |-> 1]}
MCGuestDma == {<<x, lf>>}
OneFile(p, i, bytes) ==
  [dir |-> [q \in Path |-> IF q = p THEN i ELSE NoFile],
   data |-> [j \in Inode |-> IF j = i THEN bytes ELSE <<>>]]
TextDisk == {OneFile(p1, i, <<x, lf, x>>) : i \in Inode}
RawDisk  == {OneFile(p2, i, <<x, x>>) : i \in Inode}
MCDisk == TextDisk \cup RawDisk
MCMap == textFile :> NoFile @@ rawFile :> NoFile
MCSymmetry == Permutations(Fd) \cup Permutations(Inode)

WorldsInit ==
  /\ Init /\ world \in {textFile, rawFile}
  /\ [dir |-> dir, data |-> data] \in IF world = textFile THEN TextDisk ELSE RawDisk

InWorld ==
  \/ /\ world = textFile /\ Cardinality(Live) <= 1
     /\ \A i \in Inode : Len(data[i]) <= 3
     /\ \A f \in Fcb : fcb[f].rr = 0
  \/ /\ world = rawFile /\ dma # <<x, lf>>
     /\ \A fd \in Live \ TableFds : stream[fd].win = <<>>

WorldsSpec ==
  WorldsInit /\ [][CarefulCall({world}) /\ UNCHANGED world /\ InWorld']_<<vars, world>>
=============================================================================
