----------------------------- MODULE MCBdosFiles -----------------------------
(* Two FCBs that may name the same file, binary records of one byte.         *)
EXTENDS BdosFiles, TLC

CONSTANTS x, cr, lf, z, zero, n1, low, i1, i2

MCByte == {x, cr, lf, z, zero}
MCName == {n1}
MCPath == {low}
MCInode == {i1, i2}
MCExtOf == n1 :> "COM"
MCLower == n1 :> low
MCSibling == low :> (n1 :> low)
MCMappings == <<>>
MCGuestFcb == {[ex |-> 0, cr |-> 0, rr |-> 1]}
MCGuestDma == {<<x>>}
MCDisk == {[dir |-> low :> i, data |-> [j \in MCInode |-> IF j = i THEN <<x>> ELSE <<>>]]
             : i \in MCInode}
MCMap == n1 :> NoFile
MCSymmetry == Permutations(Fd) \cup Permutations(MCInode)
=============================================================================
