--------------------------- MODULE MCEraseProgram ---------------------------
(* Two names, whose files may be there or not; one is mapped to its file.    *)
EXTENDS EraseProgram, TLC

CONSTANTS x, cr, lf, z, zero, n1, n2, low1, low2, up1, up2, i1, i2, i3

MCByte == {x, cr, lf, z, zero}
MCExtOf == n1 :> "COM" @@ n2 :> "XYZ"
MCLower == n1 :> low1 @@ n2 :> low2
MCAsIs == n1 :> up1 @@ n2 :> up2
MCSibling == [p \in Path |-> MCLower]
MCCpmName == low1 :> n1 @@ up1 :> n1 @@ low2 :> n2 @@ up2 :> n2
MCPatterns == {{n1}, {n2}, Name}

\* Every subset of the files, all in lower case.
MCDisk == {[dir |-> low1 :> e1 @@ low2 :> e2 @@ up1 :> NoFile @@ up2 :> NoFile,
            data |-> i1 :> <<x, x>> @@ i2 :> <<x>> @@ i3 :> <<>>]
             : e1 \in {i1, NoFile}, e2 \in {i2, NoFile}}
MCMap == n1 :> NoFile @@ n2 :> NoFile

MCMappings == <<[pattern |-> [kind |-> "exact", name |-> n2], path |-> low2,
                 mode |-> "auto", eol |-> TRUE]>>

\* What the theorems about searches ask of a directory is so here.
ASSUME InstanceAssumption == OneFilePerName
=============================================================================
