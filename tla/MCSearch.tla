------------------------------ MODULE MCSearch ------------------------------
(* Two names and the ways a path and a name may part: n2 has two mappings,   *)
(* one to a file in mixed case that has the Unix name n1; n1 has a "*"       *)
(* mapping to the file in upper case of n2.  Renames fill file_map.          *)
EXTENDS DirSearch

CONSTANTS x, cr, lf, z, zero, n1, n2, low1, low2, up1, up2, mixed1, i1, i2

MCByte == {x, cr, lf, z, zero}
MCExtOf == n1 :> "COM" @@ n2 :> "XYZ"
MCLower == n1 :> low1 @@ n2 :> low2
MCAsIs == n1 :> up1 @@ n2 :> up2
MCSibling == [p \in Path |-> MCLower]
MCCpmName == [p \in Path |-> IF p \in {low1, up1, mixed1} THEN n1 ELSE n2]
MCPatterns == {{n2}, Name}

\* Up to two of the files, one of two bytes and one empty.
MCDisk ==
  {[dir |-> [p \in Path |-> IF p = full THEN i1 ELSE IF p = empty THEN i2 ELSE NoFile],
    data |-> i1 :> <<x, x>> @@ i2 :> <<>>]
     : full \in Path \cup {NoFile}, empty \in Path \cup {NoFile}}
MCMap == n1 :> NoFile @@ n2 :> NoFile

MCMappings ==
  LET To(pattern, p) == [pattern |-> pattern, path |-> p, mode |-> "auto", eol |-> TRUE]
  IN  <<To([kind |-> "exact", name |-> n2], mixed1), To([kind |-> "exact", name |-> n2], low2),
        To([kind |-> "ext", ext |-> "COM"], up2)>>
=============================================================================
