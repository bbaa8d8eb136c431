--------------------------- MODULE MCFilePrograms ---------------------------
(* The three clients, each on the disks it is meant for, in records of three  *)
(* bytes: every source text of up to SourceBound bytes is copied; files in    *)
(* which neighbouring records differ, of lengths to beyond CrMod records, are *)
(* indexed; and texts of up to TextBound bytes whose every Cr begins a line   *)
(* end are saved in records padded with ^Z, under a new name or an old one.   *)
EXTENDS FilePrograms

CONSTANTS x, cr, lf, z, zero, n1, n2, n3, p1, p2, p3, i1, i2,
          Clients, SourceByte, SourceBound, Lengths, TextBound

MCByte == {x, cr, lf, z, zero}
MCExtOf == n1 :> "BAS" @@ n2 :> "BAS" @@ n3 :> "DAT"
MCLower == n1 :> p1 @@ n2 :> p2 @@ n3 :> p3
MCSibling == p1 :> MCLower @@ p2 :> MCLower @@ p3 :> MCLower
MCMappings == <<>>
MCMap == n1 :> NoFile @@ n2 :> NoFile @@ n3 :> NoFile

OneFile(p, bytes) ==
  [dir |-> [q \in {p1, p2, p3} |-> IF q = p THEN i1 ELSE NoFile],
   data |-> i1 :> bytes @@ i2 :> <<>>]
Numbered(size) ==
  [k \in 1..size |-> CASE k % 3 = 0 -> x [] k % 3 = 1 -> lf [] OTHER -> IF k % 2 = 0 THEN cr ELSE z]
CopyDisk  == {OneFile(p1, text) : text \in BoundedSeq(SourceByte, SourceBound)}
IndexDisk == {OneFile(p3, Numbered(size)) : size \in Lengths}
SaveDisk  == {OneFile(p2, <<>>), OneFile(p1, <<x, x, x, x, x, x, x, x>>)}
MCDisk    == CopyDisk \cup IndexDisk \cup SaveDisk

MCTexts ==
  {t \in {FlattenSeq(s) : s \in BoundedSeq({<<x>>, <<cr, lf>>}, TextBound)} : Len(t) <= TextBound}
MCDocuments == {Records(t) : t \in MCTexts}

NoIndex == reads = 0 /\ index = {} /\ sought = {}
NoSave  == document = <<>> /\ sent = 0 /\ loaded = <<>>
ClientsInit ==
  /\ Init /\ client \in Clients
  /\ \/ CopyInit /\ NoIndex /\ NoSave /\ [dir |-> dir, data |-> data] \in CopyDisk
     \/ IndexInit /\ NoSave /\ [dir |-> dir, data |-> data] \in IndexDisk
     \/ SaveInit /\ NoIndex /\ [dir |-> dir, data |-> data] \in SaveDisk

fileVars == <<vars, client, pc, indexVars, saveVars>>

Calls ==
  \/ CopyNext /\ UNCHANGED <<indexVars, saveVars>>
  \/ IndexNext /\ UNCHANGED saveVars
  \/ SaveNext /\ UNCHANGED indexVars

Ended == (\E c \in Clients : Done(c)) /\ UNCHANGED fileVars

\* A program that has not ended makes its next call.
ClientsSpec ==
  ClientsInit /\ [][Calls \/ Ended]_fileVars /\ WF_<<vars, client, pc>>(CopyNext)
=============================================================================
