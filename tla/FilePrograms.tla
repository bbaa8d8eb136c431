---------------------------- MODULE FilePrograms ----------------------------
(***************************************************************************)
(* CP/M programs that use files, not part of the emulator: clients of      *)
(* BdosFiles, each of which makes its calls one after the other.  What     *)
(* they find in the end is what the calls of src/src/cpmemu.cc promise     *)
(* together: "copy" copies a file, "index" finds records again, "save"     *)
(* loads what it saved.                                                    *)
(***************************************************************************)
EXTENDS BdosFiles, SequencesExt

VARIABLES
  client,    \* which program it is
  pc         \* the call it makes next

Goto(label) == pc' = label /\ client' = client

Done(f) == client = f /\ pc \in {"done", "failed"}

---------------------------------------------------------------------------
(* A program that copies one file to another, the way PIP and every        *)
(* compiler's runtime do: open the source, make the destination, read a    *)
(* record and write it until read sequential answers end of file, close    *)
(* both.  What the two ends of the copy hold says what the conversions of  *)
(* read_with_conversion and write_with_conversion do to a whole file.      *)

CONSTANTS Source, Target      \* the names, both without a mapping

\* A record, of 128 bytes in the program, has room for a line end.
ASSUME CopyAssumption == {Source, Target} \subseteq Name /\ FcbCount >= 2 /\ RecSize >= 2

In  == 1
Out == 2

\* What the source held when the copy began, and what the target holds.
Original == data[dir[Lower[Source]]]
Copied   == data[dir[Lower[Target]]]

CopyInit == client = "copy" /\ pc = "open"

Started ==
  \/ pc = "open" /\ Open(In, Source) /\ Goto(IF a' = Success THEN "make" ELSE "failed")
  \/ pc = "make" /\ Make(Out, Target) /\ Goto(IF a' = Success THEN "read" ELSE "failed")

Transfer ==
  \/ pc = "read" /\ ReadSequential(In) /\ Goto(IF a' = Success THEN "write" ELSE "close")
  \/ pc = "write" /\ WriteSequential(Out, Target)
       /\ Goto(IF a' = Success THEN "read" ELSE "failed")

Finished ==
  \/ pc = "close" /\ Close(Out) /\ Goto("closing")
  \/ pc = "closing" /\ Close(In) /\ Goto("done")

CopyNext == client = "copy" /\ (Started \/ Transfer \/ Finished)

\* The program alone, with a source that is found under its name and read as text, and
\* a target that is another file and is written as text.
CopySpec ==
  /\ Init /\ CopyInit
  /\ Lookup(Source).path = Lower[Source] /\ Converts(Lookup(Source))
  /\ dir[Lower[Target]] # dir[Lower[Source]]
  /\ Converts([mode |-> DefaultMode, eol |-> DefaultEol])
  /\ [][CopyNext]_<<vars, client, pc>>

\* While the copy runs the target is the beginning of the source, with nothing
\* lost, doubled or out of place at the borders of records; and the copy of a text
\* without ^Z is the text, byte for byte: the expansion of line ends and the padding
\* of the last record leave no trace (722-816, 1571-1630).
CopyIsExact ==
  client = "copy" =>
    /\ pc \in {"read", "write", "close"} => IsPrefix(Copied, Original)
    /\ pc = "done" /\ ~HasCtrlZ(Original) => Copied = Original

\* The copy ends, whatever the source holds: every read that succeeds has moved
\* on, also one that stops before a line end that does not fit (740-770).
CopyEnds == client = "copy" ~> pc = "done"

\* A reader of CP/M text stops at ^Z: the text before it is copied whole.
CopyKeepsTextBeforeEof ==
  Done("copy") => Copied = SubSeq(Original, 1, TextLength(Original))

---------------------------------------------------------------------------
(* A program that builds an index while it reads a file in sequence and    *)
(* uses it afterwards, the way a data base program or an editor's "mark"   *)
(* does: before a read it may ask set random record (36) where it is;      *)
(* later it puts an entry into R0-R2 and calls read random (33).  What it  *)
(* finds says whether bdos_set_random_record and the two ways of reading   *)
(* agree about where a record is.                                          *)

CONSTANTS
  Indexed,     \* the name of the file
  EntryBound   \* bound of the model: the longest index

ASSUME IndexAssumption == Indexed \in Name /\ FcbCount >= 1 /\ EntryBound \in Nat

VARIABLES
  reads,     \* the records read in sequence so far
  index,     \* the entries: [at, nth, rec]
  sought     \* the entry asked for last

indexVars == <<reads, index, sought>>

IndexInit ==
  client = "index" /\ pc = "open" /\ reads = 0 /\ index = {} /\ sought = {}

Opens ==
  /\ pc = "open" /\ Open(1, Indexed)
  /\ Goto(IF a' = Success THEN "read" ELSE "done")
  /\ UNCHANGED <<reads, index, sought>>

\* Ask for the position of the record that comes next.
Asks ==
  /\ pc = "read" /\ Cardinality(index) < EntryBound
  /\ SetRandomRecord(1) /\ Goto("told")
  /\ UNCHANGED <<reads, index, sought>>

Reads ==
  /\ pc \in {"read", "told"} /\ ReadSequential(1)
  /\ IF a' = Success
     THEN /\ Goto("read") /\ reads' = reads + 1
          /\ index' = index \cup IF pc = "told"
                                 THEN {[at |-> fcb[1].rr, nth |-> reads, rec |-> dma']} ELSE {}
     ELSE Goto("store") /\ UNCHANGED <<reads, index>>
  /\ UNCHANGED sought

\* Put an entry into R0-R2 of the FCB.
Choose ==
  /\ pc = "store" /\ \E e \in index : sought' = {e} /\ fcb' = [fcb EXCEPT ![1].rr = e.at]
  /\ Goto("seek")
  /\ UNCHANGED <<host, stream, openFiles, fileMap, dma, a, reads, index>>

Seek ==
  /\ pc = "seek" /\ ReadRandom(1) /\ Goto("found")
  /\ UNCHANGED <<reads, index, sought>>

NextEntry ==
  /\ pc = "found" /\ index' = index \ sought /\ Goto("store")
  /\ UNCHANGED <<vars, reads, sought>>

Closes ==
  /\ pc = "store" /\ index = {} /\ Close(1) /\ Goto("done")
  /\ UNCHANGED <<reads, index, sought>>

IndexNext ==
  client = "index" /\ (Opens \/ Asks \/ Reads \/ Choose \/ Seek \/ NextEntry \/ Closes)

\* The program alone, with a file that is read as it is.
IndexSpec ==
  /\ Init /\ IndexInit /\ ~Converts(Lookup(Indexed))
  /\ [][IndexNext]_<<vars, client, pc, indexVars>>

Answers(e) == a = Success /\ dma = e.rec

\* As far as CR counts, a record of which the program was told the position is
\* the one read random finds there, also when the program has gone to the end of
\* the file, or read other records, in between (1571-1606, 1690-1726, 1795-1811).
IndexFindsRecord ==
  client = "index" /\ pc = "found" => \A e \in sought : e.nth < CrMod => Answers(e)

---------------------------------------------------------------------------
(* A program that saves what it has in memory and loads it again: an       *)
(* editor with its text, a linker with the program it built.  It makes a   *)
(* file, puts one record after the other into the DMA buffer and writes    *)
(* it, closes, opens the file under the same name and reads it to its end. *)
(* "copy" sends through write_with_conversion only what                    *)
(* read_with_conversion made; here the program chooses where its line ends *)
(* fall in the records, and the file is made under one mode (default_mode) *)
(* and opened under another (detect_file_mode).                            *)

CONSTANTS
  Saved,       \* the name of the file
  Documents    \* what the program may have to save: sequences of records

ASSUME SaveAssumption ==
  Saved \in Name /\ FcbCount >= 1 /\ Documents \subseteq Seq(Record)

VARIABLES
  document,  \* the records to save
  sent,      \* how many of them were written
  loaded     \* the records read back

saveVars == <<document, sent, loaded>>

SaveInit ==
  /\ client = "save" /\ pc = "make"
  /\ document \in Documents /\ sent = 0 /\ loaded = <<>>

AfterWrite(n) == Goto(IF n < Len(document) THEN "store" ELSE "close")

Makes ==
  /\ pc = "make" /\ Make(1, Saved)
  /\ IF a' = Success THEN AfterWrite(0) ELSE Goto("failed")
  /\ UNCHANGED <<document, sent, loaded>>

Stores ==
  /\ pc = "store" /\ dma' = document[sent + 1] /\ Goto("write")
  /\ UNCHANGED <<host, stream, openFiles, fileMap, fcb, a, document, sent, loaded>>

Writes ==
  /\ pc = "write" /\ WriteSequential(1, Saved) /\ sent' = sent + 1
  /\ IF a' = Success THEN AfterWrite(sent + 1) ELSE Goto("failed")
  /\ UNCHANGED <<document, loaded>>

Reload ==
  /\ \/ pc = "close" /\ Close(1) /\ Goto("open")
     \/ pc = "open" /\ Open(1, Saved) /\ Goto(IF a' = Success THEN "read" ELSE "failed")
  /\ UNCHANGED <<document, sent, loaded>>

Load ==
  /\ pc = "read" /\ ReadSequential(1)
  /\ IF a' = Success THEN loaded' = Append(loaded, dma') /\ Goto(pc)
     ELSE Goto("done") /\ UNCHANGED loaded
  /\ UNCHANGED <<document, sent>>

SaveNext == client = "save" /\ (Makes \/ Stores \/ Writes \/ Reload \/ Load)

\* A text as a program keeps it: in records, the last filled up with ^Z.
Records(t) ==
  [r \in 1..((Len(t) + RecSize - 1) \div RecSize) |->
     [k \in 1..RecSize |->
        LET at == (r - 1) * RecSize + k IN IF at <= Len(t) THEN t[at] ELSE CtrlZ]]

\* The program alone, with a text whose lines it ends with Cr Lf, under a name of a
\* text file that no mapping and no argument of the command line leads elsewhere.
SaveSpec ==
  /\ Init /\ SaveInit
  /\ \E u \in Seq(Byte) : ~HasCtrlZ(u) /\ document = Records(Expand(u))
  /\ ExtOf[Saved] \in TextExt /\ fileMap[Saved] \in {NoFile, Lower[Saved]}
  /\ \A i \in DOMAIN Mappings : ~MatchPattern(Mappings[i].pattern, Saved)
  /\ Converts([mode |-> DefaultMode, eol |-> DefaultEol])
  /\ [][SaveNext]_<<vars, client, pc, saveVars>>

\* The bytes of a sequence of records.
Bytes(records) ==
  [k \in 1..(Len(records) * RecSize) |->
     records[(k - 1) \div RecSize + 1][((k - 1) % RecSize) + 1]]

\* Its text: CP/M ends a text at the first ^Z.
Text(bytes) == SubSeq(bytes, 1, TextLength(bytes))

\* A line end whose two halves lie in two records.
SplitLineEnd(bytes) ==
  \E k \in 1..(Len(bytes) - 1) : k % RecSize = 0 /\ bytes[k] = Cr /\ bytes[k + 1] = Lf

HostFile == data[dir[Lower[Saved]]]

SavedText == Text(Bytes(document))

\* A text whose line ends lie within records is on the host with one Lf for each, and
\* with none of the padding, whatever its length makes of the last record (775-816).
HostHasUnixText ==
  pc \in {"open", "read", "done"} => Expand(HostFile) = SavedText

\* It is loaded as it was saved: the conversion undone is the identity, and the
\* records have the same borders (722-816, 1571-1630).
LoadsWhatWasSaved == pc = "done" => Text(Bytes(loaded)) = SavedText

\* Both, of the texts a program saves.
SaveIsExact ==
  client = "save" /\ ~SplitLineEnd(SavedText) => HostHasUnixText /\ LoadsWhatWasSaved
=============================================================================
