---------------------------- MODULE EraseProgram ----------------------------
(***************************************************************************)
(* A CP/M program that makes any calls of DirSearch and then erases every  *)
(* file a pattern matches: search first, delete the name of the entry,     *)
(* search next, until no entry is left.  On CP/M the directory changes     *)
(* under the search; here the search works from its snapshot.  It is a     *)
(* client of src/src/cpmemu.cc, not part of it.                            *)
(***************************************************************************)
EXTENDS DirSearch

VARIABLES
  pc,
  target      \* the names to erase

eraseVars == <<vars, search, pc, target>>

EraseInit == SearchInit /\ pc = "before" /\ target \in Pattern83

Goto(label) == pc' = label /\ target' = target

Before ==
  \/ pc = "before" /\ Goto("before") /\ SearchProgramNext
  \/ pc = "before" /\ Goto("first") /\ UNCHANGED <<vars, search>>

Search ==
  \/ pc = "first" /\ SearchFirst(target) /\ Goto(IF a' = Success THEN "delete" ELSE "done")
  \/ pc = "next" /\ SearchNext /\ Goto(IF a' = Success THEN "delete" ELSE "done")

\* The program runs where no mapping gives an entry a name that is none.
Erase ==
  pc = "delete" /\ entry.name # Blank /\ Delete(entry.name) /\ Goto("next") /\ UNCHANGED search

Ended == pc = "done" /\ UNCHANGED eraseVars

EraseNext == Before \/ Search \/ Erase \/ Ended

\* Once it has started, a program that has not ended makes its next call.
EraseSpec == EraseInit /\ [][EraseNext]_eraseVars /\ WF_eraseVars(Search \/ Erase)

---------------------------------------------------------------------------
(* The directories the program is run in: each name has one file, in lower   *)
(* case, and a mapping or a rename leads to it too.                           *)

OneFilePerName ==
  /\ \A n \in Name : /\ {Lower[n], AsIs[n]} \subseteq Cwd \cap Valid
                     /\ CpmName[Lower[n]] = n /\ CpmName[AsIs[n]] = n
  /\ \A m, n \in Name : Sibling[Lower[m]][n] = Lower[n]
  /\ \A i \in DOMAIN Mappings : /\ Mappings[i].pattern.kind = "exact"
                                /\ Mappings[i].path = Lower[Mappings[i].pattern.name]
  /\ \A i, j \in DOMAIN Mappings : Mappings[i].pattern = Mappings[j].pattern => i = j
  /\ \A n \in Name : InitialMap[n] \in {NoFile, Lower[n]}
  /\ \A disk \in InitialDisk, p \in Cwd \cap Valid :
       Exists(disk.dir, p) => p = Lower[CpmName[p]]

---------------------------------------------------------------------------
(* Properties                                                               *)

FoundNames == {n \in Name : Found(n)}

\* When the program is done no name the pattern matches is left: deleting files
\* between the calls makes the search skip none (1974-2170).
AllErased == pc = "done" => FoundNames \cap target = {}

\* Names outside the pattern are untouched (1670-1688, 1974-2170).
OnlyMatchesErased ==
  [][pc # "before" => (FoundNames \ target) \subseteq FoundNames']_eraseVars

\* The search ends, though each of its files is deleted under it.
EraseEnds == pc = "first" ~> pc = "done"
=============================================================================
