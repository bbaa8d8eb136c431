------------------------------ MODULE DirSearch ------------------------------
(***************************************************************************)
(* BDOS search first (17) and search next (18) of src/src/cpmemu.cc, mixed *)
(* with the calls that change the directory meanwhile.  A search is a      *)
(* snapshot: search first collects the Unix paths of all matches, and each *)
(* call builds one directory entry from the next path of the list.         *)
(***************************************************************************)
EXTENDS BdosFiles, SequencesExt

CONSTANTS
  Cwd,        \* paths whose files readdir lists: in ".", not hidden
  CpmName,    \* CpmName[p]: what unix_to_cpm_83 makes of path p
  Valid,      \* paths for which it succeeds
  Blank,      \* an entry without a name
  Pattern83   \* the FCB patterns: each the set of the names it matches

ASSUME SearchAssumption ==
  /\ Cwd \subseteq Path /\ Valid \subseteq Path /\ Blank \notin Name
  /\ CpmName \in [Path -> Name \cup {Blank}] /\ \A p \in Valid : CpmName[p] \in Name
  /\ Pattern83 \subseteq SUBSET Name /\ IsFiniteSet(Name)

VARIABLES
  results,   \* search_results
  index,     \* search_index
  entry      \* the directory entry in the DMA buffer; no call here reads its record

search == <<results, index, entry>>

Entry == [name : Name \cup {Blank}, records : 0..ExtentRecords]

NoEntry == [name |-> Blank, records |-> 0]

SearchInit == Init /\ results = <<>> /\ index = 0 /\ entry = NoEntry

---------------------------------------------------------------------------
(* Collecting the matches                                                   *)

\* Mappings come first, one result for each whose name matches: a name with a "*"
\* is none that unix_to_cpm_83 accepts, so only exact mappings count.
Hits(pattern) ==
  {i \in DOMAIN Mappings : /\ Exists(dir, Mappings[i].path)
                           /\ Mappings[i].pattern.kind = "exact"
                           /\ Mappings[i].pattern.name \in pattern}

\* Their one order is that of the mappings.
HitOrders(pattern) ==
  {order \in SetToSeqs(Hits(pattern)) : \A j, k \in DOMAIN order : j < k => order[j] < order[k]}

MappingNames(pattern) == {Mappings[i].pattern.name : i \in Hits(pattern)}

\* Faulty: the pattern is not compared.
MapNamesAll(pattern) ==
  {n \in Name \ MappingNames(pattern) : fileMap[n] # NoFile /\ Exists(dir, fileMap[n])}

\* Then file_map, for names not met yet.
MapNames(pattern) ==
  {n \in pattern \ MappingNames(pattern) : fileMap[n] # NoFile /\ Exists(dir, fileMap[n])}

\* Then the directory: one file for each name not met yet, in the order of readdir.
DirPaths(n) == {p \in Cwd \cap Valid : Exists(dir, p) /\ CpmName[p] = n}

\* Faulty: names met in file_map are met again.
DirNamesAgain(pattern) == {n \in pattern \ MappingNames(pattern) : DirPaths(n) # {}}

DirNames(pattern) ==
  {n \in pattern \ (MappingNames(pattern) \cup MapNames(pattern)) : DirPaths(n) # {}}

DirPicks(pattern) ==
  {pick \in [DirNames(pattern) -> Path] : \A n \in DOMAIN pick : pick[n] \in DirPaths(n)}

\* The paths in the order the code collects them.
Listing(hits, mapped, listed, pick) ==
  [k \in DOMAIN hits |-> Mappings[hits[k]].path]
    \o [k \in DOMAIN mapped |-> fileMap[mapped[k]]]
    \o [k \in DOMAIN listed |-> pick[listed[k]]]

\* Every list of results search first may make.
Matches(pattern) ==
  {Listing(hits, mapped, listed, pick) :
     hits \in HitOrders(pattern), mapped \in SetToSeqs(MapNames(pattern)),
     listed \in SetToSeqs(DirNames(pattern)), pick \in DirPicks(pattern)}

---------------------------------------------------------------------------
(* The calls                                                                *)

\* The entry is made from the path; a file that has gone has no records.
EntryOf(p) ==
  LET size    == IF Exists(dir, p) THEN Len(data[dir[p]]) ELSE 0
      records == (size + RecSize - 1) \div RecSize
  IN  [name |-> CpmName[p], records |-> AtMost(records, ExtentRecords)]

Deliver(p) == entry' = EntryOf(p) /\ a' = Success

SearchFirst(pattern) ==
  /\ results' \in Matches(pattern)
  /\ \/ results' # <<>> /\ Deliver(results'[1]) /\ index' = 1
     \/ results' = <<>> /\ a' = Failure /\ index' = 0 /\ entry' = entry
  /\ UNCHANGED <<host, stream, openFiles, fileMap, fcb, dma>>

\* Faulty: moves on before it delivers.
SearchNextSkips ==
  /\ \/ index + 1 < Len(results) /\ Deliver(results[index + 2]) /\ index' = index + 1
     \/ index + 1 >= Len(results) /\ a' = Failure /\ UNCHANGED <<entry, index>>
  /\ UNCHANGED <<results, host, stream, openFiles, fileMap, fcb, dma>>

\* Faulty: delivers the result before.
SearchNextAgain ==
  /\ \/ index > 0 /\ index < Len(results) /\ Deliver(results[index]) /\ index' = index + 1
     \/ ~(index > 0 /\ index < Len(results)) /\ a' = Failure /\ UNCHANGED <<entry, index>>
  /\ UNCHANGED <<results, host, stream, openFiles, fileMap, fcb, dma>>

\* Faulty: does not move on.
SearchNextStays ==
  /\ \/ index < Len(results) /\ Deliver(results[index + 1]) /\ index' = index
     \/ index >= Len(results) /\ a' = Failure /\ UNCHANGED <<entry, index>>
  /\ UNCHANGED <<results, host, stream, openFiles, fileMap, fcb, dma>>

SearchNext ==
  /\ \/ index < Len(results) /\ Deliver(results[index + 1]) /\ index' = index + 1
     \/ index >= Len(results) /\ a' = Failure /\ UNCHANGED <<entry, index>>
  /\ UNCHANGED <<results, host, stream, openFiles, fileMap, fcb, dma>>

Meanwhile ==
  /\ \/ \E n \in Name : Delete(n) \/ \E new \in Name : Rename(n, new)
     \/ \E f \in Fcb : Close(f) \/ \E n \in Name : Make(f, n)
  /\ UNCHANGED search

SearchProgramNext == Meanwhile \/ SearchNext \/ \E pattern \in Pattern83 : SearchFirst(pattern)

SearchSpec == SearchInit /\ [][SearchProgramNext]_<<vars, search>>

---------------------------------------------------------------------------
(* Names on which search and open must agree                                *)

AppliesTo(n) == {i \in DOMAIN Mappings : Applies(i, n, dir)}

\* The paths that file_map and the exact mappings give a name.
GivenTo(n) == {Mappings[i].path : i \in Hits({n})} \cup ({fileMap[n]} \ {NoFile})

\* Those search may list for it, and those open may take.
ListedFor(n) == GivenTo(n) \cup DirPaths(n)
OpenedFor(n) == GivenTo(n) \cup {p \in {Lower[n], AsIs[n]} : Exists(dir, p)}

\* No two mappings and none with a "*" lead n anywhere; search and open look for it in one
\* place; and an entry made from a path has the name n just when n is listed with that path.
Plain(n) ==
  /\ \A i, j \in AppliesTo(n) : i = j /\ Mappings[i].pattern.kind = "exact"
  /\ ListedFor(n) = OpenedFor(n) /\ \A p, q \in ListedFor(n) : p = q
  /\ \A m \in Name : \A p \in ListedFor(m) : CpmName[p] = n <=> m = n

---------------------------------------------------------------------------
(* Properties                                                               *)

\* The name of an entry that a search call delivers, however late, leads open to the file the
\* entry was made from, unless no name leads to that path any more (1974-2170).
EntryLeadsToFile ==
  [][/\ SearchNext \/ \E pattern \in Pattern83 : SearchFirst(pattern)
     /\ a' = Success /\ Plain(entry'.name)
     /\ \E m \in Name : results'[index'] \in ListedFor(m)
     => PathNow(entry'.name) = results'[index']]_<<vars, search>>

\* A search lists a plain name that the pattern matches and open would find, with the file open
\* would take, and only once though mappings, file_map and readdir overlap; any other plain
\* name it does not list, whatever else it lists (1974-2126).
ListingIsExact ==
  [][\A pattern \in Pattern83, n \in Name :
       SearchFirst(pattern) /\ Plain(n)
         => LET places == {k \in DOMAIN results' : CpmName[results'[k]] = n}
            IN  /\ places # {} <=> n \in pattern /\ Found(n)
                /\ \A j, k \in places : j = k /\ results'[k] = PathNow(n)]_<<vars, search>>

\* "these define explicit CP/M names" (2005): the entry of a mapped file has the name the
\* mapping gives it, which the pattern matches.
EntryNameMatches ==
  [][\A pattern \in Pattern83 :
       SearchFirst(pattern) /\ a' = Success => entry'.name \in pattern]_<<vars, search>>
=============================================================================
