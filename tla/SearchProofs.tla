---------------------------- MODULE SearchProofs ----------------------------
(***************************************************************************)
(* For any names, patterns, mappings and files: on the names on which      *)
(* search and open must agree (Plain) a search lists what open would find, *)
(* once, and an entry leads to its file.  The names of a list are those of *)
(* its three parts (Lists), which have none in common; only two mappings   *)
(* may have one name, and then it is not plain.                            *)
(*                                                                         *)
(* For a directory in which each name has one file (OneFilePerName) every  *)
(* name is plain, and the program that erases what it finds erases all of  *)
(* it and nothing else.  The invariant relates the snapshot of search      *)
(* first to the directory that changes under it: what is still to be       *)
(* erased lies behind the index.                                           *)
(***************************************************************************)
EXTENDS EraseProgram, StreamProofs, FunctionTheorems

\* What Delete, Rename and Make keep of such a directory.
TidyAs(d, map) ==
  /\ d \in Directory /\ map \in FileMap
  /\ \A p \in Cwd \cap Valid : Exists(d, p) => p = Lower[CpmName[p]]
  /\ \A n \in Name : map[n] \in {NoFile, Lower[n]}

Tidy == TidyAs(dir, fileMap)

\* The files the program has still to come to, from result k on, are all that is left.
Remains(k) ==
  /\ results \in Seq(Path)
  /\ \A j \in DOMAIN results : CpmName[results[j]] \in target
  /\ \A n \in target : Found(n) => \E j \in DOMAIN results : j >= k /\ CpmName[results[j]] = n

EraseInv ==
  /\ Tidy /\ target \in Pattern83 /\ index \in Nat
  /\ pc \in {"before", "first", "delete", "next", "done"}
  /\ pc = "delete" => Remains(index) /\ index \in DOMAIN results /\ entry.name = CpmName[results[index]]
  /\ pc = "next" => Remains(index + 1)
  /\ pc = "done" => AllErased

---------------------------------------------------------------------------
(* Lists of names                                                           *)

\* An order of a finite set has each of its elements once.
LEMMA OrderOfSet ==
  ASSUME NEW S, IsFiniteSet(S), NEW s \in SetToSeqs(S)
  PROVE  /\ s \in Seq(S) /\ Len(s) \in Nat /\ DOMAIN s = 1..Len(s)
         /\ \A j, k \in DOMAIN s : s[j] = s[k] => j = k
         /\ \A x \in S : \E k \in DOMAIN s : s[k] = x
<1> DEFINE n == Cardinality(S)
<1>1. n \in Nat
  BY FS_CardinalityType
<1>2. s \in [1..n -> S] /\ \A j, k \in 1..n : j # k => s[j] # s[k]
  BY DEF SetToSeqs
<1>3. s \in Seq(S)
  BY <1>1, <1>2, SeqDef
<1>4. DOMAIN s = 1..Len(s) /\ Len(s) \in Nat
  BY <1>3, LenProperties
<1>5. s \in Injection(1..n, S)
  BY <1>2 DEF Injection, IsInjective
<1>6. Cardinality(1..n) = n
  BY <1>1, FS_Interval
<1>7. s \in Surjection(1..n, S)
  BY <1>5, <1>6, FS_Injection
<1>8. \A x \in S : \E k \in DOMAIN s : s[k] = x
  BY <1>2, <1>7 DEF Surjection
<1>9. QED  BY <1>2, <1>3, <1>4, <1>8

\* What the results of a search are made of.
Listable == UNION {ListedFor(m) : m \in Name}

\* The list s has a path with the Unix name n just when n is in N, and then one.
HasOnce(s, n, N) ==
  /\ \A k \in DOMAIN s : CpmName[s[k]] = n => n \in N
  /\ \A j, k \in DOMAIN s : CpmName[s[j]] = n /\ CpmName[s[k]] = n => j = k
  /\ n \in N => \E k \in DOMAIN s : CpmName[s[k]] = n

\* It has, if the name is plain.
Lists(s, N) == s \in Seq(Listable) /\ \A n \in Name : Plain(n) => HasOnce(s, n, N)

\* Two such lists, one behind the other, of different names.
LEMMA ListsJoin ==
  ASSUME NEW s, NEW t, NEW M, NEW N, Lists(s, M), Lists(t, N), M \cap N = {}
  PROVE  Lists(s \o t, M \cup N)
<1> DEFINE u == s \o t
           m == Len(s)
<1>1. /\ s \in Seq(Listable) /\ t \in Seq(Listable) /\ m \in Nat /\ Len(t) \in Nat
      /\ DOMAIN s = 1..m /\ DOMAIN t = 1..Len(t)
  BY LenProperties DEF Lists
<1>2. /\ u \in Seq(Listable) /\ DOMAIN u = 1..(m + Len(t))
      /\ \A k \in 1..(m + Len(t)) : u[k] = IF k <= m THEN s[k] ELSE t[k - m]
  BY <1>1, ConcatProperties, LenProperties
<1> HIDE DEF u, m
<1>3. \A k \in DOMAIN s : k \in DOMAIN u /\ k <= m /\ u[k] = s[k]
  BY <1>1, <1>2
<1>4. \A k \in DOMAIN t : m + k \in DOMAIN u /\ ~(m + k <= m) /\ u[m + k] = t[k]
  <2>1. TAKE k \in DOMAIN t
  <2>2. k \in Int /\ k >= 1 /\ k <= Len(t) /\ (m + k) - m = k
    BY <1>1
  <2>3. QED  BY <1>1, <1>2, <2>2
<1>5. \A k \in DOMAIN u : \/ k <= m /\ k \in DOMAIN s /\ u[k] = s[k]
                          \/ ~(k <= m) /\ k - m \in DOMAIN t /\ u[k] = t[k - m]
  BY <1>1, <1>2
<1>6. ASSUME NEW n \in Name, Plain(n) PROVE HasOnce(u, n, M \cup N)
  <2>1. HasOnce(s, n, M) /\ HasOnce(t, n, N)
    BY <1>6 DEF Lists
  <2>2. \A k \in DOMAIN u : CpmName[u[k]] = n => n \in M \cup N
    BY <1>5, <2>1 DEF HasOnce
  <2>3. ASSUME NEW j \in DOMAIN u, NEW k \in DOMAIN u, CpmName[u[j]] = n, CpmName[u[k]] = n
        PROVE  j = k
    <3>1. CASE j <= m /\ k <= m
      BY <1>5, <2>1, <2>3, <3>1 DEF HasOnce
    <3>2. CASE ~(j <= m) /\ ~(k <= m)
      <4>1. j - m \in DOMAIN t /\ k - m \in DOMAIN t /\ CpmName[t[j - m]] = n /\ CpmName[t[k - m]] = n
        BY <1>5, <2>3, <3>2
      <4>2. j - m = k - m
        BY <2>1, <4>1 DEF HasOnce
      <4>3. QED  BY <1>1, <1>2, <4>2
    <3>3. CASE (j <= m) # (k <= m)
      BY <1>5, <2>1, <2>3, <3>3 DEF HasOnce
    <3>4. QED  BY <3>1, <3>2, <3>3
  <2>4. ASSUME n \in M \cup N PROVE \E k \in DOMAIN u : CpmName[u[k]] = n
    <3>1. CASE n \in M
      BY <1>3, <2>1, <3>1 DEF HasOnce
    <3>2. CASE n \in N
      <4>1. PICK k \in DOMAIN t : CpmName[t[k]] = n
        BY <2>1, <3>2 DEF HasOnce
      <4>2. QED  BY <1>4, <4>1
    <3>3. QED  BY <2>4, <3>1, <3>2
  <2>5. QED  BY <2>2, <2>3, <2>4 DEF HasOnce
<1>7. QED  BY <1>2, <1>6 DEF Lists, u

\* The paths P of an ordered set, each listed for the name L gives it.
LEMMA ListsOrder ==
  ASSUME NEW S, IsFiniteSet(S), NEW order \in SetToSeqs(S), NEW P, NEW L, NEW N,
         N = {L[x] : x \in S}, \A x \in S : L[x] \in Name /\ P[x] \in ListedFor(L[x]),
         \A n \in Name : Plain(n) => \A x, y \in S : L[x] = n /\ L[y] = n => x = y
  PROVE  Lists([k \in DOMAIN order |-> P[order[k]]], N)
<1> DEFINE s == [k \in DOMAIN order |-> P[order[k]]]
<1>1. /\ order \in Seq(S) /\ Len(order) \in Nat /\ DOMAIN order = 1..Len(order)
      /\ \A j, k \in DOMAIN order : order[j] = order[k] => j = k
      /\ \A x \in S : \E k \in DOMAIN order : order[k] = x
  BY OrderOfSet
<1>2. \A k \in DOMAIN order : order[k] \in S
  BY <1>1, ElementOfSeq
<1>3. \A x \in S : P[x] \in Listable
  BY DEF Listable
<1>4. s \in [1..Len(order) -> Listable]
  BY <1>1, <1>2, <1>3
<1>5. s \in Seq(Listable)
  BY <1>1, <1>4, SeqDef
<1>6. DOMAIN s = DOMAIN order /\ \A k \in DOMAIN order : s[k] = P[order[k]]
  OBVIOUS
<1> HIDE DEF s
<1>7. ASSUME NEW n \in Name, Plain(n) PROVE HasOnce(s, n, N)
  <2>1. \A x \in S : CpmName[P[x]] = n <=> L[x] = n
    BY <1>7 DEF Plain
  <2>2. \A k \in DOMAIN s : CpmName[s[k]] = n <=> L[order[k]] = n
    BY <1>2, <1>6, <2>1
  <2>3. \A k \in DOMAIN s : CpmName[s[k]] = n => n \in N
    BY <1>2, <1>6, <2>2
  <2>4. \A j, k \in DOMAIN s : CpmName[s[j]] = n /\ CpmName[s[k]] = n => j = k
    BY <1>1, <1>2, <1>6, <1>7, <2>2
  <2>5. ASSUME n \in N PROVE \E k \in DOMAIN s : CpmName[s[k]] = n
    <3>1. PICK x \in S : L[x] = n
      BY <2>5
    <3>2. PICK k \in DOMAIN order : order[k] = x
      BY <1>1
    <3>3. QED  BY <1>6, <2>2, <3>1, <3>2
  <2>6. QED  BY <2>3, <2>4, <2>5 DEF HasOnce
<1>8. QED  BY <1>5, <1>7 DEF Lists, s

---------------------------------------------------------------------------
(* Plain names                                                              *)

\* The first mapping that applies is one that applies.
LEMMA FirstApplies ==
  ASSUME NEW d, NEW n, Mapped(n, d)
  PROVE  \E i \in DOMAIN Mappings : FirstMapping(n, d) = Mappings[i] /\ Applies(i, n, d)
<1> DEFINE T == {i \in DOMAIN Mappings : Applies(i, n, d)}
<1>1. DOMAIN Mappings = 1..Len(Mappings) /\ Len(Mappings) \in Nat
  BY MappingAssumption, LenProperties
<1>2. T \in SUBSET Nat /\ T # {}
  BY <1>1 DEF Mapped
<1>3. PICK m \in T : \A k \in T : m <= k
  BY <1>2, LeastNatural
<1>4. \A j \in 1..(m - 1) : ~Applies(j, n, d)
  BY <1>1, <1>3
<1>5. QED  BY <1>3, <1>4 DEF FirstMapping

\* A mapping is a path of the host for a pattern.
LEMMA MappingType ==
  ASSUME NEW i \in DOMAIN Mappings
  PROVE  Mappings[i].path \in Path /\ Mappings[i].pattern \in Pattern
<1>1. DOMAIN Mappings = 1..Len(Mappings)
  BY MappingAssumption, LenProperties
<1>2. Mappings[i] \in [pattern : Pattern, path : Path, mode : Mode, eol : BOOLEAN]
  BY <1>1, MappingAssumption, ElementOfSeq
<1>3. QED  BY <1>2

\* The mappings that search lists for a name apply to it, and are exact.
LEMMA HitsApply ==
  ASSUME NEW n
  PROVE  \A i : i \in Hits({n}) <=> i \in AppliesTo(n) /\ Mappings[i].pattern.kind = "exact"
BY DEF Hits, AppliesTo, Applies, MatchPattern

\* Open takes one of the paths of OpenedFor if there is any.
LEMMA PathIsOpened ==
  ASSUME NEW n \in Name, \A i \in AppliesTo(n) : Mappings[i].pattern.kind = "exact"
  PROVE  PathNow(n) \in OpenedFor(n) \/ (OpenedFor(n) = {} /\ PathNow(n) = NoFile)
<1>1. CASE Mapped(n, dir)
  <2>1. PICK i \in DOMAIN Mappings : FirstMapping(n, dir) = Mappings[i] /\ Applies(i, n, dir)
    BY <1>1, FirstApplies
  <2>2. i \in AppliesTo(n)
    BY <2>1 DEF AppliesTo
  <2>3. i \in Hits({n})
    BY <2>2, HitsApply
  <2>4. PathNow(n) = Mappings[i].path
    BY <1>1, <2>1 DEF PathNow, FindPath
  <2>5. QED  BY <2>3, <2>4 DEF OpenedFor, GivenTo
<1>2. CASE ~Mapped(n, dir) /\ fileMap[n] # NoFile
  BY <1>2 DEF PathNow, FindPath, OpenedFor, GivenTo
<1>3. CASE ~Mapped(n, dir) /\ fileMap[n] = NoFile
  <2>1. Hits({n}) = {}
    BY <1>3, HitsApply DEF AppliesTo, Mapped
  <2>2. GivenTo(n) = {}
    BY <1>3, <2>1 DEF GivenTo
  <2>3. PathNow(n) = IF Exists(dir, Lower[n]) THEN Lower[n]
                     ELSE IF Exists(dir, AsIs[n]) THEN AsIs[n] ELSE NoFile
    BY <1>3 DEF PathNow, FindPath
  <2>4. QED  BY <2>2, <2>3 DEF OpenedFor
<1>4. QED  BY <1>1, <1>2, <1>3

\* So a plain name leads to the one path it is listed with.
LEMMA PlainPath ==
  ASSUME NEW n \in Name, Plain(n), NEW p \in ListedFor(n)
  PROVE  PathNow(n) = p
<1>1. PathNow(n) \in ListedFor(n)
  BY PathIsOpened DEF Plain
<1>2. QED  BY <1>1 DEF Plain

\* A result that has a plain name is what the name leads to.
LEMMA PlainResult ==
  ASSUME NEW n, Plain(n), NEW p \in Listable, CpmName[p] = n
  PROVE  PathNow(n) = p
<1>1. PICK m \in Name : p \in ListedFor(m)
  BY DEF Listable
<1>2. m = n
  BY <1>1 DEF Plain
<1>3. QED  BY <1>1, <1>2, PlainPath

---------------------------------------------------------------------------
(* Directories in which each name has one file                              *)

\* Where each name has one file, the first mapping that applies leads to it.
LEMMA FirstMappingIsOwn ==
  ASSUME OneFilePerName, NEW d, NEW n \in Name, Mapped(n, d)
  PROVE  FirstMapping(n, d).path = Lower[n] /\ Exists(d, Lower[n])
<1>1. PICK i \in DOMAIN Mappings : FirstMapping(n, d) = Mappings[i] /\ Applies(i, n, d)
  BY FirstApplies
<1>2. Mappings[i].pattern.kind = "exact" /\ Mappings[i].path = Lower[Mappings[i].pattern.name]
  BY DEF OneFilePerName
<1>3. Mappings[i].pattern.name = n
  BY <1>1, <1>2 DEF Applies, MatchPattern
<1>4. QED  BY <1>1, <1>2, <1>3 DEF Applies

\* A name leads to a file exactly when its file is there, and then to that (672-720).
LEMMA PathIsThere ==
  ASSUME OneFilePerName, NEW d, NEW map, TidyAs(d, map), NEW n \in Name
  PROVE  /\ (FindPath(n, d, map) # NoFile /\ Exists(d, FindPath(n, d, map))) <=> Exists(d, Lower[n])
         /\ Exists(d, Lower[n]) => FindPath(n, d, map) = Lower[n]
<1>1. Lower[n] \in Path /\ Lower[n] # NoFile
  BY MappingAssumption, HostAssumption
<1>2. map[n] \in {NoFile, Lower[n]}
  BY DEF TidyAs
<1>3. Exists(d, AsIs[n]) => AsIs[n] = Lower[n]
  BY DEF TidyAs, OneFilePerName
<1>4. CASE Mapped(n, d)
  <2>1. FirstMapping(n, d).path = Lower[n] /\ Exists(d, Lower[n])
    BY <1>4, FirstMappingIsOwn
  <2>2. FindPath(n, d, map) = Lower[n]
    BY <1>4, <2>1 DEF FindPath
  <2>3. QED  BY <1>1, <2>1, <2>2
<1>5. CASE ~Mapped(n, d)
  <2>1. FindPath(n, d, map) \in {Lower[n], AsIs[n], NoFile}
    BY <1>2, <1>5 DEF FindPath
  <2>2. Exists(d, Lower[n]) => FindPath(n, d, map) = Lower[n]
    BY <1>2, <1>5 DEF FindPath
  <2>3. QED  BY <1>1, <1>3, <2>1, <2>2
<1>6. QED  BY <1>4, <1>5

\* So a name is found exactly when its file is there.
LEMMA FoundIsThere ==
  ASSUME OneFilePerName, Tidy, NEW n \in Name
  PROVE  /\ Found(n) <=> Exists(dir, Lower[n])
         /\ Found(n) => Lookup(n).path = Lower[n] /\ FindPath(n, dir, fileMap) = Lower[n]
<1>1. Lookup(n).path = FindPath(n, dir, fileMap)
  BY DEF Lookup, FindUnixFileEx
<1>2. TidyAs(dir, fileMap)
  BY DEF Tidy
<1>3. QED  BY <1>1, <1>2, PathIsThere DEF Found

\* And is so after the call.
LEMMA FoundIsThereNext ==
  ASSUME OneFilePerName, Tidy', NEW n \in Name
  PROVE  /\ Found(n)' <=> Exists(dir', Lower[n])
         /\ Found(n)' => PathNow(n)' = Lower[n]
<1>1. Lookup(n)'.path = FindPath(n, dir', fileMap')
  BY DEF Lookup, FindUnixFileEx
<1>2. TidyAs(dir', fileMap')
  BY DEF Tidy
<1>3. QED  BY <1>1, <1>2, PathIsThere DEF Found, PathNow

\* So every name is plain.
LEMMA TidyListing ==
  ASSUME OneFilePerName, Tidy, NEW n \in Name
  PROVE  ListedFor(n) = OpenedFor(n) /\ \A p \in ListedFor(n) : p = Lower[n] /\ CpmName[p] = n
<1>1. \A i \in Hits({n}) : Mappings[i].path = Lower[n]
  BY DEF Hits, OneFilePerName
<1>2. fileMap[n] \in {NoFile, Lower[n]}
  BY DEF Tidy, TidyAs
<1>3. GivenTo(n) \subseteq {Lower[n]}
  BY <1>1, <1>2 DEF GivenTo
<1>4. CpmName[Lower[n]] = n /\ CpmName[AsIs[n]] = n /\ {Lower[n], AsIs[n]} \subseteq Cwd \cap Valid
  BY DEF OneFilePerName
<1>5. \A p \in Cwd \cap Valid : Exists(dir, p) => p = Lower[CpmName[p]]
  BY DEF Tidy, TidyAs
<1>6. DirPaths(n) = {p \in {Lower[n], AsIs[n]} : Exists(dir, p)} /\ DirPaths(n) \subseteq {Lower[n]}
  BY <1>4, <1>5 DEF DirPaths
<1>7. QED  BY <1>3, <1>4, <1>6 DEF ListedFor, OpenedFor

LEMMA TidyIsPlain ==
  ASSUME OneFilePerName, Tidy, NEW n \in Name
  PROVE  Plain(n)
<1>1. ASSUME NEW i \in AppliesTo(n), NEW j \in AppliesTo(n)
      PROVE  i = j /\ Mappings[i].pattern.kind = "exact"
  <2>1. i \in DOMAIN Mappings /\ j \in DOMAIN Mappings
    BY DEF AppliesTo
  <2>2. Mappings[i].pattern.kind = "exact" /\ Mappings[j].pattern.kind = "exact"
    BY <2>1 DEF OneFilePerName
  <2>3. Mappings[i].pattern.name = n /\ Mappings[j].pattern.name = n
    BY <2>2 DEF AppliesTo, Applies, MatchPattern
  <2>4. /\ Mappings[i].pattern \in [kind : {"exact"}, name : Name]
        /\ Mappings[j].pattern \in [kind : {"exact"}, name : Name]
    BY <2>1, <2>2, MappingType DEF Pattern
  <2>5. Mappings[i].pattern = Mappings[j].pattern
    BY <2>2, <2>3, <2>4
  <2>6. QED  BY <2>1, <2>2, <2>5 DEF OneFilePerName
<1>2. \A m \in Name : ListedFor(m) = OpenedFor(m) /\ \A p \in ListedFor(m) : p = Lower[m] /\ CpmName[p] = m
  BY TidyListing
<1>3. QED  BY <1>1, <1>2 DEF Plain

---------------------------------------------------------------------------
(* The lists of search first                                                *)

\* The mappings that match, in their order, with their names (2005-2022).
LEMMA HitsListed ==
  ASSUME NEW pattern \in SUBSET Name, NEW order \in SetToSeqs(Hits(pattern))
  PROVE  Lists([k \in DOMAIN order |-> Mappings[order[k]].path], MappingNames(pattern))
<1> DEFINE S == Hits(pattern)
           P == [i \in S |-> Mappings[i].path]
           L == [i \in S |-> Mappings[i].pattern.name]
<1>1. DOMAIN Mappings = 1..Len(Mappings) /\ Len(Mappings) \in Nat
  BY MappingAssumption, LenProperties
<1>2. S \subseteq 1..Len(Mappings)
  BY <1>1 DEF Hits
<1>3. IsFiniteSet(S)
  BY <1>1, <1>2, CountBound
<1>4. \A i \in S : i \in Hits({L[i]}) /\ L[i] \in Name
  BY DEF Hits
<1>5. \A i \in S : L[i] \in Name /\ P[i] \in ListedFor(L[i])
  BY <1>4 DEF ListedFor, GivenTo
<1>6. ASSUME NEW n \in Name, Plain(n), NEW i \in S, NEW j \in S, L[i] = n, L[j] = n PROVE i = j
  <2>1. i \in AppliesTo(n) /\ j \in AppliesTo(n)
    BY <1>4, <1>6, HitsApply
  <2>2. QED  BY <1>6, <2>1 DEF Plain
<1>7. MappingNames(pattern) = {L[i] : i \in S}
  BY DEF MappingNames
<1>8. Lists([k \in DOMAIN order |-> P[order[k]]], MappingNames(pattern))
  <2>1. order \in SetToSeqs(S)
    OBVIOUS
  <2> HIDE DEF S, P, L
  <2>2. QED  BY <1>3, <1>5, <1>6, <1>7, <2>1, ListsOrder
<1>9. \A k \in DOMAIN order : order[k] \in S
  BY <1>3, OrderOfSet, ElementOfSeq
<1>10. [k \in DOMAIN order |-> P[order[k]]] = [k \in DOMAIN order |-> Mappings[order[k]].path]
  BY <1>9
<1>11. QED  BY <1>8, <1>10

\* A set of names, each with a path it is listed with.
LEMMA NamesListed ==
  ASSUME NEW N \in SUBSET Name, NEW order \in SetToSeqs(N), NEW P, \A n \in N : P[n] \in ListedFor(n)
  PROVE  Lists([k \in DOMAIN order |-> P[order[k]]], N)
<1> DEFINE L == [n \in N |-> n]
<1>1. IsFiniteSet(N)
  BY SearchAssumption, FS_Subset
<1>2. N = {L[n] : n \in N} /\ \A n \in N : L[n] \in Name /\ P[n] \in ListedFor(L[n])
  OBVIOUS
<1>3. \A m, n \in N : L[m] = L[n] => m = n
  OBVIOUS
<1> HIDE DEF L
<1>4. \A n \in Name : Plain(n) => \A x, y \in N : L[x] = n /\ L[y] = n => x = y
  BY <1>3
<1>5. QED  BY <1>1, <1>2, <1>4, ListsOrder

\* The three parts of a list have different names.
LEMMA PartsDiffer ==
  ASSUME NEW pattern
  PROVE  /\ MappingNames(pattern) \cap MapNames(pattern) = {}
         /\ (MappingNames(pattern) \cup MapNames(pattern)) \cap DirNames(pattern) = {}
BY DEF MapNames, DirNames

NamesOf(pattern) == (MappingNames(pattern) \cup MapNames(pattern)) \cup DirNames(pattern)

\* A list that search first may make has each plain name of the three parts once.
LEMMA MatchesListed ==
  ASSUME NEW pattern \in SUBSET Name, NEW list \in Matches(pattern)
  PROVE  Lists(list, NamesOf(pattern))
<1>1. PICK hits \in HitOrders(pattern), mapped \in SetToSeqs(MapNames(pattern)),
           listed \in SetToSeqs(DirNames(pattern)), pick \in DirPicks(pattern) :
        list = Listing(hits, mapped, listed, pick)
  BY DEF Matches
<1>2. Lists([k \in DOMAIN hits |-> Mappings[hits[k]].path], MappingNames(pattern))
  BY HitsListed DEF HitOrders
<1>3. Lists([k \in DOMAIN mapped |-> fileMap[mapped[k]]], MapNames(pattern))
  <2>1. MapNames(pattern) \in SUBSET Name /\ \A n \in MapNames(pattern) : fileMap[n] \in ListedFor(n)
    BY DEF MapNames, ListedFor, GivenTo
  <2>2. QED  BY <2>1, NamesListed
<1>4. Lists([k \in DOMAIN listed |-> pick[listed[k]]], DirNames(pattern))
  <2>1. DirNames(pattern) \in SUBSET Name /\ \A n \in DirNames(pattern) : pick[n] \in ListedFor(n)
    BY DEF DirNames, DirPicks, ListedFor
  <2>2. QED  BY <2>1, NamesListed
<1>5. Lists([k \in DOMAIN hits |-> Mappings[hits[k]].path]
              \o [k \in DOMAIN mapped |-> fileMap[mapped[k]]],
            MappingNames(pattern) \cup MapNames(pattern))
  BY <1>2, <1>3, PartsDiffer, ListsJoin
<1>6. QED  BY <1>1, <1>4, <1>5, PartsDiffer, ListsJoin DEF Listing, NamesOf

\* The plain names of the three parts are those of the pattern that open would find.
LEMMA NamesFound ==
  ASSUME NEW pattern \in SUBSET Name, NEW n \in Name, Plain(n)
  PROVE  n \in NamesOf(pattern) <=> n \in pattern /\ Found(n)
<1>1. Found(n) <=> PathNow(n) # NoFile /\ Exists(dir, PathNow(n))
  BY DEF Found, Lookup, FindUnixFileEx, PathNow
<1>2. ASSUME NEW p \in ListedFor(n), Exists(dir, p), p # NoFile PROVE Found(n)
  BY <1>1, <1>2, PlainPath
<1>3. \A i \in Hits(pattern) : Mappings[i].pattern.name = n => i \in Hits({n})
  BY DEF Hits
<1>4. n \in MappingNames(pattern) => n \in pattern /\ Found(n)
  <2> SUFFICES ASSUME n \in MappingNames(pattern) PROVE n \in pattern /\ Found(n)
    OBVIOUS
  <2>1. PICK i \in Hits(pattern) : Mappings[i].pattern.name = n
    BY DEF MappingNames
  <2>2. n \in pattern /\ Mappings[i].path \in ListedFor(n) /\ Exists(dir, Mappings[i].path)
    BY <1>3, <2>1 DEF Hits, ListedFor, GivenTo
  <2>3. Mappings[i].path # NoFile
    BY MappingType, HostAssumption DEF Hits
  <2>4. QED  BY <1>2, <2>2, <2>3
<1>5. n \in MapNames(pattern) => n \in pattern /\ Found(n)
  BY <1>2 DEF MapNames, ListedFor, GivenTo
<1>6. n \in DirNames(pattern) => n \in pattern /\ Found(n)
  <2> SUFFICES ASSUME n \in DirNames(pattern) PROVE n \in pattern /\ Found(n)
    OBVIOUS
  <2>1. PICK p \in DirPaths(n) : p \in Path /\ Exists(dir, p)
    BY SearchAssumption DEF DirNames, DirPaths
  <2>2. n \in pattern /\ p \in ListedFor(n) /\ p # NoFile
    BY <2>1, HostAssumption DEF DirNames, ListedFor
  <2>3. QED  BY <1>2, <2>1, <2>2
<1>7. ASSUME n \in pattern, Found(n) PROVE n \in NamesOf(pattern)
  <2>1. PathNow(n) \in ListedFor(n)
    BY <1>1, <1>7, PathIsOpened DEF Plain
  <2>2. CASE \E i \in Hits({n}) : PathNow(n) = Mappings[i].path
    <3>1. PICK i \in Hits({n}) : PathNow(n) = Mappings[i].path
      BY <2>2
    <3>2. i \in Hits(pattern) /\ Mappings[i].pattern.name = n
      BY <1>7, <3>1 DEF Hits
    <3>3. QED  BY <3>2 DEF NamesOf, MappingNames
  <2>3. CASE fileMap[n] # NoFile /\ PathNow(n) = fileMap[n]
    BY <1>1, <1>7, <2>3 DEF NamesOf, MapNames
  <2>4. CASE PathNow(n) \in DirPaths(n)
    BY <1>7, <2>4 DEF NamesOf, DirNames
  <2>5. QED  BY <2>1, <2>2, <2>3, <2>4 DEF ListedFor, GivenTo
<1>8. QED  BY <1>4, <1>5, <1>6, <1>7 DEF NamesOf

\* The entry that a search call delivers leads open to the file it was made from, in whatever
\* directory and under whatever mappings and file_map, if its name is plain and some name leads
\* to the file still (1974-2170).
THEOREM EntriesLeadToFiles == SearchSpec => EntryLeadsToFile
<1> DEFINE Step ==
      /\ SearchNext \/ \E pattern \in Pattern83 : SearchFirst(pattern)
      /\ a' = Success /\ Plain(entry'.name)
      /\ \E m \in Name : results'[index'] \in ListedFor(m)
      => PathNow(entry'.name) = results'[index']
<1>1. Step
  <2> SUFFICES ASSUME SearchNext \/ \E pattern \in Pattern83 : SearchFirst(pattern),
                      a' = Success, Plain(entry'.name),
                      NEW m \in Name, results'[index'] \in ListedFor(m)
               PROVE  PathNow(entry'.name) = results'[index']
    OBVIOUS
  <2>1. entry'.name = CpmName[results'[index']]
    BY DEF SearchNext, SearchFirst, Deliver, EntryOf, Success, Failure
  <2>2. results'[index'] \in Listable
    BY DEF Listable
  <2>3. QED  BY <2>1, <2>2, PlainResult
<1>2. [Step]_<<vars, search>>
  BY <1>1
<1>3. QED  BY <1>2, PTL DEF EntryLeadsToFile

\* Of the plain names a search lists those the pattern matches and open would find, each once
\* and with the file open would take, in whatever directory and under whatever mappings and
\* file_map, and whatever names it lists besides (1974-2126).
THEOREM ListingsAreExact == SearchSpec => ListingIsExact
<1> DEFINE Step ==
      \A pattern \in Pattern83, n \in Name :
        SearchFirst(pattern) /\ Plain(n)
          => LET places == {k \in DOMAIN results' : CpmName[results'[k]] = n}
             IN  /\ places # {} <=> n \in pattern /\ Found(n)
                 /\ \A j, k \in places : j = k /\ results'[k] = PathNow(n)
<1>1. ASSUME NEW pattern \in Pattern83, NEW n \in Name, SearchFirst(pattern), Plain(n)
      PROVE  LET places == {k \in DOMAIN results' : CpmName[results'[k]] = n}
             IN  /\ places # {} <=> n \in pattern /\ Found(n)
                 /\ \A j, k \in places : j = k /\ results'[k] = PathNow(n)
  <2> DEFINE places == {k \in DOMAIN results' : CpmName[results'[k]] = n}
  <2>1. pattern \in SUBSET Name
    BY SearchAssumption
  <2>2. Lists(results', NamesOf(pattern))
    BY <1>1, <2>1, MatchesListed DEF SearchFirst
  <2>3. HasOnce(results', n, NamesOf(pattern)) /\ results' \in Seq(Listable)
    BY <1>1, <2>2 DEF Lists
  <2>4. places # {} <=> n \in pattern /\ Found(n)
    BY <1>1, <2>1, <2>3, NamesFound DEF HasOnce
  <2>5. \A j, k \in places : j = k
    BY <2>3 DEF HasOnce
  <2>6. \A k \in places : results'[k] = PathNow(n)
    BY <1>1, <2>3, ElementOfSeq, PlainResult
  <2>7. QED  BY <2>4, <2>5, <2>6
<1>2. [Step]_<<vars, search>>
  BY <1>1
<1>3. QED  BY <1>2, PTL DEF ListingIsExact

---------------------------------------------------------------------------
(* What the calls keep                                                      *)

\* Nothing but the directory and file_map matters.
LEMMA TidyStays ==
  ASSUME Tidy, UNCHANGED <<dir, fileMap>>
  PROVE  Tidy'
BY DEF Tidy

\* Delete takes the file of one name away (1670-1688).
LEMMA DeleteTidy ==
  ASSUME OneFilePerName, Tidy, NEW n \in Name, Delete(n)
  PROVE  /\ Tidy'
         /\ \A m \in Name : Exists(dir', Lower[m]) <=> Exists(dir, Lower[m]) /\ m # n
<1>1. Lower \in [Name -> Path]
  BY MappingAssumption
<1>2. \A m \in Name : CpmName[Lower[m]] = m
  BY DEF OneFilePerName
<1>3. dir \in Directory /\ fileMap \in FileMap /\ fileMap' = fileMap
  BY DEF Tidy, TidyAs, Delete
<1>4. CASE Found(n)
  <2>1. dir' = [dir EXCEPT ![Lower[n]] = NoFile]
    BY <1>4, FoundIsThere DEF Delete
  <2>2. dir' \in Directory
    BY <1>3, <2>1 DEF Directory
  <2>3. \A p \in Path : Exists(dir', p) <=> Exists(dir, p) /\ p # Lower[n]
    BY <1>3, <2>1 DEF Directory, Exists
  <2>4. Cwd \subseteq Path
    BY SearchAssumption
  <2>5. Tidy'
    BY <1>3, <2>2, <2>3, <2>4 DEF Tidy, TidyAs
  <2>6. QED  BY <1>1, <1>2, <2>3, <2>5
<1>5. CASE ~Found(n)
  <2>1. dir' = dir
    BY <1>5 DEF Delete, host
  <2>2. ~Exists(dir, Lower[n])
    BY <1>5, FoundIsThere
  <2>3. QED  BY <1>3, <2>1, <2>2, TidyStays
<1>6. QED  BY <1>4, <1>5

\* Rename moves it to another name (1813-1857).
LEMMA RenameTidy ==
  ASSUME OneFilePerName, Tidy, NEW old \in Name, NEW new \in Name, Rename(old, new)
  PROVE  /\ Tidy'
         /\ Found(old) => dir'[Lower[new]] = dir[Lower[old]]
<1>1. Lower \in [Name -> Path] /\ Cwd \subseteq Path
  BY MappingAssumption, SearchAssumption
<1>2. /\ \A m \in Name : CpmName[Lower[m]] = m
      /\ Sibling[Lower[old]][new] = Lower[new]
  BY DEF OneFilePerName
<1>3. dir \in Directory /\ fileMap \in FileMap
  BY DEF Tidy, TidyAs
<1>4. CASE Found(old)
  <2>1. Lookup(old).path = Lower[old]
    BY <1>4, FoundIsThere
  <2>2. /\ dir' = [p \in Path |-> IF p = Lower[new] THEN dir[Lower[old]]
                                 ELSE IF p = Lower[old] THEN NoFile ELSE dir[p]]
        /\ fileMap' = [fileMap EXCEPT ![new] = Lower[new]]
    BY <1>2, <1>4, <2>1 DEF Rename
  <2>3. dir' \in Directory
    BY <1>1, <1>3, <2>2 DEF Directory
  <2>4. \A p \in Path : Exists(dir', p) => Exists(dir, p) \/ p = Lower[new]
    BY <2>2 DEF Exists
  <2>5. fileMap' \in FileMap /\ \A n \in Name : fileMap'[n] \in {NoFile, Lower[n]}
    BY <1>1, <1>3, <2>2 DEF FileMap, Tidy, TidyAs
  <2>6. Tidy'
    BY <1>1, <1>2, <2>3, <2>4, <2>5 DEF Tidy, TidyAs
  <2>7. QED  BY <1>1, <2>2, <2>6
<1>5. CASE ~Found(old)
  <2>1. UNCHANGED <<dir, fileMap>>
    BY <1>5 DEF Rename, host
  <2>2. QED  BY <1>5, <2>1, TidyStays
<1>6. QED  BY <1>4, <1>5

\* Make gives a name its file (1490-1535).
LEMMA MakeTidy ==
  ASSUME OneFilePerName, Tidy, NEW f \in Fcb, NEW n \in Name, Make(f, n)
  PROVE  Tidy'
<1>1. Lower[n] \in Path /\ Cwd \subseteq Path
  BY MappingAssumption, SearchAssumption
<1>2. CpmName[Lower[n]] = n
  BY DEF OneFilePerName
<1>3. dir \in Directory /\ fileMap \in FileMap /\ fileMap' = fileMap
  BY DEF Tidy, TidyAs, Make
<1>4. CASE CanMake(n)
  <2>1. PICK fd \in FreeFd,
             ino \in IF Exists(dir, Lower[n]) THEN {dir[Lower[n]]} ELSE FreeInode :
          MakeSucceeds(f, n, ino, fd)
    BY <1>4 DEF Make
  <2>2. ino \in Inode
    BY <1>1, <1>3 DEF FreeInode, Directory, Exists
  <2>3. dir' = [dir EXCEPT ![Lower[n]] = ino]
    BY <2>1 DEF MakeSucceeds
  <2>4. dir' \in Directory
    BY <1>3, <2>2, <2>3 DEF Directory
  <2>5. \A p \in Path : Exists(dir', p) => Exists(dir, p) \/ p = Lower[n]
    BY <1>3, <2>3 DEF Exists, Directory
  <2>6. QED  BY <1>1, <1>2, <1>3, <2>4, <2>5 DEF Tidy, TidyAs
<1>5. CASE ~CanMake(n)
  <2>1. dir' = dir
    BY <1>5 DEF Make, host
  <2>2. QED  BY <1>3, <2>1, TidyStays
<1>6. QED  BY <1>4, <1>5

\* Where each name has one file a list has the files of the pattern, and only those.
ListsFiles(s, pattern) ==
  /\ s \in Seq(Path) /\ \A k \in DOMAIN s : CpmName[s[k]] \in pattern
  /\ \A n \in pattern : Found(n) => \E k \in DOMAIN s : CpmName[s[k]] = n

\* What search first makes of its list (1974-2126).
LEMMA ListingStep ==
  ASSUME OneFilePerName, Tidy, NEW pattern \in Pattern83, SearchFirst(pattern)
  PROVE  /\ ListsFiles(results', pattern)
         /\ UNCHANGED <<dir, data, fileMap>>
         /\ \/ /\ a' = Success /\ index' = 1 /\ 1 \in DOMAIN results'
               /\ entry'.name = CpmName[results'[1]]
            \/ a' = Failure /\ results' = <<>> /\ index' = 0
<1>1. pattern \in SUBSET Name
  BY SearchAssumption
<1>2. Lists(results', NamesOf(pattern))
  BY <1>1, MatchesListed DEF SearchFirst
<1>3. \A n \in Name : HasOnce(results', n, NamesOf(pattern))
  BY <1>2, TidyIsPlain DEF Lists
<1>4. \A n \in Name : n \in NamesOf(pattern) <=> n \in pattern /\ Found(n)
  BY <1>1, NamesFound, TidyIsPlain
<1>5. Listable \subseteq Path /\ \A p \in Listable : CpmName[p] \in Name
  BY TidyListing, MappingAssumption DEF Listable
<1>6. results' \in Seq(Path) /\ \A k \in DOMAIN results' : CpmName[results'[k]] \in Name
  <2>1. results' \in Seq(Listable)
    BY <1>2 DEF Lists
  <2>2. \A k \in DOMAIN results' : results'[k] \in Listable
    BY <2>1, ElementOfSeq
  <2>3. results' \in [1..Len(results') -> Path] /\ Len(results') \in Nat
    BY <1>5, <2>1, <2>2, LenProperties
  <2>4. results' \in Seq(Path)
    BY <2>3, SeqDef
  <2>5. QED  BY <1>5, <2>2, <2>4
<1>7. \A k \in DOMAIN results' : CpmName[results'[k]] \in pattern
  BY <1>3, <1>4, <1>6 DEF HasOnce
<1>8. \A n \in pattern : Found(n) => \E k \in DOMAIN results' : CpmName[results'[k]] = n
  BY <1>1, <1>3, <1>4 DEF HasOnce
<1>9. results' # <<>> => 1 \in DOMAIN results'
  BY <1>6
<1>10. QED  BY <1>6, <1>7, <1>8, <1>9 DEF SearchFirst, Deliver, EntryOf, host, ListsFiles

\* Search next moves on by one, or says that there is no more (2128-2170).
LEMMA NextStep ==
  ASSUME NEW k \in Nat, index = k, results \in Seq(Path), SearchNext
  PROVE  /\ UNCHANGED <<dir, data, fileMap, results>>
         /\ \/ /\ a' = Success /\ index' = k + 1 /\ k + 1 \in DOMAIN results
               /\ entry'.name = CpmName[results[k + 1]]
            \/ a' = Failure /\ index' = k /\ \A j \in DOMAIN results : ~(j >= k + 1)
<1>1. Len(results) \in Nat /\ DOMAIN results = 1..Len(results)
  BY LenProperties
<1>2. CASE index < Len(results)
  <2>1. k + 1 \in DOMAIN results
    BY <1>1, <1>2
  <2>2. QED  BY <1>2, <2>1 DEF SearchNext, Deliver, EntryOf, host
<1>3. CASE ~(index < Len(results))
  <2>1. \A j \in DOMAIN results : ~(j >= k + 1)
    BY <1>1, <1>3
  <2>2. QED  BY <1>3, <2>1 DEF SearchNext, search, host
<1>4. QED  BY <1>2, <1>3

\* Every call that the program may make before it erases keeps the directory tidy.
LEMMA ProgramTidy ==
  ASSUME OneFilePerName, Tidy, SearchProgramNext
  PROVE  Tidy'
<1>1. CASE Meanwhile
  <2>1. ASSUME NEW n \in Name, Delete(n) PROVE Tidy'
    BY <2>1, DeleteTidy
  <2>2. ASSUME NEW n \in Name, NEW new \in Name, Rename(n, new) PROVE Tidy'
    BY <2>2, RenameTidy
  <2>3. ASSUME NEW f \in Fcb, Close(f) PROVE Tidy'
    BY <2>3, TidyStays DEF Close
  <2>4. ASSUME NEW f \in Fcb, NEW n \in Name, Make(f, n) PROVE Tidy'
    BY <2>4, MakeTidy
  <2>5. QED  BY <1>1, <2>1, <2>2, <2>3, <2>4 DEF Meanwhile
<1>2. CASE SearchNext
  BY <1>2, TidyStays DEF SearchNext, host
<1>3. ASSUME NEW pattern \in Pattern83, SearchFirst(pattern) PROVE Tidy'
  BY <1>3, TidyStays DEF SearchFirst, host
<1>4. QED  BY <1>1, <1>2, <1>3 DEF SearchProgramNext

---------------------------------------------------------------------------
(* The program that erases what it finds                                    *)

\* Which names are found before and after a step that leaves the directory alone.
LEMMA FoundStays ==
  ASSUME UNCHANGED <<dir, data, fileMap>>, NEW n
  PROVE  Found(n)' <=> Found(n)
BY DEF Found, Lookup

LEMMA InitErase ==
  ASSUME OneFilePerName, EraseInit
  PROVE  EraseInv
<1>1. PICK disk \in InitialDisk : dir = disk.dir
  BY DEF EraseInit, SearchInit, Init
<1>2. dir \in Directory /\ fileMap \in FileMap
  BY <1>1, BdosFilesAssumption DEF EraseInit, SearchInit, Init, Idle
<1>3. fileMap = InitialMap
  BY DEF EraseInit, SearchInit, Init, Idle
<1>4. Tidy
  BY <1>1, <1>2, <1>3 DEF OneFilePerName, Tidy, TidyAs
<1>5. QED  BY <1>4 DEF EraseInit, SearchInit, EraseInv

\* The calls before the program starts.
LEMMA BeforeErase ==
  ASSUME OneFilePerName, EraseInv, Before
  PROVE  EraseInv'
<1>1. target' \in Pattern83 /\ pc' \in {"before", "first"}
  BY DEF EraseInv, Before, Goto
<1>2. Tidy'
  BY ProgramTidy, TidyStays DEF EraseInv, Before, vars, host
<1>3. index' \in Nat
  BY DEF EraseInv, Before, search, SearchProgramNext, SearchNext, SearchFirst, Meanwhile
<1>4. QED  BY <1>1, <1>2, <1>3 DEF EraseInv

\* Search first: what it lists is all there is to erase.
LEMMA FirstErase ==
  ASSUME OneFilePerName, EraseInv, SearchFirst(target),
         Goto(IF a' = Success THEN "delete" ELSE "done")
  PROVE  EraseInv'
<1>1. Tidy /\ target \in Pattern83 /\ target' = target /\ target \subseteq Name
  BY SearchAssumption DEF EraseInv, Goto
<1>2. /\ ListsFiles(results', target)
      /\ UNCHANGED <<dir, data, fileMap>>
      /\ \/ /\ a' = Success /\ index' = 1 /\ 1 \in DOMAIN results'
            /\ entry'.name = CpmName[results'[1]]
         \/ a' = Failure /\ results' = <<>> /\ index' = 0
  BY <1>1, ListingStep
<1>3. Tidy'
  BY <1>1, <1>2, TidyStays
<1>4. \A n \in target : Found(n)' => Found(n)
  BY <1>2, FoundStays
<1>5. CASE a' = Success
  <2>1. pc' = "delete"
    BY <1>5 DEF Goto
  <2>2. index' = 1 /\ 1 \in DOMAIN results' /\ entry'.name = CpmName[results'[1]]
    BY <1>2, <1>5 DEF Success, Failure
  <2>3. results' \in Seq(Path) /\ \A j \in DOMAIN results' : CpmName[results'[j]] \in target /\ j >= 1
    BY <1>2, LenProperties DEF ListsFiles
  <2>4. Remains(index)'
    BY <1>1, <1>2, <1>4, <2>2, <2>3 DEF Remains, ListsFiles
  <2>5. QED  BY <1>1, <1>3, <2>1, <2>2, <2>4 DEF EraseInv
<1>6. CASE a' # Success
  <2>1. pc' = "done" /\ results' = <<>> /\ index' = 0
    BY <1>2, <1>6 DEF Goto
  <2>2. \A n \in target : ~Found(n)'
    BY <1>2, <1>4, <2>1 DEF ListsFiles
  <2>3. AllErased'
    BY <1>1, <2>2 DEF AllErased, FoundNames
  <2>4. QED  BY <1>1, <1>3, <2>1, <2>3 DEF EraseInv
<1>7. QED  BY <1>5, <1>6

\* Search next: what lies behind the index is all there is left.
LEMMA NextErase ==
  ASSUME OneFilePerName, EraseInv, pc = "next", SearchNext,
         Goto(IF a' = Success THEN "delete" ELSE "done")
  PROVE  EraseInv'
<1>1. /\ Tidy /\ target \in Pattern83 /\ target' = target /\ index \in Nat
      /\ Remains(index + 1) /\ results \in Seq(Path)
  BY DEF EraseInv, Goto, Remains
<1>2. /\ UNCHANGED <<dir, data, fileMap, results>>
      /\ \/ /\ a' = Success /\ index' = index + 1 /\ index + 1 \in DOMAIN results
            /\ entry'.name = CpmName[results[index + 1]]
         \/ a' = Failure /\ index' = index /\ \A j \in DOMAIN results : ~(j >= index + 1)
  BY <1>1, NextStep
<1>3. Tidy'
  BY <1>1, <1>2, TidyStays
<1>4. \A n \in target : Found(n)' => Found(n)
  BY <1>2, FoundStays
<1>5. CASE a' = Success
  <2>1. pc' = "delete" /\ index' = index + 1
    BY <1>2, <1>5 DEF Goto, Success, Failure
  <2>2. index + 1 \in DOMAIN results /\ entry'.name = CpmName[results[index + 1]]
    BY <1>2, <1>5 DEF Success, Failure
  <2>3. Remains(index)'
    BY <1>1, <1>2, <1>4, <2>1 DEF Remains
  <2>4. QED  BY <1>1, <1>2, <1>3, <2>1, <2>2, <2>3 DEF EraseInv
<1>6. CASE a' # Success
  <2>1. pc' = "done" /\ index' = index
    BY <1>2, <1>6 DEF Goto
  <2>2. \A n \in target : ~Found(n)'
    BY <1>1, <1>2, <1>4, <1>6 DEF Remains
  <2>3. AllErased'
    BY <1>1, <2>2 DEF AllErased, FoundNames
  <2>4. QED  BY <1>1, <1>3, <2>1, <2>3 DEF EraseInv
<1>7. QED  BY <1>5, <1>6

\* The entry's name is the target's, and its file is the only one that goes.
LEMMA DeleteErase ==
  ASSUME OneFilePerName, EraseInv, pc = "delete", Delete(entry.name), Goto("next"), UNCHANGED search
  PROVE  /\ EraseInv'
         /\ (FoundNames \ target) \subseteq FoundNames'
<1> DEFINE gone == entry.name
<1>1. /\ Tidy /\ target \in Pattern83 /\ index \in Nat /\ Remains(index)
      /\ index \in DOMAIN results /\ gone = CpmName[results[index]]
  BY DEF EraseInv
<1>2. UNCHANGED <<results, index, target>> /\ pc' = "next"
  BY DEF search, Goto
<1>3. gone \in target /\ target \subseteq Name
  BY <1>1, SearchAssumption DEF Remains
<1>4. /\ Tidy'
      /\ \A m \in Name : Exists(dir', Lower[m]) <=> Exists(dir, Lower[m]) /\ m # gone
  BY <1>1, <1>3, DeleteTidy
<1> HIDE DEF gone
<1>5. \A m \in Name : Found(m)' <=> Found(m) /\ m # gone
  BY <1>1, <1>4, FoundIsThere, FoundIsThereNext
<1>6. ASSUME NEW n \in target, Found(n)'
      PROVE  \E j \in DOMAIN results : j >= index + 1 /\ CpmName[results[j]] = n
  <2>1. Found(n) /\ n # gone
    BY <1>3, <1>5, <1>6
  <2>2. PICK j \in DOMAIN results : j >= index /\ CpmName[results[j]] = n
    BY <1>1, <2>1 DEF Remains
  <2>3. j # index
    BY <1>1, <2>1, <2>2
  <2>4. j \in Nat
    BY <1>1, LenProperties DEF Remains
  <2>5. QED  BY <1>1, <2>2, <2>3, <2>4
<1>7. Remains(index + 1)'
  BY <1>1, <1>2, <1>6 DEF Remains
<1>8. (FoundNames \ target) \subseteq FoundNames'
  BY <1>3, <1>5 DEF FoundNames
<1>9. QED  BY <1>1, <1>2, <1>4, <1>7, <1>8 DEF EraseInv

LEMMA EraseStep ==
  ASSUME OneFilePerName
  PROVE  EraseInv /\ [EraseNext]_eraseVars => EraseInv'
<1> SUFFICES ASSUME EraseInv, [EraseNext]_eraseVars PROVE EraseInv'
  OBVIOUS
<1>1. CASE Before
  BY <1>1, BeforeErase
<1>2. CASE Search
  BY <1>2, FirstErase, NextErase DEF Search
<1>3. CASE Erase
  BY <1>3, DeleteErase DEF Erase
<1>4. CASE UNCHANGED eraseVars
  <2>1. UNCHANGED <<dir, data, fileMap, results, index, entry, pc, target>>
    BY <1>4 DEF eraseVars, vars, search
  <2>2. Tidy'
    BY <2>1, TidyStays DEF EraseInv
  <2>3. FoundNames' = FoundNames
    BY <2>1, FoundStays DEF FoundNames
  <2>4. Remains(index)' <=> Remains(index)
    BY <2>1, FoundStays DEF Remains
  <2>5. Remains(index + 1)' <=> Remains(index + 1)
    BY <2>1, FoundStays DEF Remains
  <2>6. QED  BY <2>1, <2>2, <2>3, <2>4, <2>5 DEF EraseInv, AllErased
<1>5. QED  BY <1>1, <1>2, <1>3, <1>4 DEF EraseNext, Ended

LEMMA EraseInvHolds ==
  ASSUME OneFilePerName
  PROVE  EraseSpec => []EraseInv
<1>1. EraseInit => EraseInv
  BY InitErase
<1>2. EraseInv /\ [EraseNext]_eraseVars => EraseInv'
  BY EraseStep
<1>3. QED  BY <1>1, <1>2, PTL DEF EraseSpec

---------------------------------------------------------------------------
(* What follows                                                             *)

\* The program erases every file that the pattern matches, though each deletion changes
\* the directory under the search (1974-2170).
THEOREM SearchErasesAll ==
  ASSUME OneFilePerName
  PROVE  EraseSpec => []AllErased
<1>1. EraseInv => AllErased
  BY DEF EraseInv, AllErased
<1>2. EraseSpec => []EraseInv
  BY EraseInvHolds
<1>3. QED  BY <1>1, <1>2, PTL

\* And none besides (1670-1688, 1974-2170).
THEOREM SearchErasesOnlyMatches ==
  ASSUME OneFilePerName
  PROVE  EraseSpec => OnlyMatchesErased
<1>1. EraseInv /\ [EraseNext]_eraseVars
        => [pc # "before" => (FoundNames \ target) \subseteq FoundNames']_eraseVars
  <2> SUFFICES ASSUME EraseInv, EraseNext, pc # "before"
               PROVE  (FoundNames \ target) \subseteq FoundNames'
    OBVIOUS
  <2>1. CASE Search
    <3>1. /\ Tidy /\ target \in Pattern83
      BY DEF EraseInv
    <3>2. UNCHANGED <<dir, data, fileMap>>
      BY <2>1 DEF Search, SearchFirst, SearchNext, host
    <3>3. QED  BY <3>2, FoundStays DEF FoundNames
  <2>2. CASE Erase
    BY <2>2, DeleteErase DEF Erase
  <2>3. CASE Ended
    <3>1. UNCHANGED <<dir, data, fileMap>>
      BY <2>3 DEF Ended, eraseVars, vars
    <3>2. QED  BY <3>1, FoundStays DEF FoundNames
  <2>4. QED  BY <2>1, <2>2, <2>3 DEF EraseNext, Before
<1>2. EraseSpec => []EraseInv
  BY EraseInvHolds
<1>3. QED  BY <1>1, <1>2, PTL DEF EraseSpec, OnlyMatchesErased

=============================================================================
