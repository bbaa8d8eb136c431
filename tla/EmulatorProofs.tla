---------------------------- MODULE EmulatorProofs ----------------------------
(***************************************************************************)
(* The set-up of the page below the program and the end of the process,    *)
(* for every command line and every program: the two FCBs of the command   *)
(* line hold what its first two arguments say, also after the second has   *)
(* been written over the end of the first, and the terminal is as it was   *)
(* found when the process has ended, however it ends.                      *)
(***************************************************************************)
EXTENDS Emulator, SequenceTheorems, TLAPS

\* A function on 1..n is a sequence of n.
LEMMA FunctionIsSeq ==
  ASSUME NEW n \in Nat, NEW g, g = [k \in 1..n |-> g[k]]
  PROVE  \E S : g \in Seq(S) /\ Len(g) = n
<1> DEFINE S == {g[k] : k \in 1..n}
<1>1. g \in [1..n -> S]
  OBVIOUS
<1>2. g \in Seq(S) /\ Len(g) = n
  BY <1>1
<1>3. QED  BY <1>2

\* The length of four sequences joined.
LEMMA JoinedLength ==
  ASSUME NEW S, NEW p \in Seq(S), NEW q \in Seq(S), NEW r \in Seq(S), NEW z \in Seq(S)
  PROVE  /\ p \o q \o r \o z \in Seq(S)
         /\ Len(p \o q \o r \o z) = ((Len(p) + Len(q)) + Len(r)) + Len(z)
<1> DEFINE pq == p \o q
           pqr == pq \o r
<1>1. pq \in Seq(S) /\ Len(pq) = Len(p) + Len(q)
  BY ConcatProperties
<1> HIDE DEF pq
<1>2. pqr \in Seq(S) /\ Len(pqr) = Len(pq) + Len(r)
  BY <1>1, ConcatProperties
<1> HIDE DEF pqr
<1>3. pqr \o z \in Seq(S) /\ Len(pqr \o z) = Len(pqr) + Len(z)
  BY <1>2, ConcatProperties
<1>4. pqr \o z = p \o q \o r \o z
  BY DEF pq, pqr
<1> DEFINE all == p \o q \o r \o z
<1> HIDE DEF all
<1>5. pqr \o z = all
  BY <1>4 DEF all
<1>6. all \in Seq(S) /\ Len(all) = ((Len(p) + Len(q)) + Len(r)) + Len(z)
  BY <1>1, <1>2, <1>3, <1>5
<1>7. QED  BY <1>6 DEF all

\* The bytes of an FCB are FcbSize.
LEMMA FcbLength ==
  ASSUME NEW argument
  PROVE  \E S : FcbBytes(argument) \in Seq(S) /\ Len(FcbBytes(argument)) = FcbSize
<1> DEFINE name  == Upper(argument)
           from  == IF HasDrive(name) THEN 3 ELSE 1
           dot   == DotFrom(name, from)
           drive == IF HasDrive(name) THEN name[1] - 64 ELSE 0
           p == <<drive>>
           q == Padded(SubSeq(name, from, dot - 1), 8)
           r == Padded(SubSeq(name, dot + 1, Len(name)), 3)
           z == [k \in 1..(FcbSize - 12) |-> 0]
<1>1. FcbBytes(argument) = p \o q \o r \o z
  BY DEF FcbBytes
<1>2. PICK Q : q \in Seq(Q) /\ Len(q) = 8
  <2>1. q = [k \in 1..8 |-> q[k]]
    BY DEF Padded
  <2> HIDE DEF q
  <2>2. QED  BY <2>1, FunctionIsSeq
<1>3. PICK R : r \in Seq(R) /\ Len(r) = 3
  <2>1. r = [k \in 1..3 |-> r[k]]
    BY DEF Padded
  <2> HIDE DEF r
  <2>2. QED  BY <2>1, FunctionIsSeq
<1>4. z \in Seq({0}) /\ Len(z) = 24
  BY DEF FcbSize
<1>5. p \in Seq({drive}) /\ Len(p) = 1
  <2> HIDE DEF drive
  <2>1. QED OBVIOUS
<1> HIDE DEF p, q, r, z
<1> DEFINE S == {drive} \cup Q \cup R \cup {0}
<1>6. p \in Seq(S) /\ q \in Seq(S) /\ r \in Seq(S) /\ z \in Seq(S)
  <2>1. \A A, B : A \subseteq B => Seq(A) \subseteq Seq(B)
    OBVIOUS
  <2>2. {drive} \subseteq S /\ Q \subseteq S /\ R \subseteq S /\ {0} \subseteq S
    OBVIOUS
  <2> HIDE DEF S
  <2>3. QED  BY <1>2, <1>3, <1>4, <1>5, <2>1, <2>2
<1> HIDE DEF S
<1>7. /\ FcbBytes(argument) \in Seq(S)
      /\ Len(FcbBytes(argument)) = ((Len(p) + Len(q)) + Len(r)) + Len(z)
  BY <1>1, <1>6, JoinedLength
<1>8. Len(FcbBytes(argument)) = 36
  BY <1>2, <1>3, <1>4, <1>5, <1>7
<1>9. QED  BY <1>7, <1>8 DEF FcbSize

\* What Store leaves: the bytes where they were put, the rest as it was.
LEMMA StoreLeaves ==
  ASSUME NEW b, NEW S, b \in Seq(S), Len(b) = FcbSize, NEW from \in {DefaultFcb, DefaultFcb2},
         Store(from, b)
  PROVE  /\ \A k \in 1..12 : mem'[(from + k) - 1] = b[k]
         /\ from = DefaultFcb2 =>
              \A k \in 1..12 : mem'[(DefaultFcb + k) - 1] = mem[(DefaultFcb + k) - 1]
<1>1. mem' = [i \in Address |-> IF i \in from..(from + Len(b) - 1) THEN b[i - from + 1] ELSE mem[i]]
  <2>1. PICK c \in {b} :
          mem' = [i \in Address |->
                    IF i \in from..(from + Len(c) - 1) THEN c[i - from + 1] ELSE mem[i]]
    BY DEF Store
  <2>2. c = b
    OBVIOUS
  <2>3. QED  BY <2>1, <2>2
<1> USE DEF DefaultFcb, DefaultFcb2, FcbSize, Address
<1>2. ASSUME NEW k \in 1..12  PROVE mem'[(from + k) - 1] = b[k]
  <2> DEFINE i == (from + k) - 1
  <2>1. i \in Address /\ i \in from..(from + Len(b) - 1) /\ i - from + 1 = k
    OBVIOUS
  <2> HIDE DEF i
  <2>2. mem'[i] = b[k]
    BY <1>1, <2>1
  <2>3. QED  BY <2>2 DEF i
<1>3. ASSUME from = DefaultFcb2, NEW k \in 1..12
      PROVE  mem'[(DefaultFcb + k) - 1] = mem[(DefaultFcb + k) - 1]
  <2> DEFINE i == (DefaultFcb + k) - 1
  <2>1. i \in Address /\ i \notin from..(from + Len(b) - 1)
    BY <1>3
  <2> HIDE DEF i
  <2>2. QED  BY <1>1, <2>1 DEF i
<1>4. QED  BY <1>2, <1>3

\* Where the FCB of the k-th argument begins.
Fcb(k) == IF k = 1 THEN DefaultFcb ELSE DefaultFcb2

\* FcbsHoldArguments, byte by byte.
Held(k) == \A h \in 1..12 : mem[(Fcb(k) + h) - 1] = FcbBytes(argv[k])[h]

\* What every step keeps: an argument that has been parsed is in its FCB.
SetupInv ==
  /\ argv \in Seq(Argument)
  /\ step \in {"memory", "tail", "first", "second", "map", "run"}
  /\ \A k \in {1, 2} : Parsed(k) => Held(k)

\* No argument is parsed at first.
LEMMA SetupInitInv == Init => SetupInv
<1> SUFFICES ASSUME Init  PROVE SetupInv
  OBVIOUS
<1>1. argv \in Seq(Argument)
  <2>1. PICK m \in 0..MaxArgs : argv \in [1..m -> Argument]
    BY DEF Init, SetupInit, SeqOf
  <2>2. m \in Nat
    BY CommandLineAssumption
  <2>3. QED  BY <2>1, <2>2
<1>2. step = "memory"
  BY DEF Init, SetupInit
<1>3. QED  BY <1>1, <1>2 DEF SetupInv, Parsed

\* Parsing the second argument leaves the twelve bytes that the first has written.
LEMMA ParseInv ==
  ASSUME SetupInv, ParseFirst \/ ParseSecond
  PROVE  SetupInv'
<1>1. argv \in Seq(Argument) /\ argv' = argv /\ argv' \in Seq(Argument)
  BY DEF SetupInv, ParseFirst, ParseSecond
<1>2. \A k \in {1, 2} : k \in DOMAIN argv <=> Len(argv) >= k
  BY <1>1, LenProperties
<1>3. CASE ParseFirst
  <2>1. step = "first" /\ step' = "second"
    BY <1>3 DEF ParseFirst
  <2>2. ASSUME 1 \in DOMAIN argv  PROVE Held(1)'
    <3>1. Store(DefaultFcb, FcbBytes(argv[1]))
      BY <1>2, <1>3, <2>2 DEF ParseFirst
    <3>2. \A h \in 1..12 : mem'[(DefaultFcb + h) - 1] = FcbBytes(argv[1])[h]
      BY <3>1, FcbLength, StoreLeaves
    <3>3. QED  BY <1>1, <3>2 DEF Held, Fcb
  <2>3. \A k \in {1, 2} : Parsed(k)' => k = 1 /\ 1 \in DOMAIN argv
    BY <1>1, <2>1 DEF Parsed
  <2>4. \A k \in {1, 2} : Parsed(k)' => Held(k)'
    BY <2>2, <2>3
  <2>5. QED  BY <1>1, <2>1, <2>4 DEF SetupInv
<1>4. CASE ParseSecond
  <2>1. step = "second" /\ step' = "map"
    BY <1>4 DEF ParseSecond
  <2>2. ASSUME 1 \in DOMAIN argv  PROVE Held(1)
    BY <2>1, <2>2 DEF SetupInv, Parsed
  <2>3. CASE Len(argv) >= 2
    <3>1. Store(DefaultFcb2, FcbBytes(argv[2])) /\ 1 \in DOMAIN argv
      <4>1. Len(argv) >= 1 /\ ~(Len(argv) < 2)
        BY <2>3, <1>1, LenProperties
      <4>2. QED  BY <4>1, <1>2, <1>4 DEF ParseSecond
    <3>2. /\ \A h \in 1..12 : mem'[(DefaultFcb2 + h) - 1] = FcbBytes(argv[2])[h]
          /\ \A h \in 1..12 : mem'[(DefaultFcb + h) - 1] = mem[(DefaultFcb + h) - 1]
      BY <3>1, FcbLength, StoreLeaves
    <3>3. Held(1)'
      BY <1>1, <2>2, <3>1, <3>2 DEF Held, Fcb
    <3>4. Held(2)'
      BY <1>1, <3>2 DEF Held, Fcb
    <3>5. QED  BY <1>1, <2>1, <3>3, <3>4 DEF SetupInv
  <2>4. CASE ~(Len(argv) >= 2)
    <3>1. mem' = mem
      BY <1>4, <2>4 DEF ParseSecond
    <3>2. \A k \in {1, 2} : Parsed(k)' => k = 1 /\ 1 \in DOMAIN argv
      BY <1>1, <1>2, <2>4 DEF Parsed
    <3>3. 1 \in DOMAIN argv => Held(1)'
      BY <1>1, <2>2, <3>1 DEF Held, Fcb
    <3>4. \A k \in {1, 2} : Parsed(k)' => Held(k)'
      BY <3>2, <3>3
    <3>5. QED  BY <1>1, <2>1, <3>4 DEF SetupInv
  <2>5. QED  BY <2>3, <2>4
<1>5. QED  BY <1>3, <1>4

\* Once an argument is parsed only the parsing of the next one writes to its FCB
\* (setup_command_line of src/src/cpmemu.cc).
LEMMA SetupStep ==
  ASSUME SetupInv, [Next]_vars
  PROVE  SetupInv'
<1>1. CASE UNCHANGED pageZero
  <2>1. argv' = argv /\ step' = step /\ mem' = mem
    BY <1>1 DEF pageZero
  <2>2. \A k \in {1, 2} : (Parsed(k)' <=> Parsed(k)) /\ (Held(k)' <=> Held(k))
    BY <2>1 DEF Parsed, Held, Fcb
  <2>3. QED  BY <2>1, <2>2 DEF SetupInv
<1>2. CASE SetupMemory
  <2>1. step' = "tail" /\ argv' = argv
    BY <1>2 DEF SetupMemory
  <2>2. QED  BY <2>1 DEF SetupInv, Parsed
<1>3. CASE StoreTail
  <2>1. step' = "first" /\ argv' = argv
    BY <1>3 DEF StoreTail
  <2>2. QED  BY <2>1 DEF SetupInv, Parsed
<1>4. CASE ParseFirst \/ ParseSecond
  BY <1>4, ParseInv
<1>5. CASE AddMappings
  <2>1. argv' = argv /\ step = "map" /\ step' = "run" /\ mem' = mem
    BY <1>5 DEF AddMappings
  <2>2. \A k \in {1, 2} : (Parsed(k)' <=> Parsed(k)) /\ (Held(k)' <=> Held(k))
    BY <2>1 DEF Parsed, Held, Fcb
  <2>3. QED  BY <2>1, <2>2 DEF SetupInv
<1>6. UNCHANGED pageZero \/ SetupMemory \/ StoreTail \/ ParseFirst \/ ParseSecond \/ AddMappings
  <2>1. CASE ParseOptions \/ LoadProgram
    BY <2>1 DEF ParseOptions, LoadProgram, Opened, Ahead
  <2>2. CASE EnableRawMode \/ LoadConfig
    BY <2>2 DEF EnableRawMode, LoadConfig, Opened, Ahead
  <2>3. CASE SetUp
    BY <2>3 DEF SetUp, Setup
  <2>4. CASE TrapBoot \/ TrapBdos \/ TrapBios
    BY <2>4 DEF TrapBoot, TrapBdos, TrapBios, TrapReturn, Stay
  <2>5. CASE Execute
    BY <2>5 DEF Execute
  <2>6. CASE Exited \/ UNCHANGED vars
    BY <2>6 DEF Exited, vars
  <2>7. QED  BY <2>1, <2>2, <2>3, <2>4, <2>5, <2>6 DEF Next
<1>7. QED  BY <1>1, <1>2, <1>3, <1>4, <1>5, <1>6

\* The first twelve bytes of an FCB, as a function.
LEMMA SubSeqTwelve ==
  ASSUME NEW S, NEW b \in Seq(S), Len(b) = FcbSize
  PROVE  SubSeq(b, 1, 12) = [h \in 1..12 |-> b[h]]
<1>1. Len(b) \in Nat /\ Len(b) = 36
  BY DEF FcbSize
<1>2. ASSUME NEW h \in 1..12  PROVE b[h] \in S
  <2>1. h \in 1..Len(b)
    BY <1>1
  <2>2. QED  BY <2>1, ElementOfSeq
<1>3. QED  BY <1>1, <1>2, SubSeqProperties

\* The FCBs at 005Ch and 006Ch hold the drive, the name and the extension of the
\* first and the second argument once they are parsed, although the one at 005Ch
\* is 36 bytes long and the other begins 16 bytes into it (setup_command_line).
THEOREM FcbsAreKept == Spec => []FcbsHoldArguments
<1>1. Init => SetupInv
  BY SetupInitInv
<1>2. SetupInv /\ [Next]_vars => SetupInv'
  BY SetupStep
<1>3. SetupInv => FcbsHoldArguments
  <2> SUFFICES ASSUME SetupInv, NEW k \in {1, 2}, Parsed(k)
               PROVE  FcbAt(k) = SubSeq(FcbBytes(argv[k]), 1, 12)
    BY DEF FcbsHoldArguments
  <2>1. Held(k)
    BY DEF SetupInv
  <2>2. SubSeq(FcbBytes(argv[k]), 1, 12) = [h \in 1..12 |-> FcbBytes(argv[k])[h]]
    BY FcbLength, SubSeqTwelve
  <2>3. \A h \in 1..12 : mem[Fcb(k) + h - 1] = mem[(Fcb(k) + h) - 1]
    BY DEF Fcb, DefaultFcb, DefaultFcb2
  <2>4. FcbAt(k) = [h \in 1..12 |-> mem[Fcb(k) + h - 1]]
    BY DEF FcbAt, BytesAt, Fcb
  <2>5. \A h \in 1..12 : mem[Fcb(k) + h - 1] = FcbBytes(argv[k])[h]
    BY <2>1, <2>3 DEF Held
  <2> HIDE DEF Fcb
  <2>6. QED  BY <2>2, <2>4, <2>5
<1>4. QED  BY <1>1, <1>2, <1>3, PTL DEF Spec

\* Whenever the process has ended, by exit or by running to the end, the terminal
\* is back in the mode it was found in (enable_raw_mode, disable_raw_mode).
THEOREM TerminalIsRestored == Spec => []TerminalRestored
<1>1. Init => TerminalRestored
  BY DEF Init, TerminalRestored
<1>2. TerminalRestored /\ [Next]_vars => TerminalRestored'
  <2> SUFFICES ASSUME TerminalRestored, [Next]_vars  PROVE TerminalRestored'
    OBVIOUS
  <2> USE DEF TerminalRestored
  <2>1. CASE ParseOptions
    BY <2>1 DEF ParseOptions, Leave, Ahead
  <2>2. CASE EnableRawMode
    BY <2>2 DEF EnableRawMode, Ahead
  <2>3. CASE LoadConfig
    BY <2>3 DEF LoadConfig, Opened, Leave, Ahead
  <2>4. CASE SetUp
    BY <2>4 DEF SetUp
  <2>5. CASE LoadProgram
    BY <2>5 DEF LoadProgram, Opened, Leave, Ahead
  <2>6. CASE TrapBoot \/ TrapBdos \/ TrapBios
    BY <2>6 DEF TrapBoot, TrapBdos, TrapBios, TrapReturn, Leave, Stay
  <2>7. CASE Execute
    BY <2>7 DEF Execute, Counted, Leave, Stay
  <2>8. CASE Exited \/ UNCHANGED vars
    BY <2>8 DEF Exited, vars, process
  <2>9. QED  BY <2>1, <2>2, <2>3, <2>4, <2>5, <2>6, <2>7, <2>8 DEF Next
<1>3. QED  BY <1>1, <1>2, PTL DEF Spec
=============================================================================
