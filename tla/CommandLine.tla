----------------------------- MODULE CommandLine -----------------------------
(***************************************************************************)
(* How src/src/cpmemu.cc hands its command line to the program: main       *)
(* prepares page zero (setup_memory), writes the command tail at 0080h and *)
(* the first two arguments into the FCBs at 005Ch and 006Ch                *)
(* (setup_command_line), and maps the names of arguments that are files to *)
(* their paths.  The three areas of memory overlap, so the order of the    *)
(* writes and their extents matter; characters are their ASCII codes.      *)
(***************************************************************************)
EXTENDS Integers, Sequences, FiniteSets, SequencesExt

CONSTANTS
  Argument,     \* what the user may pass: sequences of characters
  Regular,      \* the arguments that name a regular file
  MaxArgs       \* bound of the model: arguments passed

ASSUME CommandLineAssumption ==
  /\ Argument \subseteq Seq(1..127) \ {<<>>} /\ Regular \subseteq Argument /\ MaxArgs \in Nat

DefaultFcb  == 92     \* 005Ch
DefaultFcb2 == 108    \* 006Ch
DefaultDma  == 128    \* 0080h
FcbSize     == 36
TailMax     == 127

Address == DefaultFcb..255      \* the part of page zero that is written here

Space == 32
Dot   == 46
Slash == 47
Colon == 58

ToUpper(c) == IF c \in 97..122 THEN c - 32 ELSE c

Upper(name) == [k \in DOMAIN name |-> ToUpper(name[k])]

VARIABLES
  argv,      \* the arguments after the program
  step,      \* what main does next
  mem,       \* the bytes at Address
  fileMap    \* file_map: a function from names to arguments

pageZero == <<argv, step, mem, fileMap>>

SetupInit ==
  /\ argv \in SeqOf(Argument, MaxArgs) /\ step = "memory"
  /\ mem = [i \in Address |-> 0] /\ fileMap = <<>>

---------------------------------------------------------------------------
(* Names                                                                    *)

\* The places of a character in a name.
Places(name, c) == {k \in DOMAIN name : name[k] = c}

SmallestOf(S) == CHOOSE k \in S : \A j \in S : k <= j
LargestOf(S)  == CHOOSE k \in S : \A j \in S : k >= j

\* Where the first dot from place k on is; after the end if there is none.
DotFrom(name, k) ==
  LET dots == {j \in Places(name, Dot) : j >= k}
  IN  IF dots = {} THEN Len(name) + 1 ELSE SmallestOf(dots)

FirstOf(name, n) == SubSeq(name, 1, IF n < Len(name) THEN n ELSE Len(name))

\* The argument without its directories.
Base(name) ==
  LET slashes == Places(name, Slash)
  IN  IF slashes = {} THEN name ELSE SubSeq(name, LargestOf(slashes) + 1, Len(name))

\* The command tail: each argument's base name after a space, a long one cut to 8.
TailWord(name) ==
  LET base == Upper(Base(name))
      dot  == DotFrom(base, 1)
  IN  <<Space>> \o IF dot <= Len(base) /\ dot > 9
                   THEN FirstOf(base, 8) \o SubSeq(base, dot, Len(base)) ELSE base

CommandTail == FlattenSeq([k \in DOMAIN argv |-> TailWord(argv[k])])

\* A field of an FCB: padded with spaces.
Padded(field, width) ==
  [k \in 1..width |-> IF k \in DOMAIN field THEN field[k] ELSE Space]

HasDrive(name) == Len(name) >= 2 /\ name[2] = Colon /\ name[1] \in 65..80

\* filename_to_fcb's 36 bytes: drive, name, extension, zeros.
FcbBytes(argument) ==
  LET name  == Upper(argument)
      from  == IF HasDrive(name) THEN 3 ELSE 1
      dot   == DotFrom(name, from)
      drive == IF HasDrive(name) THEN name[1] - 64 ELSE 0
  IN  <<drive>> \o Padded(SubSeq(name, from, dot - 1), 8)
                \o Padded(SubSeq(name, dot + 1, Len(name)), 3)
                \o [k \in 1..(FcbSize - 12) |-> 0]

\* fcb_to_filename: what a BDOS call makes of the 12 bytes of an FCB.
FcbName(bytes) ==
  LET Word(from, to) == SelectSeq(SubSeq(bytes, from, to), LAMBDA c : c # Space)
  IN  Word(2, 9) \o IF Word(10, 12) = <<>> THEN <<>> ELSE <<Dot>> \o Word(10, 12)

\* Faulty: only the whole name.
MappedWhole(argument) == {SelectSeq(Upper(Base(argument)), LAMBDA c : c # Space)}

\* The names main maps to an argument: its base name, whole and cut to 8.3.
MappedNames(argument) ==
  LET name == Upper(Base(argument))
      dot  == DotFrom(name, 1)
      cut  == FirstOf(SubSeq(name, 1, dot - 1), 8) \o FirstOf(SubSeq(name, dot, Len(name)), 4)
      Normalized(s) == SelectSeq(s, LAMBDA c : c # Space)
  IN  {Normalized(name), Normalized(cut)}

---------------------------------------------------------------------------
(* main                                                                     *)

\* memcpy or memset: bytes at addresses from on.
Store(from, bytes) ==
  \E b \in {bytes} :
    mem' = [i \in Address |-> IF i \in from..(from + Len(b) - 1) THEN b[i - from + 1] ELSE mem[i]]

Zeros(n) == [k \in 1..n |-> 0]

\* Only what lies in page zero from 005Ch on; the jumps and tables are elsewhere.
SetupMemory ==
  /\ step = "memory" /\ step' = "tail"
  /\ Store(DefaultFcb, Zeros(FcbSize))      \* covers the 20 bytes at DefaultFcb2
  /\ UNCHANGED <<argv, fileMap>>

StoreTail ==
  /\ step = "tail" /\ step' = "first"
  /\ LET tail == FirstOf(CommandTail, TailMax) IN Store(DefaultDma, <<Len(tail)>> \o tail)
  /\ UNCHANGED <<argv, fileMap>>

\* Faulty: counts the program among the arguments.
ParseFirstOfTwo ==
  /\ step = "first" /\ step' = "second"
  /\ \/ Len(argv) >= 2 /\ Store(DefaultFcb, FcbBytes(argv[1]))
     \/ Len(argv) < 2 /\ mem' = mem
  /\ UNCHANGED <<argv, fileMap>>

ParseFirst ==
  /\ step = "first" /\ step' = "second"
  /\ \/ Len(argv) >= 1 /\ Store(DefaultFcb, FcbBytes(argv[1]))
     \/ Len(argv) < 1 /\ mem' = mem
  /\ UNCHANGED <<argv, fileMap>>

ParseSecond ==
  /\ step = "second" /\ step' = "map"
  /\ \/ Len(argv) >= 2 /\ Store(DefaultFcb2, FcbBytes(argv[2]))
     \/ Len(argv) < 2 /\ mem' = mem
  /\ UNCHANGED <<argv, fileMap>>

\* The loop over the arguments: a later one replaces what an earlier one mapped.
Mappers(n) == {k \in DOMAIN argv : argv[k] \in Regular /\ n \in MappedNames(argv[k])}

AddMappings ==
  /\ step = "map" /\ step' = "run"
  /\ fileMap' = [n \in {m \in UNION {MappedNames(argv[k]) : k \in DOMAIN argv} : Mappers(m) # {}}
                   |-> argv[LargestOf(Mappers(n))]]
  /\ UNCHANGED <<argv, mem>>

\* The steps of main in their order; Emulator takes them on its way to the run loop.
Setup == SetupMemory \/ StoreTail \/ ParseFirst \/ ParseSecond \/ AddMappings

---------------------------------------------------------------------------
(* Properties                                                               *)

BytesAt(from, n) == [k \in 1..n |-> mem[from + k - 1]]

FcbAt(k) == BytesAt(IF k = 1 THEN DefaultFcb ELSE DefaultFcb2, 12)

Parsed(k) == k \in DOMAIN argv /\ (step \in {"map", "run"} \/ (k = 1 /\ step = "second"))

\* Each of the two FCBs holds its argument: parsing the second, whose 36 bytes go
\* beyond the first's, leaves drive, name and extension of the first (994-1049).
FcbsHoldArguments ==
  \A k \in {1, 2} : Parsed(k) => FcbAt(k) = SubSeq(FcbBytes(argv[k]), 1, 12)

TailInPlace ==
  LET tail == FirstOf(CommandTail, TailMax)
  IN  BytesAt(DefaultDma, Len(tail) + 1) = <<Len(tail)>> \o tail

\* The program finds the command tail at 0080h, whatever its arguments (546).
TailKept == step = "run" => TailInPlace

\* Open on a default FCB looks up the name that main mapped to the argument, or to
\* a later one of the same 8.3 name (2560-2600).
Leads(k) ==
  LET name == FcbName(FcbAt(k))
  IN  /\ name \in DOMAIN fileMap
      /\ \E j \in k..Len(argv) : fileMap[name] = argv[j] /\ name \in MappedNames(argv[j])

Arguments == {k \in {1, 2} \cap DOMAIN argv : argv[k] \in Regular}

\* A name of the current directory, which ends in no dot.
Plain(name) == Places(name, Slash) \cup Places(name, Colon) = {} /\ name[Len(name)] # Dot

\* The file of the current directory that an argument names can be opened through
\* its default FCB, also when its name had to be cut to 8.3 (510-562, 2560-2600).
PlainArgumentOpens == step = "run" => \A k \in Arguments : Plain(argv[k]) => Leads(k)
=============================================================================
