-------------------------- MODULE ProcessorProofs --------------------------
(***************************************************************************)
(* One instruction of the processor, for all registers, all flags and all  *)
(* contents of the memory: it leaves a state of the processor (Types), an  *)
(* 8080 does nothing an 8080 cannot, and two processors before the same    *)
(* instruction (Together) are in the same state behind it (MeetAgain).     *)
(* The first theorems are about AnySpec of Twins, those of a repeated      *)
(* block about AnyBlockSpec of BlockProgram, that of an operation on A     *)
(* about AnyNumberSpec of NumberProgram.  What is equal in both modes      *)
(* is not what the code does but what it comes to: 8080 and Z80 compute    *)
(* half carries, overflow and the carry of DAD in different ways.          *)
(***************************************************************************)
EXTENDS Twins, BlockProgram, StackProgram, NumberProgram, SequenceTheorems, TLAPS

-----------------------------------------------------------------------------
(* Bytes, words and digits                                                   *)

\* A range of integers by its bounds: the solver need not expand Byte and Word.
LEMMA UpTo == \A m \in Int : \A x : x \in 0..m <=> x \in Int /\ 0 <= x /\ x <= m
  BY SMT

\* A byte is a number from 0 to 255.
LEMMA InByte == \A x : x \in Byte <=> x \in Int /\ 0 <= x /\ x <= 255
<1> DEFINE m == 255
<1>1. m \in Int /\ m <= 255 /\ 255 <= m
  BY SMT
<1>2. Byte = 0..m
  BY DEF Byte
<1> HIDE DEF m
<1>3. \A x : x \in 0..m <=> x \in Int /\ 0 <= x /\ x <= m
  BY SMT, <1>1, UpTo
<1>4. \A x \in Int : x <= m <=> x <= 255
  BY SMT, <1>1
<1>5. QED  BY SMT, <1>2, <1>3, <1>4

\* A word is a number from 0 to 65535.
LEMMA InWord == \A x : x \in Word <=> x \in Int /\ 0 <= x /\ x <= 65535
<1> DEFINE m == 65535
<1>1. m \in Int /\ m <= 65535 /\ 65535 <= m
  BY SMT
<1>2. Word = 0..m
  BY DEF Word
<1> HIDE DEF m
<1>3. \A x : x \in 0..m <=> x \in Int /\ 0 <= x /\ x <= m
  BY SMT, <1>1, UpTo
<1>4. \A x \in Int : x <= m <=> x <= 65535
  BY SMT, <1>1
<1>5. QED  BY SMT, <1>2, <1>3, <1>4

\* Addresses wrap at 64 KB: a sum of any sign is a word.
LEMMA PlusIsWord == \A w, n \in Int : Plus(w, n) \in Word
  BY SMT, InWord DEF Plus

\* What is taken modulo 256 is a byte.
LEMMA ByteOfInt == \A n \in Int : n % 256 \in Byte
  BY SMT, InByte

\* Both halves of a word are bytes.
LEMMA Halves ==
  ASSUME NEW w \in Word
  PROVE  /\ Hi(w) \in Byte /\ Lo(w) \in Byte
<1> DEFINE q == w \div 256
           r == w % 256
<1>1. w \in Int /\ 0 <= w /\ w <= 65535
  BY InWord
<1>2. q \in Int /\ r \in Int /\ 0 <= r /\ r <= 255 /\ w = (256 * q) + r
  BY SMT, <1>1
<1> HIDE DEF q, r
<1>3. 0 <= q /\ q <= 255
  BY SMT, <1>1, <1>2
<1>4. q \in Byte /\ r \in Byte
  BY <1>2, <1>3, InByte
<1>5. QED  BY <1>4 DEF q, r, Hi, Lo

\* Two bytes make a word.
LEMMA PairIsWord == ASSUME NEW h \in Byte, NEW l \in Byte  PROVE Pair(h, l) \in Word
  BY SMT, InByte, InWord DEF Pair

\* A byte as a number, and as the displacement of an (IX+d) or a relative jump.
LEMMA ByteIsInt == ASSUME NEW b \in Byte  PROVE b \in Int /\ b \in Word /\ Signed(b) \in Int
  BY SMT, InByte, InWord DEF Signed

\* Words are integers.
LEMMA WordIsInt == \A w \in Word : w \in Int
  BY InWord

-----------------------------------------------------------------------------
(* Memory                                                                    *)

MemoryOK(m) == DOMAIN m \subseteq Word /\ m \in [DOMAIN m -> Byte]

\* A byte stored at a word address leaves a memory.
LEMMA StoredOK ==
  ASSUME NEW m, MemoryOK(m), NEW x \in Word, NEW b \in Byte
  PROVE  MemoryOK(Stored(m, x, b))
  BY SMT DEF MemoryOK, Stored

\* So does a word, also one stored at FFFFh and 0.
LEMMA StoredWordOK ==
  ASSUME MemoryOK(mem), NEW x \in Word, NEW w \in Word
  PROVE  MemoryOK(StoredWord(x, w))
<1>1. MemoryOK(Stored(mem, x, Lo(w)))
  BY StoredOK, Halves
<1>2. Plus(x, 1) \in Word
  BY SMT, PlusIsWord, WordIsInt
<1>3. QED  BY <1>1, <1>2, StoredOK, Halves DEF StoredWord

\* Whatever is read or fetched is a byte or a word, at any address.
LEMMA ReadsAreBytes ==
  ASSUME MemoryOK(mem)
  PROVE  /\ \A x : Read(x) \in Byte /\ ReadWord(x) \in Word
         /\ \A n : Code(n) \in Byte /\ Imm16(n) \in Word
<1>0. 0 \in Byte
  BY InByte
<1>1. \A x : Read(x) \in Byte
  BY <1>0 DEF Read, MemoryOK
<1>2. QED  BY <1>1, PairIsWord DEF ReadWord, Code, Imm16

-----------------------------------------------------------------------------
(* Bits                                                                      *)

\* The powers of two up to the width of a word.
LEMMA Powers ==
  /\ 2^0 = 1 /\ 2^1 = 2 /\ 2^2 = 4 /\ 2^3 = 8 /\ 2^4 = 16 /\ 2^5 = 32 /\ 2^6 = 64 /\ 2^7 = 128
  /\ 2^8 = 256 /\ 2^9 = 512 /\ 2^10 = 1024 /\ 2^11 = 2048 /\ 2^12 = 4096 /\ 2^13 = 8192
  /\ 2^14 = 16384 /\ 2^15 = 32768 /\ 2^16 = 65536
  BY SMT

\* A bit is 0 or 1.
LEMMA BitIsBit == \A v \in Int, n \in 0..7 : Bit(v, n) \in {0, 1}
<1> SUFFICES ASSUME NEW v \in Int, NEW n \in 0..7 PROVE Bit(v, n) \in {0, 1}
  OBVIOUS
<1>1. n \in {0, 1, 2, 3, 4, 5, 6, 7}
  BY SMT
<1>2. 2^n \in Int /\ 2^n > 0
  <2>1. n = 0 \/ n = 1 \/ n = 2 \/ n = 3 \/ n = 4 \/ n = 5 \/ n = 6 \/ n = 7
    BY SMT, <1>1
  <2>a. CASE n = 0
    BY SMT, <2>a
  <2>b. CASE n = 1
    BY SMT, <2>b
  <2>c. CASE n = 2
    BY SMT, <2>c
  <2>d. CASE n = 3
    BY SMT, <2>d
  <2>e. CASE n = 4
    BY SMT, <2>e
  <2>f. CASE n = 5
    BY SMT, <2>f
  <2>g. CASE n = 6
    BY SMT, <2>g
  <2>h. CASE n = 7
    BY SMT, <2>h
  <2>2. QED  BY <2>1, <2>a, <2>b, <2>c, <2>d, <2>e, <2>f, <2>g, <2>h
<1> DEFINE p == 2^n
           q == v \div p
<1> HIDE DEF p
<1>3. q \in Int
  BY SMT, <1>2 DEF p
<1> HIDE DEF q
<1>4. q % 2 \in {0, 1}
  BY SMT, <1>3
<1>5. QED  BY <1>4 DEF Bit, p, q

\* NumberOf, unfolded for eight bits.
LowSum(b) == [i \in 0..8 |->
  CASE i = 0 -> 0
    [] i = 1 -> b[0]
    [] i = 2 -> b[0] + 2 * b[1]
    [] i = 3 -> b[0] + 2 * b[1] + 4 * b[2]
    [] i = 4 -> b[0] + 2 * b[1] + 4 * b[2] + 8 * b[3]
    [] i = 5 -> b[0] + 2 * b[1] + 4 * b[2] + 8 * b[3] + 16 * b[4]
    [] i = 6 -> b[0] + 2 * b[1] + 4 * b[2] + 8 * b[3] + 16 * b[4] + 32 * b[5]
    [] i = 7 -> b[0] + 2 * b[1] + 4 * b[2] + 8 * b[3] + 16 * b[4] + 32 * b[5] + 64 * b[6]
    [] i = 8 -> b[0] + 2 * b[1] + 4 * b[2] + 8 * b[3] + 16 * b[4] + 32 * b[5] + 64 * b[6]
                  + 128 * b[7]]

IsLow(low, b) ==
  low = [i \in 0..8 |-> IF i = 0 THEN 0 ELSE low[i - 1] + 2 ^ (i - 1) * b[i - 1]]

\* The sums of the low bits, one bit after the other, are such a function as NumberOf takes.
LEMMA LowExists ==
  ASSUME NEW b \in [0..7 -> {0, 1}]
  PROVE  IsLow(LowSum(b), b)
<1> DEFINE low == LowSum(b)
           E(i) == IF i = 0 THEN 0 ELSE low[i - 1] + 2 ^ (i - 1) * b[i - 1]
<1>b. /\ b[0] \in Int /\ b[1] \in Int /\ b[2] \in Int /\ b[3] \in Int
      /\ b[4] \in Int /\ b[5] \in Int /\ b[6] \in Int /\ b[7] \in Int
  BY SMT
<1>1. /\ low[0] = 0 /\ low[1] = b[0] /\ low[2] = b[0] + 2 * b[1]
      /\ low[3] = b[0] + 2 * b[1] + 4 * b[2]
      /\ low[4] = b[0] + 2 * b[1] + 4 * b[2] + 8 * b[3]
      /\ low[5] = b[0] + 2 * b[1] + 4 * b[2] + 8 * b[3] + 16 * b[4]
      /\ low[6] = b[0] + 2 * b[1] + 4 * b[2] + 8 * b[3] + 16 * b[4] + 32 * b[5]
      /\ low[7] = b[0] + 2 * b[1] + 4 * b[2] + 8 * b[3] + 16 * b[4] + 32 * b[5] + 64 * b[6]
      /\ low[8] = b[0] + 2 * b[1] + 4 * b[2] + 8 * b[3] + 16 * b[4] + 32 * b[5] + 64 * b[6] + 128 * b[7]
  BY SMT, <1>b DEF LowSum
<1>2. low = [i \in 0..8 |-> low[i]]
  BY DEF LowSum
<1> HIDE DEF low
<1>3. \A i \in 0..8 : low[i] = E(i)
  <2>a. E(0) = low[0]
    BY SMT, <1>1, <1>b
  <2>b. E(1) = low[1]
    BY SMT, <1>1, <1>b
  <2>c. E(2) = low[2]
    BY SMT, <1>1, <1>b
  <2>d. E(3) = low[3]
    BY SMT, <1>1, <1>b
  <2>e. E(4) = low[4]
    BY SMT, <1>1, <1>b
  <2>f. E(5) = low[5]
    BY SMT, <1>1, <1>b
  <2>g. E(6) = low[6]
    BY SMT, <1>1, <1>b
  <2>h. E(7) = low[7]
    BY SMT, <1>1, <1>b
  <2>i. E(8) = low[8]
    BY SMT, <1>1, <1>b
  <2> HIDE DEF E
  <2>3. \A i \in 0..8 : i \in {0, 1, 2, 3, 4, 5, 6, 7, 8}
    BY SMT
  <2>4. QED  BY <2>a, <2>b, <2>c, <2>d, <2>e, <2>f, <2>g, <2>h, <2>i, <2>3
<1>4. [i \in 0..8 |-> low[i]] = [i \in 0..8 |-> E(i)]
  <2> HIDE DEF E
  <2> QED  BY <1>3
<1>5. QED  BY Zenon, <1>2, <1>4 DEF IsLow, low

\* Any such function ends in a byte: eight bits make no more.
LEMMA LowIsByte ==
  ASSUME NEW b \in [0..7 -> {0, 1}], NEW low, IsLow(low, b)
  PROVE  low[8] \in Byte
<1>b. /\ b[0] \in {0, 1} /\ b[1] \in {0, 1} /\ b[2] \in {0, 1} /\ b[3] \in {0, 1}
      /\ b[4] \in {0, 1} /\ b[5] \in {0, 1} /\ b[6] \in {0, 1} /\ b[7] \in {0, 1}
  BY SMT
<1>1. \A i \in 0..8 : low[i] = IF i = 0 THEN 0 ELSE low[i - 1] + 2 ^ (i - 1) * b[i - 1]
  BY DEF IsLow
<1>2. /\ low[0] = 0 /\ low[1] = low[0] + 1 * b[0] /\ low[2] = low[1] + 2 * b[1] /\ low[3] = low[2] + 4 * b[2]
      /\ low[4] = low[3] + 8 * b[3]
  BY SMT, <1>1, <1>b, Powers
<1>3. /\ low[5] = low[4] + 16 * b[4] /\ low[6] = low[5] + 32 * b[5] /\ low[7] = low[6] + 64 * b[6]
      /\ low[8] = low[7] + 128 * b[7]
  BY SMT, <1>1, <1>b, Powers
<1>4. low[8] \in Int /\ 0 <= low[8] /\ low[8] <= 255
  BY SMT, <1>2, <1>3, <1>b
<1>5. QED  BY <1>4, InByte

-----------------------------------------------------------------------------
(* Registers                                                                 *)

RegistersOK == reg \in [Pairs -> Word]

\* The pair a register number belongs to, case by case.
LEMMA PairOfIsPair ==
  ASSUME NEW n \in 0..5, NEW hl
  PROVE  /\ PairOf(n, hl) = (IF n \in {4, 5} THEN hl ELSE IF n \in {0, 1} THEN "BC" ELSE "DE")
         /\ hl \in Pairs => PairOf(n, hl) \in Pairs
<1>0. n = 0 \/ n = 1 \/ n = 2 \/ n = 3 \/ n = 4 \/ n = 5
  BY SMT
<1>1. 0 \div 2 = 0 /\ 1 \div 2 = 0 /\ 2 \div 2 = 1 /\ 3 \div 2 = 1
  BY SMT
<1>2. PairOf(n, hl) = IF n \in {4, 5} THEN hl ELSE IF n \in {0, 1} THEN "BC" ELSE "DE"
  BY SMT, <1>0, <1>1 DEF PairOf
<1>3. QED  BY SMT, <1>0, <1>2 DEF Pairs

\* Every 8-bit operand is a byte.
LEMMA GetIsByte ==
  ASSUME RegistersOK, MemoryOK(mem), a \in Byte, NEW n \in 0..7, NEW hl \in Pairs, NEW x
  PROVE  Get8(n, hl, x) \in Byte
<1>1. CASE n \in {6, 7}
  BY <1>1, ReadsAreBytes DEF Get8
<1>2. CASE n \notin {6, 7}
  <2>1. n \in 0..5
    BY <1>2
  <2>2. reg[PairOf(n, hl)] \in Word
    BY <2>1, PairOfIsPair DEF RegistersOK
  <2> DEFINE w == reg[PairOf(n, hl)]
  <2>3. Hi(w) \in Byte /\ Lo(w) \in Byte
    BY <2>2, Halves
  <2>4. QED  BY <1>2, <2>3 DEF Get8
<1>3. QED  BY <1>1, <1>2

\* What set_reg8 makes of the pairs: only the named one changes.
LEMMA SetPairsOK ==
  ASSUME RegistersOK, NEW n \in 0..7, NEW hl \in Pairs, NEW b \in Byte
  PROVE  /\ SetPairs(n, hl, b) \in [Pairs -> Word]
         /\ \A p \in Pairs \ {"BC", "DE", hl} : SetPairs(n, hl, b)[p] = reg[p]
<1>1. CASE n \in {6, 7}
  BY <1>1 DEF SetPairs, RegistersOK
<1>2. CASE n \notin {6, 7}
  <2>1. n \in 0..5
    BY <1>2
  <2> DEFINE p == PairOf(n, hl)
             w == IF n % 2 = 0 THEN Pair(b, Lo(reg[p])) ELSE Pair(Hi(reg[p]), b)
  <2>2. p \in Pairs /\ p \in {"BC", "DE", hl}
    BY <2>1, PairOfIsPair
  <2>3. w \in Word
    <3>1. reg[p] \in Word
      BY <2>2 DEF RegistersOK
    <3>2. QED  BY <3>1, Halves, PairIsWord
  <2>4. SetPairs(n, hl, b) = [reg EXCEPT ![p] = w]
    BY <1>2 DEF SetPairs
  <2> HIDE DEF p, w
  <2>5. QED  BY <2>2, <2>3, <2>4 DEF RegistersOK
<1>3. QED  BY <1>1, <1>2

\* Setting the operand (HL) or (IX+d) leaves a memory.
LEMMA SetMemOK ==
  ASSUME MemoryOK(mem), NEW n, NEW x \in Word, NEW b \in Byte
  PROVE  MemoryOK(SetMem(n, x, b))
  BY StoredOK DEF SetMem

-----------------------------------------------------------------------------
(* Flags                                                                     *)

\* Bits 3 and 5 of the flag byte of an 8080 are 0, and bit 1 is 1.
FlagsOK(g) == g \subseteq Flags /\ (mode = "8080" => g \cap {"X", "Y", "N"} = {"N"})

\* A flag set on a condition is that flag or nothing.
LEMMA WhenOnly == \A flag, c : When(flag, c) \subseteq {flag}
  BY DEF When

\* fix_flags gives flags as its mode has them.
LEMMA FixOK == ASSUME NEW g, g \subseteq Flags  PROVE FlagsOK(Fix(g))
  BY SMT DEF FlagsOK, Fix, Flags

\* The flags each group of them consists of.
LEMMA FlagGroups ==
  ASSUME NEW r
  PROVE  /\ XY(r) \subseteq {"X", "Y"} /\ SignZero(r) \subseteq {"S", "Z"}
         /\ Parity(r) \subseteq {"P"} /\ ResultFlags(r) \subseteq {"S", "Z", "P", "X", "Y"}
         /\ \A v : Overflow(v, r) \subseteq {"P"}
  BY SMT, WhenOnly DEF XY, SignZero, Parity, ResultFlags, Overflow

\* The flags of an addition or a subtraction are flags of the mode.
LEMMA SumFlagsOK ==
  ASSUME NEW x, NEW y, NEW c
  PROVE  FlagsOK(SumFlags(x, y, c)) /\ FlagsOK(DiffFlags(x, y, c))
<1> DEFINE s == AddBits(8, x, y, c)
           d == SubBits(8, x, y, c)
           q == (x - y - c) % 256
           h == IF mode = "z80" THEN d.h = 1 ELSE Xor(Bit(x, 4), Xor(Bit(y, 4), Bit(q, 4))) = 0
           g1 == SignZero(s.r) \cup XY(s.r) \cup When("C", s.c = 1) \cup When("H", s.h = 1)
                   \cup Overflow(s.v = 1, (x + y + c) % 256)
           g2 == SignZero(d.r) \cup XY(d.r) \cup When("C", d.c = 1) \cup When("H", h)
                   \cup {"N"} \cup Overflow(d.v = 1, q)
<1>1. SumFlags(x, y, c) = Fix(g1) /\ DiffFlags(x, y, c) = Fix(g2)
  BY DEF SumFlags, DiffFlags
<1> HIDE DEF s, d, q, h
<1>2. g1 \subseteq Flags /\ g2 \subseteq Flags
  BY SMT, FlagGroups, WhenOnly DEF Flags
<1>3. QED  BY <1>1, <1>2, FixOK

-----------------------------------------------------------------------------
(* Results                                                                   *)

ResultOK(res) == res.r \in Byte /\ FlagsOK(res.f)

\* A byte and flags make a result.
LEMMA MakeResult == ASSUME NEW r \in Byte, NEW g, FlagsOK(g)  PROVE ResultOK(Result(r, g))
  BY DEF ResultOK, Result

\* The carry that goes into an operation is a number.
LEMMA CarryInIsBit == CarryIn \in Int
  BY DEF CarryIn

\* The flags of a logical operation and of a shift are flags of the mode.
LEMMA LogicFlagsOK == ASSUME NEW r, NEW c, NEW h  PROVE FlagsOK(LogicFlags(r, c, h)) /\ FlagsOK(ShiftFlags(r, c))
<1>1. ResultFlags(r) \cup When("C", c = 1) \cup When("H", h) \subseteq Flags
  BY FlagGroups, WhenOnly DEF Flags
<1>2. ResultFlags(r) \cup When("C", c = 1) \subseteq Flags
  BY FlagGroups, WhenOnly DEF Flags
<1>3. QED  BY <1>1, <1>2, FixOK DEF LogicFlags, ShiftFlags

\* The number of eight bits is a byte: AND, OR and XOR, and the flag byte.
LEMMA ConjunctionOK ==
  ASSUME a \in Byte, NEW y \in Byte
  PROVE  ResultOK(Conjunction(y))
<1> DEFINE b == [i \in 0..7 |-> Bit(a, i) * Bit(y, i)]
           r == NumberOf(8, LAMBDA i : Bit(a, i) * Bit(y, i))
           low == CHOOSE l : l = [i \in 0..8 |-> IF i = 0 THEN 0 ELSE l[i - 1] + 2 ^ (i - 1) * (Bit(a, i - 1) * Bit(y, i - 1))]
<1>1. b \in [0..7 -> {0, 1}]
  <2>1. \A i \in 0..7 : Bit(a, i) \in {0, 1} /\ Bit(y, i) \in {0, 1}
    BY BitIsBit, ByteIsInt
  <2>2. \A i \in 0..7 : Bit(a, i) * Bit(y, i) \in {0, 1}
    BY SMT, <2>1
  <2>3. QED  BY <2>2
<1>2. r = low[8]
  BY Zenon DEF NumberOf
<1>3. \A l : IsLow(l, b) <=> l = [i \in 0..8 |-> IF i = 0 THEN 0 ELSE l[i - 1] + 2 ^ (i - 1) * (Bit(a, i - 1) * Bit(y, i - 1))]
  <2>1. \A i \in 0..8 : i # 0 => b[i - 1] = Bit(a, i - 1) * Bit(y, i - 1)
    BY SMT
  <2> HIDE DEF b
  <2>2. \A l : [i \in 0..8 |-> IF i = 0 THEN 0 ELSE l[i - 1] + 2 ^ (i - 1) * b[i - 1]]
               = [i \in 0..8 |-> IF i = 0 THEN 0 ELSE l[i - 1] + 2 ^ (i - 1) * (Bit(a, i - 1) * Bit(y, i - 1))]
    BY Zenon, <2>1
  <2>3. QED  BY Zenon, <2>2 DEF IsLow
<1> HIDE DEF b
<1>4. IsLow(low, b)
  <2>1. \E l : IsLow(l, b)
    BY <1>1, LowExists
  <2>2. QED  BY Zenon, <2>1, <1>3
<1> HIDE DEF low, r
<1>5. r \in Byte
  BY <1>1, <1>2, <1>4, LowIsByte
<1>6. QED  BY <1>5, LogicFlagsOK, MakeResult DEF Conjunction, r

\* The same for OR and XOR.
LEMMA DisjunctionOK ==
  ASSUME a \in Byte, NEW y \in Byte, NEW op
  PROVE  ResultOK(Disjunction(op, y))
<1> DEFINE b == [i \in 0..7 |-> IF op = "xra" THEN Xor(Bit(a, i), Bit(y, i)) ELSE IF Bit(a, i) + Bit(y, i) > 0 THEN 1 ELSE 0]
           r == NumberOf(8, LAMBDA i : IF op = "xra" THEN Xor(Bit(a, i), Bit(y, i)) ELSE IF Bit(a, i) + Bit(y, i) > 0 THEN 1 ELSE 0)
           low == CHOOSE l : l = [i \in 0..8 |-> IF i = 0 THEN 0 ELSE l[i - 1] + 2 ^ (i - 1) * (IF op = "xra" THEN Xor(Bit(a, i - 1), Bit(y, i - 1)) ELSE IF Bit(a, i - 1) + Bit(y, i - 1) > 0 THEN 1 ELSE 0)]
<1>1. b \in [0..7 -> {0, 1}]
  <2>1. \A i \in 0..7 : Bit(a, i) \in {0, 1} /\ Bit(y, i) \in {0, 1}
    BY BitIsBit, ByteIsInt
  <2>2. \A i \in 0..7 : (IF op = "xra" THEN Xor(Bit(a, i), Bit(y, i)) ELSE IF Bit(a, i) + Bit(y, i) > 0 THEN 1 ELSE 0) \in {0, 1}
    BY SMT, <2>1 DEF Xor
  <2>3. QED  BY <2>2
<1>2. r = low[8]
  BY Zenon DEF NumberOf
<1>3. \A l : IsLow(l, b) <=> l = [i \in 0..8 |-> IF i = 0 THEN 0 ELSE l[i - 1] + 2 ^ (i - 1) * (IF op = "xra" THEN Xor(Bit(a, i - 1), Bit(y, i - 1)) ELSE IF Bit(a, i - 1) + Bit(y, i - 1) > 0 THEN 1 ELSE 0)]
  <2>1. \A i \in 0..8 : i # 0 => b[i - 1] = IF op = "xra" THEN Xor(Bit(a, i - 1), Bit(y, i - 1)) ELSE IF Bit(a, i - 1) + Bit(y, i - 1) > 0 THEN 1 ELSE 0
    BY SMT
  <2> HIDE DEF b
  <2>2. \A l : [i \in 0..8 |-> IF i = 0 THEN 0 ELSE l[i - 1] + 2 ^ (i - 1) * b[i - 1]]
               = [i \in 0..8 |-> IF i = 0 THEN 0 ELSE l[i - 1] + 2 ^ (i - 1) * (IF op = "xra" THEN Xor(Bit(a, i - 1), Bit(y, i - 1)) ELSE IF Bit(a, i - 1) + Bit(y, i - 1) > 0 THEN 1 ELSE 0)]
    BY Zenon, <2>1
  <2>3. QED  BY Zenon, <2>2 DEF IsLow
<1> HIDE DEF b
<1>4. IsLow(low, b)
  <2>1. \E l : IsLow(l, b)
    BY <1>1, LowExists
  <2>2. QED  BY Zenon, <2>1, <1>3
<1> HIDE DEF low, r
<1>5. r \in Byte
  BY <1>1, <1>2, <1>4, LowIsByte
<1>6. QED  BY <1>5, LogicFlagsOK, MakeResult DEF Disjunction, r

\* The same for the flag byte that PUSH PSW stores.
LEMMA FlagByteOK ==
  FlagByte \in Byte
<1> DEFINE b == [i \in 0..7 |-> IF FlagAt[i + 1] \in f THEN 1 ELSE 0]
           r == NumberOf(8, LAMBDA i : IF FlagAt[i + 1] \in f THEN 1 ELSE 0)
           low == CHOOSE l : l = [i \in 0..8 |-> IF i = 0 THEN 0 ELSE l[i - 1] + 2 ^ (i - 1) * (IF FlagAt[(i - 1) + 1] \in f THEN 1 ELSE 0)]
<1>1. b \in [0..7 -> {0, 1}]
  OBVIOUS
<1>2. r = low[8]
  BY Zenon DEF NumberOf
<1>3. \A l : IsLow(l, b) <=> l = [i \in 0..8 |-> IF i = 0 THEN 0 ELSE l[i - 1] + 2 ^ (i - 1) * (IF FlagAt[(i - 1) + 1] \in f THEN 1 ELSE 0)]
  <2>1. \A i \in 0..8 : i # 0 => b[i - 1] = IF FlagAt[(i - 1) + 1] \in f THEN 1 ELSE 0
    BY SMT
  <2> HIDE DEF b
  <2>2. \A l : [i \in 0..8 |-> IF i = 0 THEN 0 ELSE l[i - 1] + 2 ^ (i - 1) * b[i - 1]]
               = [i \in 0..8 |-> IF i = 0 THEN 0 ELSE l[i - 1] + 2 ^ (i - 1) * (IF FlagAt[(i - 1) + 1] \in f THEN 1 ELSE 0)]
    BY Zenon, <2>1
  <2>3. QED  BY Zenon, <2>2 DEF IsLow
<1> HIDE DEF b
<1>4. IsLow(low, b)
  <2>1. \E l : IsLow(l, b)
    BY <1>1, LowExists
  <2>2. QED  BY Zenon, <2>1, <1>3
<1> HIDE DEF low, r
<1>5. r \in Byte
  BY <1>1, <1>2, <1>4, LowIsByte
<1>6. QED  BY <1>5 DEF FlagByte, r

\* Whether all of the operations of the ALU and of the accumulator keep A a byte, and an
\* 8080's flags as they are on an 8080.
LEMMA CombinedOK ==
  ASSUME a \in Byte, NEW y \in Byte, NEW op
  PROVE  ResultOK(Combined(op, y))
<1>i. a \in Int /\ y \in Int
  BY ByteIsInt
<1>1. ResultOK(Sum(op, y))
  <2> DEFINE c == IF op = "adc" THEN CarryIn ELSE 0
  <2>1. c \in Int
    BY CarryInIsBit
  <2> HIDE DEF c
  <2>2. (a + y + c) % 256 \in Byte
    BY <2>1, <1>i, ByteOfInt
  <2>3. QED  BY <2>2, SumFlagsOK, MakeResult DEF Sum, c
<1>2. ResultOK(Difference(op, y))
  <2> DEFINE c == IF op = "sbb" THEN CarryIn ELSE 0
  <2>1. c \in Int
    BY CarryInIsBit
  <2> HIDE DEF c
  <2>2. (a - y - c) % 256 \in Byte
    BY <2>1, <1>i, ByteOfInt
  <2>3. QED  BY <2>2, SumFlagsOK, MakeResult DEF Difference, c
<1>3. ResultOK(Comparison(y))
  <2> DEFINE g == (DiffFlags(a, y, 0) \ {"X", "Y"}) \cup XY(y)
  <2>1. g \subseteq Flags
    BY SumFlagsOK, FlagGroups DEF FlagsOK, Flags
  <2> HIDE DEF g
  <2>2. QED  BY <2>1, FixOK, MakeResult DEF Comparison, g
<1>4. Combined(op, y) \in {Sum(op, y), Difference(op, y), Comparison(y), Conjunction(y), Disjunction(op, y)}
  BY Zenon DEF Combined
<1>5. QED  BY <1>1, <1>2, <1>3, <1>4, ConjunctionOK, DisjunctionOK

\* INR and DCR keep a byte a byte.
LEMMA SteppedOK ==
  ASSUME FlagsOK(f), NEW v \in Byte
  PROVE  ResultOK(Incremented(v)) /\ ResultOK(Decremented(v))
<1>1. \A r, h, w, up : FlagsOK(StepFlags(r, h, w, up))
  <2> SUFFICES ASSUME NEW r, NEW h, NEW w, NEW up PROVE FlagsOK(StepFlags(r, h, w, up))
    OBVIOUS
  <2> DEFINE g == (f \cap {"C"}) \cup SignZero(r) \cup XY(r) \cup When("H", h) \cup Overflow(w, r)
                    \cup When("N", ~up)
  <2>1. g \subseteq Flags
    BY FlagGroups, WhenOnly DEF FlagsOK, Flags
  <2> HIDE DEF g
  <2>2. QED  BY <2>1, FixOK DEF StepFlags, g
<1>2. (v + 1) % 256 \in Byte /\ (v - 1) % 256 \in Byte
  BY ByteIsInt, ByteOfInt
<1>3. \A r \in Byte : \A h, w, up : ResultOK(Result(r, StepFlags(r, h, w, up)))
  BY <1>1, MakeResult
<1>4. ResultOK(Incremented(v))
  <2> DEFINE r == (v + 1) % 256
  <2>1. Incremented(v) = Result(r, StepFlags(r, r % 16 = 0, r = 128, TRUE))
    BY Zenon DEF Incremented
  <2> HIDE DEF r
  <2>2. r \in Byte
    BY <1>2 DEF r
  <2>3. ResultOK(Result(r, StepFlags(r, r % 16 = 0, r = 128, TRUE)))
    BY Zenon, <1>3, <2>2
  <2>4. QED  BY <2>1, <2>3
<1>5. ResultOK(Decremented(v))
  <2> DEFINE r == (v - 1) % 256
  <2>1. Decremented(v) = Result(r, StepFlags(r, (r % 16 = 15) = (mode = "z80"), r = 127, FALSE))
    BY Zenon DEF Decremented
  <2> HIDE DEF r
  <2>2. r \in Byte
    BY <1>2 DEF r
  <2>3. ResultOK(Result(r, StepFlags(r, (r % 16 = 15) = (mode = "z80"), r = 127, FALSE)))
    BY Zenon, <1>3, <2>2
  <2>4. QED  BY <2>1, <2>3
<1>6. QED  BY <1>4, <1>5

\* The rotations of A keep it a byte.
LEMMA RotatedOK ==
  ASSUME FlagsOK(f), a \in Byte, NEW op
  PROVE  ResultOK(Rotated(op))
<1> DEFINE out == IF op \in {"rlca", "rla"} THEN Bit(a, 7) ELSE Bit(a, 0)
           in  == IF op \in {"rlca", "rrca"} THEN out ELSE CarryIn
           r   == IF op \in {"rlca", "rla"} THEN ((2 * a) % 256) + in ELSE a \div 2 + 128 * in
           g   == (f \ ({"C", "X", "Y"} \cup IF mode = "z80" THEN {"N", "H"} ELSE {}))
                    \cup When("C", out = 1) \cup XY(r)
<1>1. out \in {0, 1}
  BY BitIsBit, ByteIsInt
<1>2. in \in {0, 1}
  BY <1>1 DEF CarryIn
<1> HIDE DEF out, in
<1>3. r \in Byte
  <2>1. a \in Int /\ 0 <= a /\ a <= 255
    BY InByte
  <2>2. ((2 * a) % 256) + in \in Int /\ 0 <= ((2 * a) % 256) + in /\ ((2 * a) % 256) + in <= 255
    <3> DEFINE q == (2 * a) \div 256
               t == (2 * a) % 256
    <3>1. q \in Int /\ t \in Int /\ 2 * a = 256 * q + t /\ 0 <= t /\ t <= 255
      BY SMT, <2>1
    <3> HIDE DEF q, t
    <3>2. t <= 254
      BY SMT, <3>1, <2>1
    <3>3. t + in \in Int /\ 0 <= t + in /\ t + in <= 255
      BY SMT, <3>1, <3>2, <1>2
    <3>4. QED  BY <3>3 DEF t
  <2>3. a \div 2 + 128 * in \in Int /\ 0 <= a \div 2 + 128 * in /\ a \div 2 + 128 * in <= 255
    BY SMT, <2>1, <1>2
  <2>4. QED  BY <2>2, <2>3, InByte
<1> HIDE DEF r
<1>4. g \subseteq Flags
  <2>1. f \subseteq Flags /\ When("C", out = 1) \subseteq Flags /\ XY(r) \subseteq Flags
    BY FlagGroups, WhenOnly DEF FlagsOK, Flags
  <2>2. QED  BY <2>1
<1> HIDE DEF g
<1>5. RotateFlags(r, out) = Fix(g)
  BY Zenon DEF RotateFlags, g
<1>6. Rotated(op) = Result(r, RotateFlags(r, out))
  BY Zenon DEF Rotated, r, in, out
<1>7. QED  BY <1>3, <1>4, <1>5, <1>6, FixOK, MakeResult

\* The eight operations on A, DAA, CMA, STC and CMC among them, keep it a byte.
LEMMA OnAccumulatorOK ==
  ASSUME FlagsOK(f), a \in Byte, NEW op
  PROVE  ResultOK(OnAccumulator(op))
<1>i. a \in Int /\ 0 <= a /\ a <= 255
  BY InByte
<1>1. ResultOK(Adjusted)
  <2> DEFINE low  == a % 16
             high == a \div 16
             tens == "C" \in f \/ high >= 10 \/ (high = 9 /\ low >= 10)
             ones == "H" \in f \/ low >= 10
             diff == (IF tens THEN 96 ELSE 0) + (IF ones THEN 6 ELSE 0)
             r    == IF "N" \in f THEN (a - diff) % 256 ELSE (a + diff) % 256
             half == IF "N" \in f THEN "H" \in f /\ low < 6 ELSE low >= 10
             g    == ResultFlags(r) \cup When("C", tens) \cup When("H", half) \cup (f \cap {"N"})
  <2> HIDE DEF tens, ones, half
  <2>1. diff \in Int
    BY SMT
  <2> HIDE DEF diff
  <2>2. r \in Byte
    BY <1>i, <2>1, ByteOfInt
  <2> HIDE DEF r
  <2>3. g \subseteq Flags
    BY FlagGroups, WhenOnly DEF Flags
  <2> HIDE DEF g
  <2>4. Adjusted = Result(r, Fix(g))
    BY Zenon DEF Adjusted, g, r, diff, half, ones, tens
  <2>5. QED  BY <2>2, <2>3, <2>4, FixOK, MakeResult
<1>2. ResultOK(Complemented)
  <2>1. 255 - a \in Byte
    BY SMT, <1>i, InByte
  <2>2. (f \ {"X", "Y"}) \cup {"N", "H"} \cup XY(255 - a) \subseteq Flags
    <3>1. XY(255 - a) \subseteq {"X", "Y"}
      BY Zenon, FlagGroups
    <3>2. f \subseteq Flags /\ {"N", "H", "X", "Y"} \subseteq Flags
      BY DEF FlagsOK, Flags
    <3> DEFINE xy == XY(255 - a)
    <3> HIDE DEF xy
    <3>3. (f \ {"X", "Y"}) \cup {"N", "H"} \cup xy \subseteq Flags
      BY <3>1, <3>2 DEF xy
    <3>4. QED  BY <3>3 DEF xy
  <2>3. QED  BY <2>1, <2>2, FixOK, MakeResult DEF Complemented
<1>3. ResultOK(CarrySet)
  <2>1. (f \ {"N", "H", "X", "Y"}) \cup {"C"} \cup XY(a) \subseteq Flags
    BY FlagGroups DEF FlagsOK, Flags
  <2>2. QED  BY <2>1, FixOK, MakeResult DEF CarrySet
<1>4. ResultOK(CarryFlipped)
  <2>1. (f \ {"N", "C", "H", "X", "Y"}) \cup XY(a) \cup (IF "C" \in f THEN {"H"} ELSE {"C"}) \subseteq Flags
    BY FlagGroups DEF FlagsOK, Flags
  <2>2. QED  BY <2>1, FixOK, MakeResult DEF CarryFlipped
<1>5. OnAccumulator(op) \in {Adjusted, Complemented, CarrySet, CarryFlipped, Rotated(op)}
  BY Zenon DEF OnAccumulator
<1>6. QED  BY <1>1, <1>2, <1>3, <1>4, <1>5, RotatedOK

-----------------------------------------------------------------------------
(* Decoding                                                                  *)

\* The index prefixes before an opcode, at most four.
Prefixed(n) == /\ \A i \in 0..(n - 1) : Code(i) \in {221, 253}
               /\ n < 4 => Code(n) \notin {221, 253}

\* Some number of bytes up to four are the index prefixes.
LEMMA PrefixesExist == \E n \in 0..4 : Prefixed(n)
<1> DEFINE P(i) == Code(i) \in {221, 253}
<1>1. \A n \in 0..4 : Prefixed(n) <=> (\A i \in 0..(n - 1) : P(i)) /\ (n < 4 => ~P(n))
  BY DEF Prefixed
<1> HIDE DEF P
<1>2. 0 \in 0..4 /\ 1 \in 0..4 /\ 2 \in 0..4 /\ 3 \in 0..4 /\ 4 \in 0..4
  BY SMT
<1>3. CASE ~P(0)
  BY SMT, <1>1, <1>2, <1>3
<1>4. CASE P(0) /\ ~P(1)
  BY SMT, <1>1, <1>2, <1>4
<1>5. CASE P(0) /\ P(1) /\ ~P(2)
  BY SMT, <1>1, <1>2, <1>5
<1>6. CASE P(0) /\ P(1) /\ P(2) /\ ~P(3)
  BY SMT, <1>1, <1>2, <1>6
<1>7. CASE P(0) /\ P(1) /\ P(2) /\ P(3)
  BY SMT, <1>1, <1>2, <1>7
<1>8. QED  BY <1>3, <1>4, <1>5, <1>6, <1>7

\* And only one number is.
LEMMA PrefixesUnique == \A m, n \in 0..4 : Prefixed(m) /\ Prefixed(n) => m = n
<1> SUFFICES ASSUME NEW m \in 0..4, NEW n \in 0..4, Prefixed(m), Prefixed(n), m < n PROVE FALSE
  BY SMT
<1>1. m \in 0..(n - 1) /\ m < 4
  BY SMT
<1>2. QED  BY <1>1 DEF Prefixed

\* So IndexPrefixes chooses it, on a Z80.
LEMMA PrefixCount ==
  /\ IndexPrefixes \in 0..4
  /\ mode = "8080" => IndexPrefixes = 0
  /\ mode # "8080" => Prefixed(IndexPrefixes)
<1>1. CASE mode = "8080"
  BY SMT, <1>1 DEF IndexPrefixes
<1>2. CASE mode # "8080"
  <2>1. IndexPrefixes = CHOOSE n \in 0..4 : Prefixed(n)
    BY Zenon, <1>2 DEF IndexPrefixes, Prefixed
  <2>2. IndexPrefixes \in 0..4 /\ Prefixed(IndexPrefixes)
    BY Zenon, <2>1, PrefixesExist
  <2>3. QED  BY <1>2, <2>2
<1>3. QED  BY <1>1, <1>2

\* An instruction of the tables; an 8080 has one table only, and no index.
InstructionOK(i) ==
  /\ i.x \in 0..3 /\ i.y \in 0..7 /\ i.z \in 0..7 /\ i.hl \in {"HL", "IX", "IY"}
  /\ i.at \in Word /\ i.len \in Nat /\ i.table \in {"main", "CB", "ED", "none"}
  /\ mode = "8080" => i.hl = "HL" /\ i.table \in {"main", "none"}

\* An opcode is what its octal digits say.
LEMMA OpcodeOK ==
  ASSUME MemoryOK(mem), NEW table, NEW n \in Nat, NEW hl, NEW x
  PROVE  LET i == Opcode(table, n, hl, x)
         IN  /\ i.x \in 0..3 /\ i.y \in 0..7 /\ i.z \in 0..7
             /\ i.hl = hl /\ i.at = x /\ i.len \in Nat /\ i.len = n + 1 /\ i.table = table
             /\ Code(n) = (64 * i.x) + (8 * i.y) + i.z
<1> DEFINE c == Code(n)
           x1 == c \div 64
           y1 == (c \div 8) % 8
           z1 == c % 8
<1>1. c \in Int /\ 0 <= c /\ c <= 255
  BY ReadsAreBytes, InByte
<1> HIDE DEF c
<1>2. x1 \in 0..3 /\ y1 \in 0..7 /\ z1 \in 0..7 /\ c = (64 * x1) + (8 * y1) + z1
  BY SMT, <1>1
<1> HIDE DEF x1, y1, z1
<1>3. Opcode(table, n, hl, x) = [table |-> table, x |-> x1, y |-> y1, z |-> z1, hl |-> hl, at |-> x, len |-> n + 1]
  BY DEF Opcode, x1, y1, z1, c
<1>4. n + 1 \in Nat
  BY SMT
<1>5. QED  BY <1>2, <1>3, <1>4 DEF c

\* CpuOK by its parts.
LEMMA StateOK ==
  CpuOK <=> /\ mode \in Modes /\ a \in Byte /\ FlagsOK(f) /\ RegistersOK /\ pc \in Word
            /\ alt \in [a : Byte, f : SUBSET Flags, BC : Word, DE : Word, HL : Word]
            /\ sys \in [{"I", "R", "IM", "IFF1", "IFF2"} -> Byte] /\ MemoryOK(mem)
  BY DEF CpuOK, AccumulatorOK, FlagsOK, RegistersOK, MemoryOK

\* What is decoded at any PC, from any memory, is an instruction of the tables.
LEMMA InstructionIsOK ==
  ASSUME RegistersOK, MemoryOK(mem)
  PROVE  InstructionOK(Instruction)
<1> DEFINE n  == IndexPrefixes
           hl == IndexPair(n)
           x  == Plus(reg[hl], Signed(Code(n + 1)))
<1>1. n \in 0..4 /\ (mode = "8080" => n = 0)
  BY PrefixCount
<1>2. hl \in {"HL", "IX", "IY"} /\ (n = 0 => hl = "HL")
  BY <1>1 DEF IndexPair
<1> HIDE DEF n, hl
<1>3. x \in Word
  <2>1. reg[hl] \in Int /\ Signed(Code(n + 1)) \in Int
    BY <1>2, ReadsAreBytes, ByteIsInt, WordIsInt DEF RegistersOK, Pairs
  <2>2. QED  BY <2>1, PlusIsWord
<1>4. 0 \in Word /\ reg["HL"] \in Word
  BY InWord DEF RegistersOK, Pairs
<1>5. n \in Nat /\ n + 1 \in Nat /\ n + 2 \in Nat /\ n + 3 \in Nat /\ 1 \in Nat
  BY <1>1
<1> HIDE DEF x
<1>6. ASSUME NEW t \in {"main", "CB", "ED", "none"}, NEW k \in Nat, NEW y \in Word, NEW h \in {"HL", "IX", "IY"},
             mode = "8080" => h = "HL" /\ t \in {"main", "none"}
      PROVE  InstructionOK(Opcode(t, k, h, y))
  BY <1>6, OpcodeOK DEF InstructionOK
<1> DEFINE i1 == IF Code(n + 2) = 237 THEN Opcode("ED", n + 3, hl, x)
                 ELSE IF Code(n + 2) = 203 THEN Opcode("CB", n + 3, hl, x) ELSE Opcode("CB", n + 2, hl, x)
           i2 == Opcode(IF mode = "8080" THEN "none" ELSE "CB", 1, hl, reg["HL"])
           i3 == Opcode(IF mode = "8080" THEN "none" ELSE "ED", n + 1, hl, 0)
           i4 == Opcode("main", n, hl, 0)
<1>7. Instruction = CASE n > 0 /\ Code(n) = 203 -> i1
                      [] n = 0 /\ Code(n) = 203 -> i2
                      [] Code(n) = 237 -> i3
                      [] OTHER -> i4
  BY Zenon DEF Instruction, n, hl, x
<1>8. mode # "8080" => InstructionOK(i1)
  BY <1>2, <1>3, <1>5, <1>6
<1>9. InstructionOK(i2) /\ InstructionOK(i3) /\ InstructionOK(i4)
  <2>1. InstructionOK(i2)
    BY <1>1, <1>2, <1>4, <1>5, <1>6
  <2>2. InstructionOK(i3)
    BY <1>1, <1>2, <1>4, <1>5, <1>6
  <2>3. InstructionOK(i4)
    BY <1>1, <1>2, <1>4, <1>5, <1>6
  <2>4. QED  BY <2>1, <2>2, <2>3
<1>10. n > 0 => mode # "8080"
  BY <1>1
<1> HIDE DEF i1, i2, i3, i4
<1>11. QED
  <2>1. CASE n > 0 /\ Code(n) = 203
    <3>1. Instruction = i1
      BY <1>7, <2>1, <1>1
    <3>2. QED  BY <3>1, <2>1, <1>8, <1>10
  <2>2. CASE ~(n > 0 /\ Code(n) = 203)
    <3>1. Instruction \in {i2, i3, i4}
      BY <1>7, <2>2
    <3>2. QED  BY <3>1, <1>9
  <2>3. QED  BY <2>1, <2>2

-----------------------------------------------------------------------------
(* The parts of a step                                                       *)

\* The pairs after a step: words, and on an 8080 IX and IY are as they were.
PairsKept(r) ==
  /\ r \in [Pairs -> Word]
  /\ mode = "8080" => r["IX"] = reg["IX"] /\ r["IY"] = reg["IY"]

\* A pair an instruction may change.
Changeable(p) == p \in Pairs /\ (mode = "8080" => p \notin {"IX", "IY"})

\* Pairs that are left alone are kept.
LEMMA SamePairs == ASSUME RegistersOK  PROVE PairsKept(reg)
  BY DEF PairsKept, RegistersOK

\* Pairs of which one is set to a word are kept.
LEMMA SetOnePair ==
  ASSUME NEW r, PairsKept(r), NEW p, Changeable(p), NEW w \in Word
  PROVE  PairsKept([r EXCEPT ![p] = w])
  BY DEF PairsKept, Changeable, Pairs

\* Setting one half of a pair keeps the pairs.
LEMMA SetPairsKept ==
  ASSUME RegistersOK, NEW n \in 0..7, NEW hl, Changeable(hl), NEW b \in Byte
  PROVE  PairsKept(SetPairs(n, hl, b))
<1>1. hl \in Pairs /\ "IX" \in Pairs /\ "IY" \in Pairs
  BY DEF Changeable, Pairs
<1>2. /\ SetPairs(n, hl, b) \in [Pairs -> Word]
      /\ \A p \in Pairs \ {"BC", "DE", hl} : SetPairs(n, hl, b)[p] = reg[p]
  BY <1>1, SetPairsOK
<1>3. mode = "8080" => {"IX", "IY"} \subseteq Pairs \ {"BC", "DE", hl}
  BY <1>1 DEF Changeable
<1>4. QED  BY <1>2, <1>3 DEF PairsKept

\* On an 8080 the pair that stands for HL is HL.
LEMMA HlChangeable == ASSUME NEW i, InstructionOK(i)  PROVE Changeable(i.hl)
  BY DEF Changeable, InstructionOK, Pairs

\* The pairs an 8080 has.
LEMMA FixedPairs ==
  /\ Changeable("BC") /\ Changeable("DE") /\ Changeable("HL") /\ Changeable("SP")
  BY DEF Changeable, Pairs

\* The pairs an opcode names are pairs the mode has.
LEMMA RegPairChangeable ==
  ASSUME NEW i, InstructionOK(i)
  PROVE  Changeable(RegPair(i)) /\ Changeable(EdPair(i)) /\ Changeable(DirectPair(i))
<1>0. i.y = 0 \/ i.y = 1 \/ i.y = 2 \/ i.y = 3 \/ i.y = 4 \/ i.y = 5 \/ i.y = 6 \/ i.y = 7
  BY DEF InstructionOK
<1> DEFINE k == i.y \div 2 + 1
<1>1. k = 1 \/ k = 2 \/ k = 3 \/ k = 4
  BY SMT, <1>0
<1> HIDE DEF k
<1>2. RegPair(i) = <<"BC", "DE", i.hl, "SP">>[k] /\ EdPair(i) = <<"BC", "DE", "HL", "SP">>[k]
  BY DEF RegPair, EdPair, k
<1>3. Changeable(RegPair(i)) /\ Changeable(EdPair(i))
  BY SMT, <1>1, <1>2, HlChangeable, FixedPairs
<1>4. QED  BY <1>3, HlChangeable DEF DirectPair

\* Each holds a word.
LEMMA WordOfPair == ASSUME RegistersOK, NEW p, Changeable(p)  PROVE reg[p] \in Word
  BY DEF RegistersOK, Changeable

\* An operand's address is a word, with a displacement of either sign.
LEMMA AddressOK ==
  ASSUME RegistersOK, MemoryOK(mem), NEW i, InstructionOK(i)
  PROVE  Address(i) \in Word
<1>1. reg[i.hl] \in Word /\ reg["HL"] \in Word
  BY HlChangeable, FixedPairs, WordOfPair
<1>2. Signed(Code(i.len)) \in Int
  BY ReadsAreBytes, ByteIsInt
<1>3. QED  BY <1>1, <1>2, PlusIsWord, WordIsInt DEF Address

\* PC behind an instruction is a word.
LEMMA AfterOK == ASSUME pc \in Word, NEW n \in Int, After(n)  PROVE pc' \in Word
  BY PlusIsWord, WordIsInt DEF After

\* A displacement takes one byte or none.
LEMMA ExtraIsInt == \A i, n : Extra(i, n) \in {0, 1}
  BY DEF Extra

\* What one step keeps, whatever the instruction; an 8080 leaves alone what it has not.
Types ==
  /\ mode' = mode /\ a' \in Byte /\ FlagsOK(f') /\ PairsKept(reg') /\ pc' \in Word
  /\ alt' \in [a : Byte, f : SUBSET Flags, BC : Word, DE : Word, HL : Word]
  /\ sys' \in [{"I", "R", "IM", "IFF1", "IFF2"} -> Byte] /\ MemoryOK(mem')
  /\ mode = "8080" => alt' = alt /\ sys' = sys

\* What Types says is enough for CpuOK, and for what an 8080 has not.
LEMMA StepOK ==
  ASSUME CpuOK, Types
  PROVE  /\ CpuOK' /\ mode' = mode
         /\ mode = "8080" => UNCHANGED <<alt, sys>> /\ reg'["IX"] = reg["IX"] /\ reg'["IY"] = reg["IY"]
  BY DEF Types, CpuOK, AccumulatorOK, FlagsOK, PairsKept, MemoryOK

\* The types of a state at hand.
Ready(i) ==
  /\ mode \in Modes /\ a \in Byte /\ FlagsOK(f) /\ RegistersOK /\ pc \in Word
  /\ alt \in [a : Byte, f : SUBSET Flags, BC : Word, DE : Word, HL : Word]
  /\ sys \in [{"I", "R", "IM", "IFF1", "IFF2"} -> Byte] /\ MemoryOK(mem)
  /\ InstructionOK(i) /\ i.len \in Int

\* Every state is ready for the instruction it finds.
LEMMA ReadyForIt ==
  ASSUME CpuOK
  PROVE  Ready(Instruction)
<1>1. RegistersOK /\ MemoryOK(mem)
  BY StateOK
<1>2. InstructionOK(Instruction)
  BY <1>1, InstructionIsOK
<1>3. QED  BY <1>2, StateOK DEF Ready, InstructionOK

-----------------------------------------------------------------------------
(* Types after each instruction                                            *)

\* The loads.
LEMMA LoadTypes ==
  ASSUME NEW i, Ready(i),
         LoadPair(i) \/ StoreA(i) \/ LoadA(i) \/ StoreDirect(i) \/ LoadDirect(i) \/ LoadByte(i) \/ Move(i)
  PROVE  Types
<1>1. CASE LoadPair(i)
  <2>1. Changeable(RegPair(i)) /\ Imm16(i.len) \in Word
    BY RegPairChangeable, ReadsAreBytes DEF Ready
  <2>2. PairsKept(reg')
    BY <1>1, <2>1, SamePairs, SetOnePair DEF LoadPair, Ready
  <2>3. pc' \in Word
    BY <1>1, AfterOK DEF LoadPair, Ready
  <2>4. QED  BY <1>1, <2>2, <2>3 DEF LoadPair, Ready, Types
<1>2. CASE StoreA(i)
  <2>1. reg[RegPair(i)] \in Word /\ Imm16(i.len) \in Word
    BY RegPairChangeable, ReadsAreBytes, WordOfPair DEF Ready
  <2>2. MemoryOK(mem')
    BY <1>2, <2>1, StoredOK DEF StoreA, Ready
  <2>3. pc' \in Word
    BY <1>2, AfterOK DEF StoreA, Ready
  <2>4. QED  BY <1>2, <2>2, <2>3, SamePairs DEF StoreA, Ready, Types
<1>3. CASE LoadA(i)
  <2>1. a' \in Byte
    BY <1>3, ReadsAreBytes DEF LoadA, Ready
  <2>2. pc' \in Word
    BY <1>3, AfterOK DEF LoadA, Ready
  <2>3. QED  BY <1>3, <2>1, <2>2, SamePairs DEF LoadA, Ready, Types
<1>4. CASE StoreDirect(i)
  <2>1. reg[DirectPair(i)] \in Word /\ Imm16(i.len) \in Word
    BY RegPairChangeable, ReadsAreBytes, WordOfPair DEF Ready
  <2>2. MemoryOK(mem')
    BY <1>4, <2>1, StoredWordOK DEF StoreDirect, Ready
  <2>3. pc' \in Word
    BY <1>4, AfterOK DEF StoreDirect, Ready
  <2>4. QED  BY <1>4, <2>2, <2>3, SamePairs DEF StoreDirect, Ready, Types
<1>5. CASE LoadDirect(i)
  <2>1. Changeable(DirectPair(i)) /\ ReadWord(Imm16(i.len)) \in Word
    BY RegPairChangeable, ReadsAreBytes DEF Ready
  <2>2. PairsKept(reg')
    BY <1>5, <2>1, SamePairs, SetOnePair DEF LoadDirect, Ready
  <2>3. pc' \in Word
    BY <1>5, AfterOK DEF LoadDirect, Ready
  <2>4. QED  BY <1>5, <2>2, <2>3 DEF LoadDirect, Ready, Types
<1>6. CASE LoadByte(i)
  <2> DEFINE b == Code(i.len + Extra(i, i.y))
  <2>1. b \in Byte /\ i.y \in 0..7 /\ Changeable(i.hl) /\ Address(i) \in Word
    BY ReadsAreBytes, HlChangeable, AddressOK DEF Ready, InstructionOK
  <2>2. /\ a' = (IF i.y = 7 THEN b ELSE a) /\ reg' = SetPairs(i.y, i.hl, b)
        /\ mem' = SetMem(i.y, Address(i), b)
    BY <1>6 DEF LoadByte, Put8
  <2> HIDE DEF b
  <2>3. a' \in Byte /\ PairsKept(reg') /\ MemoryOK(mem')
    BY <2>1, <2>2, SetPairsKept, SetMemOK DEF Ready
  <2>4. pc' \in Word
    BY <1>6, AfterOK, ExtraIsInt DEF LoadByte, Ready
  <2>5. QED  BY <1>6, <2>3, <2>4 DEF LoadByte, Ready, Types
<1>7. CASE Move(i)
  <2> DEFINE m  == IF 6 \in {i.y, i.z} THEN Extra(i, 6) ELSE 0
             hl == IF m = 1 THEN "HL" ELSE i.hl
             b  == Get8(i.z, hl, Address(i))
  <2>1. m \in {0, 1} /\ i.y \in 0..7 /\ i.z \in 0..7 /\ Changeable(hl) /\ Address(i) \in Word
    BY HlChangeable, FixedPairs, AddressOK, ExtraIsInt DEF Ready, InstructionOK
  <2>2. b \in Byte
    BY <2>1, GetIsByte DEF Ready, Changeable
  <2>3. /\ a' = (IF i.y = 7 THEN b ELSE a) /\ reg' = SetPairs(i.y, hl, b)
        /\ mem' = SetMem(i.y, Address(i), b) /\ After(i.len + m) /\ UNCHANGED <<mode, f, alt, sys>>
    BY Zenon, <1>7 DEF Move, Put8
  <2> HIDE DEF b, m, hl
  <2>4. a' \in Byte /\ PairsKept(reg') /\ MemoryOK(mem')
    BY <2>1, <2>2, <2>3, SetPairsKept, SetMemOK DEF Ready
  <2>5. pc' \in Word
    BY <2>1, <2>3, AfterOK DEF Ready
  <2>6. QED  BY <2>3, <2>4, <2>5 DEF Ready, Types
<1>8. QED  BY <1>1, <1>2, <1>3, <1>4, <1>5, <1>6, <1>7

\* The flags 16-bit operations set.
LEMMA WordFlagsOK ==
  ASSUME NEW o
  PROVE  WordFlags(o) \subseteq {"X", "Y", "C", "H"} /\ WordResultFlags(o) \subseteq Flags
<1>1. WordFlags(o) \subseteq {"X", "Y", "C", "H"}
  BY FlagGroups, WhenOnly DEF WordFlags
<1>2. QED  BY <1>1, WhenOnly DEF WordResultFlags, Flags

\* The flags of DAD are flags of the mode.
LEMMA WordSumFlagsOK ==
  ASSUME FlagsOK(f), NEW x, NEW y
  PROVE  FlagsOK(WordSumFlags(x, y))
<1>1. CASE mode = "z80"
  <2>1. WordSumFlags(x, y) = (f \cap {"S", "Z", "P"}) \cup WordFlags(AddBits(16, x, y, 0))
    BY <1>1 DEF WordSumFlags
  <2>2. WordSumFlags(x, y) \subseteq Flags
    BY <2>1, WordFlagsOK DEF Flags
  <2>3. QED  BY <1>1, <2>2 DEF FlagsOK
<1>2. CASE mode # "z80"
  <2>1. WordSumFlags(x, y) = (f \ {"C"}) \cup When("C", x + y > 65535)
    BY <1>2 DEF WordSumFlags
  <2> DEFINE w == When("C", x + y > 65535)
  <2>2. w = {} \/ w = {"C"}
    BY DEF When
  <2> HIDE DEF w
  <2>3. FlagsOK((f \ {"C"}) \cup w)
    BY <2>2 DEF FlagsOK, Flags
  <2>4. QED  BY <2>1, <2>3 DEF w
<1>3. QED  BY <1>1, <1>2

\* A shift keeps a byte a byte.
LEMMA ShiftedOK ==
  ASSUME NEW op, NEW v \in Byte
  PROVE  ResultOK(Shifted(op, v))
<1> DEFINE left == op \in {"rlc", "rl", "sla", "sll"}
           out  == Bit(v, IF left THEN 7 ELSE 0)
           in   == CASE op \in {"rlc", "rrc"} -> out
                     [] op \in {"rl", "rr"}   -> CarryIn
                     [] op = "sra"            -> Bit(v, 7)
                     [] op = "sll"            -> 1
                     [] OTHER                 -> 0
           r    == IF left THEN ((2 * v) % 256) + in ELSE v \div 2 + 128 * in
<1>0. Bit(v, 7) \in {0, 1} /\ Bit(v, 0) \in {0, 1}
  BY BitIsBit, ByteIsInt
<1>1. out \in {0, 1}
  BY <1>0
<1> HIDE DEF out
<1>2. in \in {0, 1}
  BY SMT, <1>0, <1>1 DEF CarryIn
<1> HIDE DEF in, left
<1>3. r \in Byte
  <2>1. v \in Int /\ 0 <= v /\ v <= 255
    BY InByte
  <2>2. ((2 * v) % 256) + in \in Int /\ 0 <= ((2 * v) % 256) + in /\ ((2 * v) % 256) + in <= 255
    <3> DEFINE q == (2 * v) \div 256
               t == (2 * v) % 256
    <3>1. q \in Int /\ t \in Int /\ 2 * v = 256 * q + t /\ 0 <= t /\ t <= 255
      BY SMT, <2>1
    <3> HIDE DEF q, t
    <3>2. t <= 254
      BY SMT, <3>1, <2>1
    <3>3. t + in \in Int /\ 0 <= t + in /\ t + in <= 255
      BY SMT, <3>1, <3>2, <1>2
    <3>4. QED  BY <3>3 DEF t
  <2>3. v \div 2 + 128 * in \in Int /\ 0 <= v \div 2 + 128 * in /\ v \div 2 + 128 * in <= 255
    BY SMT, <2>1, <1>2
  <2>4. QED  BY <2>2, <2>3, InByte
<1> HIDE DEF r
<1>4. Shifted(op, v) = Result(r, ShiftFlags(r, out))
  BY Zenon DEF Shifted, r, in, out, left
<1>5. QED  BY <1>3, <1>4, LogicFlagsOK, MakeResult

\* Resetting and setting one bit.
LEMMA BitChanged ==
  ASSUME NEW v \in Byte, NEW n \in 0..7
  PROVE  v - Bit(v, n) * 2 ^ n \in Byte /\ v + (1 - Bit(v, n)) * 2 ^ n \in Byte
<1>1. v \in Int /\ 0 <= v /\ v <= 255
  BY InByte
<1>2. n = 0 \/ n = 1 \/ n = 2 \/ n = 3 \/ n = 4 \/ n = 5 \/ n = 6 \/ n = 7
  BY SMT
<1>3. ASSUME NEW p \in {1, 2, 4, 8, 16, 32, 64, 128}, NEW d, d = v \div p
      PROVE  v - (d % 2) * p \in Byte /\ v + (1 - (d % 2)) * p \in Byte
  <2> DEFINE lo == v - (d % 2) * p
             hi == v + (1 - (d % 2)) * p
  <2>1. lo \in Int /\ 0 <= lo /\ lo <= 255 /\ hi \in Int /\ 0 <= hi /\ hi <= 255
    BY SMTT(30), <1>1, <1>3
  <2>2. QED  BY <2>1, InByte
<1>4. 2^n \in {1, 2, 4, 8, 16, 32, 64, 128}
  <2>a. CASE n = 0
    BY SMT, <2>a
  <2>b. CASE n = 1
    BY SMT, <2>b
  <2>c. CASE n = 2
    BY SMT, <2>c
  <2>d. CASE n = 3
    BY SMT, <2>d
  <2>e. CASE n = 4
    BY SMT, <2>e
  <2>f. CASE n = 5
    BY SMT, <2>f
  <2>g. CASE n = 6
    BY SMT, <2>g
  <2>h. CASE n = 7
    BY SMT, <2>h
  <2>2. QED  BY <1>2, <2>a, <2>b, <2>c, <2>d, <2>e, <2>f, <2>g, <2>h
<1>5. QED  BY <1>3, <1>4 DEF Bit

\* So the CB table, but for BIT, makes a byte of a byte.
LEMMA ShiftedBitOK ==
  ASSUME FlagsOK(f), NEW i, InstructionOK(i), i.x # 1, NEW v \in Byte
  PROVE  ResultOK(ShiftedBit(i, v))
<1>1. i.x \in {0, 2, 3} /\ i.y \in 0..7
  BY DEF InstructionOK
<1>2. CASE i.x = 0
  <2>1. ShiftedBit(i, v) = Shifted(ShiftOps[i.y + 1], v)
    BY <1>2 DEF ShiftedBit
  <2>2. QED  BY <2>1, ShiftedOK
<1>3. CASE i.x = 2
  <2>1. ShiftedBit(i, v) = Result(v - Bit(v, i.y) * 2 ^ i.y, f)
    BY <1>3 DEF ShiftedBit
  <2>2. QED  BY <1>1, <2>1, BitChanged, MakeResult
<1>4. CASE i.x = 3
  <2>1. ShiftedBit(i, v) = Result(v + (1 - Bit(v, i.y)) * 2 ^ i.y, f)
    BY <1>4 DEF ShiftedBit
  <2>2. QED  BY <1>1, <2>1, BitChanged, MakeResult
<1>5. QED  BY <1>1, <1>2, <1>3, <1>4

\* The arithmetic instructions.
LEMMA ArithmeticTypes ==
  ASSUME NEW i, Ready(i),
         StepPair(i) \/ StepByte(i) \/ AddPairs(i) \/ AddWithCarry(i) \/ AluRegister(i)
           \/ AluImmediate(i) \/ AccumulatorOp(i) \/ Negate(i)
  PROVE  Types
<1>0. i.y \in 0..7 /\ i.z \in 0..7 /\ Changeable(i.hl) /\ Address(i) \in Word /\ i.hl \in Pairs
  BY HlChangeable, AddressOK DEF Ready, InstructionOK, Changeable
<1>1. CASE StepPair(i)
  <2> DEFINE p == RegPair(i)
             n == IF i.y % 2 = 0 THEN 1 ELSE -1
  <2>1. reg' = [reg EXCEPT ![p] = Plus(reg[p], n)]
    BY <1>1 DEF StepPair
  <2>2. Changeable(p) /\ n \in Int
    BY RegPairChangeable DEF Ready
  <2> HIDE DEF p, n
  <2>3. Plus(reg[p], n) \in Word
    BY <2>2, WordOfPair, PlusIsWord, WordIsInt DEF Ready
  <2>4. PairsKept(reg')
    BY <2>1, <2>2, <2>3, SamePairs, SetOnePair DEF Ready
  <2>5. pc' \in Word
    BY <1>1, AfterOK DEF StepPair, Ready
  <2>6. QED  BY <1>1, <2>4, <2>5 DEF StepPair, Ready, Types
<1>2. CASE StepByte(i)
  <2> DEFINE v   == Get8(i.y, i.hl, Address(i))
             res == IF i.z = 4 THEN Incremented(v) ELSE Decremented(v)
  <2>1. v \in Byte
    BY <1>0, GetIsByte DEF Ready
  <2> HIDE DEF v
  <2>2. ResultOK(res)
    BY <2>1, SteppedOK DEF Ready
  <2> HIDE DEF res
  <2>3. /\ a' = (IF i.y = 7 THEN res.r ELSE a) /\ reg' = SetPairs(i.y, i.hl, res.r)
        /\ mem' = SetMem(i.y, Address(i), res.r) /\ f' = res.f
        /\ After(i.len + Extra(i, i.y)) /\ UNCHANGED <<mode, alt, sys>>
    BY Zenon, <1>2 DEF StepByte, Put8, v, res
  <2>4. a' \in Byte /\ PairsKept(reg') /\ MemoryOK(mem') /\ FlagsOK(f')
    BY <1>0, <2>2, <2>3, SetPairsKept, SetMemOK DEF Ready, ResultOK
  <2>5. pc' \in Word
    BY <2>3, AfterOK, ExtraIsInt DEF Ready
  <2>6. QED  BY <2>3, <2>4, <2>5 DEF Ready, Types
<1>3. CASE AddPairs(i)
  <2> DEFINE x == reg[i.hl]
             y == reg[RegPair(i)]
  <2>1. /\ reg' = [reg EXCEPT ![i.hl] = Plus(x, y)] /\ f' = WordSumFlags(x, y)
        /\ After(i.len) /\ UNCHANGED <<mode, a, alt, sys, mem>>
    BY <1>3 DEF AddPairs
  <2>2. x \in Int /\ y \in Int
    BY <1>0, RegPairChangeable, WordOfPair, WordIsInt DEF Ready
  <2> HIDE DEF x, y
  <2>3. PairsKept(reg') /\ FlagsOK(f')
    BY <1>0, <2>1, <2>2, PlusIsWord, SamePairs, SetOnePair, WordSumFlagsOK DEF Ready
  <2>4. pc' \in Word
    BY <2>1, AfterOK DEF Ready
  <2>5. QED  BY <2>1, <2>3, <2>4 DEF Ready, Types
<1>4. CASE AddWithCarry(i)
  <2> DEFINE x == reg["HL"]
             y == reg[EdPair(i)]
             o == IF i.y % 2 = 1 THEN AddBits(16, x, y, CarryIn) ELSE SubBits(16, x, y, CarryIn)
             n == IF i.y % 2 = 1 THEN y + CarryIn ELSE -y - CarryIn
  <2>1. /\ reg' = [reg EXCEPT !["HL"] = Plus(x, n)]
        /\ f' = WordResultFlags(o) \cup When("N", i.y % 2 = 0)
        /\ After(i.len) /\ UNCHANGED <<mode, a, alt, sys, mem>>
    BY <1>4 DEF AddWithCarry
  <2>2. x \in Int /\ y \in Int
    BY FixedPairs, RegPairChangeable, WordOfPair, WordIsInt DEF Ready
  <2>3. mode # "8080"
    BY <1>4 DEF AddWithCarry, Ready, InstructionOK
  <2> HIDE DEF x, y, o
  <2>4. n \in Int
    BY <2>2, CarryInIsBit
  <2> HIDE DEF n
  <2>5. PairsKept(reg')
    BY FixedPairs, <2>1, <2>2, <2>4, PlusIsWord, SamePairs, SetOnePair DEF Ready
  <2>6. FlagsOK(f')
    <3>1. f' \subseteq Flags
      BY <2>1, WordFlagsOK, WhenOnly DEF Flags
    <3>2. QED  BY <2>3, <3>1 DEF FlagsOK
  <2>7. pc' \in Word
    BY <2>1, AfterOK DEF Ready
  <2>8. QED  BY <2>1, <2>5, <2>6, <2>7 DEF Ready, Types
<1>5. CASE AluRegister(i)
  <2> DEFINE v   == Get8(i.z, i.hl, Address(i))
             res == Combined(AluOps[i.y + 1], v)
  <2>1. v \in Byte
    BY <1>0, GetIsByte DEF Ready
  <2>2. ResultOK(res)
    BY <2>1, CombinedOK DEF Ready
  <2>3. /\ a' = res.r /\ f' = res.f /\ After(i.len + Extra(i, i.z)) /\ UNCHANGED <<mode, reg, alt, sys, mem>>
    BY <1>5 DEF AluRegister, Accumulates
  <2> HIDE DEF res
  <2>4. pc' \in Word
    BY <2>3, AfterOK, ExtraIsInt DEF Ready
  <2>5. QED  BY <2>2, <2>3, <2>4, SamePairs DEF Ready, Types, ResultOK
<1>6. CASE AluImmediate(i)
  <2> DEFINE res == Combined(AluOps[i.y + 1], Code(i.len))
  <2>1. ResultOK(res)
    BY ReadsAreBytes, CombinedOK DEF Ready
  <2>2. /\ a' = res.r /\ f' = res.f /\ After(i.len + 1) /\ UNCHANGED <<mode, reg, alt, sys, mem>>
    BY <1>6 DEF AluImmediate, Accumulates
  <2> HIDE DEF res
  <2>3. pc' \in Word
    BY <2>2, AfterOK DEF Ready
  <2>4. QED  BY <2>1, <2>2, <2>3, SamePairs DEF Ready, Types, ResultOK
<1>7. CASE AccumulatorOp(i)
  <2> DEFINE res == OnAccumulator(AccOps[i.y + 1])
  <2>1. ResultOK(res)
    BY OnAccumulatorOK DEF Ready
  <2>2. /\ a' = res.r /\ f' = res.f /\ After(i.len) /\ UNCHANGED <<mode, reg, alt, sys, mem>>
    BY <1>7 DEF AccumulatorOp, Accumulates
  <2> HIDE DEF res
  <2>3. pc' \in Word
    BY <2>2, AfterOK DEF Ready
  <2>4. QED  BY <2>1, <2>2, <2>3, SamePairs DEF Ready, Types, ResultOK
<1>8. CASE Negate(i)
  <2> DEFINE res == Result((-a) % 256, DiffFlags(0, a, 0))
  <2>1. ResultOK(res)
    BY ByteIsInt, ByteOfInt, SumFlagsOK, MakeResult DEF Ready
  <2>2. /\ a' = res.r /\ f' = res.f /\ After(i.len) /\ UNCHANGED <<mode, reg, alt, sys, mem>>
    BY <1>8 DEF Negate, Accumulates
  <2> HIDE DEF res
  <2>3. pc' \in Word
    BY <2>2, AfterOK DEF Ready
  <2>4. QED  BY <2>1, <2>2, <2>3, SamePairs DEF Ready, Types, ResultOK
<1>9. QED  BY <1>1, <1>2, <1>3, <1>4, <1>5, <1>6, <1>7, <1>8

\* Nibbles put together in RRD and RLD are bytes.
LEMMA Nibbles ==
  ASSUME NEW x \in Byte, NEW y \in Byte
  PROVE  /\ 16 * (x \div 16) + (y % 16) \in Byte /\ 16 * (x \div 16) + (y \div 16) \in Byte
         /\ (x \div 16) + 16 * (y % 16) \in Byte /\ 16 * (x % 16) + (y % 16) \in Byte
<1>1. x \in Int /\ 0 <= x /\ x <= 255 /\ y \in Int /\ 0 <= y /\ y <= 255
  BY InByte
<1> DEFINE h == x \div 16
           l == x % 16
           g == y \div 16
           k == y % 16
<1>2. /\ h \in Int /\ l \in Int /\ x = 16 * h + l /\ 0 <= l /\ l <= 15
      /\ g \in Int /\ k \in Int /\ y = 16 * g + k /\ 0 <= k /\ k <= 15
  BY SMT, <1>1
<1> HIDE DEF h, l, g, k
<1>3. 0 <= h /\ h <= 15 /\ 0 <= g /\ g <= 15
  BY SMT, <1>1, <1>2
<1>4. /\ 16 * h + k \in Byte /\ 16 * h + g \in Byte /\ h + 16 * k \in Byte /\ 16 * l + k \in Byte
  BY SMT, <1>2, <1>3, InByte
<1>5. QED  BY <1>4 DEF h, l, g, k

\* The CB table, RRD and RLD.
LEMMA BitTypes ==
  ASSUME NEW i, Ready(i), ChangeBits(i) \/ TestBit(i) \/ RotateDigits(i)
  PROVE  Types
<1>0. i.y \in 0..7 /\ i.z \in 0..7 /\ i.at \in Word /\ "HL" \in Pairs /\ Changeable("HL")
  BY FixedPairs DEF Ready, InstructionOK, Pairs
<1> DEFINE v == IF Indexed(i) THEN Read(i.at) ELSE Get8(i.z, "HL", i.at)
<1>v. v \in Byte
  BY <1>0, GetIsByte, ReadsAreBytes DEF Ready
<1>1. CASE ChangeBits(i)
  <2> DEFINE res == ShiftedBit(i, v)
  <2>1. /\ a' = (IF i.z = 7 THEN res.r ELSE a) /\ reg' = SetPairs(i.z, "HL", res.r)
        /\ mem' = SetMem(IF Indexed(i) THEN 6 ELSE i.z, i.at, res.r)
        /\ f' = res.f /\ After(i.len) /\ UNCHANGED <<mode, alt, sys>> /\ i.x # 1
    BY Zenon, <1>1 DEF ChangeBits
  <2> HIDE DEF v
  <2>2. ResultOK(res)
    BY <1>v, <2>1, ShiftedBitOK DEF Ready
  <2> HIDE DEF res
  <2>3. a' \in Byte /\ FlagsOK(f') /\ PairsKept(reg') /\ MemoryOK(mem')
    BY <1>0, <2>1, <2>2, SetPairsKept, SetMemOK DEF Ready, ResultOK
  <2>4. pc' \in Word
    BY <2>1, AfterOK DEF Ready
  <2>5. QED  BY <2>1, <2>3, <2>4 DEF Ready, Types
<1>2. CASE TestBit(i)
  <2> DEFINE w == IF Indexed(i) \/ i.z = 6 THEN Hi(i.at) ELSE v
  <2>1. f' = BitTested(i.y, v, w) /\ After(i.len) /\ UNCHANGED <<mode, a, reg, alt, sys, mem>> /\ i.table = "CB"
    BY Zenon, <1>2 DEF TestBit
  <2> HIDE DEF v, w
  <2>2. f' \subseteq Flags
    <3>1. XY(w) \subseteq {"X", "Y"} /\ When("S", i.y = 7 /\ Bit(v, 7) = 1) \subseteq {"S"}
      BY FlagGroups, WhenOnly
    <3>2. QED  BY <2>1, <3>1 DEF BitTested, Flags
  <2>3. mode # "8080"
    BY <2>1 DEF Ready, InstructionOK
  <2>4. pc' \in Word
    BY <2>1, AfterOK DEF Ready
  <2>5. QED  BY <2>1, <2>2, <2>3, <2>4, SamePairs DEF Ready, Types, FlagsOK
<1>3. CASE RotateDigits(i)
  <2> DEFINE d == Read(reg["HL"])
             r == 16 * (a \div 16) + (IF i.y = 4 THEN d % 16 ELSE d \div 16)
             s == IF i.y = 4 THEN (d \div 16) + 16 * (a % 16) ELSE 16 * (d % 16) + (a % 16)
  <2>1. /\ a' = r /\ f' = LogicFlags(r, CarryIn, FALSE) /\ mem' = Stored(mem, reg["HL"], s)
        /\ After(i.len) /\ UNCHANGED <<mode, reg, alt, sys>>
    BY Zenon, <1>3 DEF RotateDigits
  <2>2. d \in Byte /\ a \in Byte /\ reg["HL"] \in Word
    BY <1>0, ReadsAreBytes, WordOfPair DEF Ready
  <2> HIDE DEF d
  <2>3. r \in Byte /\ s \in Byte
    BY <2>2, Nibbles
  <2> HIDE DEF r, s
  <2>4. a' \in Byte /\ FlagsOK(f') /\ MemoryOK(mem')
    BY <2>1, <2>2, <2>3, LogicFlagsOK, StoredOK DEF Ready
  <2>5. pc' \in Word
    BY <2>1, AfterOK DEF Ready
  <2>6. QED  BY <2>1, <2>4, <2>5, SamePairs DEF Ready, Types
<1>4. QED  BY <1>1, <1>2, <1>3

-----------------------------------------------------------------------------
(* Stack and jumps                                                           *)

\* A push keeps pairs and memory, wherever SP points.
LEMMA PushedOK ==
  ASSUME NEW i, Ready(i), NEW w \in Word, Pushed(w)
  PROVE  PairsKept(reg') /\ MemoryOK(mem')
<1>1. reg["SP"] \in Int
  BY FixedPairs, WordOfPair, WordIsInt DEF Ready
<1>2. Plus(reg["SP"], -2) \in Word
  BY <1>1, PlusIsWord
<1>3. QED  BY <1>2, SamePairs, SetOnePair, FixedPairs, StoredWordOK DEF Pushed, Ready

\* A pop keeps the pairs.
LEMMA Popped ==
  ASSUME NEW i, Ready(i)
  PROVE  /\ Top \in Word /\ PairsKept([reg EXCEPT !["SP"] = Plus(@, 2)])
         /\ \A p, w : Changeable(p) /\ w \in Word => PairsKept(PopsPair(p, w))
<1>1. Top \in Word
  BY ReadsAreBytes DEF Top, Ready
<1>2. Plus(reg["SP"], 2) \in Word
  <2>1. reg["SP"] \in Int
    BY FixedPairs, WordOfPair, WordIsInt DEF Ready
  <2>2. QED  BY <2>1, PlusIsWord
<1>3. PairsKept([reg EXCEPT !["SP"] = Plus(@, 2)])
  BY <1>2, SamePairs, SetOnePair, FixedPairs DEF Ready
<1>4. ASSUME NEW p, NEW w, Changeable(p), w \in Word  PROVE PairsKept(PopsPair(p, w))
  <2> DEFINE r == [reg EXCEPT !["SP"] = Plus(@, 2)]
  <2>1. PopsPair(p, w) = [r EXCEPT ![p] = w]
    BY DEF PopsPair
  <2> HIDE DEF r
  <2>2. PairsKept(r)
    BY <1>3 DEF r
  <2>3. PairsKept([r EXCEPT ![p] = w])
    BY <1>4, <2>2, SetOnePair
  <2>4. QED  BY <2>1, <2>3
<1>5. QED  BY <1>1, <1>3, <1>4

\* POP PSW takes only flags of the mode from any byte.
LEMMA FlagsOfOK == ASSUME NEW b  PROVE FlagsOK(FlagsOf(b))
<1>1. \A j \in 0..7 : FlagAt[j + 1] \in Flags
  <2>1. \A j \in 0..7 : j = 0 \/ j = 1 \/ j = 2 \/ j = 3 \/ j = 4 \/ j = 5 \/ j = 6 \/ j = 7
    BY SMT
  <2>2. QED  BY <2>1 DEF FlagAt, Flags
<1>2. {FlagAt[j + 1] : j \in {k \in 0..7 : Bit(b, k) = 1}} \subseteq Flags
  BY <1>1
<1>3. QED  BY <1>2, FixOK DEF FlagsOf

\* The stack instructions.
LEMMA StackTypes ==
  ASSUME NEW i, Ready(i), Push(i) \/ Pop(i) \/ PopPsw(i) \/ ExchangeTop(i) \/ LoadSp(i)
  PROVE  Types
<1>0. Changeable(i.hl) /\ reg[i.hl] \in Word /\ reg["SP"] \in Word /\ Changeable(RegPair(i)) /\ reg[RegPair(i)] \in Word
  BY HlChangeable, FixedPairs, RegPairChangeable, WordOfPair DEF Ready
<1>1. CASE Push(i)
  <2> DEFINE w == IF i.y = 6 THEN Pair(a, FlagByte) ELSE reg[RegPair(i)]
  <2>1. w \in Word
    BY <1>0, FlagByteOK, PairIsWord DEF Ready
  <2>2. Pushed(w) /\ After(i.len) /\ UNCHANGED <<mode, a, f, alt, sys>>
    BY <1>1 DEF Push, Keeps
  <2> HIDE DEF w
  <2>3. PairsKept(reg') /\ MemoryOK(mem')
    BY <2>1, <2>2, PushedOK
  <2>4. pc' \in Word
    BY <2>2, AfterOK DEF Ready
  <2>5. QED  BY <2>2, <2>3, <2>4 DEF Ready, Types
<1>2. CASE Pop(i)
  <2>1. reg' = PopsPair(RegPair(i), Top) /\ After(i.len) /\ UNCHANGED <<mode, a, f, alt, sys, mem>>
    BY <1>2 DEF Pop, Keeps
  <2>2. PairsKept(reg')
    BY <1>0, <2>1, Popped
  <2>3. pc' \in Word
    BY <2>1, AfterOK DEF Ready
  <2>4. QED  BY <2>1, <2>2, <2>3 DEF Ready, Types
<1>3. CASE PopPsw(i)
  <2>1. PairsKept(reg')
    BY <1>3, Popped DEF PopPsw
  <2>2. a' \in Byte /\ FlagsOK(f')
    BY <1>3, Popped, Halves, FlagsOfOK DEF PopPsw
  <2>3. pc' \in Word
    BY <1>3, AfterOK DEF Ready, PopPsw
  <2>4. QED  BY <1>3, <2>1, <2>2, <2>3 DEF Ready, Types, PopPsw
<1>4. CASE ExchangeTop(i)
  <2>1. PairsKept(reg')
    BY <1>0, <1>4, Popped, SamePairs, SetOnePair DEF ExchangeTop, Ready
  <2>2. MemoryOK(mem')
    BY <1>0, <1>4, StoredWordOK DEF ExchangeTop, Ready
  <2>3. pc' \in Word
    BY <1>4, AfterOK DEF Ready, ExchangeTop
  <2>4. QED  BY <1>4, <2>1, <2>2, <2>3 DEF Ready, Types, ExchangeTop, Keeps
<1>5. CASE LoadSp(i)
  <2>1. PairsKept(reg')
    BY <1>0, <1>5, FixedPairs, SamePairs, SetOnePair DEF LoadSp, Ready
  <2>2. pc' \in Word
    BY <1>5, AfterOK DEF Ready, LoadSp
  <2>3. QED  BY <1>5, <2>1, <2>2 DEF Ready, Types, LoadSp, Keeps
<1>6. QED  BY <1>1, <1>2, <1>3, <1>4, <1>5

\* Jumps, calls and returns.
LEMMA JumpTypes ==
  ASSUME NEW i, Ready(i),
         Jump(i) \/ RelativeJump(i) \/ Call(i) \/ CallOrReturnNot(i) \/ Restart(i) \/ Return(i)
  PROVE  Types
<1>0. /\ Imm16(i.len) \in Word /\ reg[i.hl] \in Word /\ i.y \in 0..7 /\ pc \in Int
      /\ Changeable("HL") /\ reg["BC"] \in Word /\ Signed(Code(i.len)) \in Int
  BY HlChangeable, FixedPairs, WordOfPair, ReadsAreBytes, ByteIsInt, WordIsInt DEF Ready, InstructionOK
<1>1. CASE Jump(i)
  <2>1. pc' \in Word
    <3>1. Plus(pc, i.len + 2) \in Word
      <4>1. i.len + 2 \in Int
        BY DEF Ready
      <4>2. QED  BY <1>0, <4>1, PlusIsWord
    <3>2. QED  BY <1>0, <1>1, <3>1 DEF Jump
  <2>2. QED  BY <1>1, <2>1, SamePairs DEF Jump, Keeps, Ready, Types
<1>2. CASE RelativeJump(i)
  <2> DEFINE taken == IF i.y = 2 THEN Hi(reg["BC"]) # 1 ELSE i.y = 3 \/ ConditionCode(i.y - 4, f)
             n     == i.len + 1 + IF taken THEN Signed(Code(i.len)) ELSE 0
             b     == (Hi(reg["BC"]) - 1) % 256
  <2>1. /\ pc' = Plus(pc, n) /\ reg' = (IF i.y = 2 THEN SetPairs(0, "HL", b) ELSE reg)
        /\ UNCHANGED <<mode, a, f, alt, sys, mem>>
    BY <1>2 DEF RelativeJump, Keeps
  <2> HIDE DEF taken
  <2>2. n \in Int
    BY <1>0 DEF Ready
  <2>3. b \in Byte
    BY <1>0, Halves, ByteIsInt, ByteOfInt
  <2> HIDE DEF n, b
  <2>4. pc' \in Word
    BY <1>0, <2>1, <2>2, PlusIsWord
  <2>5. PairsKept(reg')
    BY <1>0, <2>1, <2>3, SetPairsKept, SamePairs DEF Ready
  <2>6. QED  BY <2>1, <2>4, <2>5 DEF Ready, Types
<1>3. CASE Call(i)
  <2>1. Pushed(Plus(pc, i.len + 2)) /\ pc' = Imm16(i.len) /\ UNCHANGED <<mode, a, f, alt, sys>>
    BY <1>3 DEF Call, Keeps
  <2>2. Plus(pc, i.len + 2) \in Word
    <3>1. i.len + 2 \in Int
      BY DEF Ready
    <3>2. QED  BY <1>0, <3>1, PlusIsWord
  <2>3. PairsKept(reg') /\ MemoryOK(mem')
    BY <2>1, <2>2, PushedOK
  <2>4. QED  BY <1>0, <2>1, <2>3 DEF Ready, Types
<1>4. CASE CallOrReturnNot(i)
  <2>1. pc' \in Word
    BY <1>4, AfterOK DEF CallOrReturnNot, Ready
  <2>2. QED  BY <1>4, <2>1, SamePairs DEF CallOrReturnNot, Keeps, Ready, Types
<1>5. CASE Restart(i)
  <2>1. Pushed(Plus(pc, i.len)) /\ pc' = 8 * i.y /\ UNCHANGED <<mode, a, f, alt, sys>>
    BY <1>5 DEF Restart, Keeps
  <2>2. Plus(pc, i.len) \in Word
    BY <1>0, PlusIsWord DEF Ready
  <2>3. PairsKept(reg') /\ MemoryOK(mem')
    BY <2>1, <2>2, PushedOK
  <2>4. 8 * i.y \in Word
    BY <1>0, InWord
  <2>5. QED  BY <2>1, <2>3, <2>4 DEF Ready, Types
<1>6. CASE Return(i)
  <2>1. pc' = Top /\ reg' = [reg EXCEPT !["SP"] = Plus(@, 2)] /\ UNCHANGED <<mode, a, f, alt, mem>>
    BY <1>6 DEF Return
  <2>2. /\ sys' \in [{"I", "R", "IM", "IFF1", "IFF2"} -> Byte]
        /\ mode = "8080" => sys' = sys
    BY <1>6 DEF Return, Ready, InstructionOK
  <2>3. pc' \in Word /\ PairsKept(reg')
    BY <2>1, Popped
  <2>4. QED  BY <2>1, <2>2, <2>3 DEF Ready, Types
<1>7. QED  BY <1>1, <1>2, <1>3, <1>4, <1>5, <1>6

\* The exchanges.
LEMMA ExchangeTypes ==
  ASSUME NEW i, Ready(i), ExchangeDe(i) \/ ExchangeAll(i) \/ ExchangeAf(i)
  PROVE  Types
<1>0. Changeable(i.hl) /\ reg[i.hl] \in Word /\ reg["DE"] \in Word /\ reg["BC"] \in Word /\ reg["HL"] \in Word
  BY HlChangeable, FixedPairs, WordOfPair DEF Ready
<1>1. CASE ExchangeDe(i)
  <2> DEFINE r == [reg EXCEPT !["DE"] = reg[i.hl]]
  <2>1. reg' = [r EXCEPT ![i.hl] = reg["DE"]]
    BY <1>1 DEF ExchangeDe
  <2>2. PairsKept(r)
    BY <1>0, FixedPairs, SamePairs, SetOnePair DEF Ready
  <2> HIDE DEF r
  <2>3. PairsKept(reg')
    BY <1>0, <2>1, <2>2, SetOnePair
  <2>4. pc' \in Word
    BY <1>1, AfterOK DEF ExchangeDe, Ready
  <2>5. QED  BY <1>1, <2>3, <2>4 DEF ExchangeDe, Keeps, Ready, Types
<1>2. CASE ExchangeAll(i)
  <2>1. mode # "8080"
    BY <1>2 DEF ExchangeAll, Z80
  <2>2. reg' \in [Pairs -> Word]
    BY <1>2 DEF ExchangeAll, Ready, RegistersOK
  <2>3. alt' \in [a : Byte, f : SUBSET Flags, BC : Word, DE : Word, HL : Word]
    BY <1>0, <1>2 DEF ExchangeAll, Ready
  <2>4. pc' \in Word
    BY <1>2, AfterOK DEF ExchangeAll, Ready
  <2>5. QED  BY <1>2, <2>1, <2>2, <2>3, <2>4 DEF ExchangeAll, Ready, Types, PairsKept
<1>3. CASE ExchangeAf(i)
  <2>1. mode # "8080"
    BY <1>3 DEF ExchangeAf, Z80
  <2>2. a' \in Byte /\ FlagsOK(f')
    BY <1>3, <2>1 DEF ExchangeAf, Ready, FlagsOK
  <2>3. alt' \in [a : Byte, f : SUBSET Flags, BC : Word, DE : Word, HL : Word]
    BY <1>0, <1>3 DEF ExchangeAf, Ready, FlagsOK
  <2>4. pc' \in Word
    BY <1>3, AfterOK DEF ExchangeAf, Ready
  <2>5. QED  BY <1>3, <2>1, <2>2, <2>3, <2>4, SamePairs DEF ExchangeAf, Ready, Types
<1>4. QED  BY <1>1, <1>2, <1>3

\* The block instructions.
LEMMA BlockTypes ==
  ASSUME NEW i, Ready(i), MoveBlock(i) \/ SearchBlock(i)
  PROVE  Types
<1>0. /\ mode # "8080" /\ reg["DE"] \in Word /\ reg["BC"] \in Word /\ reg["HL"] \in Word
      /\ Read(reg["HL"]) \in Byte /\ Onward(i) \in Int
  BY FixedPairs, WordOfPair, ReadsAreBytes DEF Ready, MoveBlock, SearchBlock, Block, InstructionOK, Onward
<1>1. Plus(reg["HL"], Onward(i)) \in Word /\ Plus(reg["DE"], Onward(i)) \in Word /\ Plus(reg["BC"], -1) \in Word
  <2>1. reg["HL"] \in Int /\ reg["DE"] \in Int /\ reg["BC"] \in Int /\ -1 \in Int
    BY <1>0, WordIsInt
  <2>2. QED  BY <1>0, <2>1, PlusIsWord
<1>2. CASE MoveBlock(i)
  <2> DEFINE b == Read(reg["HL"])
             x == (a + b) % 256
             n == IF i.y >= 6 /\ reg["BC"] # 1 THEN i.len - 2 ELSE i.len
             g == (f \cap {"S", "Z", "C"}) \cup When("P", reg["BC"] # 1) \cup XYOfBlock(x)
  <2>1. /\ mem' = Stored(mem, reg["DE"], b) /\ After(n) /\ f' = g
        /\ reg' = [reg EXCEPT !["HL"] = Plus(reg["HL"], Onward(i)), !["DE"] = Plus(reg["DE"], Onward(i)),
                              !["BC"] = Plus(reg["BC"], -1)]
        /\ UNCHANGED <<mode, a, alt, sys>>
    BY <1>2 DEF MoveBlock
  <2>2. n \in Int
    BY DEF Ready
  <2>3. g \subseteq Flags
    BY WhenOnly DEF XYOfBlock, Flags
  <2> HIDE DEF b, n, g
  <2>4. MemoryOK(mem')
    BY <1>0, <2>1, StoredOK DEF Ready, b
  <2>5. reg' \in [Pairs -> Word]
    BY <1>1, <2>1 DEF Ready, RegistersOK
  <2>6. pc' \in Word
    BY <2>1, <2>2, AfterOK DEF Ready
  <2>7. QED  BY <1>0, <2>1, <2>3, <2>4, <2>5, <2>6 DEF Ready, Types, PairsKept, FlagsOK
<1>3. CASE SearchBlock(i)
  <2> DEFINE o == SubBits(8, a, Read(reg["HL"]), 0)
             n == IF i.y >= 6 /\ reg["BC"] # 1 /\ o.r # 0 THEN i.len - 2 ELSE i.len
             g == (f \cap {"C"}) \cup SignZero(o.r) \cup When("H", o.h = 1) \cup {"N"}
                    \cup When("P", reg["BC"] # 1) \cup XYOfBlock((o.r - o.h) % 256)
  <2>1. /\ After(n) /\ f' = g
        /\ reg' = [reg EXCEPT !["HL"] = Plus(reg["HL"], Onward(i)), !["BC"] = Plus(reg["BC"], -1)]
        /\ UNCHANGED <<mode, a, alt, sys, mem>>
    BY <1>3 DEF SearchBlock
  <2> HIDE DEF o
  <2>2. n \in Int
    BY DEF Ready
  <2>3. g \subseteq Flags
    BY FlagGroups, WhenOnly DEF XYOfBlock, Flags
  <2> HIDE DEF n, g
  <2>4. reg' \in [Pairs -> Word]
    BY <1>1, <2>1 DEF Ready, RegistersOK
  <2>5. pc' \in Word
    BY <2>1, <2>2, AfterOK DEF Ready
  <2>6. QED  BY <1>0, <2>1, <2>3, <2>4, <2>5 DEF Ready, Types, PairsKept, FlagsOK
<1>4. QED  BY <1>2, <1>3

\* Interrupt registers, ports and what does nothing.
LEMMA OtherTypes ==
  ASSUME NEW i, Ready(i),
         SetInterruptMode(i) \/ SetIR(i) \/ GetIR(i) \/ Input(i) \/ NoOperation(i)
  PROVE  Types
<1>1. CASE SetInterruptMode(i)
  <2>1. <<0, 0, 1, 2>>[(i.y % 4) + 1] \in Byte
    <3> DEFINE k == (i.y % 4) + 1
    <3>1. k = 1 \/ k = 2 \/ k = 3 \/ k = 4
      BY DEF Ready, InstructionOK
    <3> HIDE DEF k
    <3>2. 0 \in Byte /\ 1 \in Byte /\ 2 \in Byte
      BY InByte
    <3>3. <<0, 0, 1, 2>>[k] \in Byte
      BY <3>1, <3>2
    <3>4. QED  BY <3>3 DEF k
  <2>2. sys' \in [{"I", "R", "IM", "IFF1", "IFF2"} -> Byte] /\ mode # "8080"
    BY <1>1, <2>1 DEF SetInterruptMode, Ready, InstructionOK
  <2>3. pc' \in Word
    BY <1>1, AfterOK DEF SetInterruptMode, Ready
  <2>4. QED  BY <1>1, <2>2, <2>3, SamePairs DEF SetInterruptMode, Ready, Types
<1>2. CASE SetIR(i)
  <2>1. sys' \in [{"I", "R", "IM", "IFF1", "IFF2"} -> Byte] /\ mode # "8080"
    BY <1>2 DEF SetIR, Ready, InstructionOK
  <2>2. pc' \in Word
    BY <1>2, AfterOK DEF SetIR, Ready
  <2>3. QED  BY <1>2, <2>1, <2>2, SamePairs DEF SetIR, Ready, Types
<1>3. CASE GetIR(i)
  <2> DEFINE v == sys[IF i.y = 2 THEN "I" ELSE "R"]
             g == (f \cap {"C"}) \cup SignZero(v) \cup XY(v) \cup When("P", sys["IFF2"] # 0)
  <2>1. a' = v /\ f' = g /\ After(i.len) /\ UNCHANGED <<mode, reg, alt, sys, mem>>
    BY <1>3 DEF GetIR
  <2>2. v \in Byte /\ mode # "8080"
    BY <1>3 DEF GetIR, Ready, InstructionOK
  <2> HIDE DEF v
  <2>3. g \subseteq Flags
    BY FlagGroups, WhenOnly DEF Flags
  <2> HIDE DEF g
  <2>4. pc' \in Word
    BY <2>1, AfterOK DEF Ready
  <2>5. QED  BY <2>1, <2>2, <2>3, <2>4, SamePairs DEF Ready, Types, FlagsOK
<1>4. CASE Input(i)
  <2>1. a' \in Byte
    BY <1>4, InByte DEF Input
  <2>2. pc' \in Word
    BY <1>4, AfterOK DEF Input, Ready
  <2>3. QED  BY <1>4, <2>1, <2>2, SamePairs DEF Input, Ready, Types
<1>5. CASE NoOperation(i)
  <2> DEFINE n == i.len + IF Main(i, 3, 3) /\ i.y = 2 THEN 1 ELSE 0
  <2>1. After(n) /\ UNCHANGED <<mode, a, f, reg, alt, sys, mem>>
    BY <1>5 DEF NoOperation
  <2>2. n \in Int
    BY DEF Ready
  <2> HIDE DEF n
  <2>3. pc' \in Word
    BY <2>1, <2>2, AfterOK DEF Ready
  <2>4. QED  BY <2>1, <2>3, SamePairs DEF Ready, Types
<1>6. QED  BY <1>1, <1>2, <1>3, <1>4, <1>5

\* One instruction, whichever it is: the state stays a state of the processor, the mode stays, and
\* an 8080 leaves alone what it has not.
LEMMA ExecuteTypes ==
  ASSUME CpuOK, Execute
  PROVE  /\ CpuOK' /\ mode' = mode
         /\ mode = "8080" => UNCHANGED <<alt, sys>> /\ reg'["IX"] = reg["IX"] /\ reg'["IY"] = reg["IY"]
<1> DEFINE i == Instruction
<1>1. Ready(i)
  BY ReadyForIt
<1>2. \/ LoadPair(i) \/ StoreA(i) \/ LoadA(i) \/ StoreDirect(i) \/ LoadDirect(i) \/ LoadByte(i) \/ Move(i)
      \/ StepPair(i) \/ StepByte(i) \/ AddPairs(i) \/ AddWithCarry(i) \/ AluRegister(i)
           \/ AluImmediate(i) \/ AccumulatorOp(i) \/ Negate(i)
      \/ ChangeBits(i) \/ TestBit(i) \/ RotateDigits(i)
      \/ Push(i) \/ Pop(i) \/ PopPsw(i) \/ ExchangeTop(i) \/ LoadSp(i)
      \/ Jump(i) \/ RelativeJump(i) \/ Call(i) \/ CallOrReturnNot(i) \/ Restart(i) \/ Return(i)
      \/ ExchangeDe(i) \/ ExchangeAll(i) \/ ExchangeAf(i)
      \/ MoveBlock(i) \/ SearchBlock(i)
      \/ SetInterruptMode(i) \/ SetIR(i) \/ GetIR(i) \/ Input(i) \/ NoOperation(i)
  BY Zenon DEF Execute
<1> HIDE DEF i
<1>3. Types
  BY <1>1, <1>2, LoadTypes, ArithmeticTypes, BitTypes, StackTypes, JumpTypes, ExchangeTypes, BlockTypes, OtherTypes
<1>4. QED  BY <1>3, StepOK

-----------------------------------------------------------------------------
(* What does not depend on the state is the same for both processors.        *)

\* Twin has a copy of the operators of Cpu and Arithmetic; those without state are the same.
LEMMA TwinNumbers ==
  /\ \A w, n : Twin!Plus(w, n) = Plus(w, n)
  /\ \A w : Twin!Hi(w) = Hi(w) /\ Twin!Lo(w) = Lo(w) /\ Twin!Signed(w) = Signed(w)
  /\ \A h, l : Twin!Pair(h, l) = Pair(h, l)
  /\ \A m, x, b : Twin!Stored(m, x, b) = Stored(m, x, b)
  /\ \A v, n : Twin!Bit(v, n) = Bit(v, n) /\ Twin!Xor(v, n) = Xor(v, n)
<1>1. \A w, n : Twin!Plus(w, n) = Plus(w, n)
  BY SMT DEF Plus, Twin!Plus
<1>2. \A w : Twin!Hi(w) = Hi(w) /\ Twin!Lo(w) = Lo(w) /\ Twin!Signed(w) = Signed(w)
  BY Zenon DEF Hi, Twin!Hi, Lo, Twin!Lo, Signed, Twin!Signed
<1>3. \A h, l : Twin!Pair(h, l) = Pair(h, l)
  BY Zenon DEF Pair, Twin!Pair
<1>4. \A m, x, b : Twin!Stored(m, x, b) = Stored(m, x, b)
  BY Zenon DEF Stored, Twin!Stored
<1>5. \A v, n : Twin!Bit(v, n) = Bit(v, n) /\ Twin!Xor(v, n) = Xor(v, n)
  BY Zenon DEF Bit, Twin!Bit, Xor, Twin!Xor
<1>6. QED  BY Zenon, <1>1, <1>2, <1>3, <1>4, <1>5

\* The same for additions and subtractions bit by bit.
LEMMA TwinBits ==
  ASSUME NEW n, NEW x, NEW y, NEW c0
  PROVE  Twin!AddBits(n, x, y, c0) = AddBits(n, x, y, c0) /\ Twin!SubBits(n, x, y, c0) = SubBits(n, x, y, c0)
<1>1. /\ Twin!Carries(n, x, y, c0) = Carries(n, x, y, c0)
      /\ Twin!Borrows(n, x, y, c0) = Borrows(n, x, y, c0)
  BY Zenon DEF Carries, Twin!Carries, Borrows, Twin!Borrows, Bit, Twin!Bit
<1>2. \A cy : Twin!Outcome(n, x, y, cy) = Outcome(n, x, y, cy)
  BY Zenon DEF Twin!Outcome, Outcome, Twin!NumberOf, NumberOf, Bit, Twin!Bit, Xor, Twin!Xor
<1>3. QED  BY Zenon, <1>1, <1>2 DEF AddBits, Twin!AddBits, SubBits, Twin!SubBits

\* The same for the groups of flags.
LEMMA TwinFlags ==
  /\ \A flag, c : Twin!When(flag, c) = When(flag, c)
  /\ \A r : /\ Twin!XY(r) = XY(r) /\ Twin!SignZero(r) = SignZero(r)
            /\ Twin!Parity(r) = Parity(r) /\ Twin!ResultFlags(r) = ResultFlags(r)
  /\ \A o : Twin!WordFlags(o) = WordFlags(o) /\ Twin!WordResultFlags(o) = WordResultFlags(o)
  /\ \A n : Twin!XYOfBlock(n) = XYOfBlock(n)
  /\ \A c, g : Twin!ConditionCode(c, g) = ConditionCode(c, g)
  /\ \A r, g : Twin!Result(r, g) = Result(r, g)
<1>1. \A flag, c : Twin!When(flag, c) = When(flag, c)
  BY Zenon DEF Twin!When, When
<1>2. \A r : Twin!XY(r) = XY(r)
  BY Zenon DEF Twin!XY, XY, Twin!When, When, Twin!Bit, Bit
<1>3. \A r : Twin!SignZero(r) = SignZero(r)
  BY Zenon DEF Twin!SignZero, SignZero, Twin!When, When, Twin!Bit, Bit
<1>4. \A r : Twin!Parity(r) = Parity(r)
  BY Zenon DEF Twin!Parity, Parity, Twin!When, When, Twin!Bit, Bit, Twin!Ones, Ones, Twin!Cardinality, Cardinality
<1>5. \A r : Twin!ResultFlags(r) = ResultFlags(r)
  BY Zenon, <1>2, <1>3, <1>4 DEF Twin!ResultFlags, ResultFlags
<1>6. \A o : Twin!WordFlags(o) = WordFlags(o)
  BY Zenon, <1>1, <1>2 DEF Twin!WordFlags, WordFlags
<1>7. \A o : Twin!WordResultFlags(o) = WordResultFlags(o)
  <2> SUFFICES ASSUME NEW o PROVE Twin!WordResultFlags(o) = WordResultFlags(o)
    BY Zenon
  <2>1. Twin!WordFlags(o) = WordFlags(o)
    BY Zenon, <1>6
  <2>2. \A c : /\ Twin!When("S", c) = When("S", c) /\ Twin!When("Z", c) = When("Z", c)
               /\ Twin!When("P", c) = When("P", c)
    BY Zenon, <1>1
  <2>3. WordFlags(o) \cup Twin!When("S", o.r >= 32768) \cup Twin!When("Z", o.r = 0) \cup Twin!When("P", o.v = 1)
        = WordFlags(o) \cup When("S", o.r >= 32768) \cup When("Z", o.r = 0) \cup When("P", o.v = 1)
    BY SMT, <2>2
  <2>4. QED  BY SMT, <2>1, <2>3 DEF Twin!WordResultFlags, WordResultFlags
<1>8. \A n : Twin!XYOfBlock(n) = XYOfBlock(n)
  BY Zenon DEF Twin!XYOfBlock, XYOfBlock, Twin!When, When, Twin!Bit, Bit
<1>9. \A c, g : Twin!ConditionCode(c, g) = ConditionCode(c, g)
  BY Zenon DEF Twin!ConditionCode, ConditionCode
<1>10. \A r, g : Twin!Result(r, g) = Result(r, g)
  BY Zenon DEF Twin!Result, Result
<1>11. QED  BY Zenon, <1>1, <1>2, <1>3, <1>4, <1>5, <1>6, <1>7, <1>8, <1>9, <1>10

\* The same for what is looked up with an opcode.
LEMMA TwinTables ==
  /\ Twin!AluOps = AluOps /\ Twin!AccOps = AccOps /\ Twin!ShiftOps = ShiftOps
  /\ \A i : Twin!Indexed(i) = Indexed(i)
  /\ \A i, n : Twin!Extra(i, n) = Extra(i, n)
  /\ \A i : Twin!RegPair(i) = RegPair(i) /\ Twin!EdPair(i) = EdPair(i) /\ Twin!DirectPair(i) = DirectPair(i)
  /\ \A i, x, z : Twin!Main(i, x, z) = Main(i, x, z)
  /\ \A i : Twin!Onward(i) = Onward(i)
  /\ \A n, hl : Twin!PairOf(n, hl) = PairOf(n, hl)
<1>1. Twin!AluOps = AluOps /\ Twin!AccOps = AccOps /\ Twin!ShiftOps = ShiftOps
  BY Zenon DEF Twin!AluOps, AluOps, Twin!AccOps, AccOps, Twin!ShiftOps, ShiftOps
<1>2. \A i : Twin!Indexed(i) = Indexed(i)
  BY Zenon DEF Twin!Indexed, Indexed
<1>3. \A i, n : Twin!Extra(i, n) = Extra(i, n)
  BY Zenon DEF Twin!Extra, Extra, Twin!Indexed, Indexed
<1>4. \A i : Twin!RegPair(i) = RegPair(i) /\ Twin!EdPair(i) = EdPair(i) /\ Twin!DirectPair(i) = DirectPair(i)
  BY Zenon DEF Twin!RegPair, RegPair, Twin!EdPair, EdPair, Twin!DirectPair, DirectPair
<1>5. \A i, x, z : Twin!Main(i, x, z) = Main(i, x, z)
  BY Zenon DEF Twin!Main, Main
<1>6. \A i : Twin!Onward(i) = Onward(i)
  BY Zenon DEF Twin!Onward, Onward
<1>7. \A n, hl : Twin!PairOf(n, hl) = PairOf(n, hl)
  BY Zenon DEF Twin!PairOf, PairOf
<1>8. QED  BY Zenon, <1>1, <1>2, <1>3, <1>4, <1>5, <1>6, <1>7

-----------------------------------------------------------------------------
(* At most one action executes an instruction.                               *)

\* The action that executes i in mode m, if its condition is c.
KindOf(i, m, c) ==
  CASE i.table = "main" /\ i.x = 0 ->
         (CASE i.z = 0 -> IF i.y = 0 \/ m # "z80" THEN "NoOperation"
                          ELSE IF i.y = 1 THEN "ExchangeAf" ELSE "RelativeJump"
            [] i.z = 1 -> IF i.y % 2 = 0 THEN "LoadPair" ELSE "AddPairs"
            [] i.z = 2 -> IF i.y = 4 THEN "StoreDirect" ELSE IF i.y = 5 THEN "LoadDirect"
                          ELSE IF i.y \in {0, 2, 6} THEN "StoreA" ELSE "LoadA"
            [] i.z = 3 -> "StepPair"
            [] i.z \in {4, 5} -> "StepByte"
            [] i.z = 6 -> "LoadByte"
            [] OTHER -> "AccumulatorOp")
    [] i.table = "main" /\ i.x = 1 -> IF i.y = 6 /\ i.z = 6 THEN "NoOperation" ELSE "Move"
    [] i.table = "main" /\ i.x = 2 -> "AluRegister"
    [] i.table = "main" /\ i.x = 3 ->
         (CASE i.z = 0 -> IF c THEN "Return" ELSE "CallOrReturnNot"
            [] i.z = 1 -> (CASE i.y = 1 -> "Return"
                             [] i.y = 3 -> IF m = "z80" THEN "ExchangeAll" ELSE "NoOperation"
                             [] i.y = 5 -> "Jump"
                             [] i.y = 6 -> "PopPsw"
                             [] i.y = 7 -> "LoadSp"
                             [] OTHER -> "Pop")
            [] i.z = 2 -> "Jump"
            [] i.z = 3 -> (CASE i.y = 0 -> "Jump"
                             [] i.y = 3 -> "Input"
                             [] i.y = 4 -> "ExchangeTop"
                             [] i.y = 5 -> "ExchangeDe"
                             [] OTHER -> "NoOperation")
            [] i.z = 4 -> IF c THEN "Call" ELSE "CallOrReturnNot"
            [] i.z = 5 -> IF i.y % 2 = 0 THEN "Push" ELSE IF i.y = 1 THEN "Call" ELSE "NoOperation"
            [] i.z = 6 -> "AluImmediate"
            [] OTHER -> "Restart")
    [] i.table = "CB" -> IF i.x = 1 THEN "TestBit" ELSE "ChangeBits"
    [] i.table = "ED" /\ i.x = 1 ->
         (CASE i.z = 2 -> "AddWithCarry"
            [] i.z = 3 -> IF i.y % 2 = 0 THEN "StoreDirect" ELSE "LoadDirect"
            [] i.z = 4 -> "Negate"
            [] i.z = 5 -> "Return"
            [] i.z = 6 -> "SetInterruptMode"
            [] i.z = 7 -> IF i.y \in {0, 1} THEN "SetIR" ELSE IF i.y \in {2, 3} THEN "GetIR"
                          ELSE IF i.y \in {4, 5} THEN "RotateDigits" ELSE "NoOperation"
            [] OTHER -> "NoOperation")
    [] i.table = "ED" /\ i.x = 2 /\ i.y >= 4 /\ i.z = 0 -> "MoveBlock"
    [] i.table = "ED" /\ i.x = 2 /\ i.y >= 4 /\ i.z = 1 -> "SearchBlock"
    [] OTHER -> "NoOperation"

\* What KindOf looks at.
OctalDigits(i) ==
  i.x \in 0..3 /\ i.y \in 0..7 /\ i.z \in 0..7 /\ i.table \in {"main", "CB", "ED", "none"}

\* KindOf names the action that executes i, and no other.
LEMMA KindOfStep ==
  ASSUME NEW i, OctalDigits(i)
  PROVE  /\ LoadPair(i) => KindOf(i, mode, ConditionCode(i.y, f)) = "LoadPair"
         /\ StoreA(i) => KindOf(i, mode, ConditionCode(i.y, f)) = "StoreA"
         /\ LoadA(i) => KindOf(i, mode, ConditionCode(i.y, f)) = "LoadA"
         /\ StoreDirect(i) => KindOf(i, mode, ConditionCode(i.y, f)) = "StoreDirect"
         /\ LoadDirect(i) => KindOf(i, mode, ConditionCode(i.y, f)) = "LoadDirect"
         /\ LoadByte(i) => KindOf(i, mode, ConditionCode(i.y, f)) = "LoadByte"
         /\ Move(i) => KindOf(i, mode, ConditionCode(i.y, f)) = "Move"
         /\ StepPair(i) => KindOf(i, mode, ConditionCode(i.y, f)) = "StepPair"
         /\ StepByte(i) => KindOf(i, mode, ConditionCode(i.y, f)) = "StepByte"
         /\ AddPairs(i) => KindOf(i, mode, ConditionCode(i.y, f)) = "AddPairs"
         /\ AddWithCarry(i) => KindOf(i, mode, ConditionCode(i.y, f)) = "AddWithCarry"
         /\ AluRegister(i) => KindOf(i, mode, ConditionCode(i.y, f)) = "AluRegister"
         /\ AluImmediate(i) => KindOf(i, mode, ConditionCode(i.y, f)) = "AluImmediate"
         /\ AccumulatorOp(i) => KindOf(i, mode, ConditionCode(i.y, f)) = "AccumulatorOp"
         /\ Negate(i) => KindOf(i, mode, ConditionCode(i.y, f)) = "Negate"
         /\ ChangeBits(i) => KindOf(i, mode, ConditionCode(i.y, f)) = "ChangeBits"
         /\ TestBit(i) => KindOf(i, mode, ConditionCode(i.y, f)) = "TestBit"
         /\ RotateDigits(i) => KindOf(i, mode, ConditionCode(i.y, f)) = "RotateDigits"
         /\ Push(i) => KindOf(i, mode, ConditionCode(i.y, f)) = "Push"
         /\ Pop(i) => KindOf(i, mode, ConditionCode(i.y, f)) = "Pop"
         /\ PopPsw(i) => KindOf(i, mode, ConditionCode(i.y, f)) = "PopPsw"
         /\ ExchangeTop(i) => KindOf(i, mode, ConditionCode(i.y, f)) = "ExchangeTop"
         /\ LoadSp(i) => KindOf(i, mode, ConditionCode(i.y, f)) = "LoadSp"
         /\ Jump(i) => KindOf(i, mode, ConditionCode(i.y, f)) = "Jump"
         /\ RelativeJump(i) => KindOf(i, mode, ConditionCode(i.y, f)) = "RelativeJump"
         /\ Call(i) => KindOf(i, mode, ConditionCode(i.y, f)) = "Call"
         /\ CallOrReturnNot(i) => KindOf(i, mode, ConditionCode(i.y, f)) = "CallOrReturnNot"
         /\ Restart(i) => KindOf(i, mode, ConditionCode(i.y, f)) = "Restart"
         /\ Return(i) => KindOf(i, mode, ConditionCode(i.y, f)) = "Return"
         /\ ExchangeDe(i) => KindOf(i, mode, ConditionCode(i.y, f)) = "ExchangeDe"
         /\ ExchangeAll(i) => KindOf(i, mode, ConditionCode(i.y, f)) = "ExchangeAll"
         /\ ExchangeAf(i) => KindOf(i, mode, ConditionCode(i.y, f)) = "ExchangeAf"
         /\ MoveBlock(i) => KindOf(i, mode, ConditionCode(i.y, f)) = "MoveBlock"
         /\ SearchBlock(i) => KindOf(i, mode, ConditionCode(i.y, f)) = "SearchBlock"
         /\ SetInterruptMode(i) => KindOf(i, mode, ConditionCode(i.y, f)) = "SetInterruptMode"
         /\ SetIR(i) => KindOf(i, mode, ConditionCode(i.y, f)) = "SetIR"
         /\ GetIR(i) => KindOf(i, mode, ConditionCode(i.y, f)) = "GetIR"
         /\ Input(i) => KindOf(i, mode, ConditionCode(i.y, f)) = "Input"
         /\ NoOperation(i) => KindOf(i, mode, ConditionCode(i.y, f)) = "NoOperation"
<1> DEFINE c == ConditionCode(i.y, f)
           k == KindOf(i, mode, c)
<1> HIDE DEF c
<1>1. LoadPair(i) => k = "LoadPair"
  BY DEF LoadPair, Main, KindOf, OctalDigits
<1>2. StoreA(i) => k = "StoreA"
  BY DEF StoreA, Main, KindOf, OctalDigits
<1>3. LoadA(i) => k = "LoadA"
  BY DEF LoadA, Main, KindOf, OctalDigits
<1>4. StoreDirect(i) => k = "StoreDirect"
  BY DEF StoreDirect, Main, KindOf, OctalDigits
<1>5. LoadDirect(i) => k = "LoadDirect"
  BY DEF LoadDirect, Main, KindOf, OctalDigits
<1>6. LoadByte(i) => k = "LoadByte"
  BY DEF LoadByte, Main, KindOf, OctalDigits
<1>7. Move(i) => k = "Move"
  BY DEF Move, Main, KindOf, OctalDigits
<1>8. StepPair(i) => k = "StepPair"
  BY DEF StepPair, Main, KindOf, OctalDigits
<1>9. StepByte(i) => k = "StepByte"
  BY DEF StepByte, Main, KindOf, OctalDigits
<1>10. AddPairs(i) => k = "AddPairs"
  BY DEF AddPairs, Main, KindOf, OctalDigits
<1>11. AddWithCarry(i) => k = "AddWithCarry"
  BY DEF AddWithCarry, Main, KindOf, OctalDigits
<1>12. AluRegister(i) => k = "AluRegister"
  BY DEF AluRegister, Main, KindOf, OctalDigits
<1>13. AluImmediate(i) => k = "AluImmediate"
  BY DEF AluImmediate, Main, KindOf, OctalDigits
<1>14. AccumulatorOp(i) => k = "AccumulatorOp"
  BY DEF AccumulatorOp, Main, KindOf, OctalDigits
<1>15. Negate(i) => k = "Negate"
  BY DEF Negate, Main, KindOf, OctalDigits
<1>16. ChangeBits(i) => k = "ChangeBits"
  BY DEF ChangeBits, Main, KindOf, OctalDigits
<1>17. TestBit(i) => k = "TestBit"
  BY DEF TestBit, Main, KindOf, OctalDigits
<1>18. RotateDigits(i) => k = "RotateDigits"
  BY DEF RotateDigits, Main, KindOf, OctalDigits
<1>19. Push(i) => k = "Push"
  BY DEF Push, Main, KindOf, OctalDigits
<1>20. Pop(i) => k = "Pop"
  BY DEF Pop, Main, KindOf, OctalDigits
<1>21. PopPsw(i) => k = "PopPsw"
  BY DEF PopPsw, Main, KindOf, OctalDigits
<1>22. ExchangeTop(i) => k = "ExchangeTop"
  BY DEF ExchangeTop, Main, KindOf, OctalDigits
<1>23. LoadSp(i) => k = "LoadSp"
  BY DEF LoadSp, Main, KindOf, OctalDigits
<1>24. Jump(i) => k = "Jump"
  BY DEF Jump, Main, KindOf, OctalDigits
<1>25. RelativeJump(i) => k = "RelativeJump"
  BY DEF RelativeJump, Main, Z80, KindOf, OctalDigits
<1>26. Call(i) => k = "Call"
  BY DEF Call, Main, c, KindOf, OctalDigits
<1>27. CallOrReturnNot(i) => k = "CallOrReturnNot"
  BY DEF CallOrReturnNot, Main, c, KindOf, OctalDigits
<1>28. Restart(i) => k = "Restart"
  BY DEF Restart, Main, KindOf, OctalDigits
<1>29. Return(i) => k = "Return"
  BY DEF Return, Main, c, KindOf, OctalDigits
<1>30. ExchangeDe(i) => k = "ExchangeDe"
  BY DEF ExchangeDe, Main, KindOf, OctalDigits
<1>31. ExchangeAll(i) => k = "ExchangeAll"
  BY DEF ExchangeAll, Main, Z80, KindOf, OctalDigits
<1>32. ExchangeAf(i) => k = "ExchangeAf"
  BY DEF ExchangeAf, Main, Z80, KindOf, OctalDigits
<1>33. MoveBlock(i) => k = "MoveBlock"
  BY DEF MoveBlock, Main, Block, KindOf, OctalDigits
<1>34. SearchBlock(i) => k = "SearchBlock"
  BY DEF SearchBlock, Main, Block, KindOf, OctalDigits
<1>35. SetInterruptMode(i) => k = "SetInterruptMode"
  BY DEF SetInterruptMode, Main, KindOf, OctalDigits
<1>36. SetIR(i) => k = "SetIR"
  BY DEF SetIR, Main, KindOf, OctalDigits
<1>37. GetIR(i) => k = "GetIR"
  BY DEF GetIR, Main, KindOf, OctalDigits
<1>38. Input(i) => k = "Input"
  BY DEF Input, Main, KindOf, OctalDigits
<1>39. NoOperation(i) => k = "NoOperation"
  BY DEF NoOperation, Main, Nothing, Z80, KindOf, OctalDigits
<1>40. QED
  BY Zenon, <1>1, <1>2, <1>3, <1>4, <1>5, <1>6, <1>7, <1>8, <1>9, <1>10, <1>11, <1>12, <1>13, <1>14, <1>15, <1>16, <1>17, <1>18, <1>19, <1>20, <1>21, <1>22, <1>23, <1>24, <1>25, <1>26, <1>27, <1>28, <1>29, <1>30, <1>31, <1>32, <1>33, <1>34, <1>35, <1>36, <1>37, <1>38, <1>39 DEF c

\* The same for the second processor.
LEMMA KindOfTwinStep ==
  ASSUME NEW i, OctalDigits(i)
  PROVE  /\ Twin!LoadPair(i) => KindOf(i, mode2, Twin!ConditionCode(i.y, f2)) = "LoadPair"
         /\ Twin!StoreA(i) => KindOf(i, mode2, Twin!ConditionCode(i.y, f2)) = "StoreA"
         /\ Twin!LoadA(i) => KindOf(i, mode2, Twin!ConditionCode(i.y, f2)) = "LoadA"
         /\ Twin!StoreDirect(i) => KindOf(i, mode2, Twin!ConditionCode(i.y, f2)) = "StoreDirect"
         /\ Twin!LoadDirect(i) => KindOf(i, mode2, Twin!ConditionCode(i.y, f2)) = "LoadDirect"
         /\ Twin!LoadByte(i) => KindOf(i, mode2, Twin!ConditionCode(i.y, f2)) = "LoadByte"
         /\ Twin!Move(i) => KindOf(i, mode2, Twin!ConditionCode(i.y, f2)) = "Move"
         /\ Twin!StepPair(i) => KindOf(i, mode2, Twin!ConditionCode(i.y, f2)) = "StepPair"
         /\ Twin!StepByte(i) => KindOf(i, mode2, Twin!ConditionCode(i.y, f2)) = "StepByte"
         /\ Twin!AddPairs(i) => KindOf(i, mode2, Twin!ConditionCode(i.y, f2)) = "AddPairs"
         /\ Twin!AddWithCarry(i) => KindOf(i, mode2, Twin!ConditionCode(i.y, f2)) = "AddWithCarry"
         /\ Twin!AluRegister(i) => KindOf(i, mode2, Twin!ConditionCode(i.y, f2)) = "AluRegister"
         /\ Twin!AluImmediate(i) => KindOf(i, mode2, Twin!ConditionCode(i.y, f2)) = "AluImmediate"
         /\ Twin!AccumulatorOp(i) => KindOf(i, mode2, Twin!ConditionCode(i.y, f2)) = "AccumulatorOp"
         /\ Twin!Negate(i) => KindOf(i, mode2, Twin!ConditionCode(i.y, f2)) = "Negate"
         /\ Twin!ChangeBits(i) => KindOf(i, mode2, Twin!ConditionCode(i.y, f2)) = "ChangeBits"
         /\ Twin!TestBit(i) => KindOf(i, mode2, Twin!ConditionCode(i.y, f2)) = "TestBit"
         /\ Twin!RotateDigits(i) => KindOf(i, mode2, Twin!ConditionCode(i.y, f2)) = "RotateDigits"
         /\ Twin!Push(i) => KindOf(i, mode2, Twin!ConditionCode(i.y, f2)) = "Push"
         /\ Twin!Pop(i) => KindOf(i, mode2, Twin!ConditionCode(i.y, f2)) = "Pop"
         /\ Twin!PopPsw(i) => KindOf(i, mode2, Twin!ConditionCode(i.y, f2)) = "PopPsw"
         /\ Twin!ExchangeTop(i) => KindOf(i, mode2, Twin!ConditionCode(i.y, f2)) = "ExchangeTop"
         /\ Twin!LoadSp(i) => KindOf(i, mode2, Twin!ConditionCode(i.y, f2)) = "LoadSp"
         /\ Twin!Jump(i) => KindOf(i, mode2, Twin!ConditionCode(i.y, f2)) = "Jump"
         /\ Twin!RelativeJump(i) => KindOf(i, mode2, Twin!ConditionCode(i.y, f2)) = "RelativeJump"
         /\ Twin!Call(i) => KindOf(i, mode2, Twin!ConditionCode(i.y, f2)) = "Call"
         /\ Twin!CallOrReturnNot(i) => KindOf(i, mode2, Twin!ConditionCode(i.y, f2)) = "CallOrReturnNot"
         /\ Twin!Restart(i) => KindOf(i, mode2, Twin!ConditionCode(i.y, f2)) = "Restart"
         /\ Twin!Return(i) => KindOf(i, mode2, Twin!ConditionCode(i.y, f2)) = "Return"
         /\ Twin!ExchangeDe(i) => KindOf(i, mode2, Twin!ConditionCode(i.y, f2)) = "ExchangeDe"
         /\ Twin!ExchangeAll(i) => KindOf(i, mode2, Twin!ConditionCode(i.y, f2)) = "ExchangeAll"
         /\ Twin!ExchangeAf(i) => KindOf(i, mode2, Twin!ConditionCode(i.y, f2)) = "ExchangeAf"
         /\ Twin!MoveBlock(i) => KindOf(i, mode2, Twin!ConditionCode(i.y, f2)) = "MoveBlock"
         /\ Twin!SearchBlock(i) => KindOf(i, mode2, Twin!ConditionCode(i.y, f2)) = "SearchBlock"
         /\ Twin!SetInterruptMode(i) => KindOf(i, mode2, Twin!ConditionCode(i.y, f2)) = "SetInterruptMode"
         /\ Twin!SetIR(i) => KindOf(i, mode2, Twin!ConditionCode(i.y, f2)) = "SetIR"
         /\ Twin!GetIR(i) => KindOf(i, mode2, Twin!ConditionCode(i.y, f2)) = "GetIR"
         /\ Twin!Input(i) => KindOf(i, mode2, Twin!ConditionCode(i.y, f2)) = "Input"
         /\ Twin!NoOperation(i) => KindOf(i, mode2, Twin!ConditionCode(i.y, f2)) = "NoOperation"
<1> DEFINE c == Twin!ConditionCode(i.y, f2)
           k == KindOf(i, mode2, c)
<1> HIDE DEF c
<1>1. Twin!LoadPair(i) => k = "LoadPair"
  BY DEF Twin!LoadPair, Twin!Main, KindOf, OctalDigits
<1>2. Twin!StoreA(i) => k = "StoreA"
  BY DEF Twin!StoreA, Twin!Main, KindOf, OctalDigits
<1>3. Twin!LoadA(i) => k = "LoadA"
  BY DEF Twin!LoadA, Twin!Main, KindOf, OctalDigits
<1>4. Twin!StoreDirect(i) => k = "StoreDirect"
  BY DEF Twin!StoreDirect, Twin!Main, KindOf, OctalDigits
<1>5. Twin!LoadDirect(i) => k = "LoadDirect"
  BY DEF Twin!LoadDirect, Twin!Main, KindOf, OctalDigits
<1>6. Twin!LoadByte(i) => k = "LoadByte"
  BY DEF Twin!LoadByte, Twin!Main, KindOf, OctalDigits
<1>7. Twin!Move(i) => k = "Move"
  BY DEF Twin!Move, Twin!Main, KindOf, OctalDigits
<1>8. Twin!StepPair(i) => k = "StepPair"
  BY DEF Twin!StepPair, Twin!Main, KindOf, OctalDigits
<1>9. Twin!StepByte(i) => k = "StepByte"
  BY DEF Twin!StepByte, Twin!Main, KindOf, OctalDigits
<1>10. Twin!AddPairs(i) => k = "AddPairs"
  BY DEF Twin!AddPairs, Twin!Main, KindOf, OctalDigits
<1>11. Twin!AddWithCarry(i) => k = "AddWithCarry"
  BY DEF Twin!AddWithCarry, Twin!Main, KindOf, OctalDigits
<1>12. Twin!AluRegister(i) => k = "AluRegister"
  BY DEF Twin!AluRegister, Twin!Main, KindOf, OctalDigits
<1>13. Twin!AluImmediate(i) => k = "AluImmediate"
  BY DEF Twin!AluImmediate, Twin!Main, KindOf, OctalDigits
<1>14. Twin!AccumulatorOp(i) => k = "AccumulatorOp"
  BY DEF Twin!AccumulatorOp, Twin!Main, KindOf, OctalDigits
<1>15. Twin!Negate(i) => k = "Negate"
  BY DEF Twin!Negate, Twin!Main, KindOf, OctalDigits
<1>16. Twin!ChangeBits(i) => k = "ChangeBits"
  BY DEF Twin!ChangeBits, Twin!Main, KindOf, OctalDigits
<1>17. Twin!TestBit(i) => k = "TestBit"
  BY DEF Twin!TestBit, Twin!Main, KindOf, OctalDigits
<1>18. Twin!RotateDigits(i) => k = "RotateDigits"
  BY DEF Twin!RotateDigits, Twin!Main, KindOf, OctalDigits
<1>19. Twin!Push(i) => k = "Push"
  BY DEF Twin!Push, Twin!Main, KindOf, OctalDigits
<1>20. Twin!Pop(i) => k = "Pop"
  BY DEF Twin!Pop, Twin!Main, KindOf, OctalDigits
<1>21. Twin!PopPsw(i) => k = "PopPsw"
  BY DEF Twin!PopPsw, Twin!Main, KindOf, OctalDigits
<1>22. Twin!ExchangeTop(i) => k = "ExchangeTop"
  BY DEF Twin!ExchangeTop, Twin!Main, KindOf, OctalDigits
<1>23. Twin!LoadSp(i) => k = "LoadSp"
  BY DEF Twin!LoadSp, Twin!Main, KindOf, OctalDigits
<1>24. Twin!Jump(i) => k = "Jump"
  BY DEF Twin!Jump, Twin!Main, KindOf, OctalDigits
<1>25. Twin!RelativeJump(i) => k = "RelativeJump"
  BY DEF Twin!RelativeJump, Twin!Main, Twin!Z80, KindOf, OctalDigits
<1>26. Twin!Call(i) => k = "Call"
  BY DEF Twin!Call, Twin!Main, c, KindOf, OctalDigits
<1>27. Twin!CallOrReturnNot(i) => k = "CallOrReturnNot"
  BY DEF Twin!CallOrReturnNot, Twin!Main, c, KindOf, OctalDigits
<1>28. Twin!Restart(i) => k = "Restart"
  BY DEF Twin!Restart, Twin!Main, KindOf, OctalDigits
<1>29. Twin!Return(i) => k = "Return"
  BY DEF Twin!Return, Twin!Main, c, KindOf, OctalDigits
<1>30. Twin!ExchangeDe(i) => k = "ExchangeDe"
  BY DEF Twin!ExchangeDe, Twin!Main, KindOf, OctalDigits
<1>31. Twin!ExchangeAll(i) => k = "ExchangeAll"
  BY DEF Twin!ExchangeAll, Twin!Main, Twin!Z80, KindOf, OctalDigits
<1>32. Twin!ExchangeAf(i) => k = "ExchangeAf"
  BY DEF Twin!ExchangeAf, Twin!Main, Twin!Z80, KindOf, OctalDigits
<1>33. Twin!MoveBlock(i) => k = "MoveBlock"
  BY DEF Twin!MoveBlock, Twin!Main, Twin!Block, KindOf, OctalDigits
<1>34. Twin!SearchBlock(i) => k = "SearchBlock"
  BY DEF Twin!SearchBlock, Twin!Main, Twin!Block, KindOf, OctalDigits
<1>35. Twin!SetInterruptMode(i) => k = "SetInterruptMode"
  BY DEF Twin!SetInterruptMode, Twin!Main, KindOf, OctalDigits
<1>36. Twin!SetIR(i) => k = "SetIR"
  BY DEF Twin!SetIR, Twin!Main, KindOf, OctalDigits
<1>37. Twin!GetIR(i) => k = "GetIR"
  BY DEF Twin!GetIR, Twin!Main, KindOf, OctalDigits
<1>38. Twin!Input(i) => k = "Input"
  BY DEF Twin!Input, Twin!Main, KindOf, OctalDigits
<1>39. Twin!NoOperation(i) => k = "NoOperation"
  BY DEF Twin!NoOperation, Twin!Main, Twin!Nothing, Twin!Z80, KindOf, OctalDigits
<1>40. QED
  BY Zenon, <1>1, <1>2, <1>3, <1>4, <1>5, <1>6, <1>7, <1>8, <1>9, <1>10, <1>11, <1>12, <1>13, <1>14, <1>15, <1>16, <1>17, <1>18, <1>19, <1>20, <1>21, <1>22, <1>23, <1>24, <1>25, <1>26, <1>27, <1>28, <1>29, <1>30, <1>31, <1>32, <1>33, <1>34, <1>35, <1>36, <1>37, <1>38, <1>39 DEF c

-----------------------------------------------------------------------------
(* Two processors before the same instruction.                               *)

\* The flags that have the same meaning in both modes; in one mode all are the same.
Kept == {"S", "Z", "C"}
FlagsMeet(g, g2) == g \cap Kept = g2 \cap Kept /\ (mode = mode2 => g = g2)

\* The instructions an 8080 and a Z80 do not take for the same.
Differing(i) ==
  \/ i.table # "main" \/ i.hl # "HL"
  \/ i.x = 0 /\ i.z = 0 /\ i.y # 0
  \/ i.x = 0 /\ i.z = 7 /\ i.y = 4
  \/ i.x = 3 /\ i.z \in {0, 2, 4} /\ i.y \in {4, 5}
  \/ i.x = 3 /\ i.z = 1 /\ i.y = 3
  \/ i.x = 3 /\ i.z = 5 /\ i.y = 6

\* i and j are the same instruction, at places from which the bytes that follow it
\* are reached.
SameInstruction(i, j) ==
  /\ j.table = i.table /\ j.x = i.x /\ j.y = i.y /\ j.z = i.z /\ j.hl = i.hl /\ j.at = i.at
  /\ i.len \in Int /\ j.len \in Int
  /\ \A k \in Int : Plus(pc2, j.len + k) = Plus(pc, i.len + k)

Meet ==
  /\ a2 = a /\ reg2 = reg /\ mem2 = mem /\ FlagsMeet(f, f2)
  /\ mode2 = mode => alt2 = alt /\ sys2 = sys
  /\ mode2 \in {"z80", "8080"}

Together(i, j) ==
  Ready(i) /\ Meet /\ SameInstruction(i, j) /\ (mode2 # mode => ~Differing(i))

\* After the instruction.
MeetAgain ==
  /\ mode' = mode /\ mode2' = mode2 /\ pc2' = pc'
  /\ a2' = a' /\ reg2' = reg' /\ mem2' = mem' /\ FlagsMeet(f', f2')
  /\ mode2 = mode => alt2' = alt' /\ sys2' = sys'

\* From the same registers and memory both read the same and store the same.
LEMMA TwinReads ==
  ASSUME a2 = a, reg2 = reg, mem2 = mem
  PROVE  /\ \A x : Twin!Read(x) = Read(x) /\ Twin!ReadWord(x) = ReadWord(x)
         /\ \A n, hl, x : Twin!Get8(n, hl, x) = Get8(n, hl, x)
         /\ \A n, hl, b : Twin!SetPairs(n, hl, b) = SetPairs(n, hl, b)
         /\ \A n, x, b : Twin!SetMem(n, x, b) = SetMem(n, x, b)
         /\ \A x, w : Twin!StoredWord(x, w) = StoredWord(x, w)
         /\ \A p, w : Twin!PopsPair(p, w) = PopsPair(p, w)
         /\ Twin!Top = Top
<1>1. \A x : Twin!Read(x) = Read(x)
  BY Zenon DEF Twin!Read, Read
<1>2. \A x : Twin!ReadWord(x) = ReadWord(x)
  BY Zenon, <1>1, TwinNumbers DEF Twin!ReadWord, ReadWord
<1>3. \A n, hl, x : Twin!Get8(n, hl, x) = Get8(n, hl, x)
  BY SMT, <1>1, TwinNumbers, TwinTables DEF Twin!Get8, Get8
<1>4. \A n, hl, b : Twin!SetPairs(n, hl, b) = SetPairs(n, hl, b)
  <2> SUFFICES ASSUME NEW n, NEW hl, NEW b  PROVE Twin!SetPairs(n, hl, b) = SetPairs(n, hl, b)
    BY Zenon
  <2> DEFINE p == PairOf(n, hl)
             w == IF n % 2 = 0 THEN Pair(b, Lo(reg[p])) ELSE Pair(Hi(reg[p]), b)
             w2 == IF n % 2 = 0 THEN Twin!Pair(b, Twin!Lo(reg2[p])) ELSE Twin!Pair(Twin!Hi(reg2[p]), b)
  <2>1. SetPairs(n, hl, b) = IF n \in {6, 7} THEN reg ELSE [reg EXCEPT ![p] = w]
    BY DEF SetPairs
  <2>2. Twin!SetPairs(n, hl, b) = IF n \in {6, 7} THEN reg2 ELSE [reg2 EXCEPT ![p] = w2]
    <3>1. Twin!PairOf(n, hl) = p
      BY Zenon, TwinTables
    <3> DEFINE q == Twin!PairOf(n, hl)
               v2 == IF n % 2 = 0 THEN Twin!Pair(b, Twin!Lo(reg2[q])) ELSE Twin!Pair(Twin!Hi(reg2[q]), b)
    <3>2. Twin!SetPairs(n, hl, b) = IF n \in {6, 7} THEN reg2 ELSE [reg2 EXCEPT ![q] = v2]
      BY DEF Twin!SetPairs
    <3>3. q = p /\ v2 = w2
      BY <3>1
    <3> HIDE DEF q, v2, p, w2
    <3>4. QED  BY <3>2, <3>3
  <2>3. w2 = w
    BY TwinNumbers
  <2> HIDE DEF p, w, w2
  <2>4. QED  BY <2>1, <2>2, <2>3
<1>5. \A n, x, b : Twin!SetMem(n, x, b) = SetMem(n, x, b)
  BY SMT, TwinNumbers DEF Twin!SetMem, SetMem
<1>6. \A x, w : Twin!StoredWord(x, w) = StoredWord(x, w)
  BY SMT, TwinNumbers DEF Twin!StoredWord, StoredWord
<1>7. \A p, w : Twin!PopsPair(p, w) = PopsPair(p, w)
  <2> SUFFICES ASSUME NEW p, NEW w  PROVE Twin!PopsPair(p, w) = PopsPair(p, w)
    BY Zenon
  <2> DEFINE v == Plus(reg["SP"], 2)
             v2 == Twin!Plus(reg2["SP"], 2)
  <2>1. PopsPair(p, w) = [reg EXCEPT !["SP"] = v, ![p] = w] /\ Twin!PopsPair(p, w) = [reg2 EXCEPT !["SP"] = v2, ![p] = w]
    BY DEF PopsPair, Twin!PopsPair
  <2>2. v2 = v
    BY TwinNumbers
  <2> HIDE DEF v, v2
  <2>3. QED  BY <2>1, <2>2
<1>8. Twin!Top = Top
  BY Zenon, <1>2 DEF Twin!Top, Top
<1>9. QED  BY Zenon, <1>1, <1>2, <1>3, <1>4, <1>5, <1>6, <1>7, <1>8

\* What both find in the instruction.
LEMMA TwinDecodes ==
  ASSUME NEW i, NEW j, Together(i, j)
  PROVE  /\ \A k \in Int : Twin!Code(j.len + k) = Code(i.len + k)
         /\ Twin!Code(j.len) = Code(i.len) /\ Twin!Imm16(j.len) = Imm16(i.len)
         /\ Twin!Address(j) = Address(i)
         /\ Indexed(j) = Indexed(i) /\ \A n : Extra(j, n) = Extra(i, n)
         /\ RegPair(j) = RegPair(i) /\ EdPair(j) = EdPair(i) /\ DirectPair(j) = DirectPair(i)
         /\ Onward(j) = Onward(i) /\ \A x, z : Main(j, x, z) = Main(i, x, z)
         /\ CarryIn \in {0, 1} /\ Twin!CarryIn = CarryIn
<1>0. /\ SameInstruction(i, j) /\ a2 = a /\ reg2 = reg /\ mem2 = mem
      /\ i.len \in Int /\ j.len \in Int /\ j.hl = i.hl /\ j.y = i.y /\ j.table = i.table
      /\ j.x = i.x /\ j.z = i.z
  BY DEF Together, Meet, SameInstruction
<1>1. ASSUME NEW k \in Int  PROVE Twin!Code(j.len + k) = Code(i.len + k)
  <2>1. Plus(pc2, j.len + k) = Plus(pc, i.len + k)
    BY <1>0 DEF SameInstruction
  <2>2. Twin!Code(j.len + k) = Read(Plus(pc2, j.len + k))
    BY <1>0, TwinReads, TwinNumbers DEF Twin!Code
  <2>3. QED  BY <2>1, <2>2 DEF Code
<1>2. Twin!Code(j.len) = Code(i.len)
  <2>1. Twin!Code(j.len + 0) = Code(i.len + 0)
    BY <1>1
  <2>2. j.len + 0 = j.len /\ i.len + 0 = i.len
    BY <1>0
  <2>3. QED  BY <2>1, <2>2
<1>3. Twin!Imm16(j.len) = Imm16(i.len)
  <2>1. Twin!Code(j.len + 1) = Code(i.len + 1)
    BY <1>1
  <2>2. QED  BY <1>2, <2>1, TwinNumbers DEF Twin!Imm16, Imm16
<1>4. Indexed(j) = Indexed(i) /\ \A n : Extra(j, n) = Extra(i, n)
  BY <1>0 DEF Indexed, Extra
<1>5. Twin!Address(j) = Address(i)
  <2>1. Twin!Address(j) = IF Indexed(j) THEN Plus(reg[i.hl], Signed(Twin!Code(j.len))) ELSE reg["HL"]
    BY <1>0, TwinNumbers, TwinTables DEF Twin!Address
  <2>2. QED  BY <2>1, <1>2, <1>4 DEF Address
<1>6. RegPair(j) = RegPair(i) /\ EdPair(j) = EdPair(i) /\ DirectPair(j) = DirectPair(i)
  BY <1>0 DEF RegPair, EdPair, DirectPair
<1>7. Onward(j) = Onward(i) /\ \A x, z : Main(j, x, z) = Main(i, x, z)
  BY <1>0 DEF Onward, Main
<1>8. CarryIn \in {0, 1} /\ Twin!CarryIn = CarryIn
  <2>1. "C" \in f <=> "C" \in f2
    BY DEF Together, Meet, FlagsMeet, Kept
  <2>2. QED  BY <2>1 DEF CarryIn, Twin!CarryIn
<1>9. QED  BY <1>1, <1>2, <1>3, <1>4, <1>5, <1>6, <1>7, <1>8

\* The address after n more bytes is the same.
LEMMA MeetAfter ==
  ASSUME NEW i, NEW j, SameInstruction(i, j), NEW k \in Int
  PROVE  /\ After(i.len) /\ Twin!After(j.len) => pc2' = pc'
         /\ After(i.len + k) /\ Twin!After(j.len + k) => pc2' = pc'
         /\ After(i.len - k) /\ Twin!After(j.len - k) => pc2' = pc'
<1>1. i.len \in Int /\ j.len \in Int /\ -k \in Int /\ 0 \in Int
  BY DEF SameInstruction
<1>2. /\ Plus(pc2, j.len + 0) = Plus(pc, i.len + 0) /\ Plus(pc2, j.len + k) = Plus(pc, i.len + k)
      /\ Plus(pc2, j.len + (-k)) = Plus(pc, i.len + (-k))
  BY <1>1 DEF SameInstruction
<1>3. /\ j.len + 0 = j.len /\ i.len + 0 = i.len
      /\ j.len + (-k) = j.len - k /\ i.len + (-k) = i.len - k
  BY <1>1
<1>4. QED  BY <1>2, <1>3, TwinNumbers DEF After, Twin!After

\* Together by its parts.
LEMMA TogetherFacts ==
  ASSUME NEW i, NEW j, Together(i, j)
  PROVE  /\ Ready(i) /\ SameInstruction(i, j) /\ a2 = a /\ reg2 = reg /\ mem2 = mem /\ FlagsMeet(f, f2)
         /\ mode2 = mode => alt2 = alt /\ sys2 = sys
         /\ mode2 # mode => ~Differing(i)
         /\ j.table = i.table /\ j.x = i.x /\ j.y = i.y /\ j.z = i.z /\ j.hl = i.hl /\ j.at = i.at
         /\ i.len \in Int /\ j.len \in Int
         /\ i.x \in 0..3 /\ i.y \in 0..7 /\ i.z \in 0..7
  BY DEF Together, Meet, SameInstruction, Ready, InstructionOK

-----------------------------------------------------------------------------
(* Loads                                                                     *)

\* The loads.
LEMMA LoadsMeet ==
  ASSUME NEW i, NEW j, Together(i, j),
         \/ LoadPair(i) /\ Twin!LoadPair(j)
         \/ StoreA(i) /\ Twin!StoreA(j)
         \/ LoadA(i) /\ Twin!LoadA(j)
         \/ StoreDirect(i) /\ Twin!StoreDirect(j)
         \/ LoadDirect(i) /\ Twin!LoadDirect(j)
         \/ LoadByte(i) /\ Twin!LoadByte(j)
         \/ Move(i) /\ Twin!Move(j)
  PROVE  MeetAgain
<1>0. /\ SameInstruction(i, j) /\ a2 = a /\ reg2 = reg /\ mem2 = mem /\ FlagsMeet(f, f2)
      /\ mode2 = mode => alt2 = alt /\ sys2 = sys
      /\ j.y = i.y /\ j.z = i.z /\ j.hl = i.hl /\ j.table = i.table /\ i.len \in Int /\ j.len \in Int
  BY TogetherFacts
<1>a. 2 \in Int /\ 1 \in Int /\ 0 \in Int
  OBVIOUS
<1>b. Twin!Imm16(j.len) = Imm16(i.len) /\ RegPair(j) = RegPair(i) /\ DirectPair(j) = DirectPair(i)
  BY TwinDecodes
<1>c. UNCHANGED <<mode, alt, sys>> /\ UNCHANGED <<mode2, alt2, sys2>> 
      /\ UNCHANGED <<f, f2>>
  BY DEF LoadPair, Twin!LoadPair, StoreA, Twin!StoreA, LoadA, Twin!LoadA, StoreDirect, Twin!StoreDirect,
     LoadDirect, Twin!LoadDirect, LoadByte, Twin!LoadByte, Move, Twin!Move
<1>d. /\ mode' = mode /\ mode2' = mode2 /\ FlagsMeet(f', f2')
      /\ mode2 = mode => alt2' = alt' /\ sys2' = sys'
  BY <1>0, <1>c
<1>1. CASE LoadPair(i) /\ Twin!LoadPair(j)
  <2>1. pc2' = pc'
    BY <1>0, <1>1, <1>a, MeetAfter DEF LoadPair, Twin!LoadPair
  <2>2. reg2' = reg'
    <3>1. reg' = [reg EXCEPT ![RegPair(i)] = Imm16(i.len)]
      BY <1>1 DEF LoadPair
    <3>2. reg2' = [reg2 EXCEPT ![Twin!RegPair(j)] = Twin!Imm16(j.len)]
      BY <1>1 DEF Twin!LoadPair
    <3>3. QED  BY <1>0, <1>b, <3>1, <3>2, TwinTables
  <2>3. QED  BY <1>0, <1>1, <1>d, <2>1, <2>2 DEF LoadPair, Twin!LoadPair, MeetAgain
<1>2. CASE StoreA(i) /\ Twin!StoreA(j)
  <2> DEFINE x == IF i.y = 6 THEN Imm16(i.len) ELSE reg[RegPair(i)]
             x2 == IF j.y = 6 THEN Twin!Imm16(j.len) ELSE reg2[Twin!RegPair(j)]
             k == IF i.y = 6 THEN 2 ELSE 0
  <2>1. /\ mem' = Stored(mem, x, a) /\ After(i.len + k) /\ mem2' = Twin!Stored(mem2, x2, a2)
        /\ Twin!After(j.len + IF j.y = 6 THEN 2 ELSE 0)
    BY <1>2 DEF StoreA, Twin!StoreA
  <2>2. Twin!After(j.len + k) /\ k \in Int
    BY <1>0, <2>1
  <2>3. x2 = x
    BY <1>0, <1>b, TwinTables
  <2> HIDE DEF x, x2, k
  <2>4. pc2' = pc' /\ mem2' = mem'
    BY <1>0, <2>1, <2>2, <2>3, MeetAfter, TwinNumbers
  <2>5. QED  BY <1>0, <1>2, <1>d, <2>4 DEF StoreA, Twin!StoreA, MeetAgain
<1>3. CASE LoadA(i) /\ Twin!LoadA(j)
  <2> DEFINE x == IF i.y = 7 THEN Imm16(i.len) ELSE reg[RegPair(i)]
             x2 == IF j.y = 7 THEN Twin!Imm16(j.len) ELSE reg2[Twin!RegPair(j)]
             k == IF i.y = 7 THEN 2 ELSE 0
  <2>1. /\ a' = Read(x) /\ After(i.len + k) /\ a2' = Twin!Read(x2)
        /\ Twin!After(j.len + IF j.y = 7 THEN 2 ELSE 0)
    BY <1>3 DEF LoadA, Twin!LoadA
  <2>2. Twin!After(j.len + k) /\ k \in Int
    BY <1>0, <2>1
  <2>3. x2 = x
    BY <1>0, <1>b, TwinTables
  <2> HIDE DEF x, x2, k
  <2>4. pc2' = pc' /\ a2' = a'
    BY <1>0, <2>1, <2>2, <2>3, MeetAfter, TwinReads
  <2>5. QED  BY <1>0, <1>3, <1>d, <2>4 DEF LoadA, Twin!LoadA, MeetAgain
<1>4. CASE StoreDirect(i) /\ Twin!StoreDirect(j)
  <2>1. /\ mem' = StoredWord(Imm16(i.len), reg[DirectPair(i)]) /\ After(i.len + 2)
        /\ mem2' = Twin!StoredWord(Twin!Imm16(j.len), reg2[Twin!DirectPair(j)]) /\ Twin!After(j.len + 2)
    BY <1>4 DEF StoreDirect, Twin!StoreDirect
  <2>2. mem2' = mem' /\ pc2' = pc'
    BY <1>0, <1>a, <1>b, <2>1, MeetAfter, TwinReads, TwinTables
  <2>3. QED  BY <1>0, <1>4, <1>d, <2>2 DEF StoreDirect, Twin!StoreDirect, MeetAgain
<1>5. CASE LoadDirect(i) /\ Twin!LoadDirect(j)
  <2>1. /\ reg' = [reg EXCEPT ![DirectPair(i)] = ReadWord(Imm16(i.len))] /\ After(i.len + 2)
        /\ reg2' = [reg2 EXCEPT ![Twin!DirectPair(j)] = Twin!ReadWord(Twin!Imm16(j.len))] /\ Twin!After(j.len + 2)
    BY <1>5 DEF LoadDirect, Twin!LoadDirect
  <2>2. reg2' = reg' /\ pc2' = pc'
    BY <1>0, <1>a, <1>b, <2>1, MeetAfter, TwinReads, TwinTables
  <2>3. QED  BY <1>0, <1>5, <1>d, <2>2 DEF LoadDirect, Twin!LoadDirect, MeetAgain
<1>6. CASE LoadByte(i) /\ Twin!LoadByte(j)
  <2> DEFINE e == Extra(i, i.y)
             x == Address(i)
             b == Code(i.len + e)
  <2>1. Put8(i.y, i.hl, x, b) /\ After(i.len + e + 1)
    BY <1>6 DEF LoadByte
  <2>2. Twin!Put8(j.y, j.hl, Twin!Address(j), Twin!Code(j.len + Twin!Extra(j, j.y))) /\ Twin!After(j.len + Twin!Extra(j, j.y) + 1)
    BY <1>6 DEF Twin!LoadByte
  <2>3. Twin!Extra(j, j.y) = e /\ e \in Int
    BY <1>0, TwinDecodes, TwinTables, ExtraIsInt
  <2>4. Twin!Code(j.len + e) = b /\ Twin!Address(j) = x
    BY <2>3, TwinDecodes
  <2> HIDE DEF e, x, b
  <2>5. Twin!Put8(i.y, i.hl, x, b) /\ Twin!After(j.len + e + 1)
    BY <1>0, <2>2, <2>3, <2>4
  <2>6. j.len + e + 1 = j.len + (e + 1) /\ i.len + e + 1 = i.len + (e + 1) /\ e + 1 \in Int
    BY <1>0, <2>3
  <2>7. pc2' = pc'
    BY <1>0, <2>1, <2>5, <2>6, MeetAfter
  <2>8. a2' = a' /\ reg2' = reg' /\ mem2' = mem'
    BY <1>0, <2>1, <2>5, TwinReads DEF Put8, Twin!Put8
  <2>9. QED  BY <1>d, <2>7, <2>8 DEF MeetAgain
<1>7. CASE Move(i) /\ Twin!Move(j)
  <2> DEFINE m == IF 6 \in {i.y, i.z} THEN Extra(i, 6) ELSE 0
             hl == IF m = 1 THEN "HL" ELSE i.hl
             x == Address(i)
             b == Get8(i.z, hl, x)
             m2 == IF 6 \in {j.y, j.z} THEN Twin!Extra(j, 6) ELSE 0
             hl2 == IF m2 = 1 THEN "HL" ELSE j.hl
  <2>1. Put8(i.y, hl, x, b) /\ After(i.len + m)
    BY <1>7 DEF Move
  <2>2. Twin!Put8(j.y, hl2, Twin!Address(j), Twin!Get8(j.z, hl2, Twin!Address(j))) /\ Twin!After(j.len + m2)
    BY <1>7 DEF Twin!Move
  <2>3. m2 = m /\ m \in Int
    BY <1>0, TwinDecodes, TwinTables, ExtraIsInt
  <2>4. hl2 = hl
    BY <1>0, <2>3
  <2>5. Twin!Address(j) = x /\ Twin!Get8(j.z, hl, x) = b
    BY <1>0, TwinDecodes, TwinReads
  <2> HIDE DEF m, hl, x, b, m2, hl2
  <2>6. Twin!Put8(i.y, hl, x, b) /\ Twin!After(j.len + m)
    BY <1>0, <2>2, <2>3, <2>4, <2>5
  <2>7. pc2' = pc'
    BY <1>0, <2>1, <2>3, <2>6, MeetAfter
  <2>8. a2' = a' /\ reg2' = reg' /\ mem2' = mem'
    BY <1>0, <2>1, <2>6, TwinReads DEF Put8, Twin!Put8
  <2>9. QED  BY <1>d, <2>7, <2>8 DEF MeetAgain
<1>8. QED  BY <1>1, <1>2, <1>3, <1>4, <1>5, <1>6, <1>7

-----------------------------------------------------------------------------
(* Flags in the two modes.                                                   *)

\* Flags that are the same meet.
LEMMA MeetSame == \A g : FlagsMeet(g, g)
  BY DEF FlagsMeet

\* So do unions of flags that meet.
LEMMA MeetUnion ==
  ASSUME NEW g, NEW g2, NEW h, NEW h2, FlagsMeet(g, g2), FlagsMeet(h, h2)
  PROVE  FlagsMeet(g \cup h, g2 \cup h2)
  BY DEF FlagsMeet

\* And what is left of them when flags that meet are cut out.
LEMMA MeetCut ==
  ASSUME NEW g, NEW g2, NEW s, NEW s2, FlagsMeet(g, g2), FlagsMeet(s, s2)
  PROVE  FlagsMeet(g \cap s, g2 \cap s2) /\ FlagsMeet(g \ s, g2 \ s2)
<1>1. \A x \in Kept : (x \in g <=> x \in g2) /\ (x \in s <=> x \in s2)
  BY DEF FlagsMeet
<1>2. mode = mode2 => g = g2 /\ s = s2
  BY DEF FlagsMeet
<1>3. (g \cap s) \cap Kept = (g2 \cap s2) \cap Kept /\ (g \ s) \cap Kept = (g2 \ s2) \cap Kept
  BY <1>1
<1>4. QED  BY <1>2, <1>3 DEF FlagsMeet

\* Flags the modes do not share.
LEMMA MeetOutside ==
  ASSUME NEW g, NEW g2, g \subseteq {"P", "H", "N", "X", "Y"}, g2 \subseteq {"P", "H", "N", "X", "Y"},
         mode = mode2 => g = g2
  PROVE  FlagsMeet(g, g2)
  BY DEF FlagsMeet, Kept

\* fix_flags changes only flags whose meaning differs.
LEMMA MeetFix ==
  ASSUME NEW g, NEW g2, FlagsMeet(g, g2)
  PROVE  FlagsMeet(Fix(g), Twin!Fix(g2))
<1>1. Fix(g) \cap Kept = g \cap Kept
  BY SMT DEF Fix, Kept
<1>2. Twin!Fix(g2) \cap Kept = g2 \cap Kept
  BY SMT DEF Twin!Fix, Kept
<1>3. mode = mode2 => Fix(g) = Twin!Fix(g2)
  BY SMT DEF Fix, Twin!Fix, FlagsMeet
<1>4. QED  BY Zenon, <1>1, <1>2, <1>3 DEF FlagsMeet

\* P is overflow on a Z80 and parity on an 8080: outside of the flags that must meet.
LEMMA MeetOverflow == \A v, r : FlagsMeet(Overflow(v, r), Twin!Overflow(v, r))
<1> SUFFICES ASSUME NEW v, NEW r  PROVE FlagsMeet(Overflow(v, r), Twin!Overflow(v, r))
  BY Zenon
<1>1. Twin!Overflow(v, r) = IF mode2 = "z80" THEN When("P", v) ELSE Parity(r)
  <2>1. Twin!When("P", v) = When("P", v) /\ Twin!Parity(r) = Parity(r)
    BY Zenon, TwinFlags
  <2>2. QED  BY Zenon, <2>1 DEF Twin!Overflow
<1>2. When("P", v) \subseteq {"P"} /\ Parity(r) \subseteq {"P"}
  BY Zenon, WhenOnly, FlagGroups
<1> DEFINE A == When("P", v)
           B == Parity(r)
<1>3. Overflow(v, r) = IF mode = "z80" THEN A ELSE B
  BY Zenon DEF Overflow
<1> HIDE DEF A, B
<1>4. Twin!Overflow(v, r) = IF mode2 = "z80" THEN A ELSE B
  BY Zenon, <1>1 DEF A, B
<1>5. A \subseteq {"P"} /\ B \subseteq {"P"}
  BY Zenon, <1>2 DEF A, B
<1>6. A \subseteq {"P", "H", "N", "X", "Y"} /\ B \subseteq {"P", "H", "N", "X", "Y"}
  BY SMT, <1>5
<1>7. FlagsMeet(A, A) /\ FlagsMeet(B, B)
  BY Zenon, MeetSame
<1>8. mode # mode2 => FlagsMeet(A, B) /\ FlagsMeet(B, A)
  BY Zenon, <1>6, MeetOutside
<1>9. CASE mode = mode2
  <2>1. Overflow(v, r) = Twin!Overflow(v, r)
    BY SMT, <1>3, <1>4, <1>9
  <2>2. QED  BY Zenon, <2>1, MeetSame
<1>10. CASE mode # mode2
  <2>1. FlagsMeet(IF mode = "z80" THEN A ELSE B, IF mode2 = "z80" THEN A ELSE B)
    <3>1. CASE mode = "z80"
      <4>1. mode2 # "z80"
        BY <1>10, <3>1
      <4>2. QED  BY SMT, <1>8, <1>10, <3>1, <4>1
    <3>2. CASE mode # "z80"
      BY SMT, <1>7, <1>8, <1>10, <3>2
    <3>3. QED  BY <3>1, <3>2
  <2>2. QED  BY Zenon, <2>1, <1>3, <1>4
<1>11. QED  BY <1>9, <1>10

\* What the results of the operations show.
LEMMA MeetSum ==
  ASSUME NEW x, NEW y, NEW c
  PROVE  FlagsMeet(SumFlags(x, y, c), Twin!SumFlags(x, y, c))
<1> DEFINE s == AddBits(8, x, y, c)
           g == SignZero(s.r) \cup XY(s.r) \cup When("C", s.c = 1) \cup When("H", s.h = 1)
           o == Overflow(s.v = 1, (x + y + c) % 256)
           o2 == Twin!Overflow(s.v = 1, (x + y + c) % 256)
<1>1. SumFlags(x, y, c) = Fix(g \cup o)
  BY Zenon DEF SumFlags
<1>2. Twin!SumFlags(x, y, c) = Twin!Fix(g \cup o2)
  <2>1. Twin!AddBits(8, x, y, c) = s
    BY Zenon, TwinBits
  <2>2. /\ Twin!SignZero(s.r) = SignZero(s.r) /\ Twin!XY(s.r) = XY(s.r)
        /\ Twin!When("C", s.c = 1) = When("C", s.c = 1) /\ Twin!When("H", s.h = 1) = When("H", s.h = 1)
    BY Zenon, TwinFlags
  <2>3. QED  BY ZenonT(40), <2>1, <2>2 DEF Twin!SumFlags
<1>3. FlagsMeet(o, o2)
  BY ZenonT(40), MeetOverflow
<1> HIDE DEF g, o, o2
<1>4. FlagsMeet(g \cup o, g \cup o2)
  BY Zenon, <1>3, MeetSame, MeetUnion
<1>5. QED  BY Zenon, <1>1, <1>2, <1>4, MeetFix

\* The same for a subtraction, whose half carry the modes compute differently.
LEMMA MeetDifference ==
  ASSUME NEW x, NEW y, NEW c
  PROVE  FlagsMeet(DiffFlags(x, y, c), Twin!DiffFlags(x, y, c))
<1> DEFINE d == SubBits(8, x, y, c)
           q == (x - y - c) % 256
           t1 == IF mode = "z80" THEN d.h = 1 ELSE Xor(Bit(x, 4), Xor(Bit(y, 4), Bit(q, 4))) = 0
           t2 == IF mode2 = "z80" THEN d.h = 1 ELSE Xor(Bit(x, 4), Xor(Bit(y, 4), Bit(q, 4))) = 0
           g == SignZero(d.r) \cup XY(d.r) \cup When("C", d.c = 1)
           h == When("H", t1)
           h2 == When("H", t2)
           o == Overflow(d.v = 1, q)
           o2 == Twin!Overflow(d.v = 1, q)
<1>1. DiffFlags(x, y, c) = Fix(g \cup h \cup {"N"} \cup o)
  BY Zenon DEF DiffFlags
<1>2. Twin!DiffFlags(x, y, c) = Twin!Fix(g \cup h2 \cup {"N"} \cup o2)
  <2>1. Twin!SubBits(8, x, y, c) = d
    BY Zenon, TwinBits
  <2>2. /\ Twin!SignZero(d.r) = SignZero(d.r) /\ Twin!XY(d.r) = XY(d.r)
        /\ Twin!When("C", d.c = 1) = When("C", d.c = 1)
    BY Zenon, TwinFlags
  <2>3. \A t : Twin!When("H", t) = When("H", t)
    BY Zenon, TwinFlags
  <2>4. Twin!Xor(Twin!Bit(x, 4), Twin!Xor(Twin!Bit(y, 4), Twin!Bit(q, 4))) = Xor(Bit(x, 4), Xor(Bit(y, 4), Bit(q, 4)))
    BY Zenon, TwinNumbers
  <2> DEFINE d3 == Twin!SubBits(8, x, y, c)
             q3 == Twin!Xor(Twin!Bit(x, 4), Twin!Xor(Twin!Bit(y, 4), Twin!Bit(q, 4)))
  <2>5. Twin!DiffFlags(x, y, c)
          = Twin!Fix(Twin!SignZero(d3.r) \cup Twin!XY(d3.r) \cup Twin!When("C", d3.c = 1)
                       \cup Twin!When("H", IF mode2 = "z80" THEN d3.h = 1 ELSE q3 = 0)
                       \cup {"N"} \cup Twin!Overflow(d3.v = 1, q))
    BY Zenon DEF Twin!DiffFlags
  <2>6. d3 = d /\ q3 = Xor(Bit(x, 4), Xor(Bit(y, 4), Bit(q, 4)))
    BY Zenon, <2>1, <2>4
  <2> HIDE DEF d, d3, q, q3
  <2>7. Twin!DiffFlags(x, y, c)
          = Twin!Fix(Twin!SignZero(d.r) \cup Twin!XY(d.r) \cup Twin!When("C", d.c = 1)
                       \cup Twin!When("H", t2) \cup {"N"} \cup o2)
    BY Zenon, <2>5, <2>6
  <2>8. QED  BY Zenon, <2>2, <2>3, <2>7
<1> HIDE DEF d
<1>3. FlagsMeet(o, o2)
  BY ZenonT(40), MeetOverflow
<1>4. FlagsMeet(h, h2)
  <2>1. h \subseteq {"H"} /\ h2 \subseteq {"H"}
    BY Zenon, WhenOnly
  <2>2. mode = mode2 => h = h2
    BY Zenon
  <2> HIDE DEF h, h2
  <2>3. h \subseteq {"P", "H", "N", "X", "Y"} /\ h2 \subseteq {"P", "H", "N", "X", "Y"}
    BY SMT, <2>1
  <2>4. QED  BY Zenon, <2>2, <2>3, MeetOutside
<1> HIDE DEF g, h, h2, o, o2
<1>5. FlagsMeet(g \cup h \cup {"N"} \cup o, g \cup h2 \cup {"N"} \cup o2)
  BY Zenon, <1>3, <1>4, MeetSame, MeetUnion
<1>6. QED  BY Zenon, <1>1, <1>2, <1>5, MeetFix

\* The same for logical operations, whatever H the modes give them, and for shifts.
LEMMA MeetLogic ==
  ASSUME NEW r, NEW c
  PROVE  /\ \A h : FlagsMeet(LogicFlags(r, c, h), Twin!LogicFlags(r, c, h))
         /\ \A h, h2 : mode # mode2 => FlagsMeet(LogicFlags(r, c, h), Twin!LogicFlags(r, c, h2))
         /\ FlagsMeet(ShiftFlags(r, c), Twin!ShiftFlags(r, c))
<1> DEFINE g == ResultFlags(r) \cup When("C", c = 1)
<1>1. \A h : LogicFlags(r, c, h) = Fix(g \cup When("H", h))
  BY Zenon DEF LogicFlags
<1>2. \A h : Twin!LogicFlags(r, c, h) = Twin!Fix(g \cup When("H", h))
  <2>1. Twin!ResultFlags(r) = ResultFlags(r) /\ Twin!When("C", c = 1) = When("C", c = 1)
    BY Zenon, TwinFlags
  <2>2. \A h : Twin!When("H", h) = When("H", h)
    BY Zenon, TwinFlags
  <2>3. QED  BY Zenon, <2>1, <2>2 DEF Twin!LogicFlags
<1>3. ShiftFlags(r, c) = Fix(g) /\ Twin!ShiftFlags(r, c) = Twin!Fix(g)
  <2>1. Twin!ResultFlags(r) = ResultFlags(r) /\ Twin!When("C", c = 1) = When("C", c = 1)
    BY Zenon, TwinFlags
  <2>2. QED  BY Zenon, <2>1 DEF Twin!ShiftFlags, ShiftFlags
<1> HIDE DEF g
<1>4. \A h : FlagsMeet(g \cup When("H", h), g \cup When("H", h))
  BY Zenon, MeetSame
<1>5. ASSUME mode # mode2, NEW h, NEW h2  PROVE FlagsMeet(g \cup When("H", h), g \cup When("H", h2))
  <2>1. When("H", h) \subseteq {"H"} /\ When("H", h2) \subseteq {"H"}
    BY Zenon, WhenOnly
  <2> DEFINE A == When("H", h)
             B == When("H", h2)
  <2> HIDE DEF A, B
  <2>2. FlagsMeet(A, B)
    <3>1. A \subseteq {"H"} /\ B \subseteq {"H"}
      BY Zenon, <2>1 DEF A, B
    <3>2. A \subseteq {"P", "H", "N", "X", "Y"} /\ B \subseteq {"P", "H", "N", "X", "Y"}
      BY SMT, <3>1
    <3>3. QED  BY Zenon, <1>5, <3>2, MeetOutside
  <2>3. FlagsMeet(g \cup A, g \cup B)
    BY Zenon, <2>2, MeetSame, MeetUnion
  <2>4. QED  BY Zenon, <2>3 DEF A, B
<1>6. FlagsMeet(Fix(g), Twin!Fix(g))
  BY Zenon, MeetSame, MeetFix
<1>7. \A h : FlagsMeet(LogicFlags(r, c, h), Twin!LogicFlags(r, c, h))
  BY ZenonT(40), <1>1, <1>2, <1>4, MeetFix
<1>8. ASSUME mode # mode2, NEW h, NEW h2  PROVE FlagsMeet(LogicFlags(r, c, h), Twin!LogicFlags(r, c, h2))
  <2>1. FlagsMeet(Fix(g \cup When("H", h)), Twin!Fix(g \cup When("H", h2)))
    BY Zenon, <1>5, <1>8, MeetFix
  <2>2. QED  BY Zenon, <2>1, <1>1, <1>2
<1>9. QED  BY Zenon, <1>3, <1>6, <1>7, <1>8

-----------------------------------------------------------------------------
(* Results in the two modes.                                                 *)

ResultsMeet(res, res2) == res2.r = res.r /\ FlagsMeet(res.f, res2.f)

\* Equal bytes with flags that meet.
LEMMA MeetResult ==
  ASSUME NEW r, NEW g, NEW g2, FlagsMeet(g, g2)
  PROVE  ResultsMeet(Result(r, g), Twin!Result(r, g2))
<1>1. Result(r, g).r = r /\ Result(r, g).f = g /\ Twin!Result(r, g2).r = r /\ Twin!Result(r, g2).f = g2
  BY DEF Result, Twin!Result
<1>2. QED  BY <1>1 DEF ResultsMeet

\* The carry that goes into an operation is the same.
LEMMA SameCarry == ASSUME FlagsMeet(f, f2)  PROVE Twin!CarryIn = CarryIn
<1>1. "C" \in f <=> "C" \in f2
  BY DEF FlagsMeet, Kept
<1>2. QED  BY <1>1 DEF CarryIn, Twin!CarryIn

\* The eight operations of the ALU.
LEMMA CombinedMeets ==
  ASSUME a2 = a, FlagsMeet(f, f2), NEW op, NEW y
  PROVE  ResultsMeet(Combined(op, y), Twin!Combined(op, y))
<1>1. ResultsMeet(Sum(op, y), Twin!Sum(op, y))
  <2> DEFINE c == IF op = "adc" THEN CarryIn ELSE 0
             c2 == IF op = "adc" THEN Twin!CarryIn ELSE 0
  <2>1. /\ Sum(op, y) = Result((a + y + c) % 256, SumFlags(a, y, c))
        /\ Twin!Sum(op, y) = Twin!Result((a2 + y + c2) % 256, Twin!SumFlags(a2, y, c2))
    BY Zenon DEF Sum, Twin!Sum
  <2>2. c2 = c
    BY SameCarry
  <2> HIDE DEF c, c2
  <2>3. FlagsMeet(SumFlags(a, y, c), Twin!SumFlags(a, y, c))
    BY Zenon, MeetSum
  <2>4. ResultsMeet(Result((a + y + c) % 256, SumFlags(a, y, c)), Twin!Result((a + y + c) % 256, Twin!SumFlags(a, y, c)))
    BY Zenon, <2>3, MeetResult
  <2>5. QED  BY Zenon, <2>1, <2>2, <2>4
<1>2. ResultsMeet(Difference(op, y), Twin!Difference(op, y))
  <2> DEFINE c == IF op = "sbb" THEN CarryIn ELSE 0
             c2 == IF op = "sbb" THEN Twin!CarryIn ELSE 0
  <2>1. /\ Difference(op, y) = Result((a - y - c) % 256, DiffFlags(a, y, c))
        /\ Twin!Difference(op, y) = Twin!Result((a2 - y - c2) % 256, Twin!DiffFlags(a2, y, c2))
    BY Zenon DEF Difference, Twin!Difference
  <2>2. c2 = c
    BY SameCarry
  <2> HIDE DEF c, c2
  <2>3. FlagsMeet(DiffFlags(a, y, c), Twin!DiffFlags(a, y, c))
    BY Zenon, MeetDifference
  <2>4. ResultsMeet(Result((a - y - c) % 256, DiffFlags(a, y, c)), Twin!Result((a - y - c) % 256, Twin!DiffFlags(a, y, c)))
    BY Zenon, <2>3, MeetResult
  <2>5. QED  BY Zenon, <2>1, <2>2, <2>4
<1>3. ResultsMeet(Comparison(y), Twin!Comparison(y))
  <2> DEFINE g == DiffFlags(a, y, 0)
             g2 == Twin!DiffFlags(a, y, 0)
  <2>1. Comparison(y) = Result(a, Fix((g \ {"X", "Y"}) \cup XY(y)))
    BY Zenon DEF Comparison
  <2>2. Twin!Comparison(y) = Twin!Result(a, Twin!Fix((g2 \ {"X", "Y"}) \cup XY(y)))
    BY Zenon, TwinFlags DEF Twin!Comparison
  <2>3. FlagsMeet(g, g2)
    BY Zenon, MeetDifference
  <2> HIDE DEF g, g2
  <2>4. FlagsMeet((g \ {"X", "Y"}) \cup XY(y), (g2 \ {"X", "Y"}) \cup XY(y))
    BY Zenon, <2>3, MeetSame, MeetCut, MeetUnion
  <2>5. ResultsMeet(Result(a, Fix((g \ {"X", "Y"}) \cup XY(y))), Twin!Result(a, Twin!Fix((g2 \ {"X", "Y"}) \cup XY(y))))
    BY Zenon, <2>4, MeetFix, MeetResult
  <2>6. QED  BY Zenon, <2>1, <2>2, <2>5
<1>4. ResultsMeet(Conjunction(y), Twin!Conjunction(y))
  <2> DEFINE r == NumberOf(8, LAMBDA i : Bit(a, i) * Bit(y, i))
             r2 == Twin!NumberOf(8, LAMBDA i : Twin!Bit(a2, i) * Twin!Bit(y, i))
             h == Bit(a, 3) + Bit(y, 3) > 0
  <2>1. Conjunction(y) = Result(r, LogicFlags(r, 0, mode = "z80" \/ h))
    BY Zenon DEF Conjunction
  <2>2. Twin!Conjunction(y) = Twin!Result(r2, Twin!LogicFlags(r2, 0, mode2 = "z80" \/ h))
    BY Zenon DEF Twin!Conjunction, Twin!Bit, Bit
  <2>3. r2 = r
    BY Zenon DEF Twin!NumberOf, NumberOf, Twin!Bit, Bit
  <2> HIDE DEF r, r2, h
  <2>4. FlagsMeet(LogicFlags(r, 0, mode = "z80" \/ h), Twin!LogicFlags(r, 0, mode2 = "z80" \/ h))
    <3>1. CASE mode # mode2
      BY Zenon, <3>1, MeetLogic
    <3>2. CASE mode = mode2
      <4>1. FlagsMeet(LogicFlags(r, 0, mode2 = "z80" \/ h), Twin!LogicFlags(r, 0, mode2 = "z80" \/ h))
        BY Zenon, MeetLogic
      <4>2. QED  BY Zenon, <3>2, <4>1
    <3>3. QED  BY <3>1, <3>2
  <2>5. ResultsMeet(Result(r, LogicFlags(r, 0, mode = "z80" \/ h)), Twin!Result(r, Twin!LogicFlags(r, 0, mode2 = "z80" \/ h)))
    BY Zenon, <2>4, MeetResult
  <2>6. QED  BY Zenon, <2>1, <2>2, <2>3, <2>5
<1>5. ResultsMeet(Disjunction(op, y), Twin!Disjunction(op, y))
  <2> DEFINE r == NumberOf(8, LAMBDA i : IF op = "xra" THEN Xor(Bit(a, i), Bit(y, i))
                                         ELSE IF Bit(a, i) + Bit(y, i) > 0 THEN 1 ELSE 0)
             r2 == Twin!NumberOf(8, LAMBDA i : IF op = "xra" THEN Twin!Xor(Twin!Bit(a2, i), Twin!Bit(y, i))
                                         ELSE IF Twin!Bit(a2, i) + Twin!Bit(y, i) > 0 THEN 1 ELSE 0)
  <2>1. Disjunction(op, y) = Result(r, LogicFlags(r, 0, FALSE))
    BY Zenon DEF Disjunction
  <2>2. Twin!Disjunction(op, y) = Twin!Result(r2, Twin!LogicFlags(r2, 0, FALSE))
    BY Zenon DEF Twin!Disjunction
  <2>3. r2 = r
    BY Zenon DEF Twin!NumberOf, NumberOf, Twin!Bit, Bit, Twin!Xor, Xor
  <2> HIDE DEF r, r2
  <2>4. ResultsMeet(Result(r, LogicFlags(r, 0, FALSE)), Twin!Result(r, Twin!LogicFlags(r, 0, FALSE)))
    BY Zenon, MeetLogic, MeetResult
  <2>5. QED  BY Zenon, <2>1, <2>2, <2>3, <2>4
<1>6. /\ Combined(op, y) = (CASE op \in {"add", "adc"} -> Sum(op, y)
                              [] op \in {"sub", "sbb"} -> Difference(op, y)
                              [] op = "cmp"            -> Comparison(y)
                              [] op = "ana"            -> Conjunction(y)
                              [] OTHER                 -> Disjunction(op, y))
      /\ Twin!Combined(op, y) = (CASE op \in {"add", "adc"} -> Twin!Sum(op, y)
                                   [] op \in {"sub", "sbb"} -> Twin!Difference(op, y)
                                   [] op = "cmp"            -> Twin!Comparison(y)
                                   [] op = "ana"            -> Twin!Conjunction(y)
                                   [] OTHER                 -> Twin!Disjunction(op, y))
  BY Zenon DEF Combined, Twin!Combined
<1>7. \/ Combined(op, y) = Sum(op, y) /\ Twin!Combined(op, y) = Twin!Sum(op, y)
      \/ Combined(op, y) = Difference(op, y) /\ Twin!Combined(op, y) = Twin!Difference(op, y)
      \/ Combined(op, y) = Comparison(y) /\ Twin!Combined(op, y) = Twin!Comparison(y)
      \/ Combined(op, y) = Conjunction(y) /\ Twin!Combined(op, y) = Twin!Conjunction(y)
      \/ Combined(op, y) = Disjunction(op, y) /\ Twin!Combined(op, y) = Twin!Disjunction(op, y)
  BY SMT, <1>6
<1>8. QED  BY SMT, <1>1, <1>2, <1>3, <1>4, <1>5, <1>7

\* The flags of INR and DCR, whose half carries the modes compute differently.
LEMMA StepFlagsMeet ==
  ASSUME FlagsMeet(f, f2), NEW r, NEW v, NEW up, NEW h, NEW h2, mode = mode2 => (h <=> h2)
  PROVE  FlagsMeet(StepFlags(r, h, v, up), Twin!StepFlags(r, h2, v, up))
<1> DEFINE o == Overflow(v, r)
           o2 == Twin!Overflow(v, r)
           g == When("H", h)
           g2 == When("H", h2)
           s == SignZero(r)
           t == XY(r)
           n == When("N", ~up)
<1>1. StepFlags(r, h, v, up) = Fix((f \cap {"C"}) \cup s \cup t \cup g \cup o \cup n)
  BY Zenon DEF StepFlags
<1>2. Twin!StepFlags(r, h2, v, up) = Twin!Fix((f2 \cap {"C"}) \cup s \cup t \cup g2 \cup o2 \cup n)
  BY Zenon, TwinFlags DEF Twin!StepFlags
<1>3. FlagsMeet(o, o2)
  BY Zenon, MeetOverflow
<1>4. FlagsMeet(g, g2)
  <2>1. g \subseteq {"H"} /\ g2 \subseteq {"H"}
    BY Zenon, WhenOnly
  <2>2. mode = mode2 => g = g2
    BY SMT DEF When
  <2> HIDE DEF g, g2
  <2>3. g \subseteq {"P", "H", "N", "X", "Y"} /\ g2 \subseteq {"P", "H", "N", "X", "Y"}
    BY SMT, <2>1
  <2>4. QED  BY Zenon, <2>2, <2>3, MeetOutside
<1> HIDE DEF o, o2, g, g2, s, t, n
<1>5. FlagsMeet(f \cap {"C"}, f2 \cap {"C"})
  BY Zenon, MeetCut, MeetSame
<1>6. FlagsMeet((f \cap {"C"}) \cup s \cup t \cup g \cup o \cup n, (f2 \cap {"C"}) \cup s \cup t \cup g2 \cup o2 \cup n)
  BY Zenon, <1>3, <1>4, <1>5, MeetSame, MeetUnion
<1>7. QED  BY Zenon, <1>1, <1>2, <1>6, MeetFix

\* INR and DCR.
LEMMA SteppedMeet ==
  ASSUME FlagsMeet(f, f2), NEW v
  PROVE  ResultsMeet(Incremented(v), Twin!Incremented(v)) /\ ResultsMeet(Decremented(v), Twin!Decremented(v))
<1>1. ResultsMeet(Incremented(v), Twin!Incremented(v))
  <2> DEFINE r == (v + 1) % 256
  <2>1. /\ Incremented(v) = Result(r, StepFlags(r, r % 16 = 0, r = 128, TRUE))
        /\ Twin!Incremented(v) = Twin!Result(r, Twin!StepFlags(r, r % 16 = 0, r = 128, TRUE))
    BY Zenon DEF Incremented, Twin!Incremented
  <2> HIDE DEF r
  <2>2. FlagsMeet(StepFlags(r, r % 16 = 0, r = 128, TRUE), Twin!StepFlags(r, r % 16 = 0, r = 128, TRUE))
    BY Zenon, StepFlagsMeet
  <2>3. ResultsMeet(Result(r, StepFlags(r, r % 16 = 0, r = 128, TRUE)), Twin!Result(r, Twin!StepFlags(r, r % 16 = 0, r = 128, TRUE)))
    BY Zenon, <2>2, MeetResult
  <2>4. QED  BY Zenon, <2>1, <2>3
<1>2. ResultsMeet(Decremented(v), Twin!Decremented(v))
  <2> DEFINE r == (v - 1) % 256
             h == (r % 16 = 15) = (mode = "z80")
             h2 == (r % 16 = 15) = (mode2 = "z80")
  <2>1. /\ Decremented(v) = Result(r, StepFlags(r, h, r = 127, FALSE))
        /\ Twin!Decremented(v) = Twin!Result(r, Twin!StepFlags(r, h2, r = 127, FALSE))
    BY Zenon DEF Decremented, Twin!Decremented
  <2>2. mode = mode2 => (h <=> h2)
    BY Zenon
  <2> HIDE DEF r, h, h2
  <2>3. FlagsMeet(StepFlags(r, h, r = 127, FALSE), Twin!StepFlags(r, h2, r = 127, FALSE))
    BY Zenon, <2>2, StepFlagsMeet
  <2>4. ResultsMeet(Result(r, StepFlags(r, h, r = 127, FALSE)), Twin!Result(r, Twin!StepFlags(r, h2, r = 127, FALSE)))
    BY Zenon, <2>3, MeetResult
  <2>5. QED  BY Zenon, <2>1, <2>4
<1>3. QED  BY <1>1, <1>2

\* DAA depends on N and H: in one mode only.
LEMMA AdjustedMeets ==
  ASSUME a2 = a, f2 = f, mode2 = mode
  PROVE  ResultsMeet(Adjusted, Twin!Adjusted)
<1> DEFINE Tens(x, g) == "C" \in g \/ x \div 16 >= 10 \/ (x \div 16 = 9 /\ x % 16 >= 10)
           Ones1(x, g) == "H" \in g \/ x % 16 >= 10
           Diff(x, g) == (IF Tens(x, g) THEN 96 ELSE 0) + (IF Ones1(x, g) THEN 6 ELSE 0)
           R(x, g) == IF "N" \in g THEN (x - Diff(x, g)) % 256 ELSE (x + Diff(x, g)) % 256
           Half(x, g) == IF "N" \in g THEN "H" \in g /\ x % 16 < 6 ELSE x % 16 >= 10
<1>1. Adjusted = Result(R(a, f), Fix(ResultFlags(R(a, f)) \cup When("C", Tens(a, f)) \cup When("H", Half(a, f)) \cup (f \cap {"N"})))
  BY Zenon DEF Adjusted
<1>2. Twin!Adjusted = Twin!Result(R(a2, f2), Twin!Fix(Twin!ResultFlags(R(a2, f2)) \cup Twin!When("C", Tens(a2, f2))
                                    \cup Twin!When("H", Half(a2, f2)) \cup (f2 \cap {"N"})))
  BY Zenon DEF Twin!Adjusted
<1> DEFINE r == R(a, f)
           t == Tens(a, f)
           h == Half(a, f)
<1>3. Twin!Adjusted = Twin!Result(r, Twin!Fix(Twin!ResultFlags(r) \cup Twin!When("C", t) \cup Twin!When("H", h) \cup (f \cap {"N"})))
  <2> HIDE DEF R, Tens, Half
  <2>1. R(a2, f2) = r /\ (Tens(a2, f2) = t) /\ (Half(a2, f2) = h)
    BY Zenon
  <2> HIDE DEF r, t, h
  <2>2. QED  BY Zenon, <1>2, <2>1
<1> HIDE DEF R, Tens, Half
<1>4. Twin!ResultFlags(r) = ResultFlags(r) /\ Twin!When("C", t) = When("C", t) /\ Twin!When("H", h) = When("H", h)
  BY Zenon, TwinFlags
<1> HIDE DEF r, t, h
<1> DEFINE g == ResultFlags(r) \cup When("C", t) \cup When("H", h) \cup (f \cap {"N"})
<1>5. Adjusted = Result(r, Fix(g))
  BY Zenon, <1>1 DEF r, t, h
<1>6. Twin!Adjusted = Twin!Result(r, Twin!Fix(g))
  BY Zenon, <1>3, <1>4
<1> HIDE DEF g
<1>7. ResultsMeet(Result(r, Fix(g)), Twin!Result(r, Twin!Fix(g)))
  BY Zenon, MeetSame, MeetFix, MeetResult
<1>8. QED  BY Zenon, <1>5, <1>6, <1>7

\* The flags of a rotation of A.
LEMMA RotateFlagsMeet ==
  ASSUME FlagsMeet(f, f2), NEW r, NEW c
  PROVE  FlagsMeet(RotateFlags(r, c), Twin!RotateFlags(r, c))
<1> DEFINE s == {"C", "X", "Y"} \cup IF mode = "z80" THEN {"N", "H"} ELSE {}
           s2 == {"C", "X", "Y"} \cup IF mode2 = "z80" THEN {"N", "H"} ELSE {}
           w == When("C", c = 1)
           t == XY(r)
<1>1. RotateFlags(r, c) = Fix((f \ s) \cup w \cup t)
  BY Zenon DEF RotateFlags
<1>2. Twin!RotateFlags(r, c) = Twin!Fix((f2 \ s2) \cup w \cup t)
  BY Zenon, TwinFlags DEF Twin!RotateFlags
<1>3. FlagsMeet(s, s2)
  BY SMT DEF FlagsMeet, Kept
<1> HIDE DEF s, s2, w, t
<1>4. FlagsMeet((f \ s) \cup w \cup t, (f2 \ s2) \cup w \cup t)
  BY Zenon, <1>3, MeetCut, MeetSame, MeetUnion
<1>5. QED  BY Zenon, <1>1, <1>2, <1>4, MeetFix

\* The operations on A, but DAA in different modes.
LEMMA OnAccumulatorMeets ==
  ASSUME a2 = a, FlagsMeet(f, f2), NEW op, op = "daa" => mode2 = mode
  PROVE  ResultsMeet(OnAccumulator(op), Twin!OnAccumulator(op))
<1>1. op = "daa" => ResultsMeet(Adjusted, Twin!Adjusted)
  BY AdjustedMeets DEF FlagsMeet
<1>2. ResultsMeet(Complemented, Twin!Complemented)
  <2> DEFINE r == 255 - a
             t == XY(r)
  <2>1. Complemented = Result(r, Fix((f \ {"X", "Y"}) \cup {"N", "H"} \cup t))
    BY Zenon DEF Complemented
  <2>2. Twin!Complemented = Twin!Result(r, Twin!Fix((f2 \ {"X", "Y"}) \cup {"N", "H"} \cup t))
    BY Zenon, TwinFlags DEF Twin!Complemented
  <2> HIDE DEF r, t
  <2>3. FlagsMeet((f \ {"X", "Y"}) \cup {"N", "H"} \cup t, (f2 \ {"X", "Y"}) \cup {"N", "H"} \cup t)
    BY Zenon, MeetCut, MeetSame, MeetUnion
  <2>4. ResultsMeet(Result(r, Fix((f \ {"X", "Y"}) \cup {"N", "H"} \cup t)),
                    Twin!Result(r, Twin!Fix((f2 \ {"X", "Y"}) \cup {"N", "H"} \cup t)))
    BY Zenon, <2>3, MeetFix, MeetResult
  <2>5. QED  BY Zenon, <2>1, <2>2, <2>4
<1>3. ResultsMeet(CarrySet, Twin!CarrySet)
  <2> DEFINE t == XY(a)
  <2>1. CarrySet = Result(a, Fix((f \ {"N", "H", "X", "Y"}) \cup {"C"} \cup t))
    BY Zenon DEF CarrySet
  <2>2. Twin!CarrySet = Twin!Result(a, Twin!Fix((f2 \ {"N", "H", "X", "Y"}) \cup {"C"} \cup t))
    BY Zenon, TwinFlags DEF Twin!CarrySet
  <2> HIDE DEF t
  <2>3. FlagsMeet((f \ {"N", "H", "X", "Y"}) \cup {"C"} \cup t, (f2 \ {"N", "H", "X", "Y"}) \cup {"C"} \cup t)
    BY Zenon, MeetCut, MeetSame, MeetUnion
  <2>4. ResultsMeet(Result(a, Fix((f \ {"N", "H", "X", "Y"}) \cup {"C"} \cup t)),
                    Twin!Result(a, Twin!Fix((f2 \ {"N", "H", "X", "Y"}) \cup {"C"} \cup t)))
    BY Zenon, <2>3, MeetFix, MeetResult
  <2>5. QED  BY Zenon, <2>1, <2>2, <2>4
<1>4. ResultsMeet(CarryFlipped, Twin!CarryFlipped)
  <2> DEFINE t == XY(a)
             w == IF "C" \in f THEN {"H"} ELSE {"C"}
             w2 == IF "C" \in f2 THEN {"H"} ELSE {"C"}
  <2>1. CarryFlipped = Result(a, Fix((f \ {"N", "C", "H", "X", "Y"}) \cup t \cup w))
    BY Zenon DEF CarryFlipped
  <2>2. Twin!CarryFlipped = Twin!Result(a, Twin!Fix((f2 \ {"N", "C", "H", "X", "Y"}) \cup t \cup w2))
    BY Zenon, TwinFlags DEF Twin!CarryFlipped
  <2>3. w2 = w
    <3>1. "C" \in f <=> "C" \in f2
      BY DEF FlagsMeet, Kept
    <3>2. QED  BY <3>1
  <2> HIDE DEF t, w, w2
  <2>4. FlagsMeet((f \ {"N", "C", "H", "X", "Y"}) \cup t \cup w, (f2 \ {"N", "C", "H", "X", "Y"}) \cup t \cup w)
    BY Zenon, MeetCut, MeetSame, MeetUnion
  <2>5. ResultsMeet(Result(a, Fix((f \ {"N", "C", "H", "X", "Y"}) \cup t \cup w)),
                    Twin!Result(a, Twin!Fix((f2 \ {"N", "C", "H", "X", "Y"}) \cup t \cup w)))
    BY Zenon, <2>4, MeetFix, MeetResult
  <2>6. QED  BY Zenon, <2>1, <2>2, <2>3, <2>5
<1>5. ResultsMeet(Rotated(op), Twin!Rotated(op))
  <2> DEFINE Out(x) == IF op \in {"rlca", "rla"} THEN Bit(x, 7) ELSE Bit(x, 0)
             In(x, c) == IF op \in {"rlca", "rrca"} THEN Out(x) ELSE c
             R(x, c) == IF op \in {"rlca", "rla"} THEN ((2 * x) % 256) + In(x, c) ELSE x \div 2 + 128 * In(x, c)
             r == R(a, CarryIn)
             out == Out(a)
  <2>1. Rotated(op) = Result(r, RotateFlags(r, out))
    BY Zenon DEF Rotated
  <2>2. Twin!Rotated(op) = Twin!Result(r, Twin!RotateFlags(r, out))
    <3>1. Twin!CarryIn = CarryIn
      BY SameCarry
    <3>2. Twin!Rotated(op) = Twin!Result(R(a2, Twin!CarryIn), Twin!RotateFlags(R(a2, Twin!CarryIn), Out(a2)))
      BY Zenon DEF Twin!Rotated, Twin!Bit, Bit
    <3> HIDE DEF R, Out
    <3>3. QED  BY Zenon, <3>1, <3>2
  <2> HIDE DEF R, Out, r, out
  <2>3. ResultsMeet(Result(r, RotateFlags(r, out)), Twin!Result(r, Twin!RotateFlags(r, out)))
    BY Zenon, RotateFlagsMeet, MeetResult
  <2>4. QED  BY Zenon, <2>1, <2>2, <2>3
<1>6. /\ OnAccumulator(op) = (CASE op = "daa" -> Adjusted [] op = "cpl" -> Complemented
                                [] op = "scf" -> CarrySet [] op = "ccf" -> CarryFlipped [] OTHER -> Rotated(op))
      /\ Twin!OnAccumulator(op) = (CASE op = "daa" -> Twin!Adjusted [] op = "cpl" -> Twin!Complemented
                                [] op = "scf" -> Twin!CarrySet [] op = "ccf" -> Twin!CarryFlipped [] OTHER -> Twin!Rotated(op))
  BY Zenon DEF OnAccumulator, Twin!OnAccumulator
<1>7. \/ op = "daa" /\ OnAccumulator(op) = Adjusted /\ Twin!OnAccumulator(op) = Twin!Adjusted
      \/ OnAccumulator(op) = Complemented /\ Twin!OnAccumulator(op) = Twin!Complemented
      \/ OnAccumulator(op) = CarrySet /\ Twin!OnAccumulator(op) = Twin!CarrySet
      \/ OnAccumulator(op) = CarryFlipped /\ Twin!OnAccumulator(op) = Twin!CarryFlipped
      \/ OnAccumulator(op) = Rotated(op) /\ Twin!OnAccumulator(op) = Twin!Rotated(op)
  BY SMT, <1>6
<1>8. QED  BY SMT, <1>1, <1>2, <1>3, <1>4, <1>5, <1>7

\* The shifts and rotations of the CB table.
LEMMA ShiftedMeets ==
  ASSUME FlagsMeet(f, f2), NEW op, NEW v
  PROVE  ResultsMeet(Shifted(op, v), Twin!Shifted(op, v))
<1> DEFINE left == op \in {"rlc", "rl", "sla", "sll"}
           out == Bit(v, IF left THEN 7 ELSE 0)
           In(c) == CASE op \in {"rlc", "rrc"} -> out
                      [] op \in {"rl", "rr"}   -> c
                      [] op = "sra"            -> Bit(v, 7)
                      [] op = "sll"            -> 1
                      [] OTHER                 -> 0
           R(c) == IF left THEN ((2 * v) % 256) + In(c) ELSE v \div 2 + 128 * In(c)
           r == R(CarryIn)
<1>1. Shifted(op, v) = Result(r, ShiftFlags(r, out))
  BY Zenon DEF Shifted
<1>2. Twin!Shifted(op, v) = Twin!Result(r, Twin!ShiftFlags(r, out))
  <2>1. Twin!CarryIn = CarryIn
    BY SameCarry
  <2>2. Twin!Shifted(op, v) = Twin!Result(R(Twin!CarryIn), Twin!ShiftFlags(R(Twin!CarryIn), out))
    BY Zenon DEF Twin!Shifted, Twin!Bit, Bit
  <2> HIDE DEF R, out
  <2>3. QED  BY Zenon, <2>1, <2>2
<1> HIDE DEF r, out
<1>3. ResultsMeet(Result(r, ShiftFlags(r, out)), Twin!Result(r, Twin!ShiftFlags(r, out)))
  BY Zenon, MeetLogic, MeetResult
<1>4. QED  BY Zenon, <1>1, <1>2, <1>3

\* BIT.
LEMMA BitTestedMeets ==
  ASSUME FlagsMeet(f, f2), NEW n, NEW v, NEW xy
  PROVE  FlagsMeet(BitTested(n, v, xy), Twin!BitTested(n, v, xy))
<1> DEFINE t == XY(xy)
           s == When("S", n = 7 /\ Bit(v, 7) = 1)
           z == IF Bit(v, n) = 0 THEN {"Z", "P"} ELSE {}
<1>1. BitTested(n, v, xy) = (f \cap {"C"}) \cup {"H"} \cup t \cup s \cup z
  BY Zenon DEF BitTested
<1>2. Twin!BitTested(n, v, xy) = (f2 \cap {"C"}) \cup {"H"} \cup t \cup s \cup z
  <2>1. Twin!BitTested(n, v, xy) = (f2 \cap {"C"}) \cup {"H"} \cup Twin!XY(xy) \cup Twin!When("S", n = 7 /\ Bit(v, 7) = 1) \cup z
    BY Zenon DEF Twin!BitTested, Twin!Bit, Bit
  <2>2. QED  BY Zenon, <2>1, TwinFlags
<1> HIDE DEF t, s, z
<1>3. FlagsMeet((f \cap {"C"}) \cup {"H"} \cup t \cup s \cup z, (f2 \cap {"C"}) \cup {"H"} \cup t \cup s \cup z)
  BY Zenon, MeetCut, MeetSame, MeetUnion
<1>4. QED  BY Zenon, <1>1, <1>2, <1>3

-----------------------------------------------------------------------------
(* The carry of a 16-bit addition.                                           *)

\* The carry into bit i: whether the bits below it sum to more than they hold.
CarryInto(i, x, y) == IF (x % 2 ^ i) + (y % 2 ^ i) >= 2 ^ i THEN 1 ELSE 0

IsCarries(cy, x, y) ==
  cy = [i \in 0..16 |-> IF i = 0 THEN 0
                        ELSE IF Bit(x, i - 1) + Bit(y, i - 1) + cy[i - 1] >= 2 THEN 1 ELSE 0]

\* The carry into a bit by the numbers below it, from the carry into the bit before.
LEMMA CarryOn ==
  ASSUME NEW x \in Int, NEW y \in Int, x >= 0, y >= 0, NEW i \in 1..16
  PROVE  CarryInto(i, x, y)
           = IF Bit(x, i - 1) + Bit(y, i - 1) + CarryInto(i - 1, x, y) >= 2 THEN 1 ELSE 0
<1>1. \/ i = 1 \/ i = 2 \/ i = 3 \/ i = 4 \/ i = 5 \/ i = 6 \/ i = 7 \/ i = 8
      \/ i = 9 \/ i = 10 \/ i = 11 \/ i = 12 \/ i = 13 \/ i = 14 \/ i = 15 \/ i = 16
  BY SMT
<1>a. CASE i = 1
  BY SMT, <1>a DEF CarryInto, Bit
<1>b. CASE i = 2
  BY SMT, <1>b DEF CarryInto, Bit
<1>c. CASE i = 3
  BY SMT, <1>c DEF CarryInto, Bit
<1>d. CASE i = 4
  BY SMT, <1>d DEF CarryInto, Bit
<1>e. CASE i = 5
  BY SMT, <1>e DEF CarryInto, Bit
<1>f. CASE i = 6
  BY SMT, <1>f DEF CarryInto, Bit
<1>g. CASE i = 7
  BY SMT, <1>g DEF CarryInto, Bit
<1>h. CASE i = 8
  BY SMT, <1>h DEF CarryInto, Bit
<1>i. CASE i = 9
  BY SMT, <1>i DEF CarryInto, Bit
<1>j. CASE i = 10
  BY SMT, <1>j DEF CarryInto, Bit
<1>k. CASE i = 11
  BY SMT, <1>k DEF CarryInto, Bit
<1>l. CASE i = 12
  BY SMT, <1>l DEF CarryInto, Bit
<1>m. CASE i = 13
  BY SMT, <1>m DEF CarryInto, Bit
<1>n. CASE i = 14
  BY SMT, <1>n DEF CarryInto, Bit
<1>o. CASE i = 15
  BY SMT, <1>o DEF CarryInto, Bit
<1>p. CASE i = 16
  BY SMT, <1>p DEF CarryInto, Bit
<1>2. QED
  BY <1>1, <1>a, <1>b, <1>c, <1>d, <1>e, <1>f, <1>g, <1>h, <1>i, <1>j, <1>k, <1>l, <1>m, <1>n, <1>o, <1>p

\* Therefore the carries by numbers are the carries bit by bit.
LEMMA CarriesExist ==
  ASSUME NEW x \in Int, NEW y \in Int, x >= 0, y >= 0
  PROVE  IsCarries([i \in 0..16 |-> CarryInto(i, x, y)], x, y)
<1> DEFINE cy == [i \in 0..16 |-> CarryInto(i, x, y)]
           E(i) == IF i = 0 THEN 0 ELSE IF Bit(x, i - 1) + Bit(y, i - 1) + cy[i - 1] >= 2 THEN 1 ELSE 0
<1>1. CarryInto(0, x, y) = 0
  BY SMT DEF CarryInto
<1>2. ASSUME NEW i \in 1..16  PROVE CarryInto(i, x, y) = E(i)
  <2>1. i # 0 /\ i - 1 \in 0..16 /\ i \in 0..16
    BY SMT
  <2>2. cy[i - 1] = CarryInto(i - 1, x, y)
    BY <2>1
  <2>3. QED  BY <2>1, <2>2, CarryOn
<1>3. ASSUME NEW i \in 0..16  PROVE CarryInto(i, x, y) = E(i)
  <2>1. CASE i = 0
    BY <1>1, <2>1
  <2>2. CASE i # 0
    <3>1. i \in 1..16
      BY SMT, <2>2
    <3>2. QED  BY <1>2, <3>1
  <2>3. QED  BY <2>1, <2>2
<1>4. cy = [i \in 0..16 |-> E(i)]
  <2>1. cy = [i \in 0..16 |-> CarryInto(i, x, y)]
    OBVIOUS
  <2> HIDE DEF cy, E
  <2>2. QED  BY <1>3, <2>1
<1>5. QED  BY Zenon, <1>4 DEF IsCarries

\* And whatever has these carries has that one at the end.
LEMMA CarriesUnique ==
  ASSUME NEW x \in Int, NEW y \in Int, x >= 0, y >= 0, NEW cy, IsCarries(cy, x, y)
  PROVE  cy[16] = CarryInto(16, x, y)
<1>1. \A i \in 0..16 : cy[i] = IF i = 0 THEN 0 ELSE IF Bit(x, i - 1) + Bit(y, i - 1) + cy[i - 1] >= 2 THEN 1 ELSE 0
  BY DEF IsCarries
<1>2. ASSUME NEW i \in 1..16, cy[i - 1] = CarryInto(i - 1, x, y)  PROVE cy[i] = CarryInto(i, x, y)
  <2>1. i \in 0..16 /\ i # 0
    BY SMT
  <2>2. cy[i] = IF Bit(x, i - 1) + Bit(y, i - 1) + cy[i - 1] >= 2 THEN 1 ELSE 0
    BY <1>1, <2>1
  <2>3. QED  BY Zenon, <1>2, <2>2, CarryOn
<1>a. cy[0] = CarryInto(0, x, y)
  <2>1. CarryInto(0, x, y) = 0
    BY SMT DEF CarryInto
  <2>2. 0 \in 0..16
    BY SMT
  <2>3. QED  BY <1>1, <2>1, <2>2
<1>b. cy[1] = CarryInto(1, x, y)
  <2>1. 1 \in 1..16 /\ 1 - 1 = 0
    BY SMT
  <2>2. QED  BY <1>2, <1>a, <2>1
<1>c. cy[2] = CarryInto(2, x, y)
  <2>1. 2 \in 1..16 /\ 2 - 1 = 1
    BY SMT
  <2>2. QED  BY <1>2, <1>b, <2>1
<1>d. cy[3] = CarryInto(3, x, y)
  <2>1. 3 \in 1..16 /\ 3 - 1 = 2
    BY SMT
  <2>2. QED  BY <1>2, <1>c, <2>1
<1>e. cy[4] = CarryInto(4, x, y)
  <2>1. 4 \in 1..16 /\ 4 - 1 = 3
    BY SMT
  <2>2. QED  BY <1>2, <1>d, <2>1
<1>f. cy[5] = CarryInto(5, x, y)
  <2>1. 5 \in 1..16 /\ 5 - 1 = 4
    BY SMT
  <2>2. QED  BY <1>2, <1>e, <2>1
<1>g. cy[6] = CarryInto(6, x, y)
  <2>1. 6 \in 1..16 /\ 6 - 1 = 5
    BY SMT
  <2>2. QED  BY <1>2, <1>f, <2>1
<1>h. cy[7] = CarryInto(7, x, y)
  <2>1. 7 \in 1..16 /\ 7 - 1 = 6
    BY SMT
  <2>2. QED  BY <1>2, <1>g, <2>1
<1>i. cy[8] = CarryInto(8, x, y)
  <2>1. 8 \in 1..16 /\ 8 - 1 = 7
    BY SMT
  <2>2. QED  BY <1>2, <1>h, <2>1
<1>j. cy[9] = CarryInto(9, x, y)
  <2>1. 9 \in 1..16 /\ 9 - 1 = 8
    BY SMT
  <2>2. QED  BY <1>2, <1>i, <2>1
<1>k. cy[10] = CarryInto(10, x, y)
  <2>1. 10 \in 1..16 /\ 10 - 1 = 9
    BY SMT
  <2>2. QED  BY <1>2, <1>j, <2>1
<1>l. cy[11] = CarryInto(11, x, y)
  <2>1. 11 \in 1..16 /\ 11 - 1 = 10
    BY SMT
  <2>2. QED  BY <1>2, <1>k, <2>1
<1>m. cy[12] = CarryInto(12, x, y)
  <2>1. 12 \in 1..16 /\ 12 - 1 = 11
    BY SMT
  <2>2. QED  BY <1>2, <1>l, <2>1
<1>n. cy[13] = CarryInto(13, x, y)
  <2>1. 13 \in 1..16 /\ 13 - 1 = 12
    BY SMT
  <2>2. QED  BY <1>2, <1>m, <2>1
<1>o. cy[14] = CarryInto(14, x, y)
  <2>1. 14 \in 1..16 /\ 14 - 1 = 13
    BY SMT
  <2>2. QED  BY <1>2, <1>n, <2>1
<1>p. cy[15] = CarryInto(15, x, y)
  <2>1. 15 \in 1..16 /\ 15 - 1 = 14
    BY SMT
  <2>2. QED  BY <1>2, <1>o, <2>1
<1>q. cy[16] = CarryInto(16, x, y)
  <2>1. 16 \in 1..16 /\ 16 - 1 = 15
    BY SMT
  <2>2. QED  BY <1>2, <1>p, <2>1
<1>3. QED  BY <1>q

\* add16_bitwise, as the Z80's DAD has it, gives the carry the 8080's DAD takes from the sum.
LEMMA SixteenBitCarry ==
  ASSUME NEW x \in Word, NEW y \in Word
  PROVE  AddBits(16, x, y, 0).c = 1 <=> x + y > 65535
<1>1. x \in Int /\ y \in Int /\ x >= 0 /\ y >= 0 /\ x <= 65535 /\ y <= 65535
  BY InWord
<1>e. \E g : IsCarries(g, x, y)
  <2>1. IsCarries([i \in 0..16 |-> CarryInto(i, x, y)], x, y)
    BY <1>1, CarriesExist
  <2>2. QED  BY Zenon, <2>1
<1> DEFINE cy == Carries(16, x, y, 0)
<1>2. cy = CHOOSE g : IsCarries(g, x, y)
  BY Zenon DEF Carries, IsCarries
<1>3. IsCarries(cy, x, y)
  BY Zenon, <1>2, <1>e
<1> HIDE DEF cy
<1>4. cy[16] = CarryInto(16, x, y)
  BY <1>1, <1>3, CarriesUnique
<1>5. AddBits(16, x, y, 0).c = cy[16]
  BY DEF AddBits, Outcome, cy
<1>6. CarryInto(16, x, y) = 1 <=> x + y > 65535
  BY SMT, <1>1 DEF CarryInto
<1>7. QED  BY <1>4, <1>5, <1>6

\* So the C of DAD is the same in both modes.
LEMMA WordSumMeets ==
  ASSUME FlagsMeet(f, f2), NEW x \in Word, NEW y \in Word, mode \in {"z80", "8080"}, mode2 \in {"z80", "8080"}
  PROVE  FlagsMeet(WordSumFlags(x, y), Twin!WordSumFlags(x, y))
<1> DEFINE o == AddBits(16, x, y, 0)
           w == WordFlags(o)
           u == When("C", x + y > 65535)
<1>1. WordSumFlags(x, y) = IF mode = "z80" THEN (f \cap {"S", "Z", "P"}) \cup w ELSE (f \ {"C"}) \cup u
  BY SMT DEF WordSumFlags
<1>2. Twin!WordSumFlags(x, y) = IF mode2 = "z80" THEN (f2 \cap {"S", "Z", "P"}) \cup w ELSE (f2 \ {"C"}) \cup u
  <2>1. Twin!AddBits(16, x, y, 0) = o
    BY Zenon, TwinBits
  <2>2. Twin!WordFlags(o) = w
    BY Zenon, TwinFlags
  <2>3. Twin!When("C", x + y > 65535) = u
    BY SMT, TwinFlags
  <2>4. Twin!WordSumFlags(x, y) = IF mode2 = "z80" THEN (f2 \cap {"S", "Z", "P"}) \cup Twin!WordFlags(Twin!AddBits(16, x, y, 0))
                                  ELSE (f2 \ {"C"}) \cup Twin!When("C", x + y > 65535)
    BY SMT DEF Twin!WordSumFlags
  <2> HIDE DEF o, w, u
  <2>5. QED  BY <2>1, <2>2, <2>3, <2>4
<1>3. w \cap Kept = u \cap Kept /\ u \subseteq {"C"}
  <2>1. o.c = 1 <=> x + y > 65535
    BY SixteenBitCarry
  <2> HIDE DEF o
  <2>2. w = XY(o.r \div 256) \cup When("C", o.c = 1) \cup When("H", o.h = 1)
    BY Zenon DEF WordFlags
  <2>3. XY(o.r \div 256) \subseteq {"X", "Y"} /\ When("H", o.h = 1) \subseteq {"H"}
    BY Zenon, FlagGroups, WhenOnly
  <2>4. When("C", o.c = 1) = u
    BY SMT, <2>1 DEF When
  <2>5. u \subseteq {"C"}
    BY SMT, WhenOnly
  <2> HIDE DEF w, u
  <2> DEFINE t == XY(o.r \div 256)
             h == When("H", o.h = 1)
  <2>6. w = t \cup u \cup h /\ t \subseteq {"X", "Y"} /\ h \subseteq {"H"}
    BY Zenon, <2>2, <2>3, <2>4
  <2> HIDE DEF t, h
  <2>7. QED  BY SMT, <2>5, <2>6 DEF Kept
<1> HIDE DEF o, w, u
<1>4. f \cap Kept = f2 \cap Kept /\ (mode = mode2 => f = f2)
  BY DEF FlagsMeet
<1>5. /\ ((f \cap {"S", "Z", "P"}) \cup w) \cap Kept = ((f2 \cap {"S", "Z", "P"}) \cup w) \cap Kept
      /\ ((f \ {"C"}) \cup u) \cap Kept = ((f2 \ {"C"}) \cup u) \cap Kept
      /\ ((f \cap {"S", "Z", "P"}) \cup w) \cap Kept = ((f2 \ {"C"}) \cup u) \cap Kept
      /\ ((f \ {"C"}) \cup u) \cap Kept = ((f2 \cap {"S", "Z", "P"}) \cup w) \cap Kept
  <2>1. \A s : s \in Kept => (s \in f <=> s \in f2) /\ (s \in w <=> s \in u)
    BY <1>3, <1>4
  <2>2. \A s : s \in Kept <=> s = "S" \/ s = "Z" \/ s = "C"
    BY DEF Kept
  <2>3. "S" \notin u /\ "Z" \notin u
    BY <1>3
  <2>4. QED  BY <2>1, <2>2, <2>3
<1>6. CASE mode = mode2
  BY <1>1, <1>2, <1>4, <1>6, MeetSame
<1>7. CASE mode # mode2
  <2>1. WordSumFlags(x, y) \cap Kept = Twin!WordSumFlags(x, y) \cap Kept
    BY <1>1, <1>2, <1>5
  <2>2. QED  BY <1>7, <2>1 DEF FlagsMeet
<1>8. QED  BY <1>6, <1>7

-----------------------------------------------------------------------------
(* Arithmetic                                                                *)

\* INX and DCX.
LEMMA StepPairMeets ==
  ASSUME NEW i, NEW j, Together(i, j), StepPair(i), Twin!StepPair(j)
  PROVE  MeetAgain
<1>0. /\ SameInstruction(i, j) /\ a2 = a /\ reg2 = reg /\ mem2 = mem /\ FlagsMeet(f, f2)
      /\ mode2 = mode => alt2 = alt /\ sys2 = sys
      /\ j.y = i.y
  BY TogetherFacts
<1> DEFINE p == RegPair(i)
           p2 == Twin!RegPair(j)
           n == IF i.y % 2 = 0 THEN 1 ELSE -1
<1>1. reg' = [reg EXCEPT ![p] = Plus(reg[p], n)] /\ After(i.len)
  BY DEF StepPair
<1>2. reg2' = [reg2 EXCEPT ![p2] = Twin!Plus(reg2[p2], n)] /\ Twin!After(j.len)
  BY <1>0 DEF Twin!StepPair
<1>3. p2 = p
  BY TwinDecodes, TwinTables
<1>4. Twin!Plus(reg2[p2], n) = Plus(reg[p], n)
  BY <1>0, <1>3, TwinNumbers
<1> HIDE DEF p, p2, n
<1>5. reg2' = reg'
  BY <1>0, <1>1, <1>2, <1>3, <1>4
<1>6. pc2' = pc'
  BY <1>0, <1>1, <1>2, MeetAfter
<1>7. QED  BY <1>0, <1>5, <1>6 DEF StepPair, Twin!StepPair, MeetAgain

\* INR and DCR.
LEMMA StepByteMeets ==
  ASSUME NEW i, NEW j, Together(i, j), StepByte(i), Twin!StepByte(j)
  PROVE  MeetAgain
<1>0. /\ SameInstruction(i, j) /\ a2 = a /\ reg2 = reg /\ mem2 = mem /\ FlagsMeet(f, f2)
      /\ mode2 = mode => alt2 = alt /\ sys2 = sys
      /\ j.y = i.y /\ j.z = i.z /\ j.hl = i.hl
  BY TogetherFacts
<1> DEFINE x == Address(i)
           e == Extra(i, i.y)
           v == Get8(i.y, i.hl, x)
           res == IF i.z = 4 THEN Incremented(v) ELSE Decremented(v)
           v2 == Twin!Get8(j.y, j.hl, Twin!Address(j))
           res2 == IF j.z = 4 THEN Twin!Incremented(v2) ELSE Twin!Decremented(v2)
<1>1. Put8(i.y, i.hl, x, res.r) /\ f' = res.f /\ After(i.len + e) /\ UNCHANGED <<mode, alt, sys>>
  BY Zenon DEF StepByte
<1>2. /\ Twin!Put8(j.y, j.hl, Twin!Address(j), res2.r) /\ f2' = res2.f /\ Twin!After(j.len + Twin!Extra(j, j.y))
      /\ UNCHANGED <<mode2, alt2, sys2>>
  BY Zenon DEF Twin!StepByte
<1>3. Twin!Address(j) = x /\ Twin!Extra(j, j.y) = e /\ e \in Int
  BY <1>0, TwinDecodes, TwinTables, ExtraIsInt
<1>4. v2 = v
  BY <1>0, <1>3, TwinReads
<1> HIDE DEF v, v2, e, x
<1>5. ResultsMeet(res, res2)
  BY <1>0, <1>4, SteppedMeet
<1> HIDE DEF res, res2
<1>6. Twin!Put8(i.y, i.hl, x, res.r) /\ Twin!After(j.len + e) /\ FlagsMeet(res.f, res2.f)
  BY <1>0, <1>2, <1>3, <1>5 DEF ResultsMeet
<1>7. a2' = a' /\ reg2' = reg' /\ mem2' = mem'
  BY <1>0, <1>1, <1>6, TwinReads DEF Put8, Twin!Put8
<1>8. pc2' = pc'
  BY <1>0, <1>1, <1>3, <1>6, MeetAfter
<1>9. QED  BY <1>0, <1>1, <1>2, <1>6, <1>7, <1>8 DEF MeetAgain

\* DAD.
LEMMA AddPairsMeets ==
  ASSUME NEW i, NEW j, Together(i, j), AddPairs(i), Twin!AddPairs(j)
  PROVE  MeetAgain
<1>0. /\ SameInstruction(i, j) /\ a2 = a /\ reg2 = reg /\ mem2 = mem /\ FlagsMeet(f, f2)
      /\ mode2 = mode => alt2 = alt /\ sys2 = sys
      /\ j.y = i.y /\ j.hl = i.hl /\ Ready(i)
  BY TogetherFacts
<1>a. mode \in {"z80", "8080"} /\ mode2 \in {"z80", "8080"}
  BY ModesAssumption DEF Together, Meet, Ready
<1> DEFINE x == reg[i.hl]
           y == reg[RegPair(i)]
<1>1. /\ reg' = [reg EXCEPT ![i.hl] = Plus(x, y)] /\ f' = WordSumFlags(x, y) /\ After(i.len)
      /\ UNCHANGED <<mode, a, alt, sys, mem>>
  BY DEF AddPairs
<1>2. /\ reg2' = [reg2 EXCEPT ![i.hl] = Twin!Plus(x, y)] /\ f2' = Twin!WordSumFlags(x, y) /\ Twin!After(j.len)
      /\ UNCHANGED <<mode2, a2, alt2, sys2, mem2>>
  <2>1. Twin!RegPair(j) = RegPair(i)
    BY TwinDecodes, TwinTables
  <2>2. QED  BY <1>0, <2>1 DEF Twin!AddPairs
<1>3. x \in Word /\ y \in Word
  BY <1>0, HlChangeable, RegPairChangeable, WordOfPair DEF Ready
<1> HIDE DEF x, y
<1>4. FlagsMeet(f', f2')
  BY <1>0, <1>a, <1>1, <1>2, <1>3, WordSumMeets
<1>5. reg2' = reg' /\ pc2' = pc'
  <2>1. 0 \in Int
    OBVIOUS
  <2>2. QED  BY <1>0, <1>1, <1>2, <2>1, TwinNumbers, MeetAfter
<1>6. QED  BY <1>0, <1>1, <1>2, <1>4, <1>5 DEF MeetAgain

\* ADC HL and SBC HL.
LEMMA AddWithCarryMeets ==
  ASSUME NEW i, NEW j, Together(i, j), AddWithCarry(i), Twin!AddWithCarry(j)
  PROVE  MeetAgain
<1>0. /\ SameInstruction(i, j) /\ a2 = a /\ reg2 = reg /\ mem2 = mem /\ FlagsMeet(f, f2)
      /\ mode2 = mode => alt2 = alt /\ sys2 = sys
      /\ j.y = i.y
  BY TogetherFacts
<1> DEFINE x == reg["HL"]
           y == reg[EdPair(i)]
           c == CarryIn
           o == IF i.y % 2 = 1 THEN AddBits(16, x, y, c) ELSE SubBits(16, x, y, c)
           w == Plus(x, IF i.y % 2 = 1 THEN y + c ELSE -y - c)
           y2 == reg2[Twin!EdPair(j)]
           c2 == Twin!CarryIn
           o2 == IF i.y % 2 = 1 THEN Twin!AddBits(16, x, y2, c2) ELSE Twin!SubBits(16, x, y2, c2)
           w2 == Twin!Plus(x, IF i.y % 2 = 1 THEN y2 + c2 ELSE -y2 - c2)
           n == When("N", i.y % 2 = 0)
<1>1. /\ reg' = [reg EXCEPT !["HL"] = w] /\ f' = WordResultFlags(o) \cup n /\ After(i.len)
      /\ UNCHANGED <<mode, a, alt, sys, mem>>
  BY DEF AddWithCarry
<1>2. /\ reg2' = [reg EXCEPT !["HL"] = w2] /\ f2' = Twin!WordResultFlags(o2) \cup Twin!When("N", i.y % 2 = 0)
      /\ Twin!After(j.len) /\ UNCHANGED <<mode2, a2, alt2, sys2, mem2>>
  BY <1>0 DEF Twin!AddWithCarry
<1>3. y2 = y /\ c2 = c
  BY <1>0, TwinDecodes, TwinTables
<1>4. w2 = w
  BY <1>3, TwinNumbers
<1>5. o2 = o
  BY <1>3, TwinBits
<1> HIDE DEF o, o2, w, w2
<1>6. Twin!WordResultFlags(o2) = WordResultFlags(o) /\ Twin!When("N", i.y % 2 = 0) = n
  BY <1>5, TwinFlags
<1> HIDE DEF n
<1>7. FlagsMeet(f', f2')
  <2>1. f2' = f'
    BY <1>1, <1>2, <1>6
  <2>2. QED  BY <2>1, MeetSame
<1>8. reg2' = reg' /\ pc2' = pc'
  BY <1>0, <1>1, <1>2, <1>4, MeetAfter
<1>9. QED  BY <1>0, <1>1, <1>2, <1>7, <1>8 DEF MeetAgain

\* The ALU and the accumulator.
LEMMA AluMeets ==
  ASSUME NEW i, NEW j, Together(i, j),
         \/ AluRegister(i) /\ Twin!AluRegister(j)
         \/ AluImmediate(i) /\ Twin!AluImmediate(j)
         \/ AccumulatorOp(i) /\ Twin!AccumulatorOp(j)
         \/ Negate(i) /\ Twin!Negate(j)
  PROVE  MeetAgain
<1>0. /\ SameInstruction(i, j) /\ a2 = a /\ reg2 = reg /\ mem2 = mem /\ FlagsMeet(f, f2)
      /\ mode2 = mode => alt2 = alt /\ sys2 = sys
      /\ j.y = i.y /\ j.z = i.z /\ j.hl = i.hl /\ i.len \in Int /\ j.len \in Int /\ i.y \in 0..7
  BY TogetherFacts
<1>a. 1 \in Int
  OBVIOUS
<1>b. ASSUME NEW res, NEW res2, ResultsMeet(res, res2), pc2' = pc',
             a' = res.r, f' = res.f, UNCHANGED <<mode, reg, alt, sys, mem>>,
             a2' = res2.r, f2' = res2.f, UNCHANGED <<mode2, reg2, alt2, sys2, mem2>>
      PROVE  MeetAgain
  BY <1>0, <1>b DEF ResultsMeet, MeetAgain
<1>1. CASE AluRegister(i) /\ Twin!AluRegister(j)
  <2> DEFINE e == Extra(i, i.z)
             v == Get8(i.z, i.hl, Address(i))
             v2 == Twin!Get8(j.z, j.hl, Twin!Address(j))
             res == Combined(AluOps[i.y + 1], v)
             res2 == Twin!Combined(Twin!AluOps[j.y + 1], v2)
  <2>1. a' = res.r /\ f' = res.f /\ After(i.len + e) /\ UNCHANGED <<mode, reg, alt, sys, mem>>
    BY Zenon, <1>1 DEF AluRegister, Accumulates
  <2>2. a2' = res2.r /\ f2' = res2.f /\ Twin!After(j.len + Twin!Extra(j, j.z)) /\ UNCHANGED <<mode2, reg2, alt2, sys2, mem2>>
    BY Zenon, <1>1 DEF Twin!AluRegister, Twin!Accumulates
  <2>3. Twin!Address(j) = Address(i) /\ Twin!Extra(j, j.z) = e /\ e \in Int
    BY <1>0, TwinDecodes, TwinTables, ExtraIsInt
  <2>4. v2 = v
    BY <1>0, <2>3, TwinReads
  <2> HIDE DEF v, v2, e
  <2>5. ResultsMeet(res, res2)
    BY <1>0, <2>4, CombinedMeets, TwinTables
  <2> HIDE DEF res, res2
  <2>6. pc2' = pc'
    BY <1>0, <2>1, <2>2, <2>3, MeetAfter
  <2>7. QED  BY <1>b, <2>1, <2>2, <2>5, <2>6
<1>2. CASE AluImmediate(i) /\ Twin!AluImmediate(j)
  <2> DEFINE v == Code(i.len)
             v2 == Twin!Code(j.len)
             res == Combined(AluOps[i.y + 1], v)
             res2 == Twin!Combined(Twin!AluOps[j.y + 1], v2)
  <2>1. a' = res.r /\ f' = res.f /\ After(i.len + 1) /\ UNCHANGED <<mode, reg, alt, sys, mem>>
    BY Zenon, <1>2 DEF AluImmediate, Accumulates
  <2>2. a2' = res2.r /\ f2' = res2.f /\ Twin!After(j.len + 1) /\ UNCHANGED <<mode2, reg2, alt2, sys2, mem2>>
    BY Zenon, <1>2 DEF Twin!AluImmediate, Twin!Accumulates
  <2>3. v2 = v
    BY TwinDecodes
  <2> HIDE DEF v, v2
  <2>5. ResultsMeet(res, res2)
    BY <1>0, <2>3, CombinedMeets, TwinTables
  <2> HIDE DEF res, res2
  <2>6. pc2' = pc'
    BY <1>0, <1>a, <2>1, <2>2, MeetAfter
  <2>7. QED  BY <1>b, <2>1, <2>2, <2>5, <2>6
<1>3. CASE AccumulatorOp(i) /\ Twin!AccumulatorOp(j)
  <2> DEFINE op == AccOps[i.y + 1]
             res == OnAccumulator(op)
             op2 == Twin!AccOps[j.y + 1]
             res2 == Twin!OnAccumulator(op2)
  <2>1. a' = res.r /\ f' = res.f /\ After(i.len) /\ UNCHANGED <<mode, reg, alt, sys, mem>>
    BY Zenon, <1>3 DEF AccumulatorOp, Accumulates
  <2>2. a2' = res2.r /\ f2' = res2.f /\ Twin!After(j.len) /\ UNCHANGED <<mode2, reg2, alt2, sys2, mem2>>
    BY Zenon, <1>3 DEF Twin!AccumulatorOp, Twin!Accumulates
  <2>3. op2 = op
    BY <1>0, TwinTables
  <2>4. op = "daa" => mode2 = mode
    <3>1. op = "daa" => i.y = 4
      <4>1. \/ i.y = 0 \/ i.y = 1 \/ i.y = 2 \/ i.y = 3 \/ i.y = 4 \/ i.y = 5 \/ i.y = 6 \/ i.y = 7
        BY <1>0
      <4>2. QED  BY <4>1 DEF AccOps
    <3>2. i.x = 0 /\ i.z = 7
      BY <1>3 DEF AccumulatorOp, Main
    <3>3. QED  BY <3>1, <3>2, TogetherFacts DEF Differing
  <2> HIDE DEF op, op2
  <2>5. ResultsMeet(res, res2)
    BY <1>0, <2>3, <2>4, OnAccumulatorMeets
  <2> HIDE DEF res, res2
  <2>6. pc2' = pc'
    BY <1>0, <2>1, <2>2, MeetAfter, <1>a
  <2>7. QED  BY <1>b, <2>1, <2>2, <2>5, <2>6
<1>4. CASE Negate(i) /\ Twin!Negate(j)
  <2> DEFINE res == Result((-a) % 256, DiffFlags(0, a, 0))
             res2 == Twin!Result((-a) % 256, Twin!DiffFlags(0, a, 0))
  <2>1. a' = res.r /\ f' = res.f /\ After(i.len) /\ UNCHANGED <<mode, reg, alt, sys, mem>>
    BY <1>4 DEF Negate, Accumulates
  <2>2. a2' = res2.r /\ f2' = res2.f /\ Twin!After(j.len) /\ UNCHANGED <<mode2, reg2, alt2, sys2, mem2>>
    BY <1>0, <1>4 DEF Twin!Negate, Twin!Accumulates
  <2>5. ResultsMeet(res, res2)
    BY MeetDifference, MeetResult
  <2> HIDE DEF res, res2
  <2>6. pc2' = pc'
    BY <1>0, <2>1, <2>2, MeetAfter, <1>a
  <2>7. QED  BY <1>b, <2>1, <2>2, <2>5, <2>6
<1>5. QED  BY <1>1, <1>2, <1>3, <1>4

-----------------------------------------------------------------------------
(* Bits                                                                      *)

\* A byte of the CB table.
LEMMA ShiftedBitMeets ==
  ASSUME NEW i, NEW j, Together(i, j), NEW v, i.x # 1
  PROVE  ResultsMeet(ShiftedBit(i, v), Twin!ShiftedBit(j, v))
<1>0. FlagsMeet(f, f2) /\ j.x = i.x /\ j.y = i.y /\ i.x \in 0..3
  BY TogetherFacts
<1> DEFINE n == i.y
           r2 == v - Bit(v, n) * 2 ^ n
           r3 == v + (1 - Bit(v, n)) * 2 ^ n
<1>1. CASE i.x = 0
  <2>1. ShiftedBit(i, v) = Shifted(ShiftOps[i.y + 1], v)
    BY SMT, <1>1 DEF ShiftedBit
  <2>2. Twin!ShiftedBit(j, v) = Twin!Shifted(Twin!ShiftOps[j.y + 1], v)
    BY SMT, <1>0, <1>1 DEF Twin!ShiftedBit
  <2>3. QED  BY <1>0, <2>1, <2>2, ShiftedMeets, TwinTables
<1>2. CASE i.x = 2
  <2>1. ShiftedBit(i, v) = Result(r2, f)
    BY SMT, <1>2 DEF ShiftedBit
  <2>2. Twin!ShiftedBit(j, v) = Twin!Result(v - Twin!Bit(v, j.y) * 2 ^ j.y, f2)
    BY SMT, <1>0, <1>2 DEF Twin!ShiftedBit
  <2>3. v - Twin!Bit(v, j.y) * 2 ^ j.y = r2
    BY Zenon, <1>0, TwinNumbers
  <2> HIDE DEF r2
  <2>4. QED  BY Zenon, <1>0, <2>1, <2>2, <2>3, MeetResult
<1>3. CASE i.x = 3
  <2>1. ShiftedBit(i, v) = Result(r3, f)
    BY SMT, <1>3 DEF ShiftedBit
  <2>2. Twin!ShiftedBit(j, v) = Twin!Result(v + (1 - Twin!Bit(v, j.y)) * 2 ^ j.y, f2)
    BY SMT, <1>0, <1>3 DEF Twin!ShiftedBit
  <2>3. v + (1 - Twin!Bit(v, j.y)) * 2 ^ j.y = r3
    BY Zenon, <1>0, TwinNumbers
  <2> HIDE DEF r3
  <2>4. QED  BY Zenon, <1>0, <2>1, <2>2, <2>3, MeetResult
<1>4. QED  BY <1>0, <1>1, <1>2, <1>3

\* The CB table, RRD and RLD.
LEMMA BitsMeet ==
  ASSUME NEW i, NEW j, Together(i, j),
         \/ ChangeBits(i) /\ Twin!ChangeBits(j)
         \/ TestBit(i) /\ Twin!TestBit(j)
         \/ RotateDigits(i) /\ Twin!RotateDigits(j)
  PROVE  MeetAgain
<1>0. /\ SameInstruction(i, j) /\ a2 = a /\ reg2 = reg /\ mem2 = mem /\ FlagsMeet(f, f2)
      /\ mode2 = mode => alt2 = alt /\ sys2 = sys
      /\ j.y = i.y /\ j.z = i.z /\ j.x = i.x /\ j.at = i.at /\ 0 \in Int
  BY TogetherFacts
<1>a. Twin!Indexed(j) = Indexed(i)
  BY TwinDecodes, TwinTables
<1> DEFINE v == IF Indexed(i) THEN Read(i.at) ELSE Get8(i.z, "HL", i.at)
           v2 == IF Twin!Indexed(j) THEN Twin!Read(j.at) ELSE Twin!Get8(j.z, "HL", j.at)
<1>b. v2 = v
  BY <1>0, <1>a, TwinReads
<1>1. CASE ChangeBits(i) /\ Twin!ChangeBits(j)
  <2> DEFINE res == ShiftedBit(i, v)
             res2 == Twin!ShiftedBit(j, v2)
             n == IF Indexed(i) THEN 6 ELSE i.z
             n2 == IF Twin!Indexed(j) THEN 6 ELSE j.z
  <2>1. /\ i.x # 1 /\ a' = (IF i.z = 7 THEN res.r ELSE a) /\ reg' = SetPairs(i.z, "HL", res.r)
        /\ mem' = SetMem(n, i.at, res.r) /\ f' = res.f /\ After(i.len) /\ UNCHANGED <<mode, alt, sys>>
    BY Zenon, <1>1 DEF ChangeBits
  <2>2. /\ a2' = (IF j.z = 7 THEN res2.r ELSE a2) /\ reg2' = Twin!SetPairs(j.z, "HL", res2.r)
        /\ mem2' = Twin!SetMem(n2, j.at, res2.r) /\ f2' = res2.f /\ Twin!After(j.len) /\ UNCHANGED <<mode2, alt2, sys2>>
    BY Zenon, <1>1 DEF Twin!ChangeBits
  <2>3. n2 = n
    BY <1>0, <1>a
  <2> HIDE DEF v, v2, n, n2
  <2>4. ResultsMeet(res, res2)
    BY <1>b, <2>1, ShiftedBitMeets
  <2> HIDE DEF res, res2
  <2>5. res2.r = res.r /\ FlagsMeet(res.f, res2.f)
    BY <2>4 DEF ResultsMeet
  <2>6. a2' = a' /\ reg2' = reg' /\ mem2' = mem'
    BY <1>0, <2>1, <2>2, <2>3, <2>5, TwinReads
  <2>7. pc2' = pc'
    BY <1>0, <2>1, <2>2, MeetAfter
  <2>8. QED  BY <1>0, <2>1, <2>2, <2>5, <2>6, <2>7 DEF MeetAgain
<1>2. CASE TestBit(i) /\ Twin!TestBit(j)
  <2> DEFINE w == IF Indexed(i) \/ i.z = 6 THEN Hi(i.at) ELSE v
             w2 == IF Twin!Indexed(j) \/ j.z = 6 THEN Twin!Hi(j.at) ELSE v2
  <2>1. f' = BitTested(i.y, v, w) /\ After(i.len) /\ UNCHANGED <<mode, a, reg, alt, sys, mem>>
    BY Zenon, <1>2 DEF TestBit
  <2>2. f2' = Twin!BitTested(j.y, v2, w2) /\ Twin!After(j.len) /\ UNCHANGED <<mode2, a2, reg2, alt2, sys2, mem2>>
    BY Zenon, <1>2 DEF Twin!TestBit
  <2> HIDE DEF v, v2
  <2>3. w2 = w
    BY <1>0, <1>a, <1>b, TwinNumbers
  <2> HIDE DEF w, w2
  <2>4. FlagsMeet(f', f2')
    BY <1>0, <1>b, <2>1, <2>2, <2>3, BitTestedMeets
  <2>5. pc2' = pc'
    BY <1>0, <2>1, <2>2, MeetAfter
  <2>6. QED  BY <1>0, <2>1, <2>2, <2>4, <2>5 DEF MeetAgain
<1>3. CASE RotateDigits(i) /\ Twin!RotateDigits(j)
  <2> DEFINE u == Read(reg["HL"])
             u2 == Twin!Read(reg2["HL"])
             R(b) == 16 * (a \div 16) + (IF i.y = 4 THEN b % 16 ELSE b \div 16)
             M(b) == IF i.y = 4 THEN (b \div 16) + 16 * (a % 16) ELSE 16 * (b % 16) + (a % 16)
  <2>1. /\ a' = R(u) /\ f' = LogicFlags(R(u), CarryIn, FALSE) /\ mem' = Stored(mem, reg["HL"], M(u))
        /\ After(i.len) /\ UNCHANGED <<mode, reg, alt, sys>>
    BY Zenon, <1>3 DEF RotateDigits
  <2>2. /\ a2' = R(u2) /\ f2' = Twin!LogicFlags(R(u2), Twin!CarryIn, FALSE) /\ mem2' = Twin!Stored(mem2, reg2["HL"], M(u2))
        /\ Twin!After(j.len) /\ UNCHANGED <<mode2, reg2, alt2, sys2>>
    BY <1>0, <1>3 DEF Twin!RotateDigits
  <2>3. u2 = u /\ Twin!CarryIn = CarryIn
    BY <1>0, TwinReads, SameCarry
  <2> HIDE DEF u, u2, R, M
  <2>4. a2' = a' /\ mem2' = mem' /\ reg2' = reg'
    BY <1>0, <2>1, <2>2, <2>3, TwinNumbers
  <2>5. FlagsMeet(f', f2')
    BY <2>1, <2>2, <2>3, MeetLogic
  <2>6. pc2' = pc'
    BY <1>0, <2>1, <2>2, MeetAfter
  <2>7. QED  BY <1>0, <2>1, <2>2, <2>4, <2>5, <2>6 DEF MeetAgain
<1>4. QED  BY <1>1, <1>2, <1>3

-----------------------------------------------------------------------------
(* Stack, jumps and calls                                                    *)

\* The conditions are the same, but PO and PE in different modes.
LEMMA ConditionMeets ==
  ASSUME FlagsMeet(f, f2), NEW c \in 0..7, mode2 # mode => c \notin {4, 5}
  PROVE  Twin!ConditionCode(c, f2) <=> ConditionCode(c, f)
<1> DEFINE flag == <<"Z", "Z", "C", "C", "P", "P", "S", "S">>[c + 1]
<1>1. (ConditionCode(c, f) <=> ((flag \in f) = (c % 2 = 1))) /\ (Twin!ConditionCode(c, f2) <=> ((flag \in f2) = (c % 2 = 1)))
  BY Zenon DEF ConditionCode, Twin!ConditionCode
<1>2. flag \in Kept \/ c \in {4, 5}
  <2>1. c = 0 \/ c = 1 \/ c = 2 \/ c = 3 \/ c = 4 \/ c = 5 \/ c = 6 \/ c = 7
    OBVIOUS
  <2>2. QED  BY <2>1 DEF Kept
<1> HIDE DEF flag
<1>3. flag \in f <=> flag \in f2
  BY <1>2 DEF FlagsMeet
<1>4. QED  BY <1>1, <1>3

\* A push.
LEMMA TwinPushed ==
  ASSUME reg2 = reg, mem2 = mem, NEW w, Pushed(w), Twin!Pushed(w)
  PROVE  reg2' = reg' /\ mem2' = mem'
<1> DEFINE s == Plus(reg["SP"], -2)
           s2 == Twin!Plus(reg2["SP"], -2)
<1>1. reg' = [reg EXCEPT !["SP"] = s] /\ mem' = StoredWord(s, w)
  BY DEF Pushed
<1>2. reg2' = [reg2 EXCEPT !["SP"] = s2] /\ mem2' = Twin!StoredWord(s2, w)
  BY DEF Twin!Pushed
<1>3. s2 = s
  BY TwinNumbers
<1>4. Twin!StoredWord(s, w) = StoredWord(s, w)
  <2>1. Twin!Stored(mem2, s, Twin!Lo(w)) = Stored(mem, s, Lo(w)) /\ Twin!Plus(s, 1) = Plus(s, 1) /\ Twin!Hi(w) = Hi(w)
    BY TwinNumbers
  <2>2. QED  BY <2>1, TwinNumbers DEF Twin!StoredWord, StoredWord
<1> HIDE DEF s, s2
<1>5. QED  BY <1>1, <1>2, <1>3, <1>4

\* The stack instructions; PUSH PSW, which shows all flags, in one mode only.
LEMMA StackMeets ==
  ASSUME NEW i, NEW j, Together(i, j),
         \/ Push(i) /\ Twin!Push(j)
         \/ Pop(i) /\ Twin!Pop(j)
         \/ PopPsw(i) /\ Twin!PopPsw(j)
         \/ ExchangeTop(i) /\ Twin!ExchangeTop(j)
         \/ LoadSp(i) /\ Twin!LoadSp(j)
  PROVE  MeetAgain
<1>0. /\ SameInstruction(i, j) /\ a2 = a /\ reg2 = reg /\ mem2 = mem /\ FlagsMeet(f, f2)
      /\ mode2 = mode => alt2 = alt /\ sys2 = sys
      /\ j.y = i.y /\ j.hl = i.hl /\ i.y \in 0..7 /\ 0 \in Int
  BY TogetherFacts
<1>a. Twin!RegPair(j) = RegPair(i)
  BY TwinDecodes, TwinTables
<1>b. Twin!Top = Top /\ \A p, w : Twin!PopsPair(p, w) = PopsPair(p, w)
  BY <1>0, TwinReads
<1>1. CASE Push(i) /\ Twin!Push(j)
  <2> DEFINE w == IF i.y = 6 THEN Pair(a, FlagByte) ELSE reg[RegPair(i)]
             w2 == IF j.y = 6 THEN Twin!Pair(a2, Twin!FlagByte) ELSE reg2[Twin!RegPair(j)]
  <2>1. Pushed(w) /\ After(i.len) /\ UNCHANGED <<mode, a, f, alt, sys>> /\ Main(i, 3, 5)
    BY <1>1 DEF Push, Keeps
  <2>2. Twin!Pushed(w2) /\ Twin!After(j.len) /\ UNCHANGED <<mode2, a2, f2, alt2, sys2>>
    BY <1>1 DEF Twin!Push, Twin!Keeps
  <2>3. i.y = 6 => f2 = f
    BY <2>1, TogetherFacts DEF Differing, Main, FlagsMeet
  <2>4. ASSUME f2 = f  PROVE Twin!FlagByte = FlagByte
    BY Zenon, <2>4 DEF Twin!FlagByte, FlagByte, Twin!FlagAt, FlagAt, Twin!NumberOf, NumberOf
  <2>5. w2 = w
    BY <1>0, <1>a, <2>3, <2>4, TwinNumbers
  <2> HIDE DEF w, w2
  <2>6. reg2' = reg' /\ mem2' = mem'
    BY <1>0, <2>1, <2>2, <2>5, TwinPushed
  <2>7. pc2' = pc'
    BY <1>0, <2>1, <2>2, MeetAfter
  <2>8. QED  BY <1>0, <2>1, <2>2, <2>6, <2>7 DEF MeetAgain
<1>2. CASE Pop(i) /\ Twin!Pop(j)
  <2>1. reg' = PopsPair(RegPair(i), Top) /\ After(i.len) /\ UNCHANGED <<mode, a, f, alt, sys, mem>>
    BY <1>2 DEF Pop, Keeps
  <2>2. reg2' = Twin!PopsPair(Twin!RegPair(j), Twin!Top) /\ Twin!After(j.len) /\ UNCHANGED <<mode2, a2, f2, alt2, sys2, mem2>>
    BY <1>2 DEF Twin!Pop, Twin!Keeps
  <2>3. reg2' = reg' /\ pc2' = pc'
    BY <1>0, <1>a, <1>b, <2>1, <2>2, MeetAfter
  <2>4. QED  BY <1>0, <2>1, <2>2, <2>3 DEF MeetAgain
<1>3. CASE PopPsw(i) /\ Twin!PopPsw(j)
  <2> DEFINE s == Plus(reg["SP"], 2)
             s2 == Twin!Plus(reg2["SP"], 2)
             b == Lo(Top)
             b2 == Twin!Lo(Twin!Top)
  <2>1. /\ reg' = [reg EXCEPT !["SP"] = s] /\ a' = Hi(Top) /\ f' = FlagsOf(b) /\ After(i.len)
        /\ UNCHANGED <<mode, alt, sys, mem>>
    BY <1>3 DEF PopPsw
  <2>2. /\ reg2' = [reg2 EXCEPT !["SP"] = s2] /\ a2' = Twin!Hi(Twin!Top) /\ f2' = Twin!FlagsOf(b2) /\ Twin!After(j.len)
        /\ UNCHANGED <<mode2, alt2, sys2, mem2>>
    BY <1>3 DEF Twin!PopPsw
  <2>3. s2 = s /\ b2 = b /\ Twin!Hi(Twin!Top) = Hi(Top)
    BY <1>0, <1>b, TwinNumbers
  <2>4. \A c : FlagsMeet(FlagsOf(c), Twin!FlagsOf(c))
    <3> SUFFICES ASSUME NEW c  PROVE FlagsMeet(FlagsOf(c), Twin!FlagsOf(c))
      BY Zenon
    <3> DEFINE g == {FlagAt[k + 1] : k \in {l \in 0..7 : Bit(c, l) = 1}}
    <3>1. FlagsOf(c) = Fix(g) /\ Twin!FlagsOf(c) = Twin!Fix(g)
      BY Zenon DEF FlagsOf, Twin!FlagsOf, Twin!FlagAt, FlagAt, Twin!Bit, Bit
    <3> HIDE DEF g
    <3>2. QED  BY Zenon, <3>1, MeetSame, MeetFix
  <2> HIDE DEF s, s2, b, b2
  <2>5. reg2' = reg' /\ a2' = a' /\ FlagsMeet(f', f2') /\ pc2' = pc'
    BY <1>0, <2>1, <2>2, <2>3, <2>4, MeetAfter
  <2>6. QED  BY <1>0, <2>1, <2>2, <2>5 DEF MeetAgain
<1>4. CASE ExchangeTop(i) /\ Twin!ExchangeTop(j)
  <2>1. /\ reg' = [reg EXCEPT ![i.hl] = Top] /\ mem' = StoredWord(reg["SP"], reg[i.hl]) /\ After(i.len)
        /\ UNCHANGED <<mode, a, f, alt, sys>>
    BY <1>4 DEF ExchangeTop, Keeps
  <2>2. /\ reg2' = [reg2 EXCEPT ![j.hl] = Twin!Top] /\ mem2' = Twin!StoredWord(reg2["SP"], reg2[j.hl]) /\ Twin!After(j.len)
        /\ UNCHANGED <<mode2, a2, f2, alt2, sys2>>
    BY <1>4 DEF Twin!ExchangeTop, Twin!Keeps
  <2>3. reg2' = reg' /\ mem2' = mem' /\ pc2' = pc'
    BY <1>0, <1>b, <2>1, <2>2, MeetAfter, TwinReads
  <2>4. QED  BY <1>0, <2>1, <2>2, <2>3 DEF MeetAgain
<1>5. CASE LoadSp(i) /\ Twin!LoadSp(j)
  <2>1. reg' = [reg EXCEPT !["SP"] = reg[i.hl]] /\ After(i.len) /\ UNCHANGED <<mode, a, f, alt, sys, mem>>
    BY <1>5 DEF LoadSp, Keeps
  <2>2. reg2' = [reg2 EXCEPT !["SP"] = reg2[j.hl]] /\ Twin!After(j.len) /\ UNCHANGED <<mode2, a2, f2, alt2, sys2, mem2>>
    BY <1>5 DEF Twin!LoadSp, Twin!Keeps
  <2>3. reg2' = reg' /\ pc2' = pc'
    BY <1>0, <2>1, <2>2, MeetAfter
  <2>4. QED  BY <1>0, <2>1, <2>2, <2>3 DEF MeetAgain
<1>6. QED  BY <1>1, <1>2, <1>3, <1>4, <1>5

\* Addresses relative to the end of the instruction are the same.
LEMMA PlusMeets ==
  ASSUME NEW i, NEW j, SameInstruction(i, j), NEW k \in Int
  PROVE  Twin!Plus(pc2, j.len + k) = Plus(pc, i.len + k) /\ Twin!Plus(pc2, j.len) = Plus(pc, i.len)
<1>1. i.len \in Int /\ j.len \in Int /\ 0 \in Int
  BY DEF SameInstruction
<1>2. Plus(pc2, j.len + k) = Plus(pc, i.len + k) /\ Plus(pc2, j.len + 0) = Plus(pc, i.len + 0)
  BY <1>1 DEF SameInstruction
<1>3. j.len + 0 = j.len /\ i.len + 0 = i.len
  BY <1>1
<1>4. QED  BY <1>2, <1>3, TwinNumbers

\* Jumps, calls and returns.
LEMMA BranchesMeet ==
  ASSUME NEW i, NEW j, Together(i, j),
         \/ Jump(i) /\ Twin!Jump(j)
         \/ RelativeJump(i) /\ Twin!RelativeJump(j)
         \/ Call(i) /\ Twin!Call(j)
         \/ CallOrReturnNot(i) /\ Twin!CallOrReturnNot(j)
         \/ Restart(i) /\ Twin!Restart(j)
         \/ Return(i) /\ Twin!Return(j)
  PROVE  MeetAgain
<1>0. /\ SameInstruction(i, j) /\ a2 = a /\ reg2 = reg /\ mem2 = mem /\ FlagsMeet(f, f2)
      /\ mode2 = mode => alt2 = alt /\ sys2 = sys
      /\ j.y = i.y /\ j.z = i.z /\ j.x = i.x /\ j.hl = i.hl /\ j.table = i.table /\ i.y \in 0..7
      /\ i.len \in Int /\ j.len \in Int /\ 0 \in Int /\ 2 \in Int
  BY TogetherFacts
<1>a. Twin!Imm16(j.len) = Imm16(i.len) /\ \A x, z : Twin!Main(j, x, z) = Main(i, x, z)
  BY TwinDecodes, TwinTables
<1>b. Twin!Top = Top
  BY <1>0, TwinReads
<1>c. Twin!Plus(pc2, j.len + 2) = Plus(pc, i.len + 2) /\ Twin!Plus(pc2, j.len) = Plus(pc, i.len)
  BY <1>0, PlusMeets
<1>1. CASE Jump(i) /\ Twin!Jump(j)
  <2>1. UNCHANGED <<mode, a, f, alt, sys, reg, mem>> /\ UNCHANGED <<mode2, a2, f2, alt2, sys2, reg2, mem2>>
    BY <1>1 DEF Jump, Keeps, Twin!Jump, Twin!Keeps
  <2>2. pc2' = pc'
    <3>1. CASE Main(i, 3, 2)
      <4>1. ConditionCode(i.y, f) <=> Twin!ConditionCode(j.y, f2)
        <5>1. mode2 # mode => i.y \notin {4, 5}
          BY <3>1, TogetherFacts DEF Differing, Main
        <5>2. QED  BY <1>0, <5>1, ConditionMeets
      <4>2. pc' = IF ConditionCode(i.y, f) THEN Imm16(i.len) ELSE Plus(pc, i.len + 2)
        BY <1>1, <3>1 DEF Jump, Main
      <4>3. pc2' = IF Twin!ConditionCode(j.y, f2) THEN Twin!Imm16(j.len) ELSE Twin!Plus(pc2, j.len + 2)
        BY <1>0, <1>1, <3>1 DEF Twin!Jump, Twin!Main, Main
      <4>4. QED  BY <1>a, <1>c, <4>1, <4>2, <4>3
    <3>2. CASE Main(i, 3, 3)
      BY <1>0, <1>1, <1>a, <3>2 DEF Jump, Twin!Jump, Twin!Main, Main
    <3>3. CASE Main(i, 3, 1)
      BY <1>0, <1>1, <1>a, <3>3 DEF Jump, Twin!Jump, Twin!Main, Main
    <3>4. QED  BY <1>1, <3>1, <3>2, <3>3 DEF Jump
  <2>3. QED  BY <1>0, <2>1, <2>2 DEF MeetAgain
<1>2. CASE RelativeJump(i) /\ Twin!RelativeJump(j)
  <2>1. mode2 = mode /\ f2 = f
    BY <1>0, <1>2, TogetherFacts DEF RelativeJump, Main, Differing, FlagsMeet
  <2> DEFINE taken == IF i.y = 2 THEN Hi(reg["BC"]) # 1 ELSE i.y = 3 \/ ConditionCode(i.y - 4, f)
             taken2 == IF j.y = 2 THEN Twin!Hi(reg2["BC"]) # 1 ELSE j.y = 3 \/ Twin!ConditionCode(j.y - 4, f2)
             n == IF taken THEN Signed(Code(i.len)) ELSE 0
             n2 == IF taken2 THEN Twin!Signed(Twin!Code(j.len)) ELSE 0
             b == (Hi(reg["BC"]) - 1) % 256
             b2 == (Twin!Hi(reg2["BC"]) - 1) % 256
  <2>2. /\ pc' = Plus(pc, i.len + 1 + n) /\ reg' = (IF i.y = 2 THEN SetPairs(0, "HL", b) ELSE reg)
        /\ UNCHANGED <<mode, a, f, alt, sys, mem>>
    BY <1>2 DEF RelativeJump, Keeps
  <2>3. /\ pc2' = Twin!Plus(pc2, j.len + 1 + n2) /\ reg2' = (IF j.y = 2 THEN Twin!SetPairs(0, "HL", b2) ELSE reg2)
        /\ UNCHANGED <<mode2, a2, f2, alt2, sys2, mem2>>
    BY <1>2 DEF Twin!RelativeJump, Twin!Keeps
  <2>4. b2 = b
    BY <1>0, TwinNumbers
  <2>5. taken2 <=> taken
    <3>1. Twin!ConditionCode(j.y - 4, f2) <=> ConditionCode(i.y - 4, f)
      BY <1>0, <2>1, TwinFlags
    <3>2. Twin!Hi(reg2["BC"]) = Hi(reg["BC"])
      BY <1>0, TwinNumbers
    <3>3. QED  BY <1>0, <3>1, <3>2
  <2>6. Twin!Signed(Twin!Code(j.len)) = Signed(Code(i.len))
    BY TwinDecodes, TwinNumbers
  <2>7. n \in Int
    <3>1. Signed(Code(i.len)) \in Int
      BY TogetherFacts, ReadsAreBytes, ByteIsInt DEF Ready
    <3> HIDE DEF taken
    <3>2. QED  BY <3>1
  <2> HIDE DEF taken, taken2
  <2>8. n2 = n
    BY <2>5, <2>6
  <2> HIDE DEF n, n2, b, b2
  <2>9. pc2' = pc'
    <3>1. 1 + n \in Int /\ i.len + 1 + n = i.len + (1 + n) /\ j.len + 1 + n = j.len + (1 + n)
      BY <1>0, <2>7
    <3>2. Twin!Plus(pc2, j.len + (1 + n)) = Plus(pc, i.len + (1 + n))
      BY <1>0, <3>1, PlusMeets
    <3>3. QED  BY <2>2, <2>3, <2>8, <3>1, <3>2
  <2>10. reg2' = reg'
    BY <1>0, <2>2, <2>3, <2>4, TwinReads
  <2>11. QED  BY <1>0, <2>2, <2>3, <2>9, <2>10 DEF MeetAgain
<1>3. CASE Call(i) /\ Twin!Call(j)
  <2>1. Pushed(Plus(pc, i.len + 2)) /\ pc' = Imm16(i.len) /\ UNCHANGED <<mode, a, f, alt, sys>>
    BY <1>3 DEF Call, Keeps
  <2>2. Twin!Pushed(Plus(pc, i.len + 2)) /\ pc2' = Imm16(i.len) /\ UNCHANGED <<mode2, a2, f2, alt2, sys2>>
    BY <1>a, <1>c, <1>3 DEF Twin!Call, Twin!Keeps
  <2>3. reg2' = reg' /\ mem2' = mem'
    BY <1>0, <2>1, <2>2, TwinPushed
  <2>4. QED  BY <1>0, <2>1, <2>2, <2>3 DEF MeetAgain
<1>4. CASE CallOrReturnNot(i) /\ Twin!CallOrReturnNot(j)
  <2> DEFINE k == IF i.z = 4 THEN 2 ELSE 0
  <2>1. After(i.len + k) /\ UNCHANGED <<mode, a, f, alt, sys, reg, mem>>
    BY <1>4 DEF CallOrReturnNot, Keeps
  <2>2. Twin!After(j.len + k) /\ UNCHANGED <<mode2, a2, f2, alt2, sys2, reg2, mem2>>
    BY <1>0, <1>4 DEF Twin!CallOrReturnNot, Twin!Keeps
  <2>3. k \in Int
    OBVIOUS
  <2> HIDE DEF k
  <2>4. pc2' = pc'
    BY <1>0, <2>1, <2>2, <2>3, MeetAfter
  <2>5. QED  BY <1>0, <2>1, <2>2, <2>4 DEF MeetAgain
<1>5. CASE Restart(i) /\ Twin!Restart(j)
  <2>1. Pushed(Plus(pc, i.len)) /\ pc' = 8 * i.y /\ UNCHANGED <<mode, a, f, alt, sys>>
    BY <1>5 DEF Restart, Keeps
  <2>2. Twin!Pushed(Plus(pc, i.len)) /\ pc2' = 8 * i.y /\ UNCHANGED <<mode2, a2, f2, alt2, sys2>>
    BY <1>0, <1>c, <1>5 DEF Twin!Restart, Twin!Keeps
  <2>3. reg2' = reg' /\ mem2' = mem'
    BY <1>0, <2>1, <2>2, TwinPushed
  <2>4. QED  BY <1>0, <2>1, <2>2, <2>3 DEF MeetAgain
<1>6. CASE Return(i) /\ Twin!Return(j)
  <2> DEFINE s == Plus(reg["SP"], 2)
             s2 == Twin!Plus(reg2["SP"], 2)
  <2>1. pc' = Top /\ reg' = [reg EXCEPT !["SP"] = s] /\ UNCHANGED <<mode, a, f, alt, mem>>
    BY <1>6 DEF Return
  <2>2. pc2' = Twin!Top /\ reg2' = [reg2 EXCEPT !["SP"] = s2] /\ UNCHANGED <<mode2, a2, f2, alt2, mem2>>
    BY <1>6 DEF Twin!Return
  <2>3. s2 = s
    BY <1>0, TwinNumbers
  <2>4. mode2 = mode => sys2' = sys'
    BY <1>0, <1>6 DEF Return, Twin!Return
  <2> HIDE DEF s, s2
  <2>5. reg2' = reg' /\ pc2' = pc'
    BY <1>0, <1>b, <2>1, <2>2, <2>3
  <2>6. QED  BY <1>0, <2>1, <2>2, <2>4, <2>5 DEF MeetAgain
<1>7. QED  BY <1>1, <1>2, <1>3, <1>4, <1>5, <1>6

-----------------------------------------------------------------------------
(* Exchanges, blocks and the rest                                            *)

\* The exchanges.
LEMMA ExchangesMeet ==
  ASSUME NEW i, NEW j, Together(i, j),
         \/ ExchangeDe(i) /\ Twin!ExchangeDe(j)
         \/ ExchangeAll(i) /\ Twin!ExchangeAll(j)
         \/ ExchangeAf(i) /\ Twin!ExchangeAf(j)
  PROVE  MeetAgain
<1>0. /\ SameInstruction(i, j) /\ a2 = a /\ reg2 = reg /\ mem2 = mem /\ FlagsMeet(f, f2)
      /\ mode2 = mode => alt2 = alt /\ sys2 = sys
      /\ j.hl = i.hl /\ 0 \in Int
  BY TogetherFacts
<1>1. CASE ExchangeDe(i) /\ Twin!ExchangeDe(j)
  <2>1. /\ reg' = [reg EXCEPT !["DE"] = reg[i.hl], ![i.hl] = reg["DE"]] /\ After(i.len)
        /\ UNCHANGED <<mode, a, f, alt, sys, mem>>
    BY <1>1 DEF ExchangeDe, Keeps
  <2>2. /\ reg2' = [reg2 EXCEPT !["DE"] = reg2[j.hl], ![j.hl] = reg2["DE"]] /\ Twin!After(j.len)
        /\ UNCHANGED <<mode2, a2, f2, alt2, sys2, mem2>>
    BY <1>1 DEF Twin!ExchangeDe, Twin!Keeps
  <2>3. reg2' = reg' /\ pc2' = pc'
    BY <1>0, <2>1, <2>2, MeetAfter
  <2>4. QED  BY <1>0, <2>1, <2>2, <2>3 DEF MeetAgain
<1>2. CASE ExchangeAll(i) /\ Twin!ExchangeAll(j)
  <2>1. mode2 = mode /\ alt2 = alt /\ sys2 = sys
    BY <1>0, <1>2, TogetherFacts DEF ExchangeAll, Main, Differing
  <2>2. /\ reg' = [reg EXCEPT !["BC"] = alt.BC, !["DE"] = alt.DE, !["HL"] = alt.HL]
        /\ alt' = [alt EXCEPT !.BC = reg["BC"], !.DE = reg["DE"], !.HL = reg["HL"]]
        /\ After(i.len) /\ UNCHANGED <<mode, a, f, sys, mem>>
    BY <1>2 DEF ExchangeAll
  <2>3. /\ reg2' = [reg EXCEPT !["BC"] = alt.BC, !["DE"] = alt.DE, !["HL"] = alt.HL]
        /\ alt2' = [alt EXCEPT !.BC = reg["BC"], !.DE = reg["DE"], !.HL = reg["HL"]]
        /\ Twin!After(j.len) /\ UNCHANGED <<mode2, a2, f2, sys2, mem2>>
    BY <1>0, <1>2, <2>1 DEF Twin!ExchangeAll
  <2>4. pc2' = pc'
    BY <1>0, <2>2, <2>3, MeetAfter
  <2>5. QED  BY <1>0, <2>1, <2>2, <2>3, <2>4 DEF MeetAgain
<1>3. CASE ExchangeAf(i) /\ Twin!ExchangeAf(j)
  <2>1. mode2 = mode /\ alt2 = alt /\ sys2 = sys /\ f2 = f
    BY <1>0, <1>3, TogetherFacts DEF ExchangeAf, Main, Differing, FlagsMeet
  <2>2. a' = alt.a /\ f' = alt.f /\ alt' = [alt EXCEPT !.a = a, !.f = f] /\ After(i.len) /\ UNCHANGED <<mode, reg, sys, mem>>
    BY <1>3 DEF ExchangeAf
  <2>3. a2' = alt.a /\ f2' = alt.f /\ alt2' = [alt EXCEPT !.a = a, !.f = f] /\ Twin!After(j.len) /\ UNCHANGED <<mode2, reg2, sys2, mem2>>
    BY <1>0, <1>3, <2>1 DEF Twin!ExchangeAf
  <2>4. pc2' = pc'
    BY <1>0, <2>2, <2>3, MeetAfter
  <2>5. QED  BY <1>0, <2>1, <2>2, <2>3, <2>4, MeetSame DEF MeetAgain
<1>4. QED  BY <1>1, <1>2, <1>3

\* The block instructions, also when they go back to their first byte.
LEMMA BlocksMeet ==
  ASSUME NEW i, NEW j, Together(i, j),
         \/ MoveBlock(i) /\ Twin!MoveBlock(j)
         \/ SearchBlock(i) /\ Twin!SearchBlock(j)
  PROVE  MeetAgain
<1>0. /\ SameInstruction(i, j) /\ a2 = a /\ reg2 = reg /\ mem2 = mem /\ FlagsMeet(f, f2)
      /\ mode2 = mode => alt2 = alt /\ sys2 = sys
      /\ j.y = i.y /\ i.len \in Int /\ j.len \in Int
  BY TogetherFacts
<1>a. Twin!Read(reg2["HL"]) = Read(reg["HL"]) /\ Twin!Onward(j) = Onward(i)
  BY <1>0, TwinReads, TwinDecodes, TwinTables
<1>b. ASSUME NEW c, NEW c2, c <=> c2, After(IF c THEN i.len - 2 ELSE i.len), Twin!After(IF c2 THEN j.len - 2 ELSE j.len)
      PROVE  pc2' = pc'
  <2>1. 2 \in Int
    OBVIOUS
  <2>2. CASE c
    BY <1>0, <1>b, <2>1, <2>2, MeetAfter
  <2>3. CASE ~c
    BY <1>0, <1>b, <2>1, <2>3, MeetAfter
  <2>4. QED  BY <2>2, <2>3
<1>1. CASE MoveBlock(i) /\ Twin!MoveBlock(j)
  <2> DEFINE b == Read(reg["HL"])
             w(p) == Plus(reg[p], Onward(i))
             bc == Plus(reg["BC"], -1)
             x == (a + b) % 256
             p1 == When("P", reg["BC"] # 1)
             xy == XYOfBlock(x)
             b2 == Twin!Read(reg2["HL"])
             w2(p) == Twin!Plus(reg2[p], Twin!Onward(j))
             bc2 == Twin!Plus(reg2["BC"], -1)
             x2 == (a2 + b2) % 256
             c == i.y >= 6 /\ reg["BC"] # 1
             c2 == j.y >= 6 /\ reg2["BC"] # 1
  <2>1. /\ mem' = Stored(mem, reg["DE"], b)
        /\ reg' = [reg EXCEPT !["HL"] = w("HL"), !["DE"] = w("DE"), !["BC"] = bc]
        /\ f' = (f \cap {"S", "Z", "C"}) \cup p1 \cup xy
        /\ After(IF c THEN i.len - 2 ELSE i.len) /\ UNCHANGED <<mode, a, alt, sys>>
    BY <1>1 DEF MoveBlock
  <2>2. /\ mem2' = Twin!Stored(mem2, reg2["DE"], b2)
        /\ reg2' = [reg2 EXCEPT !["HL"] = w2("HL"), !["DE"] = w2("DE"), !["BC"] = bc2]
        /\ f2' = (f2 \cap {"S", "Z", "C"}) \cup Twin!When("P", reg2["BC"] # 1) \cup Twin!XYOfBlock(x2)
        /\ Twin!After(IF c2 THEN j.len - 2 ELSE j.len) /\ UNCHANGED <<mode2, a2, alt2, sys2>>
    BY <1>1 DEF Twin!MoveBlock
  <2>3. b2 = b /\ w2("HL") = w("HL") /\ w2("DE") = w("DE") /\ bc2 = bc
    BY <1>0, <1>a, TwinNumbers
  <2>4. Twin!When("P", reg2["BC"] # 1) = p1
    BY <1>0, TwinFlags
  <2>5. x2 = x
    BY <1>0, <2>3
  <2>6. Twin!XYOfBlock(x2) = xy
    BY <2>5, TwinFlags
  <2>7. c <=> c2
    BY <1>0
  <2> HIDE DEF b, b2, w, w2, bc, bc2, p1, xy, c, c2, x, x2
  <2>8. pc2' = pc'
    BY <1>b, <2>1, <2>2, <2>7
  <2>9. FlagsMeet(f', f2')
    <3>1. f2' = (f2 \cap {"S", "Z", "C"}) \cup p1 \cup xy
      BY <2>2, <2>4, <2>6
    <3>2. FlagsMeet((f \cap {"S", "Z", "C"}) \cup p1 \cup xy, (f2 \cap {"S", "Z", "C"}) \cup p1 \cup xy)
      BY Zenon, <1>0, MeetCut, MeetSame, MeetUnion
    <3>3. QED  BY <2>1, <3>1, <3>2
  <2>10. mem2' = mem'
    BY <1>0, <2>1, <2>2, <2>3, TwinNumbers
  <2>11. reg2' = reg'
    BY <1>0, <2>1, <2>2, <2>3
  <2>12. QED  BY <1>0, <2>1, <2>2, <2>8, <2>9, <2>10, <2>11 DEF MeetAgain
<1>2. CASE SearchBlock(i) /\ Twin!SearchBlock(j)
  <2> DEFINE o == SubBits(8, a, Read(reg["HL"]), 0)
             o2 == Twin!SubBits(8, a2, Twin!Read(reg2["HL"]), 0)
             w == Plus(reg["HL"], Onward(i))
             w2 == Twin!Plus(reg2["HL"], Twin!Onward(j))
             bc == Plus(reg["BC"], -1)
             bc2 == Twin!Plus(reg2["BC"], -1)
             p == When("P", reg["BC"] # 1)
             p2 == Twin!When("P", reg2["BC"] # 1)
             sz == SignZero(o.r)
             h == When("H", o.h = 1)
             xy == XYOfBlock((o.r - o.h) % 256)
             c == i.y >= 6 /\ reg["BC"] # 1 /\ o.r # 0
             c2 == j.y >= 6 /\ reg2["BC"] # 1 /\ o2.r # 0
  <2>1. /\ reg' = [reg EXCEPT !["HL"] = w, !["BC"] = bc]
        /\ f' = (f \cap {"C"}) \cup sz \cup h \cup {"N"} \cup p \cup xy
        /\ After(IF c THEN i.len - 2 ELSE i.len) /\ UNCHANGED <<mode, a, alt, sys, mem>>
    BY <1>2 DEF SearchBlock
  <2>2. /\ reg2' = [reg2 EXCEPT !["HL"] = w2, !["BC"] = bc2]
        /\ f2' = (f2 \cap {"C"}) \cup Twin!SignZero(o2.r) \cup Twin!When("H", o2.h = 1) \cup {"N"}
                   \cup p2 \cup Twin!XYOfBlock((o2.r - o2.h) % 256)
        /\ Twin!After(IF c2 THEN j.len - 2 ELSE j.len) /\ UNCHANGED <<mode2, a2, alt2, sys2, mem2>>
    BY <1>2 DEF Twin!SearchBlock
  <2>3. o2 = o
    BY <1>0, <1>a, TwinBits
  <2>4. w2 = w /\ bc2 = bc
    BY <1>0, <1>a, TwinNumbers
  <2>5. p2 = p
    BY <1>0, TwinFlags
  <2>6. c <=> c2
    BY <1>0, <2>3
  <2> HIDE DEF o, o2, w, w2, bc, bc2, p, p2
  <2>7. Twin!SignZero(o2.r) = sz /\ Twin!When("H", o2.h = 1) = h /\ Twin!XYOfBlock((o2.r - o2.h) % 256) = xy
    BY <2>3, TwinFlags
  <2> HIDE DEF c, c2, sz, h, xy
  <2>8. pc2' = pc'
    BY <1>b, <2>1, <2>2, <2>6
  <2>9. FlagsMeet(f', f2')
    <3>1. f2' = (f2 \cap {"C"}) \cup sz \cup h \cup {"N"} \cup p \cup xy
      BY <2>2, <2>5, <2>7
    <3>2. FlagsMeet((f \cap {"C"}) \cup sz \cup h \cup {"N"} \cup p \cup xy,
                    (f2 \cap {"C"}) \cup sz \cup h \cup {"N"} \cup p \cup xy)
      BY Zenon, <1>0, MeetCut, MeetSame, MeetUnion
    <3>3. QED  BY <2>1, <3>1, <3>2
  <2>10. reg2' = reg'
    BY <1>0, <2>1, <2>2, <2>4
  <2>11. QED  BY <1>0, <2>1, <2>2, <2>8, <2>9, <2>10 DEF MeetAgain
<1>3. QED  BY <1>1, <1>2

\* Interrupt registers, ports and what does nothing.
LEMMA OthersMeet ==
  ASSUME NEW i, NEW j, Together(i, j),
         \/ SetInterruptMode(i) /\ Twin!SetInterruptMode(j)
         \/ SetIR(i) /\ Twin!SetIR(j)
         \/ GetIR(i) /\ Twin!GetIR(j)
         \/ Input(i) /\ Twin!Input(j)
         \/ NoOperation(i) /\ Twin!NoOperation(j)
  PROVE  MeetAgain
<1>0. /\ SameInstruction(i, j) /\ a2 = a /\ reg2 = reg /\ mem2 = mem /\ FlagsMeet(f, f2)
      /\ mode2 = mode => alt2 = alt /\ sys2 = sys
      /\ j.y = i.y /\ 0 \in Int /\ 1 \in Int
  BY TogetherFacts
<1>a. i.table = "ED" => mode2 = mode
  BY TogetherFacts DEF Differing
<1>1. CASE SetInterruptMode(i) /\ Twin!SetInterruptMode(j)
  <2>1. sys2' = sys'
    BY <1>0, <1>1, <1>a DEF SetInterruptMode, Twin!SetInterruptMode
  <2>2. pc2' = pc'
    BY <1>0, <1>1, MeetAfter DEF SetInterruptMode, Twin!SetInterruptMode
  <2>3. QED  BY <1>0, <1>1, <2>1, <2>2 DEF SetInterruptMode, Twin!SetInterruptMode, MeetAgain
<1>2. CASE SetIR(i) /\ Twin!SetIR(j)
  <2>1. sys2' = sys'
    BY <1>0, <1>2, <1>a DEF SetIR, Twin!SetIR
  <2>2. pc2' = pc'
    BY <1>0, <1>2, MeetAfter DEF SetIR, Twin!SetIR
  <2>3. QED  BY <1>0, <1>2, <2>1, <2>2 DEF SetIR, Twin!SetIR, MeetAgain
<1>3. CASE GetIR(i) /\ Twin!GetIR(j)
  <2> DEFINE v == sys[IF i.y = 2 THEN "I" ELSE "R"]
             v2 == sys2[IF j.y = 2 THEN "I" ELSE "R"]
             p == When("P", sys["IFF2"] # 0)
             p2 == Twin!When("P", sys2["IFF2"] # 0)
  <2>1. /\ a' = v /\ f' = (f \cap {"C"}) \cup SignZero(v) \cup XY(v) \cup p /\ After(i.len)
        /\ UNCHANGED <<mode, reg, alt, sys, mem>> /\ i.table = "ED"
    BY <1>3 DEF GetIR
  <2>2. /\ a2' = v2 /\ f2' = (f2 \cap {"C"}) \cup Twin!SignZero(v2) \cup Twin!XY(v2) \cup p2 /\ Twin!After(j.len)
        /\ UNCHANGED <<mode2, reg2, alt2, sys2, mem2>>
    BY <1>3 DEF Twin!GetIR
  <2>3. v2 = v /\ p2 = p
    BY <1>0, <1>a, <2>1, TwinFlags
  <2> HIDE DEF v, v2, p, p2
  <2>4. Twin!SignZero(v2) = SignZero(v) /\ Twin!XY(v2) = XY(v)
    BY <2>3, TwinFlags
  <2>5. FlagsMeet(f', f2')
    <3>1. f2 = f
      BY <1>0, <1>a, <2>1 DEF FlagsMeet
    <3>2. f2' = f'
      BY <2>1, <2>2, <2>3, <2>4, <3>1
    <3>3. QED  BY <3>2, MeetSame
  <2>6. pc2' = pc'
    BY <1>0, <2>1, <2>2, MeetAfter
  <2>7. QED  BY <1>0, <2>1, <2>2, <2>3, <2>5, <2>6 DEF MeetAgain
<1>4. CASE Input(i) /\ Twin!Input(j)
  <2>1. pc2' = pc'
    BY <1>0, <1>4, MeetAfter DEF Input, Twin!Input
  <2>2. QED  BY <1>0, <1>4, <2>1 DEF Input, Twin!Input, MeetAgain
<1>5. CASE NoOperation(i) /\ Twin!NoOperation(j)
  <2> DEFINE k == IF Main(i, 3, 3) /\ i.y = 2 THEN 1 ELSE 0
             k2 == IF Twin!Main(j, 3, 3) /\ j.y = 2 THEN 1 ELSE 0
  <2>1. After(i.len + k) /\ UNCHANGED <<mode, a, f, reg, alt, sys, mem>>
    BY <1>5 DEF NoOperation
  <2>2. Twin!After(j.len + k2) /\ UNCHANGED <<mode2, a2, f2, reg2, alt2, sys2, mem2>>
    BY <1>5 DEF Twin!NoOperation
  <2>3. k \in Int /\ k2 = k
    BY <1>0, TwinDecodes, TwinTables
  <2> HIDE DEF k, k2
  <2>4. pc2' = pc'
    BY <1>0, <2>1, <2>2, <2>3, MeetAfter
  <2>5. QED  BY <1>0, <2>1, <2>2, <2>4 DEF MeetAgain
<1>6. QED  BY <1>1, <1>2, <1>3, <1>4, <1>5

-----------------------------------------------------------------------------
(* One step of both.                                                         *)

\* Both take the same action.
LEMMA SameKind ==
  ASSUME NEW i, NEW j, Together(i, j)
  PROVE  KindOf(j, mode2, Twin!ConditionCode(j.y, f2)) = KindOf(i, mode, ConditionCode(i.y, f))
<1>0. /\ j.y = i.y /\ j.z = i.z /\ j.x = i.x /\ j.table = i.table /\ FlagsMeet(f, f2)
      /\ i.x \in 0..3 /\ i.y \in 0..7 /\ i.z \in 0..7 /\ (mode2 # mode => ~Differing(i))
  BY TogetherFacts
<1> DEFINE c == ConditionCode(i.y, f)
           c2 == Twin!ConditionCode(j.y, f2)
<1>1. (mode2 = mode \/ i.y \notin {4, 5}) => (c2 <=> c)
  BY <1>0, ConditionMeets
<1> SUFFICES KindOf(j, mode2, c2) = KindOf(i, mode, c)
  OBVIOUS
<1> HIDE DEF c, c2
<1>2. CASE mode2 = mode
  BY <1>0, <1>1, <1>2 DEF KindOf
<1>3. CASE mode2 # mode
  <2>1. /\ i.table = "main" /\ ~(i.x = 0 /\ i.z = 0 /\ i.y # 0) /\ ~(i.x = 3 /\ i.z \in {0, 2, 4} /\ i.y \in {4, 5})
        /\ ~(i.x = 3 /\ i.z = 1 /\ i.y = 3)
    BY <1>0, <1>3 DEF Differing
  <2>2. CASE i.x = 3 /\ i.z \in {0, 4}
    <3>1. c2 <=> c
      BY <1>1, <2>1, <2>2
    <3>2. QED  BY <1>0, <2>1, <2>2, <3>1 DEF KindOf
  <2>3. CASE ~(i.x = 3 /\ i.z \in {0, 4})
    BY <1>0, <2>1, <2>3 DEF KindOf
  <2>4. QED  BY <2>2, <2>3
<1>4. QED  BY <1>2, <1>3

\* Two processors before the same instruction are in the same state behind it.
LEMMA BothStepsMeet ==
  ASSUME Together(Instruction, Twin!Instruction), Execute, Twin!Execute
  PROVE  MeetAgain
<1> DEFINE i == Instruction
           j == Twin!Instruction
           k == KindOf(i, mode, ConditionCode(i.y, f))
           k2 == KindOf(j, mode2, Twin!ConditionCode(j.y, f2))
<1>1. \/ LoadPair(i) \/ StoreA(i) \/ LoadA(i) \/ StoreDirect(i)
      \/ LoadDirect(i) \/ LoadByte(i) \/ Move(i) \/ StepPair(i)
      \/ StepByte(i) \/ AddPairs(i) \/ AddWithCarry(i) \/ AluRegister(i)
      \/ AluImmediate(i) \/ AccumulatorOp(i) \/ Negate(i) \/ ChangeBits(i)
      \/ TestBit(i) \/ RotateDigits(i) \/ Push(i) \/ Pop(i)
      \/ PopPsw(i) \/ ExchangeTop(i) \/ LoadSp(i) \/ Jump(i)
      \/ RelativeJump(i) \/ Call(i) \/ CallOrReturnNot(i) \/ Restart(i)
      \/ Return(i) \/ ExchangeDe(i) \/ ExchangeAll(i) \/ ExchangeAf(i)
      \/ MoveBlock(i) \/ SearchBlock(i) \/ SetInterruptMode(i) \/ SetIR(i)
      \/ GetIR(i) \/ Input(i) \/ NoOperation(i)
  BY Zenon DEF Execute
<1>2. \/ Twin!LoadPair(j) \/ Twin!StoreA(j) \/ Twin!LoadA(j) \/ Twin!StoreDirect(j)
      \/ Twin!LoadDirect(j) \/ Twin!LoadByte(j) \/ Twin!Move(j) \/ Twin!StepPair(j)
      \/ Twin!StepByte(j) \/ Twin!AddPairs(j) \/ Twin!AddWithCarry(j) \/ Twin!AluRegister(j)
      \/ Twin!AluImmediate(j) \/ Twin!AccumulatorOp(j) \/ Twin!Negate(j) \/ Twin!ChangeBits(j)
      \/ Twin!TestBit(j) \/ Twin!RotateDigits(j) \/ Twin!Push(j) \/ Twin!Pop(j)
      \/ Twin!PopPsw(j) \/ Twin!ExchangeTop(j) \/ Twin!LoadSp(j) \/ Twin!Jump(j)
      \/ Twin!RelativeJump(j) \/ Twin!Call(j) \/ Twin!CallOrReturnNot(j) \/ Twin!Restart(j)
      \/ Twin!Return(j) \/ Twin!ExchangeDe(j) \/ Twin!ExchangeAll(j) \/ Twin!ExchangeAf(j)
      \/ Twin!MoveBlock(j) \/ Twin!SearchBlock(j) \/ Twin!SetInterruptMode(j) \/ Twin!SetIR(j)
      \/ Twin!GetIR(j) \/ Twin!Input(j) \/ Twin!NoOperation(j)
  BY Zenon DEF Twin!Execute
<1> HIDE DEF i, j
<1>3. Together(i, j)
  BY DEF i, j
<1>4. OctalDigits(i) /\ OctalDigits(j)
  BY <1>3 DEF Together, SameInstruction, Ready, InstructionOK, OctalDigits
<1>5. k2 = k
  BY <1>3, SameKind
<1>6. /\ LoadPair(i) => k = "LoadPair"
      /\ StoreA(i) => k = "StoreA"
      /\ LoadA(i) => k = "LoadA"
      /\ StoreDirect(i) => k = "StoreDirect"
      /\ LoadDirect(i) => k = "LoadDirect"
      /\ LoadByte(i) => k = "LoadByte"
      /\ Move(i) => k = "Move"
      /\ StepPair(i) => k = "StepPair"
      /\ StepByte(i) => k = "StepByte"
      /\ AddPairs(i) => k = "AddPairs"
      /\ AddWithCarry(i) => k = "AddWithCarry"
      /\ AluRegister(i) => k = "AluRegister"
      /\ AluImmediate(i) => k = "AluImmediate"
      /\ AccumulatorOp(i) => k = "AccumulatorOp"
      /\ Negate(i) => k = "Negate"
      /\ ChangeBits(i) => k = "ChangeBits"
      /\ TestBit(i) => k = "TestBit"
      /\ RotateDigits(i) => k = "RotateDigits"
      /\ Push(i) => k = "Push"
      /\ Pop(i) => k = "Pop"
      /\ PopPsw(i) => k = "PopPsw"
      /\ ExchangeTop(i) => k = "ExchangeTop"
      /\ LoadSp(i) => k = "LoadSp"
      /\ Jump(i) => k = "Jump"
      /\ RelativeJump(i) => k = "RelativeJump"
      /\ Call(i) => k = "Call"
      /\ CallOrReturnNot(i) => k = "CallOrReturnNot"
      /\ Restart(i) => k = "Restart"
      /\ Return(i) => k = "Return"
      /\ ExchangeDe(i) => k = "ExchangeDe"
      /\ ExchangeAll(i) => k = "ExchangeAll"
      /\ ExchangeAf(i) => k = "ExchangeAf"
      /\ MoveBlock(i) => k = "MoveBlock"
      /\ SearchBlock(i) => k = "SearchBlock"
      /\ SetInterruptMode(i) => k = "SetInterruptMode"
      /\ SetIR(i) => k = "SetIR"
      /\ GetIR(i) => k = "GetIR"
      /\ Input(i) => k = "Input"
      /\ NoOperation(i) => k = "NoOperation"
  BY Zenon, <1>4, KindOfStep
<1>7. /\ Twin!LoadPair(j) => k2 = "LoadPair"
      /\ Twin!StoreA(j) => k2 = "StoreA"
      /\ Twin!LoadA(j) => k2 = "LoadA"
      /\ Twin!StoreDirect(j) => k2 = "StoreDirect"
      /\ Twin!LoadDirect(j) => k2 = "LoadDirect"
      /\ Twin!LoadByte(j) => k2 = "LoadByte"
      /\ Twin!Move(j) => k2 = "Move"
      /\ Twin!StepPair(j) => k2 = "StepPair"
      /\ Twin!StepByte(j) => k2 = "StepByte"
      /\ Twin!AddPairs(j) => k2 = "AddPairs"
      /\ Twin!AddWithCarry(j) => k2 = "AddWithCarry"
      /\ Twin!AluRegister(j) => k2 = "AluRegister"
      /\ Twin!AluImmediate(j) => k2 = "AluImmediate"
      /\ Twin!AccumulatorOp(j) => k2 = "AccumulatorOp"
      /\ Twin!Negate(j) => k2 = "Negate"
      /\ Twin!ChangeBits(j) => k2 = "ChangeBits"
      /\ Twin!TestBit(j) => k2 = "TestBit"
      /\ Twin!RotateDigits(j) => k2 = "RotateDigits"
      /\ Twin!Push(j) => k2 = "Push"
      /\ Twin!Pop(j) => k2 = "Pop"
      /\ Twin!PopPsw(j) => k2 = "PopPsw"
      /\ Twin!ExchangeTop(j) => k2 = "ExchangeTop"
      /\ Twin!LoadSp(j) => k2 = "LoadSp"
      /\ Twin!Jump(j) => k2 = "Jump"
      /\ Twin!RelativeJump(j) => k2 = "RelativeJump"
      /\ Twin!Call(j) => k2 = "Call"
      /\ Twin!CallOrReturnNot(j) => k2 = "CallOrReturnNot"
      /\ Twin!Restart(j) => k2 = "Restart"
      /\ Twin!Return(j) => k2 = "Return"
      /\ Twin!ExchangeDe(j) => k2 = "ExchangeDe"
      /\ Twin!ExchangeAll(j) => k2 = "ExchangeAll"
      /\ Twin!ExchangeAf(j) => k2 = "ExchangeAf"
      /\ Twin!MoveBlock(j) => k2 = "MoveBlock"
      /\ Twin!SearchBlock(j) => k2 = "SearchBlock"
      /\ Twin!SetInterruptMode(j) => k2 = "SetInterruptMode"
      /\ Twin!SetIR(j) => k2 = "SetIR"
      /\ Twin!GetIR(j) => k2 = "GetIR"
      /\ Twin!Input(j) => k2 = "Input"
      /\ Twin!NoOperation(j) => k2 = "NoOperation"
  BY Zenon, <1>4, KindOfTwinStep
<1> HIDE DEF k, k2
<1>8. ASSUME LoadPair(i)  PROVE MeetAgain
  <2>1. Twin!LoadPair(j)
    BY <1>2, <1>5, <1>6, <1>7, <1>8
  <2>2. QED  BY Zenon, <1>3, <1>8, <2>1, LoadsMeet
<1>9. ASSUME StoreA(i)  PROVE MeetAgain
  <2>1. Twin!StoreA(j)
    BY <1>2, <1>5, <1>6, <1>7, <1>9
  <2>2. QED  BY Zenon, <1>3, <1>9, <2>1, LoadsMeet
<1>10. ASSUME LoadA(i)  PROVE MeetAgain
  <2>1. Twin!LoadA(j)
    BY <1>2, <1>5, <1>6, <1>7, <1>10
  <2>2. QED  BY Zenon, <1>3, <1>10, <2>1, LoadsMeet
<1>11. ASSUME StoreDirect(i)  PROVE MeetAgain
  <2>1. Twin!StoreDirect(j)
    BY <1>2, <1>5, <1>6, <1>7, <1>11
  <2>2. QED  BY Zenon, <1>3, <1>11, <2>1, LoadsMeet
<1>12. ASSUME LoadDirect(i)  PROVE MeetAgain
  <2>1. Twin!LoadDirect(j)
    BY <1>2, <1>5, <1>6, <1>7, <1>12
  <2>2. QED  BY Zenon, <1>3, <1>12, <2>1, LoadsMeet
<1>13. ASSUME LoadByte(i)  PROVE MeetAgain
  <2>1. Twin!LoadByte(j)
    BY <1>2, <1>5, <1>6, <1>7, <1>13
  <2>2. QED  BY Zenon, <1>3, <1>13, <2>1, LoadsMeet
<1>14. ASSUME Move(i)  PROVE MeetAgain
  <2>1. Twin!Move(j)
    BY <1>2, <1>5, <1>6, <1>7, <1>14
  <2>2. QED  BY Zenon, <1>3, <1>14, <2>1, LoadsMeet
<1>15. ASSUME StepPair(i)  PROVE MeetAgain
  <2>1. Twin!StepPair(j)
    BY <1>2, <1>5, <1>6, <1>7, <1>15
  <2>2. QED  BY Zenon, <1>3, <1>15, <2>1, StepPairMeets
<1>16. ASSUME StepByte(i)  PROVE MeetAgain
  <2>1. Twin!StepByte(j)
    BY <1>2, <1>5, <1>6, <1>7, <1>16
  <2>2. QED  BY Zenon, <1>3, <1>16, <2>1, StepByteMeets
<1>17. ASSUME AddPairs(i)  PROVE MeetAgain
  <2>1. Twin!AddPairs(j)
    BY <1>2, <1>5, <1>6, <1>7, <1>17
  <2>2. QED  BY Zenon, <1>3, <1>17, <2>1, AddPairsMeets
<1>18. ASSUME AddWithCarry(i)  PROVE MeetAgain
  <2>1. Twin!AddWithCarry(j)
    BY <1>2, <1>5, <1>6, <1>7, <1>18
  <2>2. QED  BY Zenon, <1>3, <1>18, <2>1, AddWithCarryMeets
<1>19. ASSUME AluRegister(i)  PROVE MeetAgain
  <2>1. Twin!AluRegister(j)
    BY <1>2, <1>5, <1>6, <1>7, <1>19
  <2>2. QED  BY Zenon, <1>3, <1>19, <2>1, AluMeets
<1>20. ASSUME AluImmediate(i)  PROVE MeetAgain
  <2>1. Twin!AluImmediate(j)
    BY <1>2, <1>5, <1>6, <1>7, <1>20
  <2>2. QED  BY Zenon, <1>3, <1>20, <2>1, AluMeets
<1>21. ASSUME AccumulatorOp(i)  PROVE MeetAgain
  <2>1. Twin!AccumulatorOp(j)
    BY <1>2, <1>5, <1>6, <1>7, <1>21
  <2>2. QED  BY Zenon, <1>3, <1>21, <2>1, AluMeets
<1>22. ASSUME Negate(i)  PROVE MeetAgain
  <2>1. Twin!Negate(j)
    BY <1>2, <1>5, <1>6, <1>7, <1>22
  <2>2. QED  BY Zenon, <1>3, <1>22, <2>1, AluMeets
<1>23. ASSUME ChangeBits(i)  PROVE MeetAgain
  <2>1. Twin!ChangeBits(j)
    BY <1>2, <1>5, <1>6, <1>7, <1>23
  <2>2. QED  BY Zenon, <1>3, <1>23, <2>1, BitsMeet
<1>24. ASSUME TestBit(i)  PROVE MeetAgain
  <2>1. Twin!TestBit(j)
    BY <1>2, <1>5, <1>6, <1>7, <1>24
  <2>2. QED  BY Zenon, <1>3, <1>24, <2>1, BitsMeet
<1>25. ASSUME RotateDigits(i)  PROVE MeetAgain
  <2>1. Twin!RotateDigits(j)
    BY <1>2, <1>5, <1>6, <1>7, <1>25
  <2>2. QED  BY Zenon, <1>3, <1>25, <2>1, BitsMeet
<1>26. ASSUME Push(i)  PROVE MeetAgain
  <2>1. Twin!Push(j)
    BY <1>2, <1>5, <1>6, <1>7, <1>26
  <2>2. QED  BY Zenon, <1>3, <1>26, <2>1, StackMeets
<1>27. ASSUME Pop(i)  PROVE MeetAgain
  <2>1. Twin!Pop(j)
    BY <1>2, <1>5, <1>6, <1>7, <1>27
  <2>2. QED  BY Zenon, <1>3, <1>27, <2>1, StackMeets
<1>28. ASSUME PopPsw(i)  PROVE MeetAgain
  <2>1. Twin!PopPsw(j)
    BY <1>2, <1>5, <1>6, <1>7, <1>28
  <2>2. QED  BY Zenon, <1>3, <1>28, <2>1, StackMeets
<1>29. ASSUME ExchangeTop(i)  PROVE MeetAgain
  <2>1. Twin!ExchangeTop(j)
    BY <1>2, <1>5, <1>6, <1>7, <1>29
  <2>2. QED  BY Zenon, <1>3, <1>29, <2>1, StackMeets
<1>30. ASSUME LoadSp(i)  PROVE MeetAgain
  <2>1. Twin!LoadSp(j)
    BY <1>2, <1>5, <1>6, <1>7, <1>30
  <2>2. QED  BY Zenon, <1>3, <1>30, <2>1, StackMeets
<1>31. ASSUME Jump(i)  PROVE MeetAgain
  <2>1. Twin!Jump(j)
    BY <1>2, <1>5, <1>6, <1>7, <1>31
  <2>2. QED  BY Zenon, <1>3, <1>31, <2>1, BranchesMeet
<1>32. ASSUME RelativeJump(i)  PROVE MeetAgain
  <2>1. Twin!RelativeJump(j)
    BY <1>2, <1>5, <1>6, <1>7, <1>32
  <2>2. QED  BY Zenon, <1>3, <1>32, <2>1, BranchesMeet
<1>33. ASSUME Call(i)  PROVE MeetAgain
  <2>1. Twin!Call(j)
    BY <1>2, <1>5, <1>6, <1>7, <1>33
  <2>2. QED  BY Zenon, <1>3, <1>33, <2>1, BranchesMeet
<1>34. ASSUME CallOrReturnNot(i)  PROVE MeetAgain
  <2>1. Twin!CallOrReturnNot(j)
    BY <1>2, <1>5, <1>6, <1>7, <1>34
  <2>2. QED  BY Zenon, <1>3, <1>34, <2>1, BranchesMeet
<1>35. ASSUME Restart(i)  PROVE MeetAgain
  <2>1. Twin!Restart(j)
    BY <1>2, <1>5, <1>6, <1>7, <1>35
  <2>2. QED  BY Zenon, <1>3, <1>35, <2>1, BranchesMeet
<1>36. ASSUME Return(i)  PROVE MeetAgain
  <2>1. Twin!Return(j)
    BY <1>2, <1>5, <1>6, <1>7, <1>36
  <2>2. QED  BY Zenon, <1>3, <1>36, <2>1, BranchesMeet
<1>37. ASSUME ExchangeDe(i)  PROVE MeetAgain
  <2>1. Twin!ExchangeDe(j)
    BY <1>2, <1>5, <1>6, <1>7, <1>37
  <2>2. QED  BY Zenon, <1>3, <1>37, <2>1, ExchangesMeet
<1>38. ASSUME ExchangeAll(i)  PROVE MeetAgain
  <2>1. Twin!ExchangeAll(j)
    BY <1>2, <1>5, <1>6, <1>7, <1>38
  <2>2. QED  BY Zenon, <1>3, <1>38, <2>1, ExchangesMeet
<1>39. ASSUME ExchangeAf(i)  PROVE MeetAgain
  <2>1. Twin!ExchangeAf(j)
    BY <1>2, <1>5, <1>6, <1>7, <1>39
  <2>2. QED  BY Zenon, <1>3, <1>39, <2>1, ExchangesMeet
<1>40. ASSUME MoveBlock(i)  PROVE MeetAgain
  <2>1. Twin!MoveBlock(j)
    BY <1>2, <1>5, <1>6, <1>7, <1>40
  <2>2. QED  BY Zenon, <1>3, <1>40, <2>1, BlocksMeet
<1>41. ASSUME SearchBlock(i)  PROVE MeetAgain
  <2>1. Twin!SearchBlock(j)
    BY <1>2, <1>5, <1>6, <1>7, <1>41
  <2>2. QED  BY Zenon, <1>3, <1>41, <2>1, BlocksMeet
<1>42. ASSUME SetInterruptMode(i)  PROVE MeetAgain
  <2>1. Twin!SetInterruptMode(j)
    BY <1>2, <1>5, <1>6, <1>7, <1>42
  <2>2. QED  BY Zenon, <1>3, <1>42, <2>1, OthersMeet
<1>43. ASSUME SetIR(i)  PROVE MeetAgain
  <2>1. Twin!SetIR(j)
    BY <1>2, <1>5, <1>6, <1>7, <1>43
  <2>2. QED  BY Zenon, <1>3, <1>43, <2>1, OthersMeet
<1>44. ASSUME GetIR(i)  PROVE MeetAgain
  <2>1. Twin!GetIR(j)
    BY <1>2, <1>5, <1>6, <1>7, <1>44
  <2>2. QED  BY Zenon, <1>3, <1>44, <2>1, OthersMeet
<1>45. ASSUME Input(i)  PROVE MeetAgain
  <2>1. Twin!Input(j)
    BY <1>2, <1>5, <1>6, <1>7, <1>45
  <2>2. QED  BY Zenon, <1>3, <1>45, <2>1, OthersMeet
<1>46. ASSUME NoOperation(i)  PROVE MeetAgain
  <2>1. Twin!NoOperation(j)
    BY <1>2, <1>5, <1>6, <1>7, <1>46
  <2>2. QED  BY Zenon, <1>3, <1>46, <2>1, OthersMeet
<1>47. QED
  BY Zenon, <1>1, <1>8, <1>9, <1>10, <1>11, <1>12, <1>13, <1>14, <1>15, <1>16, <1>17, <1>18, <1>19, <1>20, <1>21, <1>22, <1>23, <1>24, <1>25, <1>26, <1>27, <1>28, <1>29, <1>30, <1>31, <1>32, <1>33, <1>34, <1>35, <1>36, <1>37, <1>38, <1>39, <1>40, <1>41, <1>42, <1>43, <1>44, <1>45, <1>46

-----------------------------------------------------------------------------
(* When both are before the same instruction.                                *)

\* The second is d bytes further.
Behind(d) == d \in Nat /\ pc \in Int /\ pc2 = Plus(pc, d) /\ mem2 = mem /\ reg2 = reg

\* The second finds the bytes of the first, d earlier.
LEMMA BytesBehind ==
  ASSUME NEW d, Behind(d), NEW k \in Int
  PROVE  Plus(pc2, k) = Plus(pc, k + d) /\ Twin!Code(k) = Code(k + d)
<1>1. Plus(pc2, k) = Plus(pc, k + d)
  BY SMT DEF Behind, Plus
<1>2. Twin!Code(k) = Twin!Read(Plus(pc2, k))
  BY Zenon, TwinNumbers DEF Twin!Code
<1>3. \A x : Twin!Read(x) = Read(x)
  BY Zenon DEF Behind, Twin!Read, Read
<1>4. QED  BY Zenon, <1>1, <1>2, <1>3 DEF Code

\* An opcode found by both, from the place of each.
LEMMA SameOpcode ==
  ASSUME NEW d, Behind(d), NEW k \in Int, NEW table, NEW hl, NEW x
  PROVE  SameInstruction(Opcode(table, k, hl, x), Twin!Opcode(table, k - d, hl, x))
<1>1. d \in Int /\ k - d \in Int /\ k - d + d = k
  BY DEF Behind
<1>2. Twin!Code(k - d) = Code(k)
  BY <1>1, BytesBehind
<1>3. \A m \in Int : Plus(pc2, (k - d + 1) + m) = Plus(pc, (k + 1) + m)
  <2> SUFFICES ASSUME NEW m \in Int  PROVE Plus(pc2, (k - d + 1) + m) = Plus(pc, (k + 1) + m)
    OBVIOUS
  <2>1. (k - d + 1) + m \in Int /\ ((k - d + 1) + m) + d = (k + 1) + m
    BY <1>1
  <2>2. Plus(pc2, (k - d + 1) + m) = Plus(pc, ((k - d + 1) + m) + d)
    BY Zenon, <2>1, BytesBehind
  <2>3. QED  BY <2>1, <2>2
<1>4. k + 1 \in Int /\ k - d + 1 \in Int
  BY <1>1
<1>5. QED  BY <1>2, <1>3, <1>4 DEF SameInstruction, Opcode, Twin!Opcode

\* The index prefixes the second finds.
TwinPrefixed(n) == /\ \A k \in 0..(n - 1) : Twin!Code(k) \in {221, 253}
                   /\ n < 4 => Twin!Code(n) \notin {221, 253}

\* So many it takes.
LEMMA TwinPrefixes ==
  ASSUME NEW n \in 0..4, TwinPrefixed(n), mode2 # "8080"
  PROVE  Twin!IndexPrefixes = n
<1>1. \A m \in 0..4 : TwinPrefixed(m) => m = n
  <2> SUFFICES ASSUME NEW m \in 0..4, TwinPrefixed(m), m # n  PROVE FALSE
    OBVIOUS
  <2>1. CASE m < n
    <3>1. m \in 0..(n - 1) /\ m < 4
      BY <2>1
    <3>2. QED  BY <3>1 DEF TwinPrefixed
  <2>2. CASE n < m
    <3>1. n \in 0..(m - 1) /\ n < 4
      BY <2>2
    <3>2. QED  BY <3>1 DEF TwinPrefixed
  <2>3. m < n \/ n < m
    OBVIOUS
  <2>4. QED  BY <2>1, <2>2, <2>3
<1>2. Twin!IndexPrefixes = CHOOSE m \in 0..4 : TwinPrefixed(m)
  BY Zenon DEF Twin!IndexPrefixes, TwinPrefixed
<1>3. QED  BY Zenon, <1>1, <1>2

\* An 8080 and a Z80 before an opcode both have.
LEMMA SharedOpcode ==
  ASSUME CpuOK, mode = "8080", mode2 = "z80", pc2 = pc, a2 = a, reg2 = reg, mem2 = mem,
         f \cap Kept = f2 \cap Kept, Code(0) \in Shared8080
  PROVE  Together(Instruction, Twin!Instruction)
<1>1. Behind(0) /\ Code(0) \in Byte
  <2>1. pc \in Word /\ MemoryOK(mem)
    BY StateOK
  <2>2. pc \in Int /\ 0 <= pc /\ pc <= 65535
    BY <2>1, InWord
  <2>3. Plus(pc, 0) = pc
    BY <2>2 DEF Plus
  <2>4. QED  BY <2>1, <2>2, <2>3, ReadsAreBytes DEF Behind
<1>2. Twin!Code(0) = Code(0)
  <2>1. Twin!Code(0) = Code(0 + 0)
    BY <1>1, BytesBehind
  <2>2. QED  BY <2>1
<1>3. /\ Code(0) \notin {221, 253, 203, 237}
      /\ Code(0) \notin {8, 16, 24, 32, 40, 48, 56, 39, 217, 245, 224, 226, 228, 232, 234, 236}
  BY DEF Shared8080
<1>4. IndexPrefixes = 0 /\ Twin!IndexPrefixes = 0
  <2>1. TwinPrefixed(0)
    BY <1>2, <1>3 DEF TwinPrefixed
  <2>2. QED  BY <2>1, TwinPrefixes, PrefixCount
<1>5. IndexPair(0) = "HL" /\ Twin!IndexPair(0) = "HL"
  BY DEF IndexPair, Twin!IndexPair
<1>6. Instruction = Opcode("main", 0, "HL", 0) /\ Twin!Instruction = Twin!Opcode("main", 0, "HL", 0)
  <2>1. Instruction = Opcode("main", 0, "HL", 0)
    BY <1>3, <1>4, <1>5 DEF Instruction
  <2>2. Twin!Instruction = Twin!Opcode("main", 0, "HL", 0)
    BY <1>2, <1>3, <1>4, <1>5 DEF Twin!Instruction
  <2>3. QED  BY <2>1, <2>2
<1>7. SameInstruction(Instruction, Twin!Instruction)
  <2>1. SameInstruction(Opcode("main", 0, "HL", 0), Twin!Opcode("main", 0 - 0, "HL", 0))
    BY <1>1, SameOpcode
  <2>2. QED  BY <1>6, <2>1
<1>8. ~Differing(Instruction)
  <2> DEFINE i == Opcode("main", 0, "HL", 0)
  <2>1. /\ i.x \in 0..3 /\ i.y \in 0..7 /\ i.z \in 0..7 /\ i.hl = "HL" /\ i.table = "main"
        /\ Code(0) = (64 * i.x) + (8 * i.y) + i.z
    <3>1. MemoryOK(mem) /\ 0 \in Nat
      BY StateOK
    <3>2. QED  BY <3>1, OpcodeOK
  <2> HIDE DEF i
  <2>2. ~Differing(i)
    BY <2>1, <1>3 DEF Differing
  <2>3. QED  BY <1>6, <2>2 DEF i
<1>9. Ready(Instruction)
  BY ReadyForIt
<1>10. Meet
  BY DEF Meet, FlagsMeet
<1>11. QED  BY <1>7, <1>8, <1>9, <1>10 DEF Together

\* A Z80 before a chain of index prefixes, and one before the last but d of them.
LEMMA SameBehindChain ==
  ASSUME CpuOK, mode = "z80", mode2 = "z80", a2 = a, f2 = f, reg2 = reg, alt2 = alt, sys2 = sys, mem2 = mem,
         NEW d \in 1..3, pc2 = Plus(pc, d), ChainOf(d)
  PROVE  Together(Instruction, Twin!Instruction)
<1> DEFINE n == IndexPrefixes
           m == n - d
<1>1. Behind(d) /\ d \in Int
  <2>1. pc \in Word
    BY StateOK
  <2>2. QED  BY <2>1, InWord DEF Behind
<1>2. \A k \in Int : Twin!Code(k) = Code(k + d)
  BY <1>1, BytesBehind
<1>3. n \in 0..4 /\ Prefixed(n)
  BY PrefixCount
<1> HIDE DEF n
<1>4. n \in (d + 1)..4 /\ Code(n) \notin {221, 253}
  <2>1. \A k \in 0..d : Code(k) \in {221, 253}
    BY DEF ChainOf
  <2>2. ~(n \in 0..d)
    BY <1>3, <2>1 DEF Prefixed
  <2>3. n \in (d + 1)..4
    BY <1>3, <2>2
  <2>4. CASE n < 4
    BY <1>3, <2>3, <2>4 DEF Prefixed
  <2>5. CASE n = 4
    <3>1. PICK k \in (d + 1)..4 : Code(k) \notin {221, 253}
      BY DEF ChainOf
    <3>2. k = 4
      <4>1. k \notin 0..3
        BY <1>3, <2>5, <3>1 DEF Prefixed
      <4>2. QED  BY <4>1
    <3>3. QED  BY <2>3, <2>5, <3>1, <3>2
  <2>6. QED  BY <2>3, <2>4, <2>5
<1>5. m \in 1..3 /\ m + d = n /\ m \in 0..4 /\ m \in Int
  BY <1>4
<1>6. \A k \in Int : Twin!Code(m + k) = Code(n + k)
  <2> SUFFICES ASSUME NEW k \in Int  PROVE Twin!Code(m + k) = Code(n + k)
    OBVIOUS
  <2>1. m + k \in Int /\ (m + k) + d = n + k
    BY <1>4
  <2> HIDE DEF m
  <2>2. Twin!Code(m + k) = Code((m + k) + d)
    BY <1>2, <2>1
  <2>3. QED  BY <2>1, <2>2
<1>c. /\ Twin!Code(m) = Code(n) /\ Twin!Code(m - 1) = Code(n - 1)
      /\ Twin!Code(m + 1) = Code(n + 1) /\ Twin!Code(m + 2) = Code(n + 2)
  <2>1. /\ m + 0 = m /\ n + 0 = n /\ m + (-1) = m - 1 /\ n + (-1) = n - 1
        /\ 0 \in Int /\ 1 \in Int /\ 2 \in Int /\ -1 \in Int
    BY <1>4
  <2> HIDE DEF m
  <2>2. /\ Twin!Code(m + 0) = Code(n + 0) /\ Twin!Code(m + (-1)) = Code(n + (-1))
        /\ Twin!Code(m + 1) = Code(n + 1) /\ Twin!Code(m + 2) = Code(n + 2)
    BY Zenon, <1>6, <2>1
  <2>3. QED  BY <2>1, <2>2
<1>7. Twin!IndexPrefixes = m
  <2>1. \A k \in 0..(m - 1) : Twin!Code(k) \in {221, 253}
    <3> SUFFICES ASSUME NEW k \in 0..(m - 1)  PROVE Twin!Code(k) \in {221, 253}
      OBVIOUS
    <3>1. k \in Int /\ k + d \in 0..(n - 1)
      BY <1>4
    <3>2. Code(k + d) \in {221, 253}
      BY <1>3, <3>1 DEF Prefixed
    <3>3. QED  BY <1>2, <3>1, <3>2
  <2>2. Twin!Code(m) \notin {221, 253}
    BY <1>4, <1>c
  <2> HIDE DEF m
  <2>3. TwinPrefixed(m)
    BY <2>1, <2>2 DEF TwinPrefixed
  <2>4. QED  BY <1>5, <2>3, TwinPrefixes
<1> DEFINE hl == IndexPair(n)
           x == Plus(reg[hl], Signed(Code(n + 1)))
           op == Code(n + 2)
<1>8. n > 0 /\ m > 0 /\ n # 0 /\ m # 0
  BY <1>4
<1>9. Twin!IndexPair(m) = hl
  <2> HIDE DEF m
  <2>1. QED  BY <1>8, <1>c DEF IndexPair, Twin!IndexPair
<1>10. Twin!Plus(reg2[Twin!IndexPair(m)], Twin!Signed(Twin!Code(m + 1))) = x
  <2> HIDE DEF m
  <2>1. QED  BY Zenon, <1>9, <1>c, TwinNumbers
<1>11. Instruction =
         IF Code(n) = 203
         THEN IF op = 237 THEN Opcode("ED", n + 3, hl, x)
              ELSE IF op = 203 THEN Opcode("CB", n + 3, hl, x) ELSE Opcode("CB", n + 2, hl, x)
         ELSE IF Code(n) = 237 THEN Opcode("ED", n + 1, hl, 0) ELSE Opcode("main", n, hl, 0)
  <2>1. Instruction =
          CASE n > 0 /\ Code(n) = 203 ->
                 (IF op = 237 THEN Opcode("ED", n + 3, hl, x)
                  ELSE IF op = 203 THEN Opcode("CB", n + 3, hl, x) ELSE Opcode("CB", n + 2, hl, x))
            [] n = 0 /\ Code(n) = 203 -> Opcode(IF mode = "8080" THEN "none" ELSE "CB", 1, hl, reg["HL"])
            [] Code(n) = 237 -> Opcode(IF mode = "8080" THEN "none" ELSE "ED", n + 1, hl, 0)
            [] OTHER -> Opcode("main", n, hl, 0)
    BY Zenon DEF Instruction, n
  <2> HIDE DEF hl, x, op
  <2>2. mode # "8080"
    OBVIOUS
  <2>3. QED  BY <1>8, <2>1, <2>2
<1>12. Twin!Instruction =
         IF Code(n) = 203
         THEN IF op = 237 THEN Twin!Opcode("ED", m + 3, hl, x)
              ELSE IF op = 203 THEN Twin!Opcode("CB", m + 3, hl, x) ELSE Twin!Opcode("CB", m + 2, hl, x)
         ELSE IF Code(n) = 237 THEN Twin!Opcode("ED", m + 1, hl, 0) ELSE Twin!Opcode("main", m, hl, 0)
  <2> DEFINE m2 == Twin!IndexPrefixes
             h2 == Twin!IndexPair(m2)
             x2 == Twin!Plus(reg2[h2], Twin!Signed(Twin!Code(m2 + 1)))
             op2 == Twin!Code(m2 + 2)
             c2 == Twin!Code(m2)
  <2>1. Twin!Instruction =
          CASE m2 > 0 /\ c2 = 203 ->
                 (IF op2 = 237 THEN Twin!Opcode("ED", m2 + 3, h2, x2)
                  ELSE IF op2 = 203 THEN Twin!Opcode("CB", m2 + 3, h2, x2) ELSE Twin!Opcode("CB", m2 + 2, h2, x2))
            [] m2 = 0 /\ c2 = 203 -> Twin!Opcode(IF mode2 = "8080" THEN "none" ELSE "CB", 1, h2, reg2["HL"])
            [] c2 = 237 -> Twin!Opcode(IF mode2 = "8080" THEN "none" ELSE "ED", m2 + 1, h2, 0)
            [] OTHER -> Twin!Opcode("main", m2, h2, 0)
    BY Zenon DEF Twin!Instruction
  <2>2. m2 = m
    BY <1>7
  <2> HIDE DEF m, m2
  <2>3. h2 = hl /\ x2 = x /\ op2 = op /\ c2 = Code(n)
    BY Zenon, <2>2, <1>9, <1>10, <1>c
  <2>4. mode2 # "8080"
    OBVIOUS
  <2> HIDE DEF hl, x, op, h2, x2, op2, c2
  <2>5. QED  BY <1>8, <2>1, <2>2, <2>3, <2>4
<1>13. ASSUME NEW t, NEW k \in {0, 1, 2, 3}, NEW h, NEW y
       PROVE  SameInstruction(Opcode(t, n + k, h, y), Twin!Opcode(t, m + k, h, y))
  <2>1. n + k \in Int /\ (n + k) - d = m + k
    BY <1>4
  <2> HIDE DEF m
  <2>2. SameInstruction(Opcode(t, n + k, h, y), Twin!Opcode(t, (n + k) - d, h, y))
    BY <1>1, <2>1, SameOpcode
  <2>3. QED  BY <2>1, <2>2
<1>14. SameInstruction(Opcode("main", n, hl, 0), Twin!Opcode("main", m, hl, 0))
  <2>1. n + 0 = n /\ m + 0 = m
    BY <1>4
  <2> HIDE DEF m, hl
  <2>2. SameInstruction(Opcode("main", n + 0, hl, 0), Twin!Opcode("main", m + 0, hl, 0))
    BY <1>13
  <2>3. QED  BY <2>1, <2>2
<1>15. SameInstruction(Instruction, Twin!Instruction)
  <2> HIDE DEF m, hl, x, op
  <2>1. CASE Code(n) = 203 /\ op = 237
    BY <1>11, <1>12, <1>13, <2>1
  <2>2. CASE Code(n) = 203 /\ op = 203
    BY <1>11, <1>12, <1>13, <2>2
  <2>3. CASE Code(n) = 203 /\ op # 237 /\ op # 203
    BY <1>11, <1>12, <1>13, <2>3
  <2>4. CASE Code(n) = 237
    BY <1>11, <1>12, <1>13, <2>4
  <2>5. CASE Code(n) # 203 /\ Code(n) # 237
    BY <1>11, <1>12, <1>14, <2>5
  <2>6. QED  BY <2>1, <2>2, <2>3, <2>4, <2>5
<1>16. Ready(Instruction)
  BY ReadyForIt
<1>17. Meet
  BY DEF Meet, FlagsMeet
<1>18. QED  BY <1>15, <1>16, <1>17 DEF Together

-----------------------------------------------------------------------------
(* The theorems                                                              *)

vars == <<state, textVars, twin>>

\* What an 8080 has not is as it was at the start.
Untouched ==
  mode = "8080" =>
    /\ alt = was.alt /\ sys = was.sys
    /\ reg["IX"] = was.reg["IX"] /\ reg["IY"] = was.reg["IY"]

\* Two processors that have come to the same state.
SameState ==
  mode2 = mode /\ a2 = a /\ f2 = f /\ reg2 = reg /\ alt2 = alt /\ sys2 = sys /\ mem2 = mem

ModesPaired ==
  kind = "modes" =>
    /\ mode = "8080" /\ mode2 = "z80" /\ pc2 = pc /\ a2 = a /\ reg2 = reg /\ mem2 = mem
    /\ f \cap Kept = f2 \cap Kept

LeadersPaired ==
  kind = "leaders" =>
    /\ mode = "z80" /\ SameState
    /\ \/ pc2 = pc
       \/ pc = TextAt /\ \E d \in 1..3 : ChainOf(d) /\ pc2 = Plus(pc, d)

IInv == CpuOK /\ Untouched /\ ModesPaired /\ LeadersPaired

\* The start.
LEMMA AnyInitOK == AnyInit => IInv
<1> SUFFICES ASSUME AnyInit  PROVE IInv
  OBVIOUS
<1>1. Untouched
  BY DEF AnyInit, Untouched
<1>2. ModesPaired
  <2> SUFFICES ASSUME kind = "modes"
               PROVE  /\ mode = "8080" /\ mode2 = "z80" /\ pc2 = pc /\ a2 = a /\ reg2 = reg /\ mem2 = mem
                      /\ f \cap Kept = f2 \cap Kept
    BY DEF ModesPaired
  <2>1. mode = "8080" /\ TwinBegins("z80", f \ {"N"}, pc)
    BY DEF AnyInit
  <2>2. f2 = f \ {"N"}
    BY <2>1 DEF TwinBegins
  <2>3. f \cap Kept = f2 \cap Kept
    BY <2>2 DEF Kept
  <2>4. QED  BY <2>1, <2>3 DEF TwinBegins
<1>3. LeadersPaired
  <2> SUFFICES ASSUME kind = "leaders"
               PROVE  /\ mode = "z80" /\ SameState
                      /\ pc = TextAt /\ \E d \in 1..3 : ChainOf(d) /\ pc2 = Plus(pc, d)
    BY DEF LeadersPaired
  <2>1. mode = "z80" /\ pc = TextAt /\ \E d \in 1..3 : ChainOf(d) /\ TwinBegins("z80", f, Plus(pc, d))
    BY DEF AnyInit
  <2>2. QED  BY <2>1 DEF TwinBegins, SameState
<1>4. QED  BY <1>1, <1>2, <1>3 DEF AnyInit, IInv

\* An 8080 and a Z80.
LEMMA ModesStep ==
  ASSUME CpuOK, CpuOK', ModesPaired, AnyNext, kind = "modes"
  PROVE  ModesPaired'
<1>1. /\ mode = "8080" /\ mode2 = "z80" /\ pc2 = pc /\ a2 = a /\ reg2 = reg /\ mem2 = mem
      /\ f \cap Kept = f2 \cap Kept
  BY DEF ModesPaired
<1>2. Execute /\ Twin!Execute /\ Code(0) \in Shared8080
  BY DEF AnyNext
<1>3. Together(Instruction, Twin!Instruction)
  BY <1>1, <1>2, SharedOpcode
<1>4. MeetAgain
  BY <1>2, <1>3, BothStepsMeet
<1>5. QED  BY <1>1, <1>4 DEF MeetAgain, FlagsMeet, ModesPaired, Kept

\* Two Z80s at a chain of prefixes: they meet behind the instruction.
LEMMA LeadersStep ==
  ASSUME CpuOK, LeadersPaired, AnyNext, kind = "leaders"
  PROVE  mode' = "z80" /\ SameState' /\ pc2' = pc'
<1>1. mode = "z80" /\ SameState /\ pc2 # pc /\ Execute /\ Twin!Execute
  BY DEF LeadersPaired, AnyNext
<1>2. PICK d \in 1..3 : ChainOf(d) /\ pc2 = Plus(pc, d)
  BY <1>1 DEF LeadersPaired
<1>3. Together(Instruction, Twin!Instruction)
  BY <1>1, <1>2, SameBehindChain DEF SameState
<1>4. MeetAgain
  BY <1>1, <1>3, BothStepsMeet
<1>5. mode2 = mode
  BY <1>1 DEF SameState
<1>6. QED  BY <1>1, <1>4, <1>5 DEF MeetAgain, FlagsMeet, SameState

\* IInv is inductive.
LEMMA AnyStepOK == IInv /\ [AnyNext]_vars => IInv'
<1> SUFFICES ASSUME IInv, [AnyNext]_vars  PROVE IInv'
  OBVIOUS
<1>1. CASE AnyNext
  <2>1. Execute /\ UNCHANGED textVars /\ CpuOK
    BY <1>1 DEF AnyNext, IInv
  <2>2. CpuOK' /\ mode' = mode /\ (mode = "8080" => UNCHANGED <<alt, sys>> /\ reg'["IX"] = reg["IX"] /\ reg'["IY"] = reg["IY"])
    BY <2>1, ExecuteTypes
  <2>3. kind' = kind /\ was' = was
    BY <2>1 DEF textVars
  <2>4. Untouched'
    BY <2>2, <2>3 DEF IInv, Untouched
  <2>5. ModesPaired'
    <3>1. CASE kind = "modes"
      BY <1>1, <2>1, <2>2, <3>1, ModesStep DEF IInv
    <3>2. CASE kind # "modes"
      BY <2>3, <3>2 DEF ModesPaired
    <3>3. QED  BY <3>1, <3>2
  <2>6. LeadersPaired'
    <3>1. CASE kind = "leaders"
      <4>1. mode' = "z80" /\ SameState' /\ pc2' = pc'
        BY <1>1, <2>1, <3>1, LeadersStep DEF IInv
      <4>2. QED  BY <4>1 DEF LeadersPaired
    <3>2. CASE kind # "leaders"
      BY <2>3, <3>2 DEF LeadersPaired
    <3>3. QED  BY <3>1, <3>2
  <2>7. QED  BY <2>2, <2>4, <2>5, <2>6 DEF IInv
<1>2. CASE UNCHANGED vars
  <2>1. UNCHANGED <<mode, a, f, reg, pc, alt, sys, mem>> /\ UNCHANGED <<kind, was>>
        /\ UNCHANGED <<mode2, a2, f2, reg2, pc2, alt2, sys2, mem2>>
    BY <1>2 DEF vars, state, textVars, twin
  <2>2. CpuOK'
    BY <2>1 DEF IInv, CpuOK, AccumulatorOK
  <2>3. Untouched'
    BY <2>1 DEF IInv, Untouched
  <2>4. ModesPaired'
    BY <2>1 DEF IInv, ModesPaired
  <2>5. LeadersPaired'
    <3>1. \A d : ChainOf(d)' <=> ChainOf(d)
      BY <2>1 DEF ChainOf, Code, Read, Plus
    <3>2. \A d : Plus(pc, d)' = Plus(pc, d)
      BY <2>1 DEF Plus
    <3>3. QED  BY <2>1, <3>1, <3>2 DEF IInv, LeadersPaired, SameState
  <2>6. QED  BY <2>2, <2>3, <2>4, <2>5 DEF IInv
<1>3. QED  BY <1>1, <1>2

\* So it holds throughout.
LEMMA AnyInvariant == AnySpec => []IInv
<1>1. AnyInit => IInv
  BY AnyInitOK
<1>2. IInv /\ [AnyNext]_vars => IInv'
  BY AnyStepOK
<1>3. QED  BY <1>1, <1>2, PTL DEF AnySpec, vars

\* Whatever bytes are executed, in either mode, from any registers and memory: A and
\* every cell stay bytes, the pairs and PC words, wherever an address or a displacement
\* wraps, and on an 8080 the flags that read 0 or 1 do so (qkz80.cc, execute; fix_flags of
\* qkz80_reg_set.cc).
THEOREM ProcessorTypeCorrect == AnySpec => []CpuOK
<1>1. IInv => CpuOK
  BY DEF IInv
<1>2. QED  BY <1>1, AnyInvariant, PTL

\* An 8080 and a Z80 that execute the same program, of opcodes both have, agree for ever
\* on PC, A, the pairs, the memory and the flags S, Z and C, from any state they begin
\* in; and no program makes an 8080 change what it has not (the conditions on cpu_mode).
THEOREM BothModesAgree == AnySpec => []ModesAgree
<1>1. IInv => ModesAgree
  BY DEF IInv, ModesPaired, Untouched, ModesAgree, Kept
<1>2. QED  BY <1>1, AnyInvariant, PTL

\* A chain of two to four index prefixes before any instruction, from any registers and
\* memory, has the effect of its last prefix (qkz80.cc:318).
THEOREM OnlyTheLastPrefixCounts == AnySpec => []LastLeaderWins
<1>1. IInv => LastLeaderWins
  BY DEF IInv, LeadersPaired, SameState, LastLeaderWins, twin
<1>2. QED  BY <1>1, AnyInvariant, PTL

-----------------------------------------------------------------------------
(* Additions and subtractions of bytes, bit by bit, are those of numbers      *)

\* A byte is the sum of its bits.
LEMMA BitsOfByte ==
  ASSUME NEW x \in Byte
  PROVE  /\ \A i \in 0..7 : Bit(x, i) \in {0, 1}
         /\ x = Bit(x, 0) + 2 * Bit(x, 1) + 4 * Bit(x, 2) + 8 * Bit(x, 3) + 16 * Bit(x, 4)
                  + 32 * Bit(x, 5) + 64 * Bit(x, 6) + 128 * Bit(x, 7)
<1>1. x \in Int /\ 0 <= x /\ x <= 255
  BY InByte
<1>2. \A i \in 0..7 : Bit(x, i) \in {0, 1}
  BY <1>1, BitIsBit
<1>3. /\ Bit(x, 0) = x % 2 /\ Bit(x, 1) = (x \div 2) % 2 /\ Bit(x, 2) = (x \div 4) % 2
      /\ Bit(x, 3) = (x \div 8) % 2 /\ Bit(x, 4) = (x \div 16) % 2 /\ Bit(x, 5) = (x \div 32) % 2
      /\ Bit(x, 6) = (x \div 64) % 2 /\ Bit(x, 7) = (x \div 128) % 2
  BY SMT, <1>1, Powers DEF Bit
<1>4. /\ x = 2 * (x \div 2) + (x % 2) /\ x \div 2 = 2 * (x \div 4) + ((x \div 2) % 2)
      /\ x \div 4 = 2 * (x \div 8) + ((x \div 4) % 2) /\ x \div 8 = 2 * (x \div 16) + ((x \div 8) % 2)
      /\ x \div 16 = 2 * (x \div 32) + ((x \div 16) % 2) /\ x \div 32 = 2 * (x \div 64) + ((x \div 32) % 2)
      /\ x \div 64 = 2 * (x \div 128) + ((x \div 64) % 2) /\ x \div 128 = (x \div 128) % 2
  BY SMT, <1>1
<1> DEFINE q1 == x \div 2
           q2 == x \div 4
           q3 == x \div 8
           q4 == x \div 16
           q5 == x \div 32
           q6 == x \div 64
           q7 == x \div 128
<1>5. q1 \in Int /\ q2 \in Int /\ q3 \in Int /\ q4 \in Int /\ q5 \in Int /\ q6 \in Int /\ q7 \in Int
  BY SMT, <1>1
<1>6. /\ x = 2 * q1 + Bit(x, 0) /\ q1 = 2 * q2 + Bit(x, 1) /\ q2 = 2 * q3 + Bit(x, 2) /\ q3 = 2 * q4 + Bit(x, 3)
      /\ q4 = 2 * q5 + Bit(x, 4) /\ q5 = 2 * q6 + Bit(x, 5) /\ q6 = 2 * q7 + Bit(x, 6) /\ q7 = Bit(x, 7)
  BY <1>3, <1>4
<1> HIDE DEF q1, q2, q3, q4, q5, q6, q7
<1>7. /\ Bit(x, 0) \in Int /\ Bit(x, 1) \in Int /\ Bit(x, 2) \in Int /\ Bit(x, 3) \in Int
      /\ Bit(x, 4) \in Int /\ Bit(x, 5) \in Int /\ Bit(x, 6) \in Int /\ Bit(x, 7) \in Int
  BY SMT, <1>2
<1>8. QED  BY SMT, <1>2, <1>5, <1>6, <1>7, <1>1

\* Its low nibble and its sign by its bits.
LEMMA NibbleAndSign ==
  ASSUME NEW x \in Byte
  PROVE  /\ x % 16 = Bit(x, 0) + 2 * Bit(x, 1) + 4 * Bit(x, 2) + 8 * Bit(x, 3)
         /\ Signed(x) = x - 256 * Bit(x, 7)
         /\ Bit(x, 7) = 1 <=> x >= 128
<1>1. x \in Int /\ 0 <= x /\ x <= 255
  BY InByte
<1>2. /\ Bit(x, 0) \in {0, 1} /\ Bit(x, 1) \in {0, 1} /\ Bit(x, 2) \in {0, 1} /\ Bit(x, 3) \in {0, 1}
      /\ Bit(x, 4) \in {0, 1} /\ Bit(x, 5) \in {0, 1} /\ Bit(x, 6) \in {0, 1} /\ Bit(x, 7) \in {0, 1}
  BY SMT, BitsOfByte
<1>3. x = Bit(x, 0) + 2 * Bit(x, 1) + 4 * Bit(x, 2) + 8 * Bit(x, 3) + 16 * Bit(x, 4)
            + 32 * Bit(x, 5) + 64 * Bit(x, 6) + 128 * Bit(x, 7)
  BY BitsOfByte
<1> DEFINE l == Bit(x, 0) + 2 * Bit(x, 1) + 4 * Bit(x, 2) + 8 * Bit(x, 3)
           u == Bit(x, 4) + 2 * Bit(x, 5) + 4 * Bit(x, 6) + 8 * Bit(x, 7)
<1>4. l \in Int /\ u \in Int /\ 0 <= l /\ l <= 15 /\ x = 16 * u + l
  <2>1. 0 <= l /\ l <= 15 /\ l \in Int
    BY SMT, <1>2
  <2>2. u \in Int
    BY SMT, <1>2
  <2>3. x = 16 * u + l
    BY SMT, <1>2, <1>3
  <2>4. QED  BY <2>1, <2>2, <2>3
<1>5. Bit(x, 7) = 1 <=> x >= 128
  BY SMT, <1>2, <1>3
<1> HIDE DEF l, u
<1>6. x % 16 = l
  BY SMT, <1>4
<1>7. Signed(x) = x - 256 * Bit(x, 7)
  BY SMT, <1>1, <1>2, <1>5 DEF Signed
<1>8. QED  BY <1>5, <1>6, <1>7 DEF l

\* The carries of two sequences of eight bits.
Rippled(c, p, q) == IF p + q + c >= 2 THEN 1 ELSE 0
IsRipple(cy, p, q, c0) == cy = [i \in 0..8 |-> IF i = 0 THEN c0 ELSE Rippled(cy[i - 1], p[i - 1], q[i - 1])]

\* There are such carries.
LEMMA RippleExists ==
  ASSUME NEW p, NEW q, NEW c0
  PROVE  \E cy : IsRipple(cy, p, q, c0)
<1> DEFINE c1 == Rippled(c0, p[0], q[0])
           c2 == Rippled(c1, p[1], q[1])
           c3 == Rippled(c2, p[2], q[2])
           c4 == Rippled(c3, p[3], q[3])
           c5 == Rippled(c4, p[4], q[4])
           c6 == Rippled(c5, p[5], q[5])
           c7 == Rippled(c6, p[6], q[6])
           c8 == Rippled(c7, p[7], q[7])
           cy == [i \in 0..8 |-> IF i = 0 THEN c0 ELSE IF i = 1 THEN c1 ELSE IF i = 2 THEN c2 ELSE IF i = 3 THEN c3
                                 ELSE IF i = 4 THEN c4 ELSE IF i = 5 THEN c5 ELSE IF i = 6 THEN c6
                                 ELSE IF i = 7 THEN c7 ELSE c8]
           E(i) == IF i = 0 THEN c0 ELSE Rippled(cy[i - 1], p[i - 1], q[i - 1])
<1> HIDE DEF c1, c2, c3, c4, c5, c6, c7, c8
<1>1. /\ cy[0] = c0 /\ cy[1] = c1 /\ cy[2] = c2 /\ cy[3] = c3 /\ cy[4] = c4 /\ cy[5] = c5 /\ cy[6] = c6
      /\ cy[7] = c7 /\ cy[8] = c8
  BY SMT
<1>2. cy = [i \in 0..8 |-> cy[i]]
  OBVIOUS
<1> HIDE DEF cy
<1>3. E(0) = cy[0]
  BY <1>1
<1>4. E(1) = cy[1] /\ E(2) = cy[2] /\ E(3) = cy[3] /\ E(4) = cy[4]
  <2>1. 1 - 1 = 0 /\ 2 - 1 = 1 /\ 3 - 1 = 2 /\ 4 - 1 = 3 /\ 1 # 0 /\ 2 # 0 /\ 3 # 0 /\ 4 # 0
    BY SMT
  <2>2. QED  BY Zenon, <1>1, <2>1 DEF c1, c2, c3, c4
<1>5. E(5) = cy[5] /\ E(6) = cy[6] /\ E(7) = cy[7] /\ E(8) = cy[8]
  <2>1. 5 - 1 = 4 /\ 6 - 1 = 5 /\ 7 - 1 = 6 /\ 8 - 1 = 7 /\ 5 # 0 /\ 6 # 0 /\ 7 # 0 /\ 8 # 0
    BY SMT
  <2>2. QED  BY Zenon, <1>1, <2>1 DEF c5, c6, c7, c8
<1> HIDE DEF E
<1>6. \A i \in 0..8 : i \in {0, 1, 2, 3, 4, 5, 6, 7, 8}
  BY SMT
<1>7. \A i \in 0..8 : cy[i] = E(i)
  BY <1>3, <1>4, <1>5, <1>6
<1>8. [i \in 0..8 |-> cy[i]] = [i \in 0..8 |-> E(i)]
  BY Zenon, <1>7
<1>9. IsRipple(cy, p, q, c0)
  BY Zenon, <1>2, <1>8 DEF IsRipple, E
<1>10. QED  BY <1>9

\* Carries, unfolded for eight bits.
LEMMA CarriesOfBytes ==
  ASSUME NEW x, NEW y, NEW c0
  PROVE  LET cy == Carries(8, x, y, c0)
         IN  /\ cy[0] = c0
             /\ \A i \in 0..7 : cy[i + 1] = IF Bit(x, i) + Bit(y, i) + cy[i] >= 2 THEN 1 ELSE 0
<1> DEFINE p == [i \in 0..7 |-> Bit(x, i)]
           q == [i \in 0..7 |-> Bit(y, i)]
           Is(g) == g = [i \in 0..8 |-> IF i = 0 THEN c0 ELSE IF Bit(x, i - 1) + Bit(y, i - 1) + g[i - 1] >= 2 THEN 1 ELSE 0]
           cy == Carries(8, x, y, c0)
<1>1. PICK g : IsRipple(g, p, q, c0)
  BY RippleExists
<1>2. \A i \in 0..8 : i # 0 => p[i - 1] = Bit(x, i - 1) /\ q[i - 1] = Bit(y, i - 1)
  BY SMT
<1> HIDE DEF p, q
<1>3. Is(g)
  <2>1. [i \in 0..8 |-> IF i = 0 THEN c0 ELSE Rippled(g[i - 1], p[i - 1], q[i - 1])]
          = [i \in 0..8 |-> IF i = 0 THEN c0 ELSE IF Bit(x, i - 1) + Bit(y, i - 1) + g[i - 1] >= 2 THEN 1 ELSE 0]
    BY Zenon, <1>2 DEF Rippled
  <2>2. QED  BY Zenon, <1>1, <2>1 DEF IsRipple
<1>4. cy = CHOOSE h : Is(h)
  BY Zenon DEF Carries
<1>5. Is(cy)
  BY Zenon, <1>3, <1>4
<1> HIDE DEF cy
<1>6. cy[0] = c0
  BY SMT, <1>5
<1>7. ASSUME NEW i \in 0..7
      PROVE  cy[i + 1] = IF Bit(x, i) + Bit(y, i) + cy[i] >= 2 THEN 1 ELSE 0
  <2>1. i + 1 \in 0..8 /\ i + 1 # 0 /\ (i + 1) - 1 = i
    BY SMT
  <2>2. cy[i + 1] = IF i + 1 = 0 THEN c0 ELSE IF Bit(x, (i + 1) - 1) + Bit(y, (i + 1) - 1) + cy[(i + 1) - 1] >= 2 THEN 1 ELSE 0
    BY Zenon, <1>5, <2>1
  <2>3. QED  BY Zenon, <2>1, <2>2
<1>8. QED  BY <1>6, <1>7 DEF cy

\* Borrows, unfolded for eight bits.
LEMMA BorrowsOfBytes ==
  ASSUME NEW x \in Byte, NEW y \in Byte, NEW c0 \in {0, 1}
  PROVE  LET cy == Borrows(8, x, y, c0)
         IN  /\ cy[0] = c0
             /\ \A i \in 0..7 : cy[i + 1] = IF Bit(y, i) + cy[i] > Bit(x, i) THEN 1 ELSE 0
<1> DEFINE p == [i \in 0..7 |-> 1 - Bit(x, i)]
           q == [i \in 0..7 |-> Bit(y, i)]
           Is(g) == g = [i \in 0..8 |-> IF i = 0 THEN c0 ELSE IF Bit(y, i - 1) + g[i - 1] > Bit(x, i - 1) THEN 1 ELSE 0]
           cy == Borrows(8, x, y, c0)
<1>1. PICK g : IsRipple(g, p, q, c0)
  BY RippleExists
<1>2. \A i \in 0..8 : i # 0 => /\ p[i - 1] = 1 - Bit(x, i - 1) /\ q[i - 1] = Bit(y, i - 1)
                               /\ Bit(x, i - 1) \in {0, 1} /\ Bit(y, i - 1) \in {0, 1}
  BY SMT, BitsOfByte
<1> HIDE DEF p, q
<1>a. \A i \in 0..8 : g[i] = IF i = 0 THEN c0 ELSE Rippled(g[i - 1], p[i - 1], q[i - 1])
  BY <1>1 DEF IsRipple
<1>b. \A i \in 0..8 : g[i] \in {0, 1}
  BY <1>a DEF Rippled
<1>c. \A i \in 0..8 : i # 0 => i - 1 \in 0..8
  BY SMT
<1>3. Is(g)
  <2>0. ASSUME NEW i \in 0..8, i # 0
        PROVE  Rippled(g[i - 1], p[i - 1], q[i - 1]) = IF Bit(y, i - 1) + g[i - 1] > Bit(x, i - 1) THEN 1 ELSE 0
    <3>1. g[i - 1] \in {0, 1} /\ p[i - 1] = 1 - Bit(x, i - 1) /\ q[i - 1] = Bit(y, i - 1)
          /\ Bit(x, i - 1) \in {0, 1} /\ Bit(y, i - 1) \in {0, 1}
      BY <1>2, <1>b, <1>c, <2>0
    <3>2. QED  BY SMT, <3>1 DEF Rippled
  <2>1. [i \in 0..8 |-> IF i = 0 THEN c0 ELSE Rippled(g[i - 1], p[i - 1], q[i - 1])]
          = [i \in 0..8 |-> IF i = 0 THEN c0 ELSE IF Bit(y, i - 1) + g[i - 1] > Bit(x, i - 1) THEN 1 ELSE 0]
    BY Zenon, <2>0
  <2>2. QED  BY Zenon, <1>1, <2>1 DEF IsRipple
<1>4. cy = CHOOSE h : Is(h)
  BY Zenon DEF Borrows
<1>5. Is(cy)
  BY Zenon, <1>3, <1>4
<1> HIDE DEF cy
<1>6. cy[0] = c0
  BY SMT, <1>5
<1>7. ASSUME NEW i \in 0..7
      PROVE  cy[i + 1] = IF Bit(y, i) + cy[i] > Bit(x, i) THEN 1 ELSE 0
  <2>1. i + 1 \in 0..8 /\ i + 1 # 0 /\ (i + 1) - 1 = i
    BY SMT
  <2>2. cy[i + 1] = IF i + 1 = 0 THEN c0 ELSE IF Bit(y, (i + 1) - 1) + cy[(i + 1) - 1] > Bit(x, (i + 1) - 1) THEN 1 ELSE 0
    BY Zenon, <1>5, <2>1
  <2>3. QED  BY Zenon, <2>1, <2>2
<1>8. QED  BY <1>6, <1>7 DEF cy

\* Any function NumberOf takes ends in the sum of the bits.
LEMMA LowOfBits ==
  ASSUME NEW b \in [0..7 -> {0, 1}], NEW low, IsLow(low, b)
  PROVE  low[8] = b[0] + 2 * b[1] + 4 * b[2] + 8 * b[3] + 16 * b[4] + 32 * b[5] + 64 * b[6] + 128 * b[7]
<1>b. /\ b[0] \in {0, 1} /\ b[1] \in {0, 1} /\ b[2] \in {0, 1} /\ b[3] \in {0, 1}
      /\ b[4] \in {0, 1} /\ b[5] \in {0, 1} /\ b[6] \in {0, 1} /\ b[7] \in {0, 1}
  BY SMT
<1>1. \A i \in 0..8 : low[i] = IF i = 0 THEN 0 ELSE low[i - 1] + 2 ^ (i - 1) * b[i - 1]
  BY DEF IsLow
<1>2. /\ low[0] = 0 /\ low[1] = low[0] + 1 * b[0] /\ low[2] = low[1] + 2 * b[1] /\ low[3] = low[2] + 4 * b[2]
      /\ low[4] = low[3] + 8 * b[3]
  BY SMT, <1>1, <1>b, Powers
<1>3. /\ low[5] = low[4] + 16 * b[4] /\ low[6] = low[5] + 32 * b[5] /\ low[7] = low[6] + 64 * b[6]
      /\ low[8] = low[7] + 128 * b[7]
  BY SMT, <1>1, <1>b, Powers
<1>4. QED  BY SMT, <1>2, <1>3, <1>b

\* The number an addition or subtraction returns, by its bits.
LEMMA OutcomeNumber ==
  ASSUME NEW x \in Byte, NEW y \in Byte, NEW cy, \A i \in 0..8 : cy[i] \in {0, 1}
  PROVE  LET d(i) == Xor(Bit(x, i), Xor(Bit(y, i), cy[i]))
         IN  Outcome(8, x, y, cy).r = d(0) + 2 * d(1) + 4 * d(2) + 8 * d(3) + 16 * d(4)
                                        + 32 * d(5) + 64 * d(6) + 128 * d(7)
<1> DEFINE d(i) == Xor(Bit(x, i), Xor(Bit(y, i), cy[i]))
           b == [i \in 0..7 |-> d(i)]
           r == NumberOf(8, LAMBDA i : Xor(Bit(x, i), Xor(Bit(y, i), cy[i])))
           low == CHOOSE l : l = [i \in 0..8 |-> IF i = 0 THEN 0 ELSE l[i - 1] + 2 ^ (i - 1) * Xor(Bit(x, i - 1), Xor(Bit(y, i - 1), cy[i - 1]))]
<1>1. b \in [0..7 -> {0, 1}]
  <2>1. \A i \in 0..7 : Bit(x, i) \in {0, 1} /\ Bit(y, i) \in {0, 1} /\ cy[i] \in {0, 1}
    BY SMT, BitIsBit, ByteIsInt
  <2>2. \A i \in 0..7 : d(i) \in {0, 1}
    BY SMT, <2>1 DEF Xor
  <2> HIDE DEF d
  <2>3. QED  BY <2>2
<1>2. r = low[8]
  BY Zenon DEF NumberOf
<1>3. \A l : IsLow(l, b) <=> l = [i \in 0..8 |-> IF i = 0 THEN 0 ELSE l[i - 1] + 2 ^ (i - 1) * Xor(Bit(x, i - 1), Xor(Bit(y, i - 1), cy[i - 1]))]
  <2>1. \A i \in 0..8 : i # 0 => b[i - 1] = Xor(Bit(x, i - 1), Xor(Bit(y, i - 1), cy[i - 1]))
    BY SMT
  <2> HIDE DEF b
  <2>2. \A l : [i \in 0..8 |-> IF i = 0 THEN 0 ELSE l[i - 1] + 2 ^ (i - 1) * b[i - 1]]
               = [i \in 0..8 |-> IF i = 0 THEN 0 ELSE l[i - 1] + 2 ^ (i - 1) * Xor(Bit(x, i - 1), Xor(Bit(y, i - 1), cy[i - 1]))]
    BY Zenon, <2>1
  <2>3. QED  BY Zenon, <2>2 DEF IsLow
<1>b. /\ b[0] = d(0) /\ b[1] = d(1) /\ b[2] = d(2) /\ b[3] = d(3)
      /\ b[4] = d(4) /\ b[5] = d(5) /\ b[6] = d(6) /\ b[7] = d(7)
  <2> HIDE DEF d
  <2> QED  BY SMT
<1>c. Outcome(8, x, y, cy).r = r
  BY DEF Outcome
<1> HIDE DEF b
<1>4. IsLow(low, b)
  <2>1. \E l : IsLow(l, b)
    BY <1>1, LowExists
  <2>2. QED  BY Zenon, <2>1, <1>3
<1> HIDE DEF low, r
<1>5. low[8] = b[0] + 2 * b[1] + 4 * b[2] + 8 * b[3] + 16 * b[4] + 32 * b[5] + 64 * b[6] + 128 * b[7]
  BY <1>1, <1>4, LowOfBits
<1> HIDE DEF d
<1>6. QED  BY <1>2, <1>5, <1>b, <1>c DEF d

\* o is the sum of x, y and c, or the difference, and says all about it: a byte, the
\* carry, the carry of the low nibble, and whether the signed number is out of range.
SumOf(o, x, y, c) ==
  /\ o.r = (x + y + c) % 256 /\ o.r \in Byte /\ o.c \in {0, 1} /\ o.h \in {0, 1}
  /\ o.c = 1 <=> x + y + c > 255
  /\ o.h = 1 <=> (x % 16) + (y % 16) + c > 15
  /\ o.v = 1 <=> Signed(x) + Signed(y) + c \notin -128..127

DifferenceOf(o, x, y, c) ==
  /\ o.r = (x - y - c) % 256 /\ o.r \in Byte /\ o.c \in {0, 1} /\ o.h \in {0, 1}
  /\ o.c = 1 <=> x < y + c
  /\ o.h = 1 <=> x % 16 < (y % 16) + c
  /\ o.v = 1 <=> Signed(x) - Signed(y) - c \notin -128..127

\* Additions of bytes with a carry are exact, and so are the carries they return.
LEMMA SumOfBytes ==
  ASSUME NEW x \in Byte, NEW y \in Byte, NEW c0 \in {0, 1}
  PROVE  SumOf(AddBits(8, x, y, c0), x, y, c0)
<1> DEFINE cy == Carries(8, x, y, c0)
           o == AddBits(8, x, y, c0)
           d(i) == Xor(Bit(x, i), Xor(Bit(y, i), cy[i]))
           t == x + y + c0
<1>1. cy[0] = c0 /\ \A i \in 0..7 : cy[i + 1] = IF Bit(x, i) + Bit(y, i) + cy[i] >= 2 THEN 1 ELSE 0
  BY CarriesOfBytes
<1> HIDE DEF cy
<1>2. /\ 0 + 1 = 1 /\ 1 + 1 = 2 /\ 2 + 1 = 3 /\ 3 + 1 = 4 /\ 4 + 1 = 5 /\ 5 + 1 = 6 /\ 6 + 1 = 7 /\ 7 + 1 = 8
      /\ \A i \in {0, 1, 2, 3, 4, 5, 6, 7} : i \in 0..7
      /\ \A i \in 0..8 : i \in {0, 1, 2, 3, 4, 5, 6, 7, 8}
  BY SMT
<1>3. /\ cy[0] \in {0, 1} /\ cy[1] \in {0, 1} /\ cy[2] \in {0, 1} /\ cy[3] \in {0, 1} /\ cy[4] \in {0, 1}
      /\ cy[5] \in {0, 1} /\ cy[6] \in {0, 1} /\ cy[7] \in {0, 1} /\ cy[8] \in {0, 1}
  <2>1. \A i \in 0..7 : cy[i + 1] \in {0, 1}
    BY <1>1
  <2>2. QED  BY <1>1, <1>2, <2>1
<1>4. \A i \in 0..8 : cy[i] \in {0, 1}
  BY <1>2, <1>3
<1>5. ASSUME NEW i \in {0, 1, 2, 3, 4, 5, 6, 7}
      PROVE  /\ Bit(x, i) + Bit(y, i) + cy[i] = d(i) + 2 * cy[i + 1]
             /\ Bit(x, i) \in {0, 1} /\ Bit(y, i) \in {0, 1} /\ d(i) \in {0, 1}
  <2>1. Bit(x, i) \in {0, 1} /\ Bit(y, i) \in {0, 1} /\ cy[i] \in {0, 1}
    BY <1>2, <1>4, BitsOfByte, <1>3
  <2>2. cy[i + 1] = IF Bit(x, i) + Bit(y, i) + cy[i] >= 2 THEN 1 ELSE 0
    BY <1>1, <1>2
  <2>3. QED  BY SMT, <2>1, <2>2 DEF Xor
<1>6. /\ Bit(x, 0) + Bit(y, 0) + cy[0] = d(0) + 2 * cy[1] /\ Bit(x, 1) + Bit(y, 1) + cy[1] = d(1) + 2 * cy[2]
      /\ Bit(x, 2) + Bit(y, 2) + cy[2] = d(2) + 2 * cy[3] /\ Bit(x, 3) + Bit(y, 3) + cy[3] = d(3) + 2 * cy[4]
      /\ Bit(x, 4) + Bit(y, 4) + cy[4] = d(4) + 2 * cy[5] /\ Bit(x, 5) + Bit(y, 5) + cy[5] = d(5) + 2 * cy[6]
      /\ Bit(x, 6) + Bit(y, 6) + cy[6] = d(6) + 2 * cy[7] /\ Bit(x, 7) + Bit(y, 7) + cy[7] = d(7) + 2 * cy[8]
  <2> HIDE DEF d
  <2> QED  BY <1>2, <1>5
<1>7. /\ d(0) \in {0, 1} /\ d(1) \in {0, 1} /\ d(2) \in {0, 1} /\ d(3) \in {0, 1}
      /\ d(4) \in {0, 1} /\ d(5) \in {0, 1} /\ d(6) \in {0, 1} /\ d(7) \in {0, 1}
  <2> HIDE DEF d
  <2> QED  BY <1>5
<1>8. /\ Bit(x, 0) \in {0, 1} /\ Bit(x, 1) \in {0, 1} /\ Bit(x, 2) \in {0, 1} /\ Bit(x, 3) \in {0, 1}
      /\ Bit(x, 4) \in {0, 1} /\ Bit(x, 5) \in {0, 1} /\ Bit(x, 6) \in {0, 1} /\ Bit(x, 7) \in {0, 1}
  BY <1>5
<1>9. /\ Bit(y, 0) \in {0, 1} /\ Bit(y, 1) \in {0, 1} /\ Bit(y, 2) \in {0, 1} /\ Bit(y, 3) \in {0, 1}
      /\ Bit(y, 4) \in {0, 1} /\ Bit(y, 5) \in {0, 1} /\ Bit(y, 6) \in {0, 1} /\ Bit(y, 7) \in {0, 1}
  BY <1>5
<1>i. /\ Bit(x, 0) \in Int /\ Bit(x, 1) \in Int /\ Bit(x, 2) \in Int /\ Bit(x, 3) \in Int
      /\ Bit(x, 4) \in Int /\ Bit(x, 5) \in Int /\ Bit(x, 6) \in Int /\ Bit(x, 7) \in Int
      /\ Bit(y, 0) \in Int /\ Bit(y, 1) \in Int /\ Bit(y, 2) \in Int /\ Bit(y, 3) \in Int
      /\ Bit(y, 4) \in Int /\ Bit(y, 5) \in Int /\ Bit(y, 6) \in Int /\ Bit(y, 7) \in Int
  BY SMT, <1>8, <1>9
<1>j. /\ d(0) \in Int /\ d(1) \in Int /\ d(2) \in Int /\ d(3) \in Int
      /\ d(4) \in Int /\ d(5) \in Int /\ d(6) \in Int /\ d(7) \in Int
      /\ cy[0] \in Int /\ cy[1] \in Int /\ cy[2] \in Int /\ cy[3] \in Int
      /\ cy[4] \in Int /\ cy[5] \in Int /\ cy[6] \in Int /\ cy[7] \in Int /\ cy[8] \in Int
  <2> HIDE DEF d
  <2> QED  BY SMT, <1>3, <1>7
<1> DEFINE u == Bit(x, 0) + 2 * Bit(x, 1) + 4 * Bit(x, 2) + 8 * Bit(x, 3)
           u4 == 16 * Bit(x, 4) + 32 * Bit(x, 5) + 64 * Bit(x, 6) + 128 * Bit(x, 7)
           w == Bit(y, 0) + 2 * Bit(y, 1) + 4 * Bit(y, 2) + 8 * Bit(y, 3)
           w4 == 16 * Bit(y, 4) + 32 * Bit(y, 5) + 64 * Bit(y, 6) + 128 * Bit(y, 7)
           e == d(0) + 2 * d(1) + 4 * d(2) + 8 * d(3)
           e4 == 16 * d(4) + 32 * d(5) + 64 * d(6) + 128 * d(7)
<1>k. /\ u \in Int /\ w \in Int /\ e \in Int /\ u4 \in Int /\ w4 \in Int /\ e4 \in Int
      /\ u + w + cy[0] <= e + 16 * cy[4] /\ e + 16 * cy[4] <= u + w + cy[0]
      /\ u4 + w4 + 16 * cy[4] <= e4 + 256 * cy[8] /\ e4 + 256 * cy[8] <= u4 + w4 + 16 * cy[4]
  <2> HIDE DEF d
  <2>1. u \in Int /\ w \in Int /\ e \in Int /\ u4 \in Int /\ w4 \in Int /\ e4 \in Int
    BY SMT, <1>i, <1>j
  <2>2. u + w + cy[0] <= e + 16 * cy[4]
    BY SMT, <1>6, <1>i, <1>j
  <2>3. e + 16 * cy[4] <= u + w + cy[0]
    BY SMT, <1>6, <1>i, <1>j
  <2>4. u4 + w4 + 16 * cy[4] <= e4 + 256 * cy[8]
    BY SMT, <1>6, <1>i, <1>j
  <2>5. e4 + 256 * cy[8] <= u4 + w4 + 16 * cy[4]
    BY SMT, <1>6, <1>i, <1>j
  <2>6. QED  BY <2>1, <2>2, <2>3, <2>4, <2>5
<1>10. /\ o.c = cy[8] /\ o.h = cy[4] /\ o.v = Xor(cy[8], cy[7])
  BY SMT DEF AddBits, Outcome, cy
<1>11. o.r = d(0) + 2 * d(1) + 4 * d(2) + 8 * d(3) + 16 * d(4) + 32 * d(5) + 64 * d(6) + 128 * d(7)
  BY <1>4, OutcomeNumber DEF AddBits, cy
<1>x. x <= u + u4 /\ u + u4 <= x /\ y <= w + w4 /\ w + w4 <= y
  <2>1. /\ x = Bit(x, 0) + 2 * Bit(x, 1) + 4 * Bit(x, 2) + 8 * Bit(x, 3) + 16 * Bit(x, 4)
                  + 32 * Bit(x, 5) + 64 * Bit(x, 6) + 128 * Bit(x, 7)
        /\ y = Bit(y, 0) + 2 * Bit(y, 1) + 4 * Bit(y, 2) + 8 * Bit(y, 3) + 16 * Bit(y, 4)
                  + 32 * Bit(y, 5) + 64 * Bit(y, 6) + 128 * Bit(y, 7)
        /\ x \in Int /\ y \in Int
    BY BitsOfByte, InByte
  <2>2. x <= u + u4 /\ u + u4 <= x
    BY SMT, <2>1, <1>i
  <2>3. y <= w + w4 /\ w + w4 <= y
    BY SMT, <2>1, <1>i
  <2>4. QED  BY <2>2, <2>3
<1>z. x % 16 = u /\ y % 16 = w /\ x \in Int /\ y \in Int
  BY NibbleAndSign, InByte
<1>r. o.r \in Int /\ 0 <= o.r /\ o.r <= 255 /\ o.r <= e + e4 /\ e + e4 <= o.r
  <2> HIDE DEF o, d
  <2>1. 0 <= o.r /\ o.r <= 255 /\ o.r \in Int
    BY SMT, <1>7, <1>11
  <2>2. o.r <= e + e4 /\ e + e4 <= o.r
    BY SMT, <1>j, <1>11
  <2>3. QED  BY <2>1, <2>2
<1>e. e \in 0..15
  <2> HIDE DEF d
  <2> QED  BY SMT, <1>7
<1> HIDE DEF o, d, u, w, e, u4, w4, e4
<1>12. t = o.r + 256 * cy[8] /\ o.r \in Int /\ 0 <= o.r /\ o.r <= 255 /\ t \in Int
  <2>1. cy[4] \in Int /\ cy[8] \in Int /\ c0 \in Int /\ x \in Int /\ y \in Int
    BY <1>j, <1>z
  <2>2. t <= o.r + 256 * cy[8] /\ o.r + 256 * cy[8] <= t
    BY SMT, <1>1, <1>k, <1>x, <1>r, <2>1
  <2>3. t \in Int /\ o.r + 256 * cy[8] \in Int
    BY <1>r, <2>1
  <2> HIDE DEF t
  <2>4. QED  BY SMT, <1>r, <2>2, <2>3
<1>13. u + w + c0 = e + 16 * cy[4] /\ u \in Int /\ w \in Int
  <2>1. cy[4] \in Int /\ c0 \in Int
    BY <1>j
  <2>2. u + w + c0 \in Int /\ e + 16 * cy[4] \in Int
    BY <1>k, <2>1
  <2>3. u + w + c0 <= e + 16 * cy[4] /\ e + 16 * cy[4] <= u + w + c0
    BY <1>1, <1>k
  <2>4. QED  BY SMT, <2>2, <2>3, <1>k
<1>14. Signed(x) + Signed(y) + c0 = t - 256 * Bit(x, 7) - 256 * Bit(y, 7)
  <2>1. /\ Signed(x) = x - 256 * Bit(x, 7) /\ Signed(y) = y - 256 * Bit(y, 7)
        /\ x \in Int /\ y \in Int
    BY NibbleAndSign, InByte
  <2>2. QED  BY SMT, <1>8, <1>9, <2>1
<1> HIDE DEF t
<1>15. o.r = t % 256
  BY SMT, <1>3, <1>12
<1>16. o.c = 1 <=> t > 255
  BY SMT, <1>3, <1>10, <1>12
<1>17. o.h = 1 <=> (x % 16) + (y % 16) + c0 > 15
  <2>1. o.h = 1 <=> u + w + c0 > 15
    BY SMT, <1>3, <1>e, <1>10, <1>13
  <2>2. QED  BY <2>1, <1>z
<1>18. o.v = 1 <=> Signed(x) + Signed(y) + c0 \notin -128..127
  <2> DEFINE s == Signed(x) + Signed(y) + c0
  <2>1. s = t - 256 * Bit(x, 7) - 256 * Bit(y, 7)
    BY <1>14
  <2> HIDE DEF s
  <2>2. o.r >= 128 <=> d(7) = 1
    BY SMT, <1>7, <1>11
  <2>3. o.v = 1 <=> cy[8] # cy[7]
    BY SMT, <1>3, <1>10 DEF Xor
  <2>4. Bit(x, 7) + Bit(y, 7) + cy[7] = d(7) + 2 * cy[8]
    BY <1>6
  <2>5. s = o.r + 256 * cy[8] - 256 * Bit(x, 7) - 256 * Bit(y, 7)
    BY SMT, <1>12, <1>3, <1>i, <2>1
  <2>6. s \in Int /\ (o.v = 1 <=> ~(-128 <= s /\ s <= 127))
    BY SMT, <1>3, <1>7, <1>8, <1>9, <1>12, <2>2, <2>3, <2>4, <2>5
  <2>7. QED  BY SMT, <2>6 DEF s
<1>19. o.r \in Byte /\ o.c \in {0, 1} /\ o.h \in {0, 1}
  BY <1>3, <1>10, <1>12, InByte
<1>20. QED  BY <1>15, <1>16, <1>17, <1>18, <1>19 DEF t, o, SumOf

\* Subtractions of bytes with a borrow are exact, and so are the borrows they return.
LEMMA DifferenceOfBytes ==
  ASSUME NEW x \in Byte, NEW y \in Byte, NEW c0 \in {0, 1}
  PROVE  DifferenceOf(SubBits(8, x, y, c0), x, y, c0)
<1> DEFINE cy == Borrows(8, x, y, c0)
           o == SubBits(8, x, y, c0)
           d(i) == Xor(Bit(x, i), Xor(Bit(y, i), cy[i]))
           t == x - y - c0
<1>1. cy[0] = c0 /\ \A i \in 0..7 : cy[i + 1] = IF Bit(y, i) + cy[i] > Bit(x, i) THEN 1 ELSE 0
  BY BorrowsOfBytes
<1> HIDE DEF cy
<1>2. /\ 0 + 1 = 1 /\ 1 + 1 = 2 /\ 2 + 1 = 3 /\ 3 + 1 = 4 /\ 4 + 1 = 5 /\ 5 + 1 = 6 /\ 6 + 1 = 7 /\ 7 + 1 = 8
      /\ \A i \in {0, 1, 2, 3, 4, 5, 6, 7} : i \in 0..7
      /\ \A i \in 0..8 : i \in {0, 1, 2, 3, 4, 5, 6, 7, 8}
  BY SMT
<1>3. /\ cy[0] \in {0, 1} /\ cy[1] \in {0, 1} /\ cy[2] \in {0, 1} /\ cy[3] \in {0, 1} /\ cy[4] \in {0, 1}
      /\ cy[5] \in {0, 1} /\ cy[6] \in {0, 1} /\ cy[7] \in {0, 1} /\ cy[8] \in {0, 1}
  <2>1. \A i \in 0..7 : cy[i + 1] \in {0, 1}
    BY <1>1
  <2>2. QED  BY <1>1, <1>2, <2>1
<1>4. \A i \in 0..8 : cy[i] \in {0, 1}
  BY <1>2, <1>3
<1>5. ASSUME NEW i \in {0, 1, 2, 3, 4, 5, 6, 7}
      PROVE  /\ Bit(x, i) - Bit(y, i) - cy[i] = d(i) - 2 * cy[i + 1]
             /\ Bit(x, i) \in {0, 1} /\ Bit(y, i) \in {0, 1} /\ d(i) \in {0, 1}
  <2>1. Bit(x, i) \in {0, 1} /\ Bit(y, i) \in {0, 1} /\ cy[i] \in {0, 1}
    BY <1>2, <1>4, BitsOfByte, <1>3
  <2>2. cy[i + 1] = IF Bit(y, i) + cy[i] > Bit(x, i) THEN 1 ELSE 0
    BY <1>1, <1>2
  <2>3. QED  BY SMT, <2>1, <2>2 DEF Xor
<1>6. /\ Bit(x, 0) - Bit(y, 0) - cy[0] = d(0) - 2 * cy[1] /\ Bit(x, 1) - Bit(y, 1) - cy[1] = d(1) - 2 * cy[2]
      /\ Bit(x, 2) - Bit(y, 2) - cy[2] = d(2) - 2 * cy[3] /\ Bit(x, 3) - Bit(y, 3) - cy[3] = d(3) - 2 * cy[4]
      /\ Bit(x, 4) - Bit(y, 4) - cy[4] = d(4) - 2 * cy[5] /\ Bit(x, 5) - Bit(y, 5) - cy[5] = d(5) - 2 * cy[6]
      /\ Bit(x, 6) - Bit(y, 6) - cy[6] = d(6) - 2 * cy[7] /\ Bit(x, 7) - Bit(y, 7) - cy[7] = d(7) - 2 * cy[8]
  <2> HIDE DEF d
  <2> QED  BY <1>2, <1>5
<1>7. /\ d(0) \in {0, 1} /\ d(1) \in {0, 1} /\ d(2) \in {0, 1} /\ d(3) \in {0, 1}
      /\ d(4) \in {0, 1} /\ d(5) \in {0, 1} /\ d(6) \in {0, 1} /\ d(7) \in {0, 1}
  <2> HIDE DEF d
  <2> QED  BY <1>5
<1>8. /\ Bit(x, 0) \in {0, 1} /\ Bit(x, 1) \in {0, 1} /\ Bit(x, 2) \in {0, 1} /\ Bit(x, 3) \in {0, 1}
      /\ Bit(x, 4) \in {0, 1} /\ Bit(x, 5) \in {0, 1} /\ Bit(x, 6) \in {0, 1} /\ Bit(x, 7) \in {0, 1}
  BY <1>5
<1>9. /\ Bit(y, 0) \in {0, 1} /\ Bit(y, 1) \in {0, 1} /\ Bit(y, 2) \in {0, 1} /\ Bit(y, 3) \in {0, 1}
      /\ Bit(y, 4) \in {0, 1} /\ Bit(y, 5) \in {0, 1} /\ Bit(y, 6) \in {0, 1} /\ Bit(y, 7) \in {0, 1}
  BY <1>5
<1>i. /\ Bit(x, 0) \in Int /\ Bit(x, 1) \in Int /\ Bit(x, 2) \in Int /\ Bit(x, 3) \in Int
      /\ Bit(x, 4) \in Int /\ Bit(x, 5) \in Int /\ Bit(x, 6) \in Int /\ Bit(x, 7) \in Int
      /\ Bit(y, 0) \in Int /\ Bit(y, 1) \in Int /\ Bit(y, 2) \in Int /\ Bit(y, 3) \in Int
      /\ Bit(y, 4) \in Int /\ Bit(y, 5) \in Int /\ Bit(y, 6) \in Int /\ Bit(y, 7) \in Int
  BY SMT, <1>8, <1>9
<1>j. /\ d(0) \in Int /\ d(1) \in Int /\ d(2) \in Int /\ d(3) \in Int
      /\ d(4) \in Int /\ d(5) \in Int /\ d(6) \in Int /\ d(7) \in Int
      /\ cy[0] \in Int /\ cy[1] \in Int /\ cy[2] \in Int /\ cy[3] \in Int
      /\ cy[4] \in Int /\ cy[5] \in Int /\ cy[6] \in Int /\ cy[7] \in Int /\ cy[8] \in Int
  <2> HIDE DEF d
  <2> QED  BY SMT, <1>3, <1>7
<1> DEFINE u == Bit(x, 0) + 2 * Bit(x, 1) + 4 * Bit(x, 2) + 8 * Bit(x, 3)
           u4 == 16 * Bit(x, 4) + 32 * Bit(x, 5) + 64 * Bit(x, 6) + 128 * Bit(x, 7)
           w == Bit(y, 0) + 2 * Bit(y, 1) + 4 * Bit(y, 2) + 8 * Bit(y, 3)
           w4 == 16 * Bit(y, 4) + 32 * Bit(y, 5) + 64 * Bit(y, 6) + 128 * Bit(y, 7)
           e == d(0) + 2 * d(1) + 4 * d(2) + 8 * d(3)
           e4 == 16 * d(4) + 32 * d(5) + 64 * d(6) + 128 * d(7)
<1>k. /\ u \in Int /\ w \in Int /\ e \in Int /\ u4 \in Int /\ w4 \in Int /\ e4 \in Int
      /\ u - w - cy[0] <= e - 16 * cy[4] /\ e - 16 * cy[4] <= u - w - cy[0]
      /\ u4 - w4 - 16 * cy[4] <= e4 - 256 * cy[8] /\ e4 - 256 * cy[8] <= u4 - w4 - 16 * cy[4]
  <2> HIDE DEF d
  <2>1. u \in Int /\ w \in Int /\ e \in Int /\ u4 \in Int /\ w4 \in Int /\ e4 \in Int
    BY SMT, <1>i, <1>j
  <2>2. u - w - cy[0] <= e - 16 * cy[4]
    BY SMT, <1>6, <1>i, <1>j
  <2>3. e - 16 * cy[4] <= u - w - cy[0]
    BY SMT, <1>6, <1>i, <1>j
  <2>4. u4 - w4 - 16 * cy[4] <= e4 - 256 * cy[8]
    BY SMT, <1>6, <1>i, <1>j
  <2>5. e4 - 256 * cy[8] <= u4 - w4 - 16 * cy[4]
    BY SMT, <1>6, <1>i, <1>j
  <2>6. QED  BY <2>1, <2>2, <2>3, <2>4, <2>5
<1>10. /\ o.c = cy[8] /\ o.h = cy[4] /\ o.v = Xor(cy[8], cy[7])
  BY SMT DEF SubBits, Outcome, cy
<1>11. o.r = d(0) + 2 * d(1) + 4 * d(2) + 8 * d(3) + 16 * d(4) + 32 * d(5) + 64 * d(6) + 128 * d(7)
  BY <1>4, OutcomeNumber DEF SubBits, cy
<1>x. x <= u + u4 /\ u + u4 <= x /\ y <= w + w4 /\ w + w4 <= y
  <2>1. /\ x = Bit(x, 0) + 2 * Bit(x, 1) + 4 * Bit(x, 2) + 8 * Bit(x, 3) + 16 * Bit(x, 4)
                  + 32 * Bit(x, 5) + 64 * Bit(x, 6) + 128 * Bit(x, 7)
        /\ y = Bit(y, 0) + 2 * Bit(y, 1) + 4 * Bit(y, 2) + 8 * Bit(y, 3) + 16 * Bit(y, 4)
                  + 32 * Bit(y, 5) + 64 * Bit(y, 6) + 128 * Bit(y, 7)
        /\ x \in Int /\ y \in Int
    BY BitsOfByte, InByte
  <2>2. x <= u + u4 /\ u + u4 <= x
    BY SMT, <2>1, <1>i
  <2>3. y <= w + w4 /\ w + w4 <= y
    BY SMT, <2>1, <1>i
  <2>4. QED  BY <2>2, <2>3
<1>z. x % 16 = u /\ y % 16 = w /\ x \in Int /\ y \in Int
  BY NibbleAndSign, InByte
<1>r. o.r \in Int /\ 0 <= o.r /\ o.r <= 255 /\ o.r <= e + e4 /\ e + e4 <= o.r
  <2> HIDE DEF o, d
  <2>1. 0 <= o.r /\ o.r <= 255 /\ o.r \in Int
    BY SMT, <1>7, <1>11
  <2>2. o.r <= e + e4 /\ e + e4 <= o.r
    BY SMT, <1>j, <1>11
  <2>3. QED  BY <2>1, <2>2
<1>e. e \in 0..15
  <2> HIDE DEF d
  <2> QED  BY SMT, <1>7
<1> HIDE DEF o, d, u, w, e, u4, w4, e4
<1>12. t = o.r - 256 * cy[8] /\ o.r \in Int /\ 0 <= o.r /\ o.r <= 255 /\ t \in Int
  <2>1. cy[4] \in Int /\ cy[8] \in Int /\ c0 \in Int /\ x \in Int /\ y \in Int
    BY <1>j, <1>z
  <2>2. t <= o.r - 256 * cy[8] /\ o.r - 256 * cy[8] <= t
    BY SMT, <1>1, <1>k, <1>x, <1>r, <2>1
  <2>3. t \in Int /\ o.r - 256 * cy[8] \in Int
    BY <1>r, <2>1
  <2> HIDE DEF t
  <2>4. QED  BY SMT, <1>r, <2>2, <2>3
<1>13. u - w - c0 = e - 16 * cy[4] /\ u \in Int /\ w \in Int
  <2>1. cy[4] \in Int /\ c0 \in Int
    BY <1>j
  <2>2. u - w - c0 \in Int /\ e - 16 * cy[4] \in Int
    BY <1>k, <2>1
  <2>3. u - w - c0 <= e - 16 * cy[4] /\ e - 16 * cy[4] <= u - w - c0
    BY <1>1, <1>k
  <2>4. QED  BY SMT, <2>2, <2>3, <1>k
<1>14. Signed(x) - Signed(y) - c0 = t - 256 * Bit(x, 7) + 256 * Bit(y, 7)
  <2>1. /\ Signed(x) = x - 256 * Bit(x, 7) /\ Signed(y) = y - 256 * Bit(y, 7)
        /\ x \in Int /\ y \in Int
    BY NibbleAndSign, InByte
  <2>2. QED  BY SMT, <1>8, <1>9, <2>1
<1> HIDE DEF t
<1>15. o.r = t % 256
  BY SMT, <1>3, <1>12
<1>16. o.c = 1 <=> t < 0
  BY SMT, <1>3, <1>10, <1>12
<1>17. o.h = 1 <=> x % 16 < (y % 16) + c0
  <2>1. o.h = 1 <=> u < w + c0
    BY SMT, <1>3, <1>e, <1>10, <1>13
  <2>2. QED  BY <2>1, <1>z
<1>18. o.v = 1 <=> Signed(x) - Signed(y) - c0 \notin -128..127
  <2> DEFINE s == Signed(x) - Signed(y) - c0
  <2>1. s = t - 256 * Bit(x, 7) + 256 * Bit(y, 7)
    BY <1>14
  <2> HIDE DEF s
  <2>2. o.r >= 128 <=> d(7) = 1
    BY SMT, <1>7, <1>11
  <2>3. o.v = 1 <=> cy[8] # cy[7]
    BY SMT, <1>3, <1>10 DEF Xor
  <2>4. Bit(x, 7) - Bit(y, 7) - cy[7] = d(7) - 2 * cy[8]
    BY <1>6
  <2>5. s = o.r - 256 * cy[8] - 256 * Bit(x, 7) + 256 * Bit(y, 7)
    BY <1>12, <2>1
  <2>6. s \in Int /\ (o.v = 1 <=> ~(-128 <= s /\ s <= 127))
    BY SMT, <1>3, <1>7, <1>8, <1>9, <1>12, <2>2, <2>3, <2>4, <2>5
  <2>7. QED  BY SMT, <2>6 DEF s
<1>19. o.r \in Byte /\ o.c \in {0, 1} /\ o.h \in {0, 1}
  BY <1>3, <1>10, <1>12, InByte
<1>20. t < 0 <=> x < y + c0
  BY SMT, InByte DEF t
<1>21. QED  BY <1>15, <1>16, <1>17, <1>18, <1>19, <1>20 DEF t, o, DifferenceOf

-----------------------------------------------------------------------------
(* Block instructions                                                        *)

\* The addresses of a block, one after the other, in either direction and across
\* address 0: each byte further is another cell.
LEMMA NextCell ==
  ASSUME NEW e \in Word, NEW d \in {1, -1}, NEW n \in Int
  PROVE  Plus(Plus(e, d * n), d) = Plus(e, d * (n + 1))
<1>1. e \in Int
  BY InWord
<1>2. CASE d = 1
  BY SMT, <1>1, <1>2 DEF Plus
<1>3. CASE d = -1
  BY SMT, <1>1, <1>3 DEF Plus
<1>4. QED  BY <1>2, <1>3

\* The first is where the pair points at.
LEMMA FirstCell ==
  ASSUME NEW e \in Word, NEW d \in {1, -1}
  PROVE  Plus(e, d * 0) = e
  BY SMT, InWord DEF Plus

\* Different numbers of steps, less than once round, lead to different cells.
LEMMA OtherCell ==
  ASSUME NEW h \in Word, NEW d \in {1, -1}, NEW k \in Int, NEW n \in Int, 0 <= k, k < n, n < 65536
  PROVE  Plus(h, d * k) # Plus(h, d * n)
<1>1. h \in Int
  BY InWord
<1>2. CASE d = 1
  BY SMT, <1>1, <1>2 DEF Plus
<1>3. CASE d = -1
  BY SMT, <1>1, <1>3 DEF Plus
<1>4. QED  BY <1>2, <1>3

\* A byte is read from a cell that was written before only if the destination is
\* that far ahead.
LEMMA WrittenBefore ==
  ASSUME NEW e \in Word, NEW h \in Word, NEW d \in {1, -1}, NEW k \in Int, NEW n \in Int,
         0 <= k, k < n, n < 65536
  PROVE  Plus(e, d * n) = Plus(h, d * k) <=> n - k = (d * (h - e)) % 65536
<1>1. e \in Int /\ h \in Int /\ 0 <= e /\ e <= 65535 /\ 0 <= h /\ h <= 65535
  BY InWord
<1>2. CASE d = 1
  BY SMT, <1>1, <1>2 DEF Plus
<1>3. CASE d = -1
  BY SMT, <1>1, <1>3 DEF Plus
<1>4. QED  BY <1>2, <1>3

\* One period further is the same byte.
LEMMA Period ==
  ASSUME NEW n \in Int, NEW p \in Int, p > 0
  PROVE  /\ n >= p => (n - p) % p = n % p
         /\ 0 <= n /\ n < p => n % p = n
<1> DEFINE q == n \div p
           r == n % p
           m == n - p
           q2 == m \div p
           s == m % p
<1>1. q \in Int /\ r \in Int /\ 0 <= r /\ r < p /\ n = p * q + r
  BY SMT
<1>2. m \in Int
  OBVIOUS
<1> HIDE DEF m
<1>3. q2 \in Int /\ s \in Int /\ 0 <= s /\ s < p /\ m = p * q2 + s
  BY SMT, <1>2
<1> HIDE DEF q, r, q2, s
<1> DEFINE u == q - 1 - q2
<1>4. u \in Int /\ p * u = s - r
  BY SMT, <1>1, <1>3 DEF m
<1> HIDE DEF u
<1>5. ~(u >= 1)
  <2> SUFFICES ASSUME u >= 1  PROVE FALSE
    OBVIOUS
  <2>1. p * u >= p
    BY SMT, <1>4
  <2>2. QED  BY SMT, <1>1, <1>3, <1>4, <2>1
<1>6. ~(u <= -1)
  <2> SUFFICES ASSUME u <= -1  PROVE FALSE
    OBVIOUS
  <2>1. p * u <= -p
    BY SMT, <1>4
  <2>2. QED  BY SMT, <1>1, <1>3, <1>4, <2>1
<1>7. u = 0
  BY SMT, <1>4, <1>5, <1>6
<1>8. s = r
  BY SMT, <1>1, <1>3, <1>4, <1>7
<1>9. 0 <= n /\ n < p => n % p = n
  BY SMT
<1>10. QED  BY <1>8, <1>9 DEF s, r, m

\* A count of 0 stands for 65536.
LEMMA CountFacts ==
  ASSUME BC0 \in Word
  PROVE  /\ Count \in Int /\ 1 <= Count /\ Count <= 65536 /\ Count % 65536 = BC0
         /\ BC0 >= 1 => Count = BC0
  BY SMT, InWord DEF Count

\* Before the instruction, with n index prefixes; when it repeats PC is at its ED.
AtBlock(n) ==
  /\ n \in 0..4 /\ \A k \in 0..(n - 1) : Code(k) \in {221, 253}
  /\ Code(n) = 237 /\ end = Plus(pc, n + 2)

BlockState ==
  /\ CpuOK /\ mode = "z80" /\ kind = "block" /\ was.reg \in [Pairs -> Word] /\ end \in Word
  /\ Last \in {176, 177, 184, 185} /\ Read(Plus(end, -2)) = 237
  /\ pc # end => \E n \in 0..4 : AtBlock(n)

\* n bytes are where they belong, and nothing else has changed.
Moved(n) ==
  /\ \A k \in 0..(n - 1) : Read(Target(k)) = Arriving(k)
  /\ \A x : x \notin {Target(k) : k \in 0..(n - 1)} => Read(x) = Before(x)
  /\ reg["HL"] = Source(n) /\ reg["DE"] = Target(n) /\ reg["BC"] = BC0 - n
  /\ f \cap {"S", "Z", "C"} = was.f \cap {"S", "Z", "C"}

MoveInv ==
  Moves =>
    /\ \A k \in 0..(Count - 1) : Target(k) \notin {Plus(end, -1), Plus(end, -2)}
    /\ pc # end => \E n \in 0..(BC0 - 1) : Moved(n)
    /\ pc = end => Moved(BC0) /\ "P" \notin f

\* The first n bytes are not the one that is sought.
Searched(n) ==
  /\ \A k \in 0..(n - 1) : Before(Source(k)) # a
  /\ reg["HL"] = Source(n) /\ reg["BC"] = (BC0 - n) % 65536

SearchInv ==
  ~Moves =>
    /\ mem = was.mem /\ ("C" \in f <=> "C" \in was.f)
    /\ pc # end => \E n \in 0..(Count - 1) : Searched(n)
    /\ pc = end => SearchFindsFirst

BlockInv == BlockState /\ MoveInv /\ SearchInv

\* The bytes of the instruction as they are decoded.
LEMMA BlockBytes ==
  ASSUME CpuOK, NEW n, AtBlock(n)
  PROVE  /\ Plus(pc, n) = Plus(end, -2) /\ Plus(Plus(pc, n), 2) = end /\ Plus(pc, n) # end
         /\ Code(n + 1) = Last /\ pc # end
<1>1. pc \in Int /\ n \in Int /\ n \in 0..4 /\ end = Plus(pc, n + 2) /\ 0 <= pc /\ pc <= 65535
  BY StateOK, InWord DEF AtBlock
<1>2. Plus(pc, n) = Plus(end, -2) /\ Plus(pc, n + 1) = Plus(end, -1)
  BY SMT, <1>1 DEF Plus
<1>3. Plus(Plus(pc, n), 2) = end /\ Plus(pc, n) # end /\ pc # end
  BY SMT, <1>1 DEF Plus
<1>4. QED  BY <1>2, <1>3 DEF Code, Last

\* The opcodes of the four repeated instructions.
LEMMA BlockDigits ==
  ASSUME NEW x \in 0..3, NEW y \in 0..7, NEW z \in 0..7, NEW c, c = (64 * x) + (8 * y) + z
  PROVE  /\ c = 176 => x = 2 /\ y = 6 /\ z = 0
         /\ c = 177 => x = 2 /\ y = 6 /\ z = 1
         /\ c = 184 => x = 2 /\ y = 7 /\ z = 0
         /\ c = 185 => x = 2 /\ y = 7 /\ z = 1
  BY SMT

\* What is executed: a move or a search, in the direction its opcode says.
LEMMA BlockDecoded ==
  ASSUME BlockState, NEW n, AtBlock(n), Execute
  PROVE  LET i == Instruction
         IN  /\ i.len = n + 2 /\ i.y >= 6 /\ Onward(i) = Direction
             /\ Moves => MoveBlock(i)
             /\ ~Moves => SearchBlock(i)
<1> DEFINE i == Instruction
           hl == IndexPair(IndexPrefixes)
           o == Opcode("ED", n + 1, hl, 0)
<1>0. CpuOK /\ mode = "z80" /\ MemoryOK(mem) /\ Last \in {176, 177, 184, 185} /\ n \in 0..4 /\ n + 1 \in Nat
  BY StateOK DEF BlockState, AtBlock
<1>1. IndexPrefixes = n
  <2>1. Prefixed(n)
    BY DEF AtBlock, Prefixed
  <2>2. IndexPrefixes \in 0..4 /\ Prefixed(IndexPrefixes)
    BY <1>0, PrefixCount
  <2>3. QED  BY <1>0, <2>1, <2>2, PrefixesUnique
<1>2. i = o
  <2>1. Code(n) = 237 /\ 237 # 203 /\ mode # "8080"
    BY <1>0 DEF AtBlock
  <2> HIDE DEF i, hl
  <2>2. i = CASE n > 0 /\ Code(n) = 203 ->
                    (IF Code(n + 2) = 237 THEN Opcode("ED", n + 3, hl, Plus(reg[hl], Signed(Code(n + 1))))
                     ELSE IF Code(n + 2) = 203 THEN Opcode("CB", n + 3, hl, Plus(reg[hl], Signed(Code(n + 1))))
                     ELSE Opcode("CB", n + 2, hl, Plus(reg[hl], Signed(Code(n + 1)))))
              [] n = 0 /\ Code(n) = 203 -> Opcode(IF mode = "8080" THEN "none" ELSE "CB", 1, hl, reg["HL"])
              [] Code(n) = 237 -> Opcode(IF mode = "8080" THEN "none" ELSE "ED", n + 1, hl, 0)
              [] OTHER -> Opcode("main", n, hl, 0)
    BY Zenon, <1>1 DEF Instruction, i, hl
  <2>3. QED  BY <2>1, <2>2
<1>3. /\ o.x \in 0..3 /\ o.y \in 0..7 /\ o.z \in 0..7 /\ o.len = (n + 1) + 1 /\ o.table = "ED"
      /\ Code(n + 1) = (64 * o.x) + (8 * o.y) + o.z
  BY <1>0, OpcodeOK
<1>4. Code(n + 1) = Last
  BY <1>0, BlockBytes
<1> HIDE DEF i, o
<1>5. /\ i.x = 2 /\ i.y \in {6, 7} /\ i.z \in {0, 1} /\ i.table = "ED" /\ i.len = n + 2
      /\ i.y = 6 <=> Last \in {176, 177}
      /\ i.z = 0 <=> Last \in {176, 184}
  <2>1. i.len = n + 2
    BY SMT, <1>0, <1>2, <1>3
  <2>2. /\ Last = 176 => i.x = 2 /\ i.y = 6 /\ i.z = 0
        /\ Last = 177 => i.x = 2 /\ i.y = 6 /\ i.z = 1
        /\ Last = 184 => i.x = 2 /\ i.y = 7 /\ i.z = 0
        /\ Last = 185 => i.x = 2 /\ i.y = 7 /\ i.z = 1
    BY <1>2, <1>3, <1>4, BlockDigits
  <2>3. QED  BY <1>0, <1>2, <1>3, <2>1, <2>2
<1>6. i.y >= 6 /\ Onward(i) = Direction
  <2>1. 6 % 2 = 0 /\ 7 % 2 = 1 /\ 6 >= 6 /\ 7 >= 6
    BY SMT
  <2>2. QED  BY <1>5, <2>1 DEF Onward, Direction
<1>7. OctalDigits(i)
  BY <1>2, <1>3 DEF OctalDigits
<1>8. KindOf(i, mode, ConditionCode(i.y, f)) = IF Last \in {176, 184} THEN "MoveBlock" ELSE "SearchBlock"
  BY <1>5, <1>6 DEF KindOf
<1>9. \/ LoadPair(i) \/ StoreA(i) \/ LoadA(i) \/ StoreDirect(i) \/ LoadDirect(i) \/ LoadByte(i) \/ Move(i)
      \/ StepPair(i) \/ StepByte(i) \/ AddPairs(i) \/ AddWithCarry(i) \/ AluRegister(i)
      \/ AluImmediate(i) \/ AccumulatorOp(i) \/ Negate(i)
      \/ ChangeBits(i) \/ TestBit(i) \/ RotateDigits(i)
      \/ Push(i) \/ Pop(i) \/ PopPsw(i) \/ ExchangeTop(i) \/ LoadSp(i)
      \/ Jump(i) \/ RelativeJump(i) \/ Call(i) \/ CallOrReturnNot(i) \/ Restart(i) \/ Return(i)
      \/ ExchangeDe(i) \/ ExchangeAll(i) \/ ExchangeAf(i)
      \/ MoveBlock(i) \/ SearchBlock(i)
      \/ SetInterruptMode(i) \/ SetIR(i) \/ GetIR(i) \/ Input(i) \/ NoOperation(i)
  BY Zenon DEF Execute, i
<1>10. Moves <=> Last \in {176, 184}
  BY DEF Moves
<1>11. (Moves => MoveBlock(i)) /\ (~Moves => SearchBlock(i))
  BY <1>7, <1>8, <1>9, <1>10, KindOfStep
<1>12. QED  BY <1>5, <1>6, <1>11 DEF i

\* What is read behind a byte that is stored.
LEMMA ReadStored ==
  ASSUME NEW x, NEW b, mem' = Stored(mem, x, b)
  PROVE  \A y : Read(y)' = IF y = x THEN b ELSE Read(y)
  BY DEF Read, Stored

\* The instruction is still there, and either executed again or left.
LEMMA BlockGoesOn ==
  ASSUME BlockState, NEW n, AtBlock(n), CpuOK', mode' = mode, UNCHANGED textVars,
         Read(Plus(end, -1))' = Read(Plus(end, -1)), Read(Plus(end, -2))' = Read(Plus(end, -2)),
         pc' = end \/ pc' = Plus(pc, n)
  PROVE  BlockState' /\ Last' = Last
<1>1. kind' = kind /\ end' = end /\ was' = was
  BY DEF textVars
<1>2. \A k : Plus(end, k)' = Plus(end, k)
  BY <1>1 DEF Plus
<1>3. Last' = Last
  BY <1>1, <1>2 DEF Last
<1>4. pc' # end => AtBlock(0)'
  <2> SUFFICES ASSUME pc' # end  PROVE AtBlock(0)'
    OBVIOUS
  <2>1. pc' = Plus(pc, n) /\ CpuOK
    BY DEF BlockState
  <2>2. Plus(pc, n) = Plus(end, -2) /\ Plus(Plus(pc, n), 2) = end /\ end \in Int /\ pc' \in Int
    BY <2>1, BlockBytes, InWord DEF BlockState, CpuOK
  <2>3. Plus(pc', 0) = pc'
    <3>1. \A w \in Word : Plus(w, 0) = w
      BY SMT, InWord DEF Plus
    <3>2. pc' \in Word
      BY DEF CpuOK
    <3>3. QED  BY <3>1, <3>2
  <2>4. Code(0)' = Read(Plus(end, -2))'
    <3>1. Plus(pc, 0)' = Plus(pc', 0)
      BY DEF Plus
    <3>2. QED  BY <1>2, <2>1, <2>2, <2>3, <3>1 DEF Code, Read
  <2>5. Code(0)' = 237
    BY <2>4 DEF BlockState
  <2>6. end' = Plus(pc, 0 + 2)'
    BY <1>1, <2>1, <2>2 DEF Plus
  <2>7. (0 \in 0..4) /\ (\A k \in 0..(0 - 1) : FALSE)
    BY SMT
  <2>8. QED  BY <2>5, <2>6, <2>7 DEF AtBlock
<1>5. Read(Plus(end, -2))' = 237
  BY DEF BlockState
<1>6. 0 \in 0..4
  BY SMT
<1>7. QED  BY <1>1, <1>3, <1>4, <1>5, <1>6 DEF BlockState

\* The facts of a step.
LEMMA BlockStep ==
  ASSUME BlockState, Continues
  PROVE  /\ pc # end /\ Execute /\ UNCHANGED textVars /\ CpuOK /\ CpuOK' /\ mode' = mode
         /\ was' = was /\ end' = end
         /\ BC0 \in Word /\ HL0 \in Word /\ DE0 \in Word /\ Direction \in {1, -1}
<1>1. pc # end /\ Execute /\ UNCHANGED textVars
  BY DEF Continues
<1>2. CpuOK /\ CpuOK' /\ mode' = mode
  BY <1>1, ExecuteTypes DEF BlockState
<1>3. QED  BY <1>1, <1>2 DEF BlockState, textVars, BC0, HL0, DE0, Direction, Pairs

\* What is said of the block does not change.
LEMMA BlockFixed ==
  ASSUME was' = was, end' = end, Last' = Last
  PROVE  /\ Direction' = Direction /\ (Moves' <=> Moves) /\ BC0' = BC0 /\ HL0' = HL0 /\ DE0' = DE0
         /\ Count' = Count /\ Ahead' = Ahead
         /\ \A k : Source(k)' = Source(k) /\ Target(k)' = Target(k) /\ Arriving(k)' = Arriving(k)
         /\ \A x : Before(x)' = Before(x)
         /\ \A k : Plus(end, k)' = Plus(end, k)
<1>1. Direction' = Direction /\ (Moves' <=> Moves) /\ BC0' = BC0 /\ HL0' = HL0 /\ DE0' = DE0
  BY DEF Direction, Moves, BC0, HL0, DE0
<1>2. Count' = Count /\ Ahead' = Ahead
  BY <1>1 DEF Count, Ahead
<1>3. \A k : Source(k)' = Source(k) /\ Target(k)' = Target(k)
  BY <1>1 DEF Source, Target, Plus
<1>4. \A x : Before(x)' = Before(x)
  BY DEF Before
<1>5. \A k : Arriving(k)' = Arriving(k)
  <2> SUFFICES ASSUME NEW k  PROVE Arriving(k)' = Arriving(k)
    OBVIOUS
  <2> DEFINE s == IF Ahead \in 1..(BC0 - 1) THEN k % Ahead ELSE k
             x == Source(s)
  <2>1. s' = s
    BY <1>1, <1>2
  <2> HIDE DEF s
  <2>2. x' = x
    BY <1>1, <2>1 DEF Source, Plus
  <2> HIDE DEF x
  <2>3. Before(x)' = Before(x)
    BY <2>2 DEF Before
  <2>4. Arriving(k) = Before(x) /\ Arriving(k)' = Before(x)'
    BY DEF Arriving, x, s
  <2>5. QED  BY <2>3, <2>4
<1>6. \A k : Plus(end, k)' = Plus(end, k)
  BY DEF Plus
<1>7. QED  BY <1>1, <1>2, <1>3, <1>4, <1>5, <1>6

\* What a step reads is what belongs into the cell it writes.
LEMMA ArrivesInTime ==
  ASSUME BC0 \in Word, HL0 \in Word, DE0 \in Word, Direction \in {1, -1},
         NEW n \in 0..(BC0 - 1), Moved(n)
  PROVE  Read(Source(n)) = Arriving(n)
<1>1. BC0 \in Int /\ BC0 <= 65535 /\ n \in Int /\ 0 <= n /\ n < BC0 /\ n < 65536
  BY SMT, InWord
<1>2. Ahead \in Int /\ 0 <= Ahead
  <2> DEFINE v == Direction * (DE0 - HL0)
  <2>1. v \in Int
    BY InWord
  <2> HIDE DEF v
  <2>2. v % 65536 \in Int /\ 0 <= v % 65536
    BY SMT, <2>1
  <2>3. QED  BY <2>2 DEF Ahead, v
<1>3. ASSUME NEW k \in 0..(n - 1)  PROVE Source(n) = Target(k) <=> n - k = Ahead
  <2>1. k \in Int /\ 0 <= k /\ k < n
    BY SMT, <1>1
  <2>2. QED  BY <1>1, <2>1, WrittenBefore DEF Source, Target, Ahead
<1>4. CASE Ahead \in 1..(BC0 - 1) /\ Ahead <= n
  <2> DEFINE k == n - Ahead
  <2>1. k \in 0..(n - 1) /\ k \in Int /\ n - k = Ahead
    BY SMT, <1>1, <1>2, <1>4
  <2>2. Source(n) = Target(k)
    BY <1>3, <2>1
  <2>3. Read(Source(n)) = Arriving(k)
    BY <2>1, <2>2 DEF Moved
  <2>4. k % Ahead = n % Ahead
    <3>1. Ahead > 0 /\ n >= Ahead
      BY SMT, <1>1, <1>2, <1>4
    <3>2. QED  BY <1>1, <1>2, <3>1, Period
  <2>5. Arriving(k) = Arriving(n)
    BY <1>4, <2>4 DEF Arriving
  <2>6. QED  BY <2>3, <2>5
<1>5. CASE ~(Ahead \in 1..(BC0 - 1) /\ Ahead <= n)
  <2>1. Source(n) \notin {Target(k) : k \in 0..(n - 1)}
    <3> SUFFICES ASSUME NEW k \in 0..(n - 1), Source(n) = Target(k)  PROVE FALSE
      OBVIOUS
    <3>1. n - k = Ahead
      BY <1>3
    <3>2. QED  BY SMT, <1>1, <1>2, <1>5, <3>1
  <2>2. Read(Source(n)) = Before(Source(n))
    BY <2>1 DEF Moved
  <2>3. Ahead \in 1..(BC0 - 1) => n % Ahead = n
    <3> SUFFICES ASSUME Ahead \in 1..(BC0 - 1)  PROVE n % Ahead = n
      OBVIOUS
    <3>1. Ahead > 0 /\ n < Ahead
      BY SMT, <1>1, <1>2, <1>5
    <3>2. QED  BY <1>1, <1>2, <3>1, Period
  <2>4. QED  BY <2>2, <2>3 DEF Arriving
<1>6. QED  BY <1>4, <1>5

\* One byte is moved.
LEMMA MoveStep ==
  ASSUME BlockInv, Continues, Moves
  PROVE  BlockInv'
<1>1. BlockState /\ MoveInv
  BY DEF BlockInv
<1>2. /\ pc # end /\ Execute /\ UNCHANGED textVars /\ CpuOK /\ CpuOK' /\ mode' = mode
      /\ was' = was /\ end' = end
      /\ BC0 \in Word /\ HL0 \in Word /\ DE0 \in Word /\ Direction \in {1, -1}
  BY <1>1, BlockStep
<1>3. PICK p \in 0..4 : AtBlock(p)
  BY <1>1, <1>2 DEF BlockState
<1>4. PICK n \in 0..(BC0 - 1) : Moved(n)
  BY <1>1, <1>2 DEF MoveInv
<1> DEFINE i == Instruction
           b == Read(Source(n))
           more == reg["BC"] # 1
<1>5. MoveBlock(i) /\ i.len = p + 2 /\ i.y >= 6 /\ Onward(i) = Direction
  BY <1>1, <1>2, <1>3, BlockDecoded
<1>i. /\ BC0 \in Int /\ 0 <= BC0 /\ BC0 <= 65535 /\ n \in Int /\ 0 <= n /\ n < BC0 /\ n + 1 \in Int
      /\ pc \in Int /\ p \in Int /\ (p + 2) - 2 = p /\ Count = BC0
  <2>1. BC0 \in Int /\ 0 <= BC0 /\ BC0 <= 65535 /\ n \in Int /\ 0 <= n /\ n < BC0 /\ n + 1 \in Int
        /\ p \in Int /\ (p + 2) - 2 = p
    BY SMT, <1>2, InWord
  <2>2. Count = BC0
    BY SMT, <1>2, <2>1, CountFacts
  <2>3. pc \in Int
    BY <1>2, InWord DEF CpuOK
  <2>4. QED  BY <2>1, <2>2, <2>3
<1>6. reg["HL"] = Source(n) /\ reg["DE"] = Target(n) /\ reg["BC"] = BC0 - n
      /\ f \cap {"S", "Z", "C"} = was.f \cap {"S", "Z", "C"}
  BY <1>4 DEF Moved
<1> HIDE DEF i
<1>7. /\ mem' = Stored(mem, Target(n), b)
      /\ reg' = [reg EXCEPT !["HL"] = Plus(reg["HL"], Direction), !["DE"] = Plus(reg["DE"], Direction),
                            !["BC"] = Plus(reg["BC"], -1)]
      /\ f' = (f \cap {"S", "Z", "C"}) \cup When("P", more) \cup XYOfBlock((a + b) % 256)
      /\ pc' = Plus(pc, IF more THEN p ELSE p + 2)
  <2>1. /\ mem' = Stored(mem, reg["DE"], Read(reg["HL"]))
        /\ reg' = [reg EXCEPT !["HL"] = Plus(reg["HL"], Onward(i)), !["DE"] = Plus(reg["DE"], Onward(i)),
                              !["BC"] = Plus(reg["BC"], -1)]
        /\ f' = (f \cap {"S", "Z", "C"}) \cup When("P", reg["BC"] # 1) \cup XYOfBlock((a + Read(reg["HL"])) % 256)
        /\ After(IF i.y >= 6 /\ reg["BC"] # 1 THEN i.len - 2 ELSE i.len)
    BY <1>5 DEF MoveBlock
  <2>2. (IF i.y >= 6 /\ reg["BC"] # 1 THEN i.len - 2 ELSE i.len) = IF more THEN p ELSE p + 2
    BY <1>5, <1>i
  <2>3. QED  BY Zenon, <1>5, <1>6, <2>1, <2>2 DEF After
<1> HIDE DEF b
<1>8. \A x : Read(x)' = IF x = Target(n) THEN b ELSE Read(x)
  BY <1>7, ReadStored
<1>9. Target(n) \notin {Plus(end, -1), Plus(end, -2)}
  <2>1. n \in 0..(Count - 1)
    BY <1>i
  <2>2. QED  BY <1>1, <2>1 DEF MoveInv
<1>10. pc' = end \/ pc' = Plus(pc, p)
  BY <1>3, <1>7 DEF AtBlock
<1>11. BlockState' /\ Last' = Last
  <2>1. Read(Plus(end, -1))' = Read(Plus(end, -1)) /\ Read(Plus(end, -2))' = Read(Plus(end, -2))
    <3>1. \A k : Plus(end, k)' = Plus(end, k)
      BY <1>2 DEF Plus
    <3>2. \A k : Read(Plus(end, k))' = IF Plus(end, k) = Target(n) THEN b ELSE Read(Plus(end, k))
      BY <1>7, <3>1 DEF Read, Stored
    <3>3. QED  BY <1>9, <3>2
  <2>2. QED  BY <1>1, <1>2, <1>3, <1>10, <2>1, BlockGoesOn
<1>12. /\ Direction' = Direction /\ (Moves' <=> Moves) /\ BC0' = BC0
       /\ Count' = Count /\ Ahead' = Ahead
       /\ \A k : Source(k)' = Source(k) /\ Target(k)' = Target(k) /\ Arriving(k)' = Arriving(k)
       /\ \A x : Before(x)' = Before(x)
       /\ \A k : Plus(end, k)' = Plus(end, k)
  BY <1>2, <1>11, BlockFixed
<1>13. b = Arriving(n)
  BY <1>2, <1>4, ArrivesInTime DEF b
<1>14. Moved(n + 1)'
  <2>1. ASSUME NEW k \in 0..n  PROVE Read(Target(k))' = Arriving(k)
    <3>1. Read(Target(k))' = IF Target(k) = Target(n) THEN b ELSE Read(Target(k))
      BY <1>7, <1>12 DEF Read, Stored
    <3>2. CASE k = n
      BY <1>13, <3>1, <3>2
    <3>3. CASE k # n
      <4>1. k \in 0..(n - 1) /\ k \in Int /\ 0 <= k /\ k < n /\ n < 65536
        BY SMT, <1>i, <3>3
      <4>2. Target(k) # Target(n)
        BY <1>2, <1>i, <4>1, OtherCell DEF Target
      <4>3. QED  BY <1>4, <3>1, <4>1, <4>2 DEF Moved
    <3>4. QED  BY <3>2, <3>3
  <2>2. ASSUME NEW x, x \notin {Target(k) : k \in 0..n}  PROVE Read(x)' = Before(x)
    <3>1. n \in 0..n /\ \A k \in 0..(n - 1) : k \in 0..n
      BY SMT, <1>i
    <3>2. x # Target(n) /\ x \notin {Target(k) : k \in 0..(n - 1)}
      BY <2>2, <3>1
    <3>3. QED  BY <1>4, <1>8, <3>2 DEF Moved
  <2>3. /\ reg'["HL"] = Plus(Source(n), Direction) /\ reg'["DE"] = Plus(Target(n), Direction)
        /\ reg'["BC"] = Plus(BC0 - n, -1)
    <3>1. {"HL", "DE", "BC"} \subseteq DOMAIN reg
      BY <1>2 DEF CpuOK, Pairs
    <3>2. QED  BY <1>6, <1>7, <3>1
  <2>4. reg'["HL"] = Source(n + 1) /\ reg'["DE"] = Target(n + 1)
    BY <1>2, <1>i, <2>3, NextCell DEF Source, Target
  <2>5. reg'["BC"] = BC0 - (n + 1)
    BY SMT, <1>i, <2>3 DEF Plus
  <2>6. f' \cap {"S", "Z", "C"} = was.f \cap {"S", "Z", "C"}
    BY <1>6, <1>7 DEF When, XYOfBlock
  <2>7. (n + 1) - 1 = n
    BY SMT, <1>i
  <2>8. {Target(k)' : k \in 0..n} = {Target(k) : k \in 0..n}
    BY <1>12
  <2>9. /\ \A k \in 0..((n + 1) - 1) : Read(Target(k))' = Arriving(k)'
        /\ \A x : x \notin {Target(k)' : k \in 0..((n + 1) - 1)} => Read(x)' = Before(x)'
    BY <1>12, <2>1, <2>2, <2>7, <2>8
  <2>10. QED  BY <1>2, <1>12, <2>4, <2>5, <2>6, <2>9 DEF Moved
<1>15. more <=> n + 1 < BC0
  BY SMT, <1>i, <1>6
<1>16. pc' = end <=> ~more
  <2>1. Plus(pc, p) # end /\ Plus(pc, p + 2) = end
    BY <1>2, <1>3, BlockBytes DEF AtBlock
  <2>2. QED  BY <1>7, <2>1
<1>17. MoveInv'
  <2>1. (pc # end)' => n + 1 \in 0..(BC0 - 1)
    BY SMT, <1>2, <1>i, <1>15, <1>16
  <2>2. (pc = end)' => n + 1 = BC0 /\ "P" \notin f'
    <3> SUFFICES ASSUME pc' = end  PROVE n + 1 = BC0 /\ "P" \notin f'
      BY <1>2
    <3>1. ~more
      BY <1>16
    <3>2. n + 1 = BC0
      BY SMT, <1>i, <1>15, <3>1
    <3>3. "P" \notin f'
      BY <1>7, <3>1 DEF When, XYOfBlock
    <3>4. QED  BY <3>2, <3>3
  <2>3. \A k \in 0..(Count - 1) : Target(k)' \notin {Plus(end, -1)', Plus(end, -2)'}
    BY <1>1, <1>12 DEF MoveInv
  <2>4. QED  BY <1>2, <1>12, <1>14, <2>1, <2>2, <2>3 DEF MoveInv
<1>18. SearchInv'
  BY <1>12 DEF SearchInv
<1>19. QED  BY <1>11, <1>17, <1>18 DEF BlockInv

\* A comparison of bytes gives 0 for equal ones only.
LEMMA EqualOrNot ==
  ASSUME NEW x \in Byte, NEW y \in Byte
  PROVE  SubBits(8, x, y, 0).r = 0 <=> x = y
<1>0. 0 \in {0, 1} /\ x \in Int /\ y \in Int /\ 0 <= x /\ x <= 255 /\ 0 <= y /\ y <= 255
  BY InByte
<1> DEFINE o == SubBits(8, x, y, 0)
<1>1. DifferenceOf(o, x, y, 0)
  BY Zenon, <1>0, DifferenceOfBytes
<1> HIDE DEF o
<1>2. o.r = (x - y - 0) % 256
  BY Zenon, <1>1 DEF DifferenceOf
<1>3. (x - y - 0) % 256 = 0 <=> x = y
  BY SMT, <1>0
<1>4. QED  BY Zenon, <1>2, <1>3 DEF o

\* One byte is compared.
LEMMA SearchStep ==
  ASSUME BlockInv, Continues, ~Moves
  PROVE  BlockInv'
<1>1. BlockState /\ SearchInv
  BY DEF BlockInv
<1>2. /\ pc # end /\ Execute /\ UNCHANGED textVars /\ CpuOK /\ CpuOK' /\ mode' = mode
      /\ was' = was /\ end' = end
      /\ BC0 \in Word /\ HL0 \in Word /\ DE0 \in Word /\ Direction \in {1, -1}
  BY <1>1, BlockStep
<1>3. PICK p \in 0..4 : AtBlock(p)
  BY <1>1, <1>2 DEF BlockState
<1>4. PICK n \in 0..(Count - 1) : Searched(n)
  BY <1>1, <1>2 DEF SearchInv
<1> DEFINE i == Instruction
           b == Before(Source(n))
           o == SubBits(8, a, b, 0)
           more == reg["BC"] # 1 /\ a # b
<1>5. SearchBlock(i) /\ i.len = p + 2 /\ i.y >= 6 /\ Onward(i) = Direction
  BY <1>1, <1>2, <1>3, BlockDecoded
<1>i. /\ BC0 \in Int /\ 0 <= BC0 /\ BC0 <= 65535 /\ n \in Int /\ 0 <= n /\ n < Count /\ n + 1 \in Int
      /\ p \in Int /\ (p + 2) - 2 = p /\ Count \in Int /\ Count <= 65536 /\ Count % 65536 = BC0
  <2>1. Count \in Int /\ Count <= 65536 /\ Count % 65536 = BC0
    BY <1>2, CountFacts
  <2>2. QED  BY SMT, <1>2, <2>1, InWord
<1>6. /\ reg["HL"] = Source(n) /\ reg["BC"] = (BC0 - n) % 65536 /\ mem = was.mem
      /\ "C" \in f <=> "C" \in was.f
  BY <1>1, <1>4 DEF Searched, SearchInv
<1>a. a \in Byte /\ b \in Byte /\ Read(Source(n)) = b
  <2>1. Read(Source(n)) = b
    BY <1>6 DEF Read, Before
  <2>2. MemoryOK(mem) /\ a \in Byte
    BY <1>2, StateOK
  <2>3. QED  BY <2>1, <2>2, ReadsAreBytes
<1>b. o.r = 0 <=> a = b
  BY <1>a, EqualOrNot
<1> HIDE DEF i
<1>7. /\ reg' = [reg EXCEPT !["HL"] = Plus(reg["HL"], Direction), !["BC"] = Plus(reg["BC"], -1)]
      /\ f' = (f \cap {"C"}) \cup SignZero(o.r) \cup When("H", o.h = 1) \cup {"N"}
                \cup When("P", reg["BC"] # 1) \cup XYOfBlock((o.r - o.h) % 256)
      /\ pc' = Plus(pc, IF more THEN p ELSE p + 2) /\ a' = a /\ mem' = mem
  <2>1. Read(reg["HL"]) = b
    BY <1>6, <1>a
  <2>2. /\ reg' = [reg EXCEPT !["HL"] = Plus(reg["HL"], Onward(i)), !["BC"] = Plus(reg["BC"], -1)]
        /\ f' = (f \cap {"C"}) \cup SignZero(o.r) \cup When("H", o.h = 1) \cup {"N"}
                  \cup When("P", reg["BC"] # 1) \cup XYOfBlock((o.r - o.h) % 256)
        /\ After(IF i.y >= 6 /\ reg["BC"] # 1 /\ o.r # 0 THEN i.len - 2 ELSE i.len)
        /\ a' = a /\ mem' = mem
    BY Zenon, <1>5, <2>1 DEF SearchBlock
  <2> HIDE DEF o, b
  <2>3. (IF i.y >= 6 /\ reg["BC"] # 1 /\ o.r # 0 THEN i.len - 2 ELSE i.len) = IF more THEN p ELSE p + 2
    BY <1>5, <1>i, <1>b
  <2>4. QED  BY Zenon, <1>5, <2>2, <2>3 DEF After
<1> HIDE DEF o, b
<1>10. pc' = end \/ pc' = Plus(pc, p)
  BY <1>3, <1>7 DEF AtBlock
<1>11. BlockState' /\ Last' = Last
  <2>1. Read(Plus(end, -1))' = Read(Plus(end, -1)) /\ Read(Plus(end, -2))' = Read(Plus(end, -2))
    BY <1>2, <1>7 DEF Read, Plus
  <2>2. QED  BY <1>1, <1>2, <1>3, <1>10, <2>1, BlockGoesOn
<1>12. /\ Direction' = Direction /\ (Moves' <=> Moves) /\ BC0' = BC0
       /\ Count' = Count
       /\ \A k : Source(k)' = Source(k)
       /\ \A x : Before(x)' = Before(x)
  BY <1>2, <1>11, BlockFixed
<1>13. reg'["HL"] = Source(n + 1) /\ reg'["BC"] = (BC0 - (n + 1)) % 65536
  <2>1. {"HL", "BC"} \subseteq DOMAIN reg
    BY <1>2 DEF CpuOK, Pairs
  <2>2. reg'["HL"] = Plus(Source(n), Direction) /\ reg'["BC"] = Plus((BC0 - n) % 65536, -1)
    BY <1>6, <1>7, <2>1
  <2>3. reg'["HL"] = Source(n + 1)
    BY <1>2, <1>i, <2>2, NextCell DEF Source
  <2>4. reg'["BC"] = (BC0 - (n + 1)) % 65536
    BY SMT, <1>i, <2>2 DEF Plus
  <2>5. QED  BY <2>3, <2>4
<1>14. reg["BC"] # 1 <=> reg'["BC"] # 0
  BY SMT, <1>i, <1>6, <1>13
<1>15. reg["BC"] # 1 <=> n + 1 < Count
  <2> DEFINE c == Count
  <2> HIDE DEF c
  <2>1. c \in Int /\ c <= 65536 /\ c % 65536 = BC0 /\ n < c
    BY <1>i DEF c
  <2>2. reg["BC"] # 1 <=> n + 1 < c
    BY SMT, <1>i, <1>6, <2>1
  <2>3. QED  BY <2>2 DEF c
<1>16. pc' = end <=> ~more
  <2>1. Plus(pc, p) # end /\ Plus(pc, p + 2) = end
    BY <1>2, <1>3, BlockBytes DEF AtBlock
  <2>2. QED  BY <1>7, <2>1
<1>17. \A k \in 0..(n - 1) : Before(Source(k)) # a
  BY <1>4 DEF Searched
<1>18. /\ "C" \in f' <=> "C" \in was.f
       /\ "Z" \in f' <=> a = b
       /\ "P" \in f' <=> reg["BC"] # 1
  <2>1. "C" \in f' <=> "C" \in f
    BY <1>7 DEF When, SignZero, XYOfBlock
  <2>2. "Z" \in f' <=> o.r = 0
    BY <1>7 DEF When, SignZero, XYOfBlock
  <2>3. "P" \in f' <=> reg["BC"] # 1
    BY <1>7 DEF When, SignZero, XYOfBlock
  <2>4. QED  BY <1>6, <1>b, <2>1, <2>2, <2>3
<1>19. (pc # end)' => n + 1 \in 0..(Count - 1) /\ Searched(n + 1)'
  <2> SUFFICES ASSUME pc' # end  PROVE n + 1 \in 0..(Count - 1) /\ Searched(n + 1)'
    BY <1>2
  <2>1. more
    BY <1>16
  <2>2. n + 1 \in 0..(Count - 1)
    BY SMT, <1>i, <1>15, <2>1
  <2>3. \A k \in 0..((n + 1) - 1) : Before(Source(k)) # a
    <3>1. \A k \in 0..((n + 1) - 1) : k \in 0..(n - 1) \/ k = n
      BY SMT, <1>i
    <3>2. QED  BY <1>17, <2>1, <3>1 DEF b
  <2>4. \A k \in 0..((n + 1) - 1) : Before(Source(k))' # a'
    <3>1. \A k : Before(Source(k))' = Before(Source(k))
      BY <1>2, <1>12 DEF Before
    <3>2. QED  BY <1>7, <2>3, <3>1
  <2>5. QED  BY <1>12, <1>13, <2>2, <2>4 DEF Searched
<1>20. (pc = end)' => SearchFindsFirst'
  <2> SUFFICES ASSUME pc' = end  PROVE SearchFindsFirst'
    BY <1>2
  <2>0. (n + 1) - 1 = n /\ (n + 1) - 2 = n - 1 /\ n <= 65535
    BY SMT, <1>i
  <2>1. ((BC0 - reg'["BC"] - 1) % 65536) + 1 = n + 1
    BY SMT, <1>i, <1>13, <2>0
  <2>2. ~more
    BY <1>16
  <2>3. "Z" \in f' <=> Before(Source(n)) = a
    BY <1>18 DEF b
  <2>4. "Z" \notin f' => reg'["BC"] = 0
    BY <1>14, <1>18, <2>2
  <2>5. "P" \in f' <=> reg'["BC"] # 0
    BY <1>14, <1>18
  <2>6. mem' = was.mem /\ ("C" \in f' <=> "C" \in was.f)
    BY <1>6, <1>7, <1>18
  <2>7. (Looked' = n + 1) /\ was' = was
    <3>1. Looked' = ((BC0 - reg'["BC"] - 1) % 65536) + 1
      BY <1>12 DEF Looked
    <3>2. QED  BY <1>2, <2>1, <3>1
  <2>8. /\ reg'["HL"] = Source(Looked)'
        /\ "Z" \in f' <=> Before(Source(Looked - 1))' = a'
        /\ \A k \in 0..(Looked' - 2) : Before(Source(k))' # a'
    <3>1. Source(Looked)' = Source(n + 1)
      <4>1. Source(Looked)' = Plus(HL0', Direction' * Looked')
        BY DEF Source, Plus
      <4>2. HL0' = HL0
        BY <1>2 DEF HL0
      <4>3. QED  BY <1>12, <2>7, <4>1, <4>2 DEF Source
    <3>2. Before(Source(Looked - 1))' = Before(Source(n))
      <4>1. Source(Looked - 1)' = Plus(HL0', Direction' * (Looked' - 1))
        BY DEF Source, Plus
      <4>2. HL0' = HL0
        BY <1>2 DEF HL0
      <4>3. Source(Looked - 1)' = Source(n)
        BY <1>12, <2>0, <2>7, <4>1, <4>2 DEF Source
      <4>4. QED  BY <1>2, <4>3 DEF Before
    <3>3. \A k : Before(Source(k))' = Before(Source(k))
      BY <1>2, <1>12 DEF Before
    <3>4. QED  BY <1>7, <1>13, <1>17, <2>0, <2>3, <2>7, <3>1, <3>2, <3>3
  <2>9. QED
    BY <2>4, <2>5, <2>6, <2>7, <2>8 DEF SearchFindsFirst
<1>21. SearchInv'
  <2>1. mem' = was'.mem /\ ("C" \in f' <=> "C" \in was'.f)
    BY <1>2, <1>6, <1>7, <1>18
  <2>2. (pc # end)' => \E k \in 0..(Count - 1)' : Searched(k)'
    BY <1>12, <1>19
  <2>3. QED  BY Zenon, <1>20, <2>1, <2>2 DEF SearchInv
<1>22. MoveInv'
  BY <1>12 DEF MoveInv
<1>23. QED  BY <1>11, <1>21, <1>22 DEF BlockInv

\* Every address is met on the way round the memory.
LEMMA AllTheWayRound ==
  ASSUME NEW e \in Word, NEW h \in Word, NEW d \in {1, -1}
  PROVE  \E k \in Word : Plus(e, d * k) = h
<1>1. e \in Int /\ h \in Int /\ 0 <= e /\ e <= 65535 /\ 0 <= h /\ h <= 65535
  BY InWord
<1> DEFINE k == (d * (h - e)) % 65536
<1>2. k \in Int /\ 0 <= k /\ k <= 65535
  BY SMT, <1>1
<1>3. Plus(e, d * k) = h
  <2>1. CASE d = 1
    BY SMT, <1>1, <2>1 DEF Plus
  <2>2. CASE d = -1
    BY SMT, <1>1, <2>2 DEF Plus
  <2>3. QED  BY <2>1, <2>2
<1> HIDE DEF k
<1>4. k \in Word
  BY <1>2, InWord
<1>5. QED  BY <1>3, <1>4

\* The invariant holds before the first byte.
LEMMA BlockBegins ==
  ASSUME AnyBlockInit
  PROVE  BlockInv
<1>1. /\ CpuOK /\ mode = "z80" /\ kind = "block"
      /\ was = [a |-> a, f |-> f, reg |-> reg, alt |-> alt, sys |-> sys, mem |-> mem]
      /\ Last \in {176, 177, 184, 185}
      /\ Moves => \A k \in 0..(Count - 1) : Target(k) \notin {Plus(end, -1), Plus(end, -2)}
  BY DEF AnyBlockInit
<1>2. PICK p \in 0..4 : /\ \A k \in 0..(p - 1) : Code(k) \in {221, 253}
                       /\ Code(p) = 237 /\ end = Plus(pc, p + 2)
  BY DEF AnyBlockInit
<1>3. AtBlock(p) /\ pc # end
  BY <1>1, <1>2, BlockBytes DEF AtBlock
<1>4. BlockState
  <2>1. end \in Word
    <3>1. pc \in Int /\ p \in Int
      BY <1>1, InWord DEF CpuOK
    <3>2. Plus(pc, p + 2) \in Word
      BY <3>1, PlusIsWord
    <3>3. QED  BY <1>2, <3>2
  <2>2. was.reg \in [Pairs -> Word]
    BY <1>1 DEF CpuOK
  <2>3. Read(Plus(end, -2)) = 237
    BY <1>1, <1>2, <1>3, BlockBytes DEF Code
  <2>4. QED  BY <1>1, <1>3, <2>1, <2>2, <2>3 DEF BlockState
<1>5. /\ BC0 \in Word /\ HL0 \in Word /\ DE0 \in Word /\ Direction \in {1, -1}
      /\ reg["BC"] = BC0 /\ reg["HL"] = HL0 /\ reg["DE"] = DE0
  <2>1. was.reg = reg
    BY <1>1
  <2>2. QED  BY <1>1, <2>1 DEF CpuOK, Pairs, BC0, HL0, DE0, Direction
<1>6. Source(0) = HL0 /\ Target(0) = DE0
  BY <1>5, FirstCell DEF Source, Target
<1>7. \A x : Read(x) = Before(x)
  <2>1. was.mem = mem
    BY <1>1
  <2>2. QED  BY <2>1 DEF Read, Before
<1>8. /\ BC0 \in Int /\ BC0 >= 0 /\ BC0 <= 65535 /\ Count \in Int /\ 1 <= Count /\ BC0 - 0 = BC0
      /\ (BC0 - 0) % 65536 = BC0 /\ 0..(0 - 1) = {} /\ (BC0 >= 1 => Count = BC0)
  <2>1. BC0 \in Int /\ BC0 >= 0 /\ BC0 <= 65535
    BY <1>5, InWord
  <2>2. BC0 - 0 = BC0 /\ (BC0 - 0) % 65536 = BC0 /\ 0..(0 - 1) = {}
    BY SMT, <2>1
  <2>3. QED  BY <1>5, <2>1, <2>2, CountFacts
<1>9. MoveInv
  <2> SUFFICES ASSUME Moves  PROVE MoveInv
    BY DEF MoveInv
  <2>1. BC0 # 0
    <3> SUFFICES ASSUME BC0 = 0  PROVE FALSE
      OBVIOUS
    <3>2. Plus(end, -1) \in Word
      BY <1>4, InWord, PlusIsWord DEF BlockState
    <3>3. PICK k \in Word : Plus(DE0, Direction * k) = Plus(end, -1)
      <4> DEFINE x == Plus(end, -1)
      <4> HIDE DEF x
      <4>1. x \in Word
        BY <3>2 DEF x
      <4>2. \E k \in Word : Plus(DE0, Direction * k) = x
        BY Zenon, <1>5, <4>1, AllTheWayRound
      <4>3. QED  BY Zenon, <4>2 DEF x
    <3>4. k \in 0..(Count - 1)
      <4>1. k \in Int /\ 0 <= k /\ k <= 65535
        BY InWord
      <4>2. Count \in Int /\ 1 <= Count /\ Count % 65536 = 0
        BY <1>5, CountFacts
      <4> DEFINE c == Count
      <4> HIDE DEF c
      <4>3. c \in Int /\ 1 <= c /\ (c % 65536) = 0
        BY <4>2 DEF c
      <4>4. c >= 65536
        BY SMT, <4>3
      <4>5. k \in 0..(c - 1)
        BY SMT, <4>1, <4>3, <4>4
      <4>6. QED  BY <4>5 DEF c
    <3>5. QED  BY <1>1, <3>3, <3>4 DEF Target
  <2>2. 0 \in 0..(BC0 - 1)
    BY SMT, <1>8, <2>1
  <2>3. Moved(0)
    <3>1. was.f = f
      BY <1>1
    <3>2. QED  BY <1>5, <1>6, <1>7, <1>8, <3>1 DEF Moved
  <2>4. QED  BY <1>1, <1>3, <2>2, <2>3 DEF MoveInv
<1>10. SearchInv
  <2>1. Searched(0)
    BY <1>5, <1>6, <1>8 DEF Searched
  <2>2. 0 \in 0..(Count - 1)
    BY SMT, <1>8
  <2>3. mem = was.mem /\ f = was.f
    BY <1>1
  <2>4. QED  BY <1>3, <2>1, <2>2, <2>3 DEF SearchInv
<1>11. QED  BY <1>4, <1>9, <1>10 DEF BlockInv

\* A step that changes nothing keeps the invariant.
LEMMA BlockRests ==
  ASSUME BlockInv, UNCHANGED <<state, textVars>>
  PROVE  BlockInv'
<1>1. /\ a' = a /\ f' = f /\ reg' = reg /\ alt' = alt /\ pc' = pc /\ sys' = sys /\ mem' = mem /\ mode' = mode
      /\ kind' = kind /\ end' = end /\ was' = was
  BY DEF state, textVars
<1>2. CpuOK' <=> CpuOK
  BY <1>1 DEF CpuOK, AccumulatorOK
<1>3. (\A x : Read(x)' = Read(x)) /\ (\A k : Code(k)' = Code(k)) /\ (\A k : Plus(end, k)' = Plus(end, k))
      /\ (\A k : Plus(pc, k)' = Plus(pc, k)) /\ Last' = Last
  BY <1>1 DEF Read, Code, Plus, Last
<1>4. Read(Plus(end, -2))' = Read(Plus(end, -2))
  BY <1>1 DEF Read, Plus
<1>5. \A n : AtBlock(n)' <=> AtBlock(n)
  BY <1>1, <1>3 DEF AtBlock
<1>6. BlockState'
  BY <1>1, <1>2, <1>3, <1>4, <1>5 DEF BlockInv, BlockState
<1>7. /\ Direction' = Direction /\ (Moves' <=> Moves) /\ BC0' = BC0 /\ HL0' = HL0 /\ DE0' = DE0
      /\ Count' = Count /\ Ahead' = Ahead
      /\ \A k : Source(k)' = Source(k) /\ Target(k)' = Target(k) /\ Arriving(k)' = Arriving(k)
      /\ \A x : Before(x)' = Before(x)
  BY <1>1, <1>3, BlockFixed
<1>8. \A n : Moved(n)' <=> Moved(n)
  <2> SUFFICES ASSUME NEW n  PROVE Moved(n)' <=> Moved(n)
    OBVIOUS
  <2>1. {Target(k)' : k \in 0..(n - 1)} = {Target(k) : k \in 0..(n - 1)}
    BY <1>7
  <2>2. \A k : Read(Target(k))' = Read(Target(k))
    BY <1>1, <1>7 DEF Read
  <2>3. QED  BY <1>1, <1>3, <1>7, <2>1, <2>2 DEF Moved
<1>9. MoveInv'
  BY <1>1, <1>3, <1>7, <1>8 DEF BlockInv, MoveInv
<1>10. \A k : Before(Source(k))' = Before(Source(k))
  BY <1>1, <1>7 DEF Before
<1>11. \A n : Searched(n)' <=> Searched(n)
  BY <1>1, <1>7, <1>10 DEF Searched
<1>12. SearchFindsFirst' <=> SearchFindsFirst
  <2>1. Looked' = Looked
    BY <1>1, <1>7 DEF Looked
  <2>2. Source(Looked)' = Source(Looked) /\ Source(Looked - 1)' = Source(Looked - 1)
    BY <1>1, <1>7, <2>1 DEF Source, Plus
  <2>3. Before(Source(Looked - 1))' = Before(Source(Looked - 1))
    BY <1>1, <2>2 DEF Before
  <2>4. QED  BY <1>1, <1>7, <1>10, <2>1, <2>2, <2>3 DEF SearchFindsFirst, Finished
<1>13. SearchInv'
  BY <1>1, <1>7, <1>11, <1>12 DEF BlockInv, SearchInv
<1>14. QED  BY <1>6, <1>9, <1>13 DEF BlockInv

\* What has been moved or searched when the instruction is left is what was promised.
LEMMA BlockPromise ==
  ASSUME BlockInv
  PROVE  BlockIsExact
<1>1. BlockState /\ MoveInv /\ SearchInv
  BY DEF BlockInv
<1>2. ASSUME pc = end, Moves
      PROVE  /\ \A k \in 0..(BC0 - 1) : Read(Target(k)) = Arriving(k)
             /\ \A x \in DOMAIN mem : x \notin {Target(k) : k \in 0..(BC0 - 1)} => Read(x) = Before(x)
             /\ reg["HL"] = Source(BC0) /\ reg["DE"] = Target(BC0) /\ reg["BC"] = 0
             /\ f \cap {"S", "Z", "C", "P"} = was.f \cap {"S", "Z", "C"}
  <2>1. Moved(BC0) /\ "P" \notin f
    BY <1>1, <1>2 DEF MoveInv
  <2>2. BC0 - BC0 = 0
    <3>1. BC0 \in Int
      BY <1>1, InWord DEF BlockState, BC0, Pairs
    <3>2. QED  BY SMT, <3>1
  <2>3. QED  BY <2>1, <2>2 DEF Moved
<1>3. MoveIsExact
  BY <1>2 DEF MoveIsExact, Finished
<1>4. SearchFindsFirst
  BY <1>1 DEF SearchInv, SearchFindsFirst, Finished
<1>5. QED  BY <1>3, <1>4 DEF BlockIsExact

\* From any registers and memory, in either direction, with any count and any overlap
\* of source and destination, a block instruction that is repeated until it is left has
\* moved or searched the block it promises (qkz80.cc, cases b0, b1, b8 and b9), as long
\* as no byte is moved onto the instruction itself.
THEOREM BlocksAreExact == AnyBlockSpec => []BlockIsExact
<1>1. AnyBlockInit => BlockInv
  BY BlockBegins
<1>2. BlockInv /\ [Continues]_<<state, textVars>> => BlockInv'
  <2> SUFFICES ASSUME BlockInv, [Continues]_<<state, textVars>>  PROVE BlockInv'
    OBVIOUS
  <2>1. CASE Continues /\ Moves
    BY <2>1, MoveStep
  <2>2. CASE Continues /\ ~Moves
    BY <2>2, SearchStep
  <2>3. CASE UNCHANGED <<state, textVars>>
    BY <2>3, BlockRests
  <2>4. QED  BY <2>1, <2>2, <2>3
<1>3. BlockInv => BlockIsExact
  BY BlockPromise
<1>4. QED  BY <1>1, <1>2, <1>3, PTL DEF AnyBlockSpec

-----------------------------------------------------------------------------
(* A single operation on A, and what its flags say of the numbers            *)

\* S and Z of a byte.
LEMMA SignZeroExact ==
  ASSUME NEW r \in Byte
  PROVE  /\ "S" \in SignZero(r) <=> r >= 128
         /\ "Z" \in SignZero(r) <=> r = 0
<1>1. Bit(r, 7) = 1 <=> r >= 128
  BY NibbleAndSign
<1>2. QED  BY <1>1 DEF SignZero, When

\* What the flags g say of x + y + c, and of x - y - c; INR and DCR keep C.
SaySum(g, x, y, c) ==
  /\ "Z" \in g <=> (x + y + c) % 256 = 0
  /\ "S" \in g <=> (x + y + c) % 256 >= 128
  /\ "H" \in g <=> (x % 16) + (y % 16) + c > 15
  /\ mode = "z80" =>
       "N" \notin g /\ ("P" \in g <=> Signed(x) + Signed(y) + c \notin -128..127)

SayDifference(g, x, y, c) ==
  /\ "Z" \in g <=> (x - y - c) % 256 = 0
  /\ "S" \in g <=> (x - y - c) % 256 >= 128
  /\ mode = "z80" =>
       /\ "H" \in g <=> x % 16 < (y % 16) + c
       /\ "N" \in g
       /\ "P" \in g <=> Signed(x) - Signed(y) - c \notin -128..127
  /\ mode # "z80" => ("H" \in g <=> x % 16 >= (y % 16) + c)

\* The flags of an addition say what the sum of the numbers is like.
LEMMA SumFlagsExact ==
  ASSUME NEW x \in Byte, NEW y \in Byte, NEW c \in {0, 1}
  PROVE  /\ SaySum(SumFlags(x, y, c), x, y, c)
         /\ "C" \in SumFlags(x, y, c) <=> x + y + c > 255
<1> DEFINE s == AddBits(8, x, y, c)
           g == SumFlags(x, y, c)
           t == x + y + c
           q == (x + y + c) % 256
           w == SignZero(s.r) \cup XY(s.r) \cup When("C", s.c = 1) \cup When("H", s.h = 1)
                  \cup Overflow(s.v = 1, q)
<1>1. /\ s.r = t % 256 /\ s.r \in Byte
      /\ s.c = 1 <=> t > 255
      /\ s.h = 1 <=> (x % 16) + (y % 16) + c > 15
      /\ s.v = 1 <=> Signed(x) + Signed(y) + c \notin -128..127
  <2>1. SumOf(s, x, y, c)
    BY Zenon, SumOfBytes
  <2>2. QED  BY Zenon, <2>1 DEF SumOf
<1>2. g = Fix(w)
  BY DEF SumFlags
<1> HIDE DEF g, s, q
<1>3. /\ "S" \in w <=> "S" \in SignZero(s.r)
      /\ "Z" \in w <=> "Z" \in SignZero(s.r)
      /\ "H" \in w <=> s.h = 1
      /\ "C" \in w <=> s.c = 1
      /\ "N" \notin w
      /\ mode = "z80" => ("P" \in w <=> s.v = 1)
  BY DEF SignZero, XY, Overflow, Parity, When
<1> HIDE DEF w, t
<1>4. /\ "S" \in g <=> "S" \in w
      /\ "Z" \in g <=> "Z" \in w
      /\ "H" \in g <=> "H" \in w
      /\ "C" \in g <=> "C" \in w
      /\ mode = "z80" => ("N" \in g <=> "N" \in w) /\ ("P" \in g <=> "P" \in w)
  BY <1>2 DEF Fix
<1>5. ("S" \in SignZero(s.r) <=> s.r >= 128) /\ ("Z" \in SignZero(s.r) <=> s.r = 0)
  BY <1>1, SignZeroExact
<1>6. QED  BY <1>1, <1>3, <1>4, <1>5 DEF g, t, SaySum

\* Bit 4 of a difference is off by the borrow of the low nibbles: this is how the
\* 8080 half carry is found.
LEMMA HalfOfDifference ==
  ASSUME NEW x \in Byte, NEW y \in Byte, NEW c \in {0, 1}
  PROVE  LET q == (x - y - c) % 256
         IN  Xor(Bit(x, 4), Xor(Bit(y, 4), Bit(q, 4))) = 0 <=> x % 16 >= (y % 16) + c
<1> DEFINE q == (x - y - c) % 256
<1>1. /\ x \in Int /\ 0 <= x /\ x <= 255 /\ y \in Int /\ 0 <= y /\ y <= 255
      /\ c \in Int /\ 0 <= c /\ c <= 1
  BY InByte
<1>2. q \in Int /\ 0 <= q /\ q <= 255 /\ (q = x - y - c \/ q = x - y - c + 256)
  BY SMT, <1>1
<1> HIDE DEF q
<1>3. \A v \in Int : 0 <= v /\ v <= 255 =>
        \E h \in Int : v = 32 * h + 16 * Bit(v, 4) + (v % 16)
  <2> SUFFICES ASSUME NEW v \in Int, 0 <= v, v <= 255
               PROVE  \E h \in Int : v = 32 * h + 16 * Bit(v, 4) + (v % 16)
    OBVIOUS
  <2>1. Bit(v, 4) = (v \div 16) % 2
    BY Powers DEF Bit
  <2>2. v = 32 * (v \div 32) + 16 * ((v \div 16) % 2) + (v % 16) /\ v \div 32 \in Int
    BY SMT
  <2>3. QED  BY Zenon, <2>1, <2>2
<1>4. PICK hx \in Int : x = 32 * hx + 16 * Bit(x, 4) + (x % 16)
  BY <1>1, <1>3
<1>5. PICK hy \in Int : y = 32 * hy + 16 * Bit(y, 4) + (y % 16)
  BY <1>1, <1>3
<1>6. PICK hq \in Int : q = 32 * hq + 16 * Bit(q, 4) + (q % 16)
  BY <1>2, <1>3
<1>7. Bit(x, 4) \in {0, 1} /\ Bit(y, 4) \in {0, 1} /\ Bit(q, 4) \in {0, 1}
  <2>1. 4 \in 0..7
    BY SMT
  <2>2. QED  BY <1>1, <1>2, <2>1, BitIsBit
<1> DEFINE bx == Bit(x, 4)
           by == Bit(y, 4)
           bq == Bit(q, 4)
           lx == x % 16
           ly == y % 16
           lq == q % 16
<1>8. /\ lx \in Int /\ 0 <= lx /\ lx <= 15 /\ ly \in Int /\ 0 <= ly /\ ly <= 15
      /\ lq \in Int /\ 0 <= lq /\ lq <= 15
  BY SMT, <1>1, <1>2
<1>9. /\ bx \in {0, 1} /\ by \in {0, 1} /\ bq \in {0, 1}
      /\ x = 32 * hx + 16 * bx + lx /\ y = 32 * hy + 16 * by + ly /\ q = 32 * hq + 16 * bq + lq
  BY <1>4, <1>5, <1>6, <1>7
<1> HIDE DEF bx, by, bq, lx, ly, lq
<1>10. Xor(bx, Xor(by, bq)) = 0 <=> lx >= ly + c
  <2>1. \E k \in Int : 16 * (bx - by - bq) + (lx - ly - c - lq) = 32 * k
    <3> DEFINE k == hy + hq - hx
    <3>1. k \in Int /\ k - 8 \in Int
      OBVIOUS
    <3>2. \/ 16 * (bx - by - bq) + (lx - ly - c - lq) = 32 * k
          \/ 16 * (bx - by - bq) + (lx - ly - c - lq) = 32 * (k - 8)
      BY SMT, <1>1, <1>2, <1>8, <1>9
    <3> HIDE DEF k
    <3>3. QED  BY <3>1, <3>2
  <2>2. PICK k \in Int : 16 * (bx - by - bq) + (lx - ly - c - lq) = 32 * k
    BY <2>1
  <2>3. \/ lx - ly - c - lq = 0 /\ bx - by - bq = 2 * k
        \/ lx - ly - c - lq = -16 /\ bx - by - bq = 2 * k + 1
    BY SMT, <1>1, <1>8, <1>9, <2>2
  <2>4. CASE lx - ly - c - lq = 0 /\ bx - by - bq = 2 * k
    <3>1. lx >= ly + c
      BY SMT, <1>1, <1>8, <2>4
    <3>2. Xor(bx, Xor(by, bq)) = 0
      BY SMT, <1>9, <2>4 DEF Xor
    <3>3. QED  BY <3>1, <3>2
  <2>5. CASE lx - ly - c - lq = -16 /\ bx - by - bq = 2 * k + 1
    <3>1. ~(lx >= ly + c)
      BY SMT, <1>1, <1>8, <2>5
    <3>2. Xor(bx, Xor(by, bq)) # 0
      BY SMT, <1>9, <2>5 DEF Xor
    <3>3. QED  BY <3>1, <3>2
  <2>6. QED  BY <2>3, <2>4, <2>5
<1>11. QED  BY <1>10 DEF bx, by, bq, lx, ly, q

\* The flags of a subtraction say what the difference of the numbers is like.
LEMMA DiffFlagsExact ==
  ASSUME NEW x \in Byte, NEW y \in Byte, NEW c \in {0, 1}
  PROVE  /\ SayDifference(DiffFlags(x, y, c), x, y, c)
         /\ "C" \in DiffFlags(x, y, c) <=> x < y + c
<1> DEFINE d == SubBits(8, x, y, c)
           g == DiffFlags(x, y, c)
           t == x - y - c
           q == (x - y - c) % 256
           b == Xor(Bit(x, 4), Xor(Bit(y, 4), Bit(q, 4)))
           h == IF mode = "z80" THEN d.h = 1 ELSE b = 0
           w == SignZero(d.r) \cup XY(d.r) \cup When("C", d.c = 1) \cup When("H", h)
                  \cup {"N"} \cup Overflow(d.v = 1, q)
<1>1. /\ d.r = t % 256 /\ d.r \in Byte
      /\ d.c = 1 <=> x < y + c
      /\ d.h = 1 <=> x % 16 < (y % 16) + c
      /\ d.v = 1 <=> Signed(x) - Signed(y) - c \notin -128..127
  <2>1. DifferenceOf(d, x, y, c)
    BY Zenon, DifferenceOfBytes
  <2>2. QED  BY Zenon, <2>1 DEF DifferenceOf
<1>2. b = 0 <=> x % 16 >= (y % 16) + c
  BY SMT, HalfOfDifference
<1>3. g = Fix(w)
  BY DEF DiffFlags
<1> HIDE DEF b
<1>4. (mode = "z80" => (h <=> d.h = 1)) /\ (mode # "z80" => (h <=> b = 0))
  OBVIOUS
<1> HIDE DEF g, d, q, h
<1>5. /\ "S" \in w <=> "S" \in SignZero(d.r)
      /\ "Z" \in w <=> "Z" \in SignZero(d.r)
      /\ "H" \in w <=> h
      /\ "C" \in w <=> d.c = 1
      /\ "N" \in w
      /\ mode = "z80" => ("P" \in w <=> d.v = 1)
  BY DEF SignZero, XY, Overflow, Parity, When
<1> HIDE DEF w, t
<1>6. /\ "S" \in g <=> "S" \in w
      /\ "Z" \in g <=> "Z" \in w
      /\ "H" \in g <=> "H" \in w
      /\ "C" \in g <=> "C" \in w
      /\ mode = "z80" => ("N" \in g <=> "N" \in w) /\ ("P" \in g <=> "P" \in w)
  BY <1>3 DEF Fix
<1>7. ("S" \in SignZero(d.r) <=> d.r >= 128) /\ ("Z" \in SignZero(d.r) <=> d.r = 0)
  BY <1>1, SignZeroExact
<1>8. QED  BY <1>1, <1>2, <1>4, <1>5, <1>6, <1>7 DEF g, t, SayDifference

\* The flags of INR and DCR say what one more and one less is like.
LEMMA StepFlagsExact ==
  ASSUME NEW v \in Byte
  PROVE  /\ Incremented(v).r = (v + 1) % 256 /\ SaySum(Incremented(v).f, v, 1, 0)
         /\ Decremented(v).r = (v - 1) % 256 /\ SayDifference(Decremented(v).f, v, 1, 0)
         /\ "C" \in Incremented(v).f <=> "C" \in f
         /\ "C" \in Decremented(v).f <=> "C" \in f
<1>1. v \in Int /\ 0 <= v /\ v <= 255
  BY InByte
<1>2. \A r \in Byte, h, o \in BOOLEAN, up \in BOOLEAN :
        LET g == StepFlags(r, h, o, up)
        IN  /\ "Z" \in g <=> r = 0
            /\ "S" \in g <=> r >= 128
            /\ "H" \in g <=> h
            /\ "C" \in g <=> "C" \in f
            /\ mode = "z80" => ("N" \in g <=> ~up) /\ ("P" \in g <=> o)
  <2> SUFFICES ASSUME NEW r \in Byte, NEW h \in BOOLEAN, NEW o \in BOOLEAN, NEW up \in BOOLEAN
               PROVE  LET g == StepFlags(r, h, o, up)
                      IN  /\ "Z" \in g <=> r = 0
                          /\ "S" \in g <=> r >= 128
                          /\ "H" \in g <=> h
                          /\ "C" \in g <=> "C" \in f
                          /\ mode = "z80" => ("N" \in g <=> ~up) /\ ("P" \in g <=> o)
    OBVIOUS
  <2> DEFINE g == StepFlags(r, h, o, up)
             w == (f \cap {"C"}) \cup SignZero(r) \cup XY(r) \cup When("H", h) \cup Overflow(o, r)
                    \cup When("N", ~up)
  <2>1. g = Fix(w)
    BY DEF StepFlags
  <2>2. ("S" \in SignZero(r) <=> r >= 128) /\ ("Z" \in SignZero(r) <=> r = 0)
    BY SignZeroExact
  <2> HIDE DEF g
  <2>3. /\ "S" \in w <=> "S" \in SignZero(r)
        /\ "Z" \in w <=> "Z" \in SignZero(r)
        /\ "H" \in w <=> h
        /\ "C" \in w <=> "C" \in f
        /\ mode = "z80" => ("N" \in w <=> ~up) /\ ("P" \in w <=> o)
    BY DEF SignZero, XY, Overflow, Parity, When
  <2> HIDE DEF w
  <2>4. /\ "S" \in g <=> "S" \in w
        /\ "Z" \in g <=> "Z" \in w
        /\ "H" \in g <=> "H" \in w
        /\ "C" \in g <=> "C" \in w
        /\ mode = "z80" => ("N" \in g <=> "N" \in w) /\ ("P" \in g <=> "P" \in w)
    BY <2>1 DEF Fix
  <2>5. QED  BY <2>2, <2>3, <2>4 DEF g
<1>3. Signed(1) = 1 /\ 1 % 16 = 1
  BY SMT DEF Signed
<1>4. LET r == (v + 1) % 256
          g == Incremented(v).f
      IN  /\ Incremented(v).r = r
          /\ "Z" \in g <=> r = 0
          /\ "S" \in g <=> r >= 128
          /\ "H" \in g <=> (v % 16) + (1 % 16) + 0 > 15
          /\ "C" \in g <=> "C" \in f
          /\ mode = "z80" =>
               "N" \notin g /\ ("P" \in g <=> Signed(v) + Signed(1) + 0 \notin -128..127)
  <2> DEFINE r == (v + 1) % 256
             g == Incremented(v).f
             h == r % 16 = 0
             o == r = 128
  <2>1. r \in Byte
    BY SMT, <1>1, InByte
  <2>2. h <=> (v % 16) + 1 > 15
    BY SMT, <1>1
  <2>3. o <=> Signed(v) + 1 \notin -128..127
    BY SMT, <1>1 DEF Signed
  <2>4. Incremented(v).r = r /\ g = StepFlags(r, h, o, TRUE)
    BY DEF Incremented, Result
  <2>5. h \in BOOLEAN /\ o \in BOOLEAN /\ TRUE \in BOOLEAN
    OBVIOUS
  <2> HIDE DEF r, g, h, o
  <2>6. /\ "Z" \in g <=> r = 0
        /\ "S" \in g <=> r >= 128
        /\ "H" \in g <=> h
        /\ "C" \in g <=> "C" \in f
        /\ mode = "z80" => ("N" \in g <=> ~TRUE) /\ ("P" \in g <=> o)
    BY Zenon, <1>2, <2>1, <2>4, <2>5
  <2>7. (v % 16) + 1 + 0 = (v % 16) + 1 /\ Signed(v) + 1 + 0 = Signed(v) + 1
    BY SMT, <1>1 DEF Signed
  <2>8. QED  BY <1>3, <2>2, <2>3, <2>4, <2>6, <2>7 DEF r, g
<1>5. LET r == (v - 1) % 256
          g == Decremented(v).f
      IN  /\ Decremented(v).r = r
          /\ "Z" \in g <=> r = 0
          /\ "S" \in g <=> r >= 128
          /\ "C" \in g <=> "C" \in f
          /\ mode = "z80" =>
               /\ "H" \in g <=> v % 16 < (1 % 16) + 0
               /\ "N" \in g
               /\ "P" \in g <=> Signed(v) - Signed(1) - 0 \notin -128..127
          /\ mode # "z80" => ("H" \in g <=> v % 16 >= (1 % 16) + 0)
  <2> DEFINE r == (v - 1) % 256
             g == Decremented(v).f
             b == r % 16 = 15
             h == b = (mode = "z80")
             o == r = 127
  <2>1. r \in Byte
    BY SMT, <1>1, InByte
  <2>2. b <=> v % 16 < 1
    BY SMT, <1>1
  <2>3. o <=> Signed(v) - 1 \notin -128..127
    BY SMT, <1>1 DEF Signed
  <2>4. Decremented(v).r = r /\ g = StepFlags(r, h, o, FALSE)
    BY DEF Decremented, Result
  <2>5. h \in BOOLEAN /\ o \in BOOLEAN /\ FALSE \in BOOLEAN /\ b \in BOOLEAN
    OBVIOUS
  <2> HIDE DEF r, g, o, b
  <2>6. (mode = "z80" => (h <=> b)) /\ (mode # "z80" => (h <=> ~b))
    BY <2>5
  <2> HIDE DEF h
  <2>7. /\ "Z" \in g <=> r = 0
        /\ "S" \in g <=> r >= 128
        /\ "H" \in g <=> h
        /\ "C" \in g <=> "C" \in f
        /\ mode = "z80" => ("N" \in g <=> ~FALSE) /\ ("P" \in g <=> o)
    BY Zenon, <1>2, <2>1, <2>4, <2>5
  <2>8. 1 + 0 = 1 /\ Signed(v) - 1 - 0 = Signed(v) - 1 /\ (~(v % 16 < 1) <=> v % 16 >= 1)
    BY SMT, <1>1 DEF Signed
  <2>9. ASSUME mode = "z80"
        PROVE  /\ "H" \in g <=> v % 16 < (1 % 16) + 0
               /\ "N" \in g
               /\ "P" \in g <=> Signed(v) - Signed(1) - 0 \notin -128..127
    <3>1. ("H" \in g <=> b) /\ "N" \in g /\ ("P" \in g <=> o)
      BY <2>6, <2>7, <2>9
    <3>2. (v % 16 < (1 % 16) + 0 <=> v % 16 < 1) /\ Signed(v) - Signed(1) - 0 = Signed(v) - 1
      BY <1>3, <2>8
    <3>3. QED  BY <2>2, <2>3, <3>1, <3>2
  <2>10. ASSUME mode # "z80"
         PROVE  "H" \in g <=> v % 16 >= (1 % 16) + 0
    <3>1. "H" \in g <=> ~b
      BY <2>6, <2>7, <2>10
    <3>2. v % 16 >= (1 % 16) + 0 <=> v % 16 >= 1
      BY <1>3, <2>8
    <3>3. QED  BY <2>2, <2>8, <3>1, <3>2
  <2>11. QED  BY Zenon, <2>4, <2>7, <2>9, <2>10 DEF r, g
<1>6. (v + 1 + 0) % 256 = (v + 1) % 256 /\ (v - 1 - 0) % 256 = (v - 1) % 256
  BY SMT, <1>1
<1>7. Incremented(v).r = (v + 1) % 256 /\ SaySum(Incremented(v).f, v, 1, 0)
  BY <1>4, <1>6 DEF SaySum
<1>8. Decremented(v).r = (v - 1) % 256 /\ SayDifference(Decremented(v).f, v, 1, 0)
  BY <1>5, <1>6 DEF SayDifference
<1>9. QED  BY <1>4, <1>5, <1>7, <1>8

\* The instruction at the beginning of such a program.
LEMMA NumberDecoded ==
  ASSUME AnyNumberInit, Execute
  PROVE  LET i == Instruction
         IN  /\ i.len = 1 /\ i.hl = "HL" /\ Code(0) = Read(TextAt)
             /\ Code(0) \in {198, 206, 214, 222, 254} => AluImmediate(i)
             /\ Code(0) \in {60, 61} => StepByte(i) /\ i.y = 7
             /\ Code(0) = 198 => i.y = 0
             /\ Code(0) = 206 => i.y = 1
             /\ Code(0) = 214 => i.y = 2
             /\ Code(0) = 222 => i.y = 3
             /\ Code(0) = 254 => i.y = 7
             /\ Code(0) = 60 => i.z = 4
             /\ Code(0) = 61 => i.z = 5
<1> DEFINE i == Instruction
           o == Opcode("main", 0, "HL", 0)
           op == Code(0)
<1>0. /\ CpuOK /\ MemoryOK(mem) /\ pc = TextAt /\ Read(TextAt) \in {198, 206, 214, 222, 254, 60, 61}
  BY StateOK DEF AnyNumberInit
<1>1. op = Read(TextAt)
  <2>1. pc \in Int /\ 0 <= pc /\ pc <= 65535
    BY <1>0, InWord DEF CpuOK
  <2>2. Plus(pc, 0) = pc
    BY SMT, <2>1 DEF Plus
  <2>3. QED  BY <1>0, <2>2 DEF Code
<1>2. op \in {198, 206, 214, 222, 254, 60, 61}
  BY <1>0, <1>1
<1>3. IndexPrefixes = 0
  <2>1. CASE mode = "8080"
    BY <2>1, PrefixCount
  <2>2. CASE mode # "8080"
    <3>1. Prefixed(0)
      <4>1. Code(0) \notin {221, 253}
        BY <1>2
      <4>2. \A k \in 0..(0 - 1) : FALSE
        BY SMT
      <4>3. QED  BY <4>1, <4>2 DEF Prefixed
    <3>2. IndexPrefixes \in 0..4 /\ Prefixed(IndexPrefixes) /\ 0 \in 0..4
      BY SMT, <2>2, PrefixCount
    <3>3. QED  BY <3>1, <3>2, PrefixesUnique
  <2>3. QED  BY <2>1, <2>2
<1>4. i = o
  <2>1. IndexPair(0) = "HL"
    BY DEF IndexPair
  <2>2. Code(0) # 203 /\ Code(0) # 237
    BY <1>2
  <2> HIDE DEF i, o
  <2> DEFINE hl == IndexPair(0)
  <2> HIDE DEF hl
  <2>3. i = CASE 0 > 0 /\ Code(0) = 203 ->
                    (IF Code(0 + 2) = 237 THEN Opcode("ED", 0 + 3, hl, Plus(reg[hl], Signed(Code(0 + 1))))
                     ELSE IF Code(0 + 2) = 203 THEN Opcode("CB", 0 + 3, hl, Plus(reg[hl], Signed(Code(0 + 1))))
                     ELSE Opcode("CB", 0 + 2, hl, Plus(reg[hl], Signed(Code(0 + 1)))))
              [] 0 = 0 /\ Code(0) = 203 -> Opcode(IF mode = "8080" THEN "none" ELSE "CB", 1, hl, reg["HL"])
              [] Code(0) = 237 -> Opcode(IF mode = "8080" THEN "none" ELSE "ED", 0 + 1, hl, 0)
              [] OTHER -> Opcode("main", 0, hl, 0)
    BY Zenon, <1>3 DEF Instruction, i, hl
  <2>4. i = Opcode("main", 0, hl, 0)
    BY <2>2, <2>3
  <2>5. QED  BY <2>1, <2>4 DEF o, hl
<1>5. /\ o.x \in 0..3 /\ o.y \in 0..7 /\ o.z \in 0..7 /\ o.hl = "HL" /\ o.len = 0 + 1 /\ o.table = "main"
      /\ op = (64 * o.x) + (8 * o.y) + o.z
  BY <1>0, OpcodeOK
<1> HIDE DEF i, o
<1>6. OctalDigits(i)
  BY <1>4, <1>5 DEF OctalDigits
<1> HIDE DEF op
<1>7. /\ op = 198 => i.x = 3 /\ i.y = 0 /\ i.z = 6
      /\ op = 206 => i.x = 3 /\ i.y = 1 /\ i.z = 6
      /\ op = 214 => i.x = 3 /\ i.y = 2 /\ i.z = 6
      /\ op = 222 => i.x = 3 /\ i.y = 3 /\ i.z = 6
      /\ op = 254 => i.x = 3 /\ i.y = 7 /\ i.z = 6
      /\ op = 60 => i.x = 0 /\ i.y = 7 /\ i.z = 4
      /\ op = 61 => i.x = 0 /\ i.y = 7 /\ i.z = 5
  <2> DEFINE x == o.x
             y == o.y
             z == o.z
  <2>1. x \in 0..3 /\ y \in 0..7 /\ z \in 0..7 /\ op = (64 * x) + (8 * y) + z
    BY <1>5
  <2> HIDE DEF x, y, z
  <2>2. /\ op = 198 => x = 3 /\ y = 0 /\ z = 6
        /\ op = 206 => x = 3 /\ y = 1 /\ z = 6
        /\ op = 214 => x = 3 /\ y = 2 /\ z = 6
        /\ op = 222 => x = 3 /\ y = 3 /\ z = 6
        /\ op = 254 => x = 3 /\ y = 7 /\ z = 6
        /\ op = 60 => x = 0 /\ y = 7 /\ z = 4
        /\ op = 61 => x = 0 /\ y = 7 /\ z = 5
    BY SMT, <2>1
  <2>3. QED  BY <1>4, <2>2 DEF x, y, z
<1>8. KindOf(i, mode, ConditionCode(i.y, f)) = IF op \in {60, 61} THEN "StepByte" ELSE "AluImmediate"
  <2>1. i.table = "main"
    BY <1>4, <1>5
  <2>2. CASE op \in {60, 61}
    BY <1>7, <2>1, <2>2 DEF KindOf
  <2>3. CASE op \notin {60, 61}
    <3>1. op \in {198, 206, 214, 222, 254}
      BY <1>2, <2>3 DEF op
    <3>2. i.x = 3 /\ i.z = 6
      BY <1>7, <3>1
    <3>3. QED  BY <2>1, <2>3, <3>2 DEF KindOf
  <2>4. QED  BY <2>2, <2>3
<1>9. \/ LoadPair(i) \/ StoreA(i) \/ LoadA(i) \/ StoreDirect(i) \/ LoadDirect(i) \/ LoadByte(i) \/ Move(i)
      \/ StepPair(i) \/ StepByte(i) \/ AddPairs(i) \/ AddWithCarry(i) \/ AluRegister(i)
      \/ AluImmediate(i) \/ AccumulatorOp(i) \/ Negate(i)
      \/ ChangeBits(i) \/ TestBit(i) \/ RotateDigits(i)
      \/ Push(i) \/ Pop(i) \/ PopPsw(i) \/ ExchangeTop(i) \/ LoadSp(i)
      \/ Jump(i) \/ RelativeJump(i) \/ Call(i) \/ CallOrReturnNot(i) \/ Restart(i) \/ Return(i)
      \/ ExchangeDe(i) \/ ExchangeAll(i) \/ ExchangeAf(i)
      \/ MoveBlock(i) \/ SearchBlock(i)
      \/ SetInterruptMode(i) \/ SetIR(i) \/ GetIR(i) \/ Input(i) \/ NoOperation(i)
  BY Zenon DEF Execute, i
<1>10. (op \in {60, 61} => StepByte(i)) /\ (op \notin {60, 61} => AluImmediate(i))
  BY <1>6, <1>8, <1>9, KindOfStep
<1>11. i.len = 1 /\ i.hl = "HL"
  BY SMT, <1>4, <1>5
<1>12. QED  BY <1>1, <1>7, <1>10, <1>11 DEF i, op

\* The state behind the instruction, whose operands are now constants.
LEMMA NumberStep ==
  ASSUME AnyNumberInit, Continues, form' = form
  PROVE  pc' = end' /\ ArithmeticIsExact'
<1>1. /\ Execute /\ UNCHANGED textVars /\ CpuOK /\ CpuOK' /\ mode' = mode /\ MemoryOK(mem)
      /\ pc = TextAt /\ Read(TextAt) \in {198, 206, 214, 222, 254, 60, 61}
      /\ end = Plus(TextAt, IF Read(TextAt) \in {60, 61} THEN 1 ELSE 2)
      /\ was.a = a /\ was.f = f
  <2>1. CpuOK /\ Execute
    BY DEF AnyNumberInit, Continues
  <2>2. CpuOK' /\ mode' = mode /\ MemoryOK(mem)
    BY <2>1, ExecuteTypes, StateOK
  <2>3. QED  BY <2>1, <2>2 DEF AnyNumberInit, Continues
<1>2. was' = was /\ end' = end
  BY <1>1 DEF textVars
<1> DEFINE i == Instruction
<1>3. /\ i.len = 1 /\ i.hl = "HL" /\ Code(0) = Read(TextAt)
      /\ Code(0) \in {198, 206, 214, 222, 254} => AluImmediate(i)
      /\ Code(0) \in {60, 61} => StepByte(i) /\ i.y = 7
      /\ Code(0) = 198 => i.y = 0
      /\ Code(0) = 206 => i.y = 1
      /\ Code(0) = 214 => i.y = 2
      /\ Code(0) = 222 => i.y = 3
      /\ Code(0) = 254 => i.y = 7
      /\ Code(0) = 60 => i.z = 4
      /\ Code(0) = 61 => i.z = 5
  BY <1>1, NumberDecoded
<1> HIDE DEF i
<1>4. PICK op : op = Read(TextAt)
  OBVIOUS
<1>5. PICK x : x = a
  OBVIOUS
<1>6. PICK y : y = IF op \in {60, 61} THEN 1 ELSE Read(Plus(TextAt, 1))
  OBVIOUS
<1>7. PICK c : c = IF op \in {206, 222} /\ "C" \in was.f THEN 1 ELSE 0
  OBVIOUS
<1>8. x \in Byte /\ y \in Byte /\ c \in {0, 1} /\ op \in {198, 206, 214, 222, 254, 60, 61}
  <2>1. 1 \in Byte
    BY SMT, InByte
  <2>2. a \in Byte /\ \A z : Read(z) \in Byte
    BY <1>1, ReadsAreBytes, StateOK
  <2>3. QED  BY <1>1, <1>4, <1>5, <1>6, <1>7, <2>1, <2>2
<1>9. /\ mem' = mem /\ pc' = end'
      /\ op \in {198, 206, 214, 222, 254} =>
           a' = Combined(AluOps[i.y + 1], y).r /\ f' = Combined(AluOps[i.y + 1], y).f
      /\ op = 60 => a' = Incremented(x).r /\ f' = Incremented(x).f
      /\ op = 61 => a' = Decremented(x).r /\ f' = Decremented(x).f
  <2>1. CASE op \in {198, 206, 214, 222, 254}
    <3>1. AluImmediate(i) /\ op \notin {60, 61}
      BY <1>3, <1>4, <2>1
    <3>2. Code(1) = y
      BY <1>1, <1>6, <3>1 DEF Code
    <3>3. i.len + 1 = 2
      BY <1>3
    <3>4. QED  BY <1>1, <1>2, <1>3, <1>4, <2>1, <3>1, <3>2, <3>3 DEF AluImmediate, Accumulates, After
  <2>2. CASE op \in {60, 61}
    <3>1. StepByte(i) /\ i.y = 7 /\ (op = 60 => i.z = 4) /\ (op = 61 => i.z = 5)
      BY <1>3, <1>4, <2>2
    <3>2. Get8(7, i.hl, Address(i)) = x /\ i.len + Extra(i, 7) = 1
      BY <1>3, <1>5 DEF Get8, Extra
    <3>3. SetMem(7, Address(i), IF i.z = 4 THEN Incremented(x).r ELSE Decremented(x).r) = mem
      BY DEF SetMem
    <3>4. QED  BY <1>1, <1>2, <1>4, <2>2, <3>1, <3>2, <3>3 DEF StepByte, Put8, SetMem, After
  <2>3. QED  BY <1>8, <2>1, <2>2
<1>10. ("C" \in f <=> CarryIn = 1) /\ CarryIn \in {0, 1}
  BY DEF CarryIn
<1>11. ASSUME op \in {198, 206}
       PROVE  /\ a' = (x + y + c) % 256 /\ f' = SumFlags(x, y, c)
  <2>1. CASE op = 198
    <3>1. AluOps[i.y + 1] = "add" /\ c = 0
      BY <1>3, <1>4, <1>7, <2>1 DEF AluOps
    <3>2. QED  BY <1>5, <1>9, <2>1, <3>1 DEF Combined, Sum, Result
  <2>2. CASE op = 206
    <3>1. AluOps[i.y + 1] = "adc" /\ c = CarryIn
      BY <1>1, <1>3, <1>4, <1>7, <2>2 DEF AluOps, CarryIn
    <3>2. QED  BY <1>5, <1>9, <2>2, <3>1 DEF Combined, Sum, Result
  <2>3. QED  BY <1>11, <2>1, <2>2
<1>12. ASSUME op \in {214, 222}
       PROVE  /\ a' = (x - y - c) % 256 /\ f' = DiffFlags(x, y, c)
  <2>1. CASE op = 214
    <3>1. AluOps[i.y + 1] = "sub" /\ c = 0
      BY <1>3, <1>4, <1>7, <2>1 DEF AluOps
    <3>2. QED  BY <1>5, <1>9, <2>1, <3>1 DEF Combined, Difference, Result
  <2>2. CASE op = 222
    <3>1. AluOps[i.y + 1] = "sbb" /\ c = CarryIn
      BY <1>1, <1>3, <1>4, <1>7, <2>2 DEF AluOps, CarryIn
    <3>2. QED  BY <1>5, <1>9, <2>2, <3>1 DEF Combined, Difference, Result
  <2>3. QED  BY <1>12, <2>1, <2>2
<1>13. ASSUME op = 254
       PROVE  /\ a' = x /\ c = 0
              /\ f' = Fix((DiffFlags(x, y, 0) \ {"X", "Y"}) \cup XY(y))
  <2>1. AluOps[i.y + 1] = "cmp" /\ c = 0
    BY <1>3, <1>4, <1>7, <1>13 DEF AluOps
  <2>2. QED  BY <1>5, <1>9, <1>13, <2>1 DEF Combined, Comparison, Result
<1> DEFINE g == f'
<1>14. ASSUME op \in {198, 206, 60}
       PROVE  /\ SaySum(g, x, y, c) /\ a' = (x + y + c) % 256
              /\ op \in {198, 206} => ("C" \in g <=> x + y + c > 255)
              /\ op = 60 => ("C" \in g <=> "C" \in f)
  <2>1. CASE op \in {198, 206}
    <3> DEFINE d == SumFlags(x, y, c)
    <3>1. SaySum(d, x, y, c) /\ ("C" \in d <=> x + y + c > 255)
      BY Zenon, <1>8, SumFlagsExact
    <3>2. g = d /\ a' = (x + y + c) % 256
      BY <1>11, <2>1
    <3> HIDE DEF d, g
    <3>3. QED  BY <2>1, <3>1, <3>2
  <2>2. CASE op = 60
    <3>1. y = 1 /\ c = 0
      BY <1>6, <1>7, <2>2
    <3> DEFINE d == Incremented(x).f
    <3>2. SaySum(d, x, 1, 0) /\ ("C" \in d <=> "C" \in f) /\ Incremented(x).r = (x + 1) % 256
      BY Zenon, <1>8, StepFlagsExact
    <3>3. g = d /\ a' = Incremented(x).r
      BY <1>9, <2>2
    <3> HIDE DEF d, g
    <3>4. x + 1 + 0 = x + 1
      BY SMT, <1>8, InByte
    <3>5. QED  BY <2>2, <3>1, <3>2, <3>3, <3>4
  <2>3. QED  BY <1>14, <2>1, <2>2
<1>15. ASSUME op \in {214, 222, 254, 61}
       PROVE  /\ SayDifference(g, x, y, c) /\ a' = IF op = 254 THEN x ELSE (x - y - c) % 256
              /\ op # 61 => ("C" \in g <=> x < y + c)
              /\ op = 61 => ("C" \in g <=> "C" \in f)
  <2>1. CASE op \in {214, 222}
    <3> DEFINE d == DiffFlags(x, y, c)
    <3>1. SayDifference(d, x, y, c) /\ ("C" \in d <=> x < y + c)
      BY Zenon, <1>8, DiffFlagsExact
    <3>2. g = d /\ a' = (x - y - c) % 256
      BY <1>12, <2>1
    <3> HIDE DEF d, g
    <3>3. QED  BY <2>1, <3>1, <3>2
  <2>2. CASE op = 254
    <3> DEFINE d == DiffFlags(x, y, c)
    <3>1. g = Fix((d \ {"X", "Y"}) \cup XY(y)) /\ a' = x
      BY <1>13, <2>2
    <3> HIDE DEF g
    <3>2. SayDifference(d, x, y, c) /\ ("C" \in d <=> x < y + c)
      BY Zenon, <1>8, DiffFlagsExact
    <3> HIDE DEF d
    <3>3. /\ "Z" \in g <=> "Z" \in d
          /\ "S" \in g <=> "S" \in d
          /\ "C" \in g <=> "C" \in d
          /\ "H" \in g <=> "H" \in d
          /\ mode = "z80" => ("N" \in g <=> "N" \in d) /\ ("P" \in g <=> "P" \in d)
      BY <3>1 DEF Fix, XY, When
    <3>4. SayDifference(g, x, y, c) <=> SayDifference(d, x, y, c)
      BY <3>3 DEF SayDifference
    <3>5. QED  BY <2>2, <3>1, <3>2, <3>3, <3>4
  <2>3. CASE op = 61
    <3>1. y = 1 /\ c = 0
      BY <1>6, <1>7, <2>3
    <3> DEFINE d == Decremented(x).f
    <3>2. SayDifference(d, x, 1, 0) /\ ("C" \in d <=> "C" \in f) /\ Decremented(x).r = (x - 1) % 256
      BY Zenon, <1>8, StepFlagsExact
    <3>3. g = d /\ a' = Decremented(x).r
      BY <1>9, <2>3
    <3> HIDE DEF d, g
    <3>4. x - 1 - 0 = x - 1
      BY SMT, <1>8, InByte
    <3>5. QED  BY <2>3, <3>1, <3>2, <3>3, <3>4
  <2>4. QED  BY <1>15, <2>1, <2>2, <2>3
<1> HIDE DEF g
<1>16. /\ Read(TextAt)' = op /\ was'.a = x /\ was'.f = was.f
       /\ y = IF op \in {60, 61} THEN 1 ELSE Read(Plus(TextAt, 1))'
       /\ ("C" \in was.f <=> "C" \in f)
  BY <1>1, <1>2, <1>4, <1>5, <1>6, <1>9 DEF Read, Plus
<1>17. op \in {198, 206, 60} => SumIsExact(x, y, c)'
  BY <1>1, <1>14 DEF SumIsExact, Zero, SaySum, g
<1>18. op \in {214, 222, 254, 61} => DifferenceIsExact(x, y, c)'
  BY <1>1, <1>15 DEF DifferenceIsExact, Zero, SayDifference, g
<1>19. ArithmeticIsExact'
  BY <1>2, <1>7, <1>14, <1>15, <1>16, <1>17, <1>18 DEF ArithmeticIsExact, g
<1>20. QED  BY <1>9, <1>19

\* ADD, ADC, SUB, SBB and CMP with any operand, INR and DCR, in both modes, with any
\* A, flags, registers and memory: the byte and the flags S, Z, H, C and, on a Z80, P/V
\* and N are those of the sum or the difference of the numbers (qkz80_reg_set.cc,
\* add8_bitwise and sub8_bitwise, and set_flags_from_sum8 to set_zspa_from_inr).
THEOREM OperationsAreExact == AnyNumberSpec => []ArithmeticIsExact
<1> DEFINE Inv == (AnyNumberInit /\ pc # end) \/ (pc = end /\ ArithmeticIsExact)
<1>1. AnyNumberInit => Inv
  <2> SUFFICES ASSUME AnyNumberInit  PROVE pc # end
    OBVIOUS
  <2>1. pc \in Int /\ 0 <= pc /\ pc <= 65535 /\ pc = TextAt
    BY InWord DEF AnyNumberInit, CpuOK
  <2>2. pc # Plus(pc, 1) /\ pc # Plus(pc, 2)
    BY SMT, <2>1 DEF Plus
  <2>3. QED  BY <2>1, <2>2 DEF AnyNumberInit
<1>2. Inv /\ [Continues /\ form' = form]_<<state, textVars, form>> => Inv'
  <2> SUFFICES ASSUME Inv, [Continues /\ form' = form]_<<state, textVars, form>>  PROVE Inv'
    OBVIOUS
  <2>1. CASE Continues /\ form' = form
    <3>1. AnyNumberInit
      BY <2>1 DEF Continues
    <3>2. QED  BY <2>1, <3>1, NumberStep
  <2>2. CASE UNCHANGED <<state, textVars, form>>
    <3>1. /\ a' = a /\ f' = f /\ reg' = reg /\ alt' = alt /\ pc' = pc /\ sys' = sys /\ mem' = mem
          /\ mode' = mode /\ kind' = kind /\ end' = end /\ was' = was /\ form' = form
      BY <2>2 DEF state, textVars
    <3>2. CpuOK' <=> CpuOK
      BY <3>1 DEF CpuOK, AccumulatorOK
    <3>3. \A z : Read(z)' = Read(z)
      BY <3>1 DEF Read
    <3>4. AnyNumberInit' <=> AnyNumberInit
      BY <3>1, <3>2, <3>3 DEF AnyNumberInit, Plus
    <3>5. ArithmeticIsExact' <=> ArithmeticIsExact
      <4>1. \A x, y, c : SumIsExact(x, y, c)' <=> SumIsExact(x, y, c)
        BY <3>1 DEF SumIsExact, Zero
      <4>2. \A x, y, c : DifferenceIsExact(x, y, c)' <=> DifferenceIsExact(x, y, c)
        BY <3>1 DEF DifferenceIsExact, Zero
      <4>3. QED  BY <3>1, <3>3, <4>1, <4>2 DEF ArithmeticIsExact, Finished
    <3>6. QED  BY <3>1, <3>4, <3>5
  <2>3. QED  BY <2>1, <2>2
<1>3. Inv => ArithmeticIsExact
  BY DEF ArithmeticIsExact, Finished
<1>4. QED  BY <1>1, <1>2, <1>3, PTL DEF AnyNumberSpec
=============================================================================
