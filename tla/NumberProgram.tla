---------------------------- MODULE NumberProgram ----------------------------
(***************************************************************************)
(* Programs that calculate.  One has a single instruction on A; the others *)
(* take their operands from memory, at Cells, and leave the result there:  *)
(* sums and differences of packed decimals, with DAA, and of two words,    *)
(* word by word with the carry, and products, of two bytes by shifting and *)
(* adding and of a word by adding it as often as a byte counts.            *)
(***************************************************************************)
EXTENDS Program

CONSTANTS
  Cells,
  Operands,      \* second operands of the single instruction
  Digits,        \* the digits of the decimals
  Corners,       \* the words of a wide number; a product's factors are their low bytes
  Multipliers    \* what a product's first factor also takes

ASSUME NumberAssumption ==
  /\ Cells \in Word /\ Operands \subseteq Byte /\ Digits \subseteq 0..9
  /\ Corners \subseteq Word /\ Multipliers \subseteq Byte

VARIABLE form     \* what the program calculates, or "none"

\* The cells of the operands' and the result's low and high words.
XAt(i) == Plus(Cells, 2 * i)
YAt(i) == Plus(Cells, 4 + 2 * i)
ZAt(i) == Plus(Cells, 8 + 2 * i)

CellAt(x) == <<Lo(x), Hi(x)>>
LoadHl(x)  == <<42>> \o CellAt(x)              \* LHLD x
LoadDe(x)  == <<237, 91>> \o CellAt(x)         \* LD DE,(x)
StoreHl(x) == <<34>> \o CellAt(x)              \* SHLD x

\* LDA y, MOV B,A, LDA x, the operation with B, DAA, STA z, on byte i.
DecimalByte(op, i) ==
  <<58>> \o CellAt(Plus(YAt(0), i)) \o <<71, 58>> \o CellAt(Plus(XAt(0), i))
    \o <<op, 39, 50>> \o CellAt(Plus(ZAt(0), i))

TextOf(op) ==
  CASE op = "decimal add" -> DecimalByte(128, 0) \o DecimalByte(136, 1)    \* ADD B; ADC B
    [] op = "decimal sub" -> DecimalByte(144, 0) \o DecimalByte(152, 1)    \* SUB B; SBB B
    [] op = "add" ->      \* DAD D for the low words, ADC HL,DE for the high ones
         LoadHl(XAt(0)) \o LoadDe(YAt(0)) \o <<25>> \o StoreHl(ZAt(0))
           \o LoadHl(XAt(1)) \o LoadDe(YAt(1)) \o <<237, 90>> \o StoreHl(ZAt(1))
    [] op = "sub" ->      \* ORA A clears the carry; SBC HL,DE twice
         <<183>> \o LoadHl(XAt(0)) \o LoadDe(YAt(0)) \o <<237, 82>> \o StoreHl(ZAt(0))
           \o LoadHl(XAt(1)) \o LoadDe(YAt(1)) \o <<237, 82>> \o StoreHl(ZAt(1))
    [] op = "repeat" ->   \* LDA x; MOV B,A; LXI H,0; LD DE,(y); DAD D; DJNZ -3; SHLD
         <<58>> \o CellAt(XAt(0)) \o <<71, 33, 0, 0>> \o LoadDe(YAt(0))
           \o <<25, 16, 253>> \o StoreHl(ZAt(0))
    [] OTHER ->           \* H times E: MVI L,0; MVI D,0; MVI B,8;
                          \* DAD H; JR NC,+1; DAD D; DJNZ -6; SHLD
         LoadHl(XAt(0)) \o LoadDe(YAt(0)) \o <<46, 0, 22, 0, 6, 8>>
           \o <<41, 48, 1, 25, 16, 250>> \o StoreHl(ZAt(0))

\* x0, x1, y0 and y1 in their cells.
WordsAt(x0, x1, y0, y1) ==
  [c \in {Plus(Cells, k) : k \in 0..7} |->
     LET k == (c - Cells) % 65536
         w == <<x0, x1, y0, y1>>[k \div 2 + 1]
     IN  IF k % 2 = 0 THEN Lo(w) ELSE Hi(w)]

Packed == {4096 * d[1] + 256 * d[2] + 16 * d[3] + d[4] : d \in [1..4 -> Digits]}

\* ADI ACI SUI SBI CPI, INR A, DCR A.
OnA == {<<op, v>> : op \in {198, 206, 214, 222, 254}, v \in Operands} \cup {<<60>>, <<61>>}

SingleInit ==
  /\ form = "single" /\ mode \in Modes /\ a \in Byte /\ f \in {Fix({}), Fix({"C", "H", "Z"})}
  /\ reg = [p \in Pairs |-> 0] /\ \E text \in OnA : Begins(text, <<>>)

MemoryInit ==
  /\ mode = "z80" /\ a = 0 /\ f \in {{}, {"C", "H", "N", "P", "S", "Z"}}
  /\ reg = [p \in Pairs |-> 0]
  /\ \/ /\ form \in {"add", "sub"}
        /\ \E x0, x1, y0, y1 \in Corners : Begins(TextOf(form), WordsAt(x0, x1, y0, y1))
     \/ /\ form = "mul"
        /\ \E x \in Multipliers, y \in {Lo(w) : w \in Corners} :
             Begins(TextOf(form), WordsAt(Pair(x, 0), 0, y, 0))
     \/ /\ form = "repeat"
        /\ \E x \in Multipliers, y \in Corners : Begins(TextOf(form), WordsAt(x, 0, y, 0))
     \/ /\ form \in {"decimal add", "decimal sub"}
        /\ \E x, y \in Packed : Begins(TextOf(form), WordsAt(x, 0, y, 0))

NumberInit == kind = "number" /\ (SingleInit \/ MemoryInit)

\* The same single instruction with any operands, flags, registers and memory.
AnyNumberInit ==
  /\ CpuOK /\ kind = "number" /\ form = "single"
  /\ pc = TextAt /\ Read(TextAt) \in {198, 206, 214, 222, 254, 60, 61}
  /\ end = Plus(TextAt, IF Read(TextAt) \in {60, 61} THEN 1 ELSE 2)
  /\ was = [a |-> a, f |-> f, reg |-> reg, alt |-> alt, sys |-> sys, mem |-> mem]

AnyNumberSpec == AnyNumberInit /\ [][Continues /\ form' = form]_<<state, textVars, form>>

-----------------------------------------------------------------------------
(* Properties *)

Zero(r) == ("Z" \in f <=> r % 256 = 0) /\ ("S" \in f <=> r % 256 >= 128)

\* x + y + c: every flag is what the sum of the numbers says.
SumIsExact(x, y, c) ==
  /\ Zero(x + y + c) /\ ("H" \in f <=> (x % 16) + (y % 16) + c > 15)
  /\ mode = "z80" =>
       "N" \notin f /\ ("P" \in f <=> Signed(x) + Signed(y) + c \notin -128..127)

\* x - y - c: H is the borrow on a Z80 and its absence on an 8080.
DifferenceIsExact(x, y, c) ==
  /\ Zero(x - y - c)
  /\ IF mode = "z80" THEN /\ "H" \in f <=> x % 16 < (y % 16) + c
                          /\ "N" \in f
                          /\ "P" \in f <=> Signed(x) - Signed(y) - c \notin -128..127
                     ELSE "H" \in f <=> x % 16 >= (y % 16) + c

\* ADD, ADC, SUB, SBB, CMP, INR and DCR: the byte taken from one computation
\* and the flags taken from the bit-by-bit one agree with each other and with
\* the arithmetic of the numbers, carry in and carry out included
\* (add8_bitwise and sub8_bitwise of qkz80_reg_set.cc).
ArithmeticIsExact ==
  Finished /\ form = "single" =>
    LET op == Read(TextAt)
        x  == was.a
        y  == IF op \in {60, 61} THEN 1 ELSE Read(Plus(TextAt, 1))
        c  == IF op \in {206, 222} /\ "C" \in was.f THEN 1 ELSE 0
    IN  /\ op \in {198, 206, 60} => SumIsExact(x, y, c) /\ a = (x + y + c) % 256
        /\ op \in {198, 206} => ("C" \in f <=> x + y + c > 255)
        /\ op \in {214, 222, 254, 61} =>
             DifferenceIsExact(x, y, c) /\ a = IF op = 254 THEN x ELSE (x - y - c) % 256
        /\ op \in {214, 222, 254} => ("C" \in f <=> x < y + c)
        /\ op \in {60, 61} => ("C" \in f <=> "C" \in was.f)

X(i) == ReadWord(XAt(i))
Y(i) == ReadWord(YAt(i))
Z(i) == ReadWord(ZAt(i))

Digit(w, k) == (w \div 16 ^ k) % 16
ValueOf(w)  == 1000 * Digit(w, 3) + 100 * Digit(w, 2) + 10 * Digit(w, 1) + Digit(w, 0)

\* The bytes stored are the decimal digits of the sum or difference and C is its
\* carry or borrow: DAA knows from H, C and N what the instruction before it did,
\* through a chain of bytes (the DAA of qkz80.cc, its comment that N is preserved
\* from the operation before, and the example of docs/z80_manual.txt, 15 + 27 = 42).
DecimalIsExact ==
  Finished /\ form \in {"decimal add", "decimal sub"} =>
    /\ \A k \in 0..3 : Digit(Z(0), k) <= 9
    /\ IF form = "decimal add"
       THEN ValueOf(Z(0)) + 10000 * CarryIn = ValueOf(X(0)) + ValueOf(Y(0))
       ELSE ValueOf(Z(0)) - 10000 * CarryIn = ValueOf(X(0)) - ValueOf(Y(0))

\* A wide number below, and below as a number with a sign.
Sign(w)      == IF w < 32768 THEN w ELSE w - 65536
Below        == X(1) < Y(1) \/ (X(1) = Y(1) /\ X(0) < Y(0))
SignedBelow  == Sign(X(1)) < Sign(Y(1)) \/ (X(1) = Y(1) /\ X(0) < Y(0))

\* The carry of the low words' sum, and the high words' sum as numbers with a sign.
LowCarry  == (X(0) + Y(0)) \div 65536
SignedSum == Sign(X(1)) + Sign(Y(1)) + LowCarry

\* 32-bit sums and differences are exact, word by word: the carry of the low words
\* goes into the high ones and that of the high ones is the sum's, or says which
\* operand is below; S and P/V together give the order of numbers with a sign, or
\* say that a sum has none, and Z is that of the high word
\* (reg_set.cc add16, adc16, sbc16 with add16_bitwise and sub16_bitwise).
WideIsExact ==
  Finished /\ form \in {"add", "sub"} =>
    LET less == ("S" \in f) # ("P" \in f)
    IN  /\ ("Z" \in f) = (Z(1) = 0) /\ ("S" \in f) = (Z(1) >= 32768)
        /\ form = "add" =>
             /\ Z(0) = (X(0) + Y(0)) % 65536 /\ Z(1) = (X(1) + Y(1) + LowCarry) % 65536
             /\ ("C" \in f) = (X(1) + Y(1) + LowCarry >= 65536)
             /\ less = (SignedSum < 0) /\ ("P" \in f) = (SignedSum \notin -32768..32767)
        /\ form = "sub" =>
             /\ (Z(0) + Y(0)) % 65536 = X(0)
             /\ (Z(1) + Y(1) + ((Z(0) + Y(0)) \div 65536)) % 65536 = X(1)
             /\ ("C" \in f) = Below /\ less = SignedBelow

\* The product of two bytes, by a loop that shifts HL, looks at the carry and adds,
\* is exact, and the loop goes round eight times (DAD, JR NC, DJNZ).
ProductIsExact ==
  Finished /\ form = "mul" => Z(0) = Hi(X(0)) * Lo(Y(0)) /\ Hi(reg["BC"]) = 0

\* A count in B of 0 is one of 256: DJNZ decrements before it looks. The sum of so many times
\* a word keeps its low 16 bits, and C is the carry of the last addition
\* (DJNZ and DAD of qkz80.cc).
Times == IF Lo(X(0)) = 0 THEN 256 ELSE Lo(X(0))

RepeatIsExact ==
  Finished /\ form = "repeat" =>
    /\ Z(0) = (Times * Y(0)) % 65536 /\ Hi(reg["BC"]) = 0
    /\ ("C" \in f) = (Z(0) < Y(0))

\* What programs calculate with numbers wider than a byte.
NumbersAreExact == DecimalIsExact /\ WideIsExact /\ ProductIsExact /\ RepeatIsExact
=============================================================================
