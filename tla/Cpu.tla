-------------------------------- MODULE Cpu --------------------------------
(***************************************************************************)
(* qkz80::execute of src/src/qkz80.cc: one step fetches and executes one   *)
(* instruction, whatever bytes PC points at.  The memory is the zeroed     *)
(* 64 KB of qkz80_mem.cc, kept as the cells that were stored to; words are *)
(* stored low byte first and every address wraps at 64 KB.                 *)
(***************************************************************************)
EXTENDS Arithmetic

CONSTANT Unset     \* what the interrupt registers may hold before they are set

ASSUME UnsetAssumption == Unset \subseteq Byte

VARIABLES
  reg,       \* the register pairs other than AF and PC
  pc,        \* PC
  alt,       \* the alternate AF, BC, DE and HL
  sys,       \* I, R, IM, IFF1 and IFF2
  mem        \* the memory

state == <<mode, a, f, reg, pc, alt, sys, mem>>

Pairs == {"BC", "DE", "HL", "SP", "IX", "IY"}

CpuOK ==
  /\ AccumulatorOK
  /\ reg \in [Pairs -> Word] /\ pc \in Word
  /\ alt \in [a : Byte, f : SUBSET Flags, BC : Word, DE : Word, HL : Word]
  /\ sys \in [{"I", "R", "IM", "IFF1", "IFF2"} -> Byte]
  /\ DOMAIN mem \subseteq Word /\ mem \in [DOMAIN mem -> Byte]

\* The constructors clear the pairs; I, R, IM and the IFFs are never initialised.
PowerOn ==
  /\ mode \in Modes /\ a = 0 /\ f = Fix({})
  /\ reg = [p \in Pairs |-> 0] /\ pc = 0
  /\ alt = [a |-> 0, f |-> {}, BC |-> 0, DE |-> 0, HL |-> 0]
  /\ sys \in [{"I", "R", "IM", "IFF1", "IFF2"} -> Unset]

-----------------------------------------------------------------------------
(* Words, memory and registers *)

Plus(w, n) == (w + n) % 65536
Hi(w)      == w \div 256
Lo(w)      == w % 256
Pair(h, l) == 256 * h + l

Read(x)     == IF x \in DOMAIN mem THEN mem[x] ELSE 0       \* fetch_mem
ReadWord(x) == Pair(Read(Plus(x, 1)), Read(x))
Stored(m, x, b)  == [y \in DOMAIN m \cup {x} |-> IF y = x THEN b ELSE m[y]]
StoredWord(x, w) == Stored(Stored(mem, x, Lo(w)), Plus(x, 1), Hi(w))

\* The memory when a program's bytes have been loaded at x.
Loaded(x, text) == [y \in x..(x + Len(text) - 1) |-> text[y - x + 1]]

\* The flag byte as PUSH PSW stores it and POP PSW takes it.
FlagAt == <<"C", "N", "P", "X", "H", "Y", "Z", "S">>
FlagByte  == NumberOf(8, LAMBDA i : IF FlagAt[i + 1] \in f THEN 1 ELSE 0)
FlagsOf(b) == Fix({FlagAt[i + 1] : i \in {j \in 0..7 : Bit(b, j) = 1}})

\* Registers 0..5 and 7 are B C D E H L A, 6 is the byte in memory; hl is the
\* pair that stands for HL.
PairOf(n, hl) == IF n \in {4, 5} THEN hl ELSE <<"BC", "DE">>[n \div 2 + 1]
Get8(n, hl, x) ==
  IF n = 6 THEN Read(x) ELSE IF n = 7 THEN a
  ELSE LET w == reg[PairOf(n, hl)] IN IF n % 2 = 0 THEN Hi(w) ELSE Lo(w)
SetPairs(n, hl, b) ==
  IF n \in {6, 7} THEN reg
  ELSE [reg EXCEPT ![PairOf(n, hl)] = IF n % 2 = 0 THEN Pair(b, Lo(@)) ELSE Pair(Hi(@), b)]
SetMem(n, x, b) == IF n = 6 THEN Stored(mem, x, b) ELSE mem

\* set_reg8, for a register or the byte at x.
Put8(n, hl, x, b) ==
  a' = (IF n = 7 THEN b ELSE a) /\ reg' = SetPairs(n, hl, b) /\ mem' = SetMem(n, x, b)

-----------------------------------------------------------------------------
(* Decoding *)

Code(i)  == Read(Plus(pc, i))
Imm16(i) == Pair(Code(i + 1), Code(i))

\* How many of the bytes at PC are taken as DD or FD: at most four, none on an 8080.
IndexPrefixes ==
  IF mode = "8080" THEN 0
  ELSE CHOOSE n \in 0..4 : /\ \A i \in 0..(n - 1) : Code(i) \in {221, 253}
                           /\ n < 4 => Code(n) \notin {221, 253}

\* Faulty: the first prefix of a chain wins.
IndexPairFirst(n) == IF n = 0 THEN "HL" ELSE IF Code(0) = 221 THEN "IX" ELSE "IY"

IndexPair(n) == IF n = 0 THEN "HL" ELSE IF Code(n - 1) = 221 THEN "IX" ELSE "IY"

\* The instruction at PC: the table its opcode is looked up in, the opcode as
\* its octal digits, the pair that stands for HL, where the (IX+d) of a CB
\* instruction is, and the bytes up to and with the opcode.
Opcode(table, i, hl, x) ==
  [table |-> table, x |-> Code(i) \div 64, y |-> (Code(i) \div 8) % 8, z |-> Code(i) % 8,
   hl |-> hl, at |-> x, len |-> i + 1]

Instruction ==
  LET n  == IndexPrefixes
      hl == IndexPair(n)
      x  == Plus(reg[hl], Signed(Code(n + 1)))
  IN  CASE n > 0 /\ Code(n) = 203 ->     \* DD CB d opcode; ED and CB are looked at again
             LET op == Code(n + 2)
             IN  IF op = 237 THEN Opcode("ED", n + 3, hl, x)
                 ELSE IF op = 203 THEN Opcode("CB", n + 3, hl, x) ELSE Opcode("CB", n + 2, hl, x)
        [] n = 0 /\ Code(n) = 203 -> Opcode(IF mode = "8080" THEN "none" ELSE "CB", 1, hl, reg["HL"])
        [] Code(n) = 237 -> Opcode(IF mode = "8080" THEN "none" ELSE "ED", n + 1, hl, 0)
        [] OTHER -> Opcode("main", n, hl, 0)

Main(i, x, z) == i.table = "main" /\ i.x = x /\ i.z = z
Indexed(i)    == i.hl # "HL"
Z80           == mode = "z80"

\* An operand (HL), or (IX+d) with the d behind the opcode.
Address(i) ==
  IF Indexed(i) THEN Plus(reg[i.hl], Signed(Code(i.len))) ELSE reg["HL"]
\* Operands in memory take one byte more if indexed.
Extra(i, n) == IF n = 6 /\ Indexed(i) THEN 1 ELSE 0
RegPair(i)  == <<"BC", "DE", i.hl, "SP">>[i.y \div 2 + 1]
EdPair(i)   == <<"BC", "DE", "HL", "SP">>[i.y \div 2 + 1]      \* HL is HL
DirectPair(i) == IF i.table = "ED" THEN EdPair(i) ELSE i.hl
Accumulates(res) == a' = res.r /\ f' = res.f
After(n)    == pc' = Plus(pc, n)

-----------------------------------------------------------------------------
(* Loads *)

LoadPair(i) ==     \* LXI
  /\ Main(i, 0, 1) /\ i.y % 2 = 0
  /\ reg' = [reg EXCEPT ![RegPair(i)] = Imm16(i.len)] /\ After(i.len + 2)
  /\ UNCHANGED <<mode, a, f, alt, sys, mem>>

\* STAX and STA.
StoreA(i) ==
  /\ Main(i, 0, 2) /\ i.y \in {0, 2, 6}
  /\ mem' = Stored(mem, IF i.y = 6 THEN Imm16(i.len) ELSE reg[RegPair(i)], a)
  /\ After(i.len + IF i.y = 6 THEN 2 ELSE 0) /\ UNCHANGED <<mode, a, f, reg, alt, sys>>

\* LDAX and LDA.
LoadA(i) ==
  /\ Main(i, 0, 2) /\ i.y \in {1, 3, 7}
  /\ a' = Read(IF i.y = 7 THEN Imm16(i.len) ELSE reg[RegPair(i)])
  /\ After(i.len + IF i.y = 7 THEN 2 ELSE 0) /\ UNCHANGED <<mode, f, reg, alt, sys, mem>>

\* Faulty: the high byte goes to the same address as the low one did.
StoreDirectNarrow(i) ==
  /\ \/ Main(i, 0, 2) /\ i.y = 4
     \/ i.table = "ED" /\ i.x = 1 /\ i.z = 3 /\ i.y % 2 = 0
  /\ mem' = Stored(mem, Imm16(i.len), Hi(reg[DirectPair(i)]))
  /\ After(i.len + 2) /\ UNCHANGED <<mode, a, f, reg, alt, sys>>

\* SHLD, and LD (nn),rp of the ED table.
StoreDirect(i) ==
  /\ \/ Main(i, 0, 2) /\ i.y = 4
     \/ i.table = "ED" /\ i.x = 1 /\ i.z = 3 /\ i.y % 2 = 0
  /\ mem' = StoredWord(Imm16(i.len), reg[DirectPair(i)])
  /\ After(i.len + 2) /\ UNCHANGED <<mode, a, f, reg, alt, sys>>

\* LHLD, and LD rp,(nn).
LoadDirect(i) ==
  /\ \/ Main(i, 0, 2) /\ i.y = 5
     \/ i.table = "ED" /\ i.x = 1 /\ i.z = 3 /\ i.y % 2 = 1
  /\ reg' = [reg EXCEPT ![DirectPair(i)] = ReadWord(Imm16(i.len))]
  /\ After(i.len + 2) /\ UNCHANGED <<mode, a, f, alt, sys, mem>>

\* MVI; the byte follows the d of an (IX+d).
LoadByte(i) ==
  /\ Main(i, 0, 6)
  /\ Put8(i.y, i.hl, Address(i), Code(i.len + Extra(i, i.y)))
  /\ After(i.len + Extra(i, i.y) + 1) /\ UNCHANGED <<mode, f, alt, sys>>

\* MOV.  With an (IX+d) the other operand is H or L itself.
Move(i) ==
  LET m  == IF 6 \in {i.y, i.z} THEN Extra(i, 6) ELSE 0
      hl == IF m = 1 THEN "HL" ELSE i.hl
  IN  /\ i.table = "main" /\ i.x = 1 /\ ~(i.y = 6 /\ i.z = 6)
      /\ Put8(i.y, hl, Address(i), Get8(i.z, hl, Address(i)))
      /\ After(i.len + m) /\ UNCHANGED <<mode, f, alt, sys>>

-----------------------------------------------------------------------------
(* Arithmetic *)

StepPair(i) ==     \* INX, DCX
  /\ Main(i, 0, 3) /\ After(i.len)
  /\ reg' = [reg EXCEPT ![RegPair(i)] = Plus(@, IF i.y % 2 = 0 THEN 1 ELSE -1)]
  /\ UNCHANGED <<mode, a, f, alt, sys, mem>>

StepByte(i) ==     \* INR, DCR
  LET v   == Get8(i.y, i.hl, Address(i))
      res == IF i.z = 4 THEN Incremented(v) ELSE Decremented(v)
  IN  /\ Main(i, 0, 4) \/ Main(i, 0, 5)
      /\ Put8(i.y, i.hl, Address(i), res.r) /\ f' = res.f
      /\ After(i.len + Extra(i, i.y)) /\ UNCHANGED <<mode, alt, sys>>

AddPairs(i) ==     \* DAD
  LET x == reg[i.hl]
      y == reg[RegPair(i)]
  IN  /\ Main(i, 0, 1) /\ i.y % 2 = 1
      /\ reg' = [reg EXCEPT ![i.hl] = Plus(x, y)] /\ f' = WordSumFlags(x, y)
      /\ After(i.len) /\ UNCHANGED <<mode, a, alt, sys, mem>>

\* ADC HL and SBC HL.
AddWithCarry(i) ==
  LET x == reg["HL"]
      y == reg[EdPair(i)]
      o == IF i.y % 2 = 1 THEN AddBits(16, x, y, CarryIn) ELSE SubBits(16, x, y, CarryIn)
  IN  /\ i.table = "ED" /\ i.x = 1 /\ i.z = 2
      /\ reg' = [reg EXCEPT !["HL"] = Plus(x, IF i.y % 2 = 1 THEN y + CarryIn ELSE -y - CarryIn)]
      /\ f' = WordResultFlags(o) \cup When("N", i.y % 2 = 0)
      /\ After(i.len) /\ UNCHANGED <<mode, a, alt, sys, mem>>

AluRegister(i) ==
  /\ i.table = "main" /\ i.x = 2
  /\ Accumulates(Combined(AluOps[i.y + 1], Get8(i.z, i.hl, Address(i))))
  /\ After(i.len + Extra(i, i.z)) /\ UNCHANGED <<mode, reg, alt, sys, mem>>

AluImmediate(i) ==
  /\ Main(i, 3, 6) /\ Accumulates(Combined(AluOps[i.y + 1], Code(i.len)))
  /\ After(i.len + 1) /\ UNCHANGED <<mode, reg, alt, sys, mem>>

AccumulatorOp(i) ==
  /\ Main(i, 0, 7) /\ Accumulates(OnAccumulator(AccOps[i.y + 1]))
  /\ After(i.len) /\ UNCHANGED <<mode, reg, alt, sys, mem>>

Negate(i) ==     \* NEG
  /\ i.table = "ED" /\ i.x = 1 /\ i.z = 4
  /\ Accumulates(Result((-a) % 256, DiffFlags(0, a, 0)))
  /\ After(i.len) /\ UNCHANGED <<mode, reg, alt, sys, mem>>

-----------------------------------------------------------------------------
(* Bits: the CB table.  With an index the byte is the one at (IX+d), and the  *)
(* result goes there and to the register as well.                             *)

ShiftedBit(i, v) ==
  CASE i.x = 0 -> Shifted(ShiftOps[i.y + 1], v)
    [] i.x = 2 -> Result(v - Bit(v, i.y) * 2 ^ i.y, f)
    [] i.x = 3 -> Result(v + (1 - Bit(v, i.y)) * 2 ^ i.y, f)

ChangeBits(i) ==
  LET v   == IF Indexed(i) THEN Read(i.at) ELSE Get8(i.z, "HL", i.at)
      res == ShiftedBit(i, v)
  IN  /\ i.table = "CB" /\ i.x # 1
      /\ a' = IF i.z = 7 THEN res.r ELSE a
      /\ reg' = SetPairs(i.z, "HL", res.r)
      /\ mem' = SetMem(IF Indexed(i) THEN 6 ELSE i.z, i.at, res.r)
      /\ f' = res.f /\ After(i.len) /\ UNCHANGED <<mode, alt, sys>>

TestBit(i) ==
  LET v == IF Indexed(i) THEN Read(i.at) ELSE Get8(i.z, "HL", i.at)
  IN  /\ i.table = "CB" /\ i.x = 1
      /\ f' = BitTested(i.y, v, IF Indexed(i) \/ i.z = 6 THEN Hi(i.at) ELSE v)
      /\ After(i.len) /\ UNCHANGED <<mode, a, reg, alt, sys, mem>>

\* RRD and RLD: the nibbles of (HL) and the low one of A move around.
RotateDigits(i) ==
  LET v == Read(reg["HL"])
      r == 16 * (a \div 16) + (IF i.y = 4 THEN v % 16 ELSE v \div 16)
  IN  /\ i.table = "ED" /\ i.x = 1 /\ i.z = 7 /\ i.y \in {4, 5}
      /\ a' = r /\ f' = LogicFlags(r, CarryIn, FALSE)
      /\ mem' = Stored(mem, reg["HL"],
                       IF i.y = 4 THEN (v \div 16) + 16 * (a % 16) ELSE 16 * (v % 16) + (a % 16))
      /\ After(i.len) /\ UNCHANGED <<mode, reg, alt, sys>>

-----------------------------------------------------------------------------
(* Stack, jumps and calls *)

Keeps == UNCHANGED <<mode, a, f, alt, sys>>

Pushed(w) ==     \* push_word
  /\ reg' = [reg EXCEPT !["SP"] = Plus(@, -2)] /\ mem' = StoredWord(Plus(reg["SP"], -2), w)
Top       == ReadWord(reg["SP"])
PopsPair(p, w) == [reg EXCEPT !["SP"] = Plus(@, 2), ![p] = w]

Push(i) ==
  /\ Main(i, 3, 5) /\ i.y % 2 = 0
  /\ Pushed(IF i.y = 6 THEN Pair(a, FlagByte) ELSE reg[RegPair(i)])
  /\ After(i.len) /\ Keeps

Pop(i) ==
  /\ Main(i, 3, 1) /\ i.y \in {0, 2, 4}
  /\ reg' = PopsPair(RegPair(i), Top)
  /\ After(i.len) /\ UNCHANGED mem /\ Keeps

PopPsw(i) ==
  /\ Main(i, 3, 1) /\ i.y = 6
  /\ reg' = [reg EXCEPT !["SP"] = Plus(@, 2)] /\ a' = Hi(Top) /\ f' = FlagsOf(Lo(Top))
  /\ After(i.len) /\ UNCHANGED <<mode, alt, sys, mem>>

ExchangeTop(i) ==     \* XTHL
  /\ Main(i, 3, 3) /\ i.y = 4
  /\ reg' = [reg EXCEPT ![i.hl] = Top] /\ mem' = StoredWord(reg["SP"], reg[i.hl])
  /\ After(i.len) /\ Keeps

LoadSp(i) ==     \* SPHL
  /\ Main(i, 3, 1) /\ i.y = 7
  /\ reg' = [reg EXCEPT !["SP"] = reg[i.hl]]
  /\ After(i.len) /\ UNCHANGED mem /\ Keeps

\* JMP, Jcc and PCHL.
Jump(i) ==
  /\ \/ Main(i, 3, 2) /\ pc' = IF ConditionCode(i.y, f) THEN Imm16(i.len)
                               ELSE Plus(pc, i.len + 2)
     \/ Main(i, 3, 3) /\ i.y = 0 /\ pc' = Imm16(i.len)
     \/ Main(i, 3, 1) /\ i.y = 5 /\ pc' = reg[i.hl]
  /\ UNCHANGED <<reg, mem>> /\ Keeps

\* DJNZ (y = 2), JR and JR NZ, Z, NC, C.
RelativeJump(i) ==
  LET taken == IF i.y = 2 THEN Hi(reg["BC"]) # 1 ELSE i.y = 3 \/ ConditionCode(i.y - 4, f)
  IN  /\ Main(i, 0, 0) /\ i.y >= 2 /\ Z80
      /\ pc' = Plus(pc, i.len + 1 + IF taken THEN Signed(Code(i.len)) ELSE 0)
      /\ reg' = IF i.y = 2 THEN SetPairs(0, "HL", (Hi(reg["BC"]) - 1) % 256) ELSE reg
      /\ UNCHANGED mem /\ Keeps

\* Faulty: the return address is that of the operand.
CallFromOpcode(i) ==
  /\ \/ Main(i, 3, 4) /\ ConditionCode(i.y, f)
     \/ Main(i, 3, 5) /\ i.y = 1
  /\ Pushed(Plus(pc, i.len)) /\ pc' = Imm16(i.len) /\ Keeps

\* CALL and Ccc.
Call(i) ==
  /\ \/ Main(i, 3, 4) /\ ConditionCode(i.y, f)
     \/ Main(i, 3, 5) /\ i.y = 1
  /\ Pushed(Plus(pc, i.len + 2)) /\ pc' = Imm16(i.len) /\ Keeps

\* Ccc and Rcc whose condition does not hold.
CallOrReturnNot(i) ==
  /\ Main(i, 3, 4) \/ Main(i, 3, 0)
  /\ ~ConditionCode(i.y, f)
  /\ After(i.len + IF i.z = 4 THEN 2 ELSE 0) /\ UNCHANGED <<reg, mem>> /\ Keeps

Restart(i) ==     \* RST
  /\ Main(i, 3, 7) /\ Pushed(Plus(pc, i.len)) /\ pc' = 8 * i.y /\ Keeps

\* RET, Rcc, RETI and RETN, which also copies IFF2.
Return(i) ==
  /\ \/ Main(i, 3, 0) /\ ConditionCode(i.y, f)
     \/ Main(i, 3, 1) /\ i.y = 1
     \/ i.table = "ED" /\ i.x = 1 /\ i.z = 5
  /\ pc' = Top /\ reg' = [reg EXCEPT !["SP"] = Plus(@, 2)]
  /\ sys' = IF i.table = "ED" /\ i.y # 1 THEN [sys EXCEPT !["IFF1"] = sys["IFF2"]] ELSE sys
  /\ UNCHANGED <<mode, a, f, alt, mem>>

-----------------------------------------------------------------------------
(* Exchanges *)

ExchangeDe(i) ==     \* XCHG; with an index prefix it takes IX
  /\ Main(i, 3, 3) /\ i.y = 5
  /\ reg' = [reg EXCEPT !["DE"] = reg[i.hl], ![i.hl] = reg["DE"]]
  /\ After(i.len) /\ UNCHANGED mem /\ Keeps

ExchangeAll(i) ==     \* EXX
  /\ Main(i, 3, 1) /\ i.y = 3 /\ Z80
  /\ reg' = [reg EXCEPT !["BC"] = alt.BC, !["DE"] = alt.DE, !["HL"] = alt.HL]
  /\ alt' = [alt EXCEPT !.BC = reg["BC"], !.DE = reg["DE"], !.HL = reg["HL"]]
  /\ After(i.len) /\ UNCHANGED <<mode, a, f, sys, mem>>

ExchangeAf(i) ==     \* EX AF,AF'
  /\ Main(i, 0, 0) /\ i.y = 1 /\ Z80
  /\ a' = alt.a /\ f' = alt.f /\ alt' = [alt EXCEPT !.a = a, !.f = f]
  /\ After(i.len) /\ UNCHANGED <<mode, reg, sys, mem>>

-----------------------------------------------------------------------------
(* Block instructions: opcodes A0-BB of the ED table.  A repeated one is      *)
(* executed again from its first byte, one byte of the block a step.          *)

Block(i, z) == i.table = "ED" /\ i.x = 2 /\ i.z = z /\ i.y >= 4
Onward(i)   == IF i.y % 2 = 0 THEN 1 ELSE -1
\* X is bit 3 and Y is bit 1.
XYOfBlock(n) == When("X", Bit(n, 3) = 1) \cup When("Y", Bit(n, 1) = 1)

\* Faulty: the count is looked at before it is lowered.
MoveBlockOnceMore(i) ==
  LET b == Read(reg["HL"])
  IN  /\ Block(i, 0)
      /\ mem' = Stored(mem, reg["DE"], b)
      /\ reg' = [reg EXCEPT !["HL"] = Plus(@, Onward(i)), !["DE"] = Plus(@, Onward(i)),
                            !["BC"] = Plus(@, -1)]
      /\ f' = (f \cap {"S", "Z", "C"}) \cup When("P", reg["BC"] # 1)
                \cup XYOfBlock((a + b) % 256)
      /\ After(IF i.y >= 6 /\ reg["BC"] # 0 THEN i.len - 2 ELSE i.len)
      /\ UNCHANGED <<mode, a, alt, sys>>

MoveBlock(i) ==     \* LDI, LDD, LDIR, LDDR
  LET b == Read(reg["HL"])
  IN  /\ Block(i, 0)
      /\ mem' = Stored(mem, reg["DE"], b)
      /\ reg' = [reg EXCEPT !["HL"] = Plus(@, Onward(i)), !["DE"] = Plus(@, Onward(i)),
                            !["BC"] = Plus(@, -1)]
      /\ f' = (f \cap {"S", "Z", "C"}) \cup When("P", reg["BC"] # 1)
                \cup XYOfBlock((a + b) % 256)
      /\ After(IF i.y >= 6 /\ reg["BC"] # 1 THEN i.len - 2 ELSE i.len)
      /\ UNCHANGED <<mode, a, alt, sys>>

SearchBlock(i) ==     \* CPI, CPD, CPIR, CPDR
  LET o == SubBits(8, a, Read(reg["HL"]), 0)
  IN  /\ Block(i, 1)
      /\ reg' = [reg EXCEPT !["HL"] = Plus(@, Onward(i)), !["BC"] = Plus(@, -1)]
      /\ f' = (f \cap {"C"}) \cup SignZero(o.r) \cup When("H", o.h = 1) \cup {"N"}
                \cup When("P", reg["BC"] # 1) \cup XYOfBlock((o.r - o.h) % 256)
      /\ After(IF i.y >= 6 /\ reg["BC"] # 1 /\ o.r # 0 THEN i.len - 2 ELSE i.len)
      /\ UNCHANGED <<mode, a, alt, sys, mem>>

-----------------------------------------------------------------------------
(* Interrupt registers, ports and what does nothing *)

SetInterruptMode(i) ==     \* IM 0, 1, 2
  /\ i.table = "ED" /\ i.x = 1 /\ i.z = 6
  /\ sys' = [sys EXCEPT !["IM"] = <<0, 0, 1, 2>>[(i.y % 4) + 1]]
  /\ After(i.len) /\ UNCHANGED <<mode, a, f, reg, alt, mem>>

SetIR(i) ==     \* LD I,A and LD R,A
  /\ i.table = "ED" /\ i.x = 1 /\ i.z = 7 /\ i.y \in {0, 1}
  /\ sys' = [sys EXCEPT ![IF i.y = 0 THEN "I" ELSE "R"] = a]
  /\ After(i.len) /\ UNCHANGED <<mode, a, f, reg, alt, mem>>

GetIR(i) ==     \* LD A,I and LD A,R; P is IFF2
  LET v == sys[IF i.y = 2 THEN "I" ELSE "R"]
  IN  /\ i.table = "ED" /\ i.x = 1 /\ i.z = 7 /\ i.y \in {2, 3}
      /\ a' = v
      /\ f' = (f \cap {"C"}) \cup SignZero(v) \cup XY(v) \cup When("P", sys["IFF2"] # 0)
      /\ After(i.len) /\ UNCHANGED <<mode, reg, alt, sys, mem>>

Input(i) ==     \* IN: every port reads FFh
  /\ Main(i, 3, 3) /\ i.y = 3 /\ a' = 255
  /\ After(i.len + 1) /\ UNCHANGED <<mode, f, reg, alt, sys, mem>>

\* One byte: NOP, HLT, DI, EI, what an 8080 has not, DD and FD beyond the fourth.
\* Two: OUT, and the ED and CB of an 8080.  And what the ED table has not.
Nothing(i) ==
  \/ i.table = "none"
  \/ Main(i, 0, 0) /\ (i.y = 0 \/ ~Z80)
  \/ Main(i, 1, 6) /\ i.y = 6
  \/ Main(i, 3, 3) /\ i.y \in {2, 6, 7}
  \/ Main(i, 3, 1) /\ i.y = 3 /\ ~Z80
  \/ Main(i, 3, 5) /\ i.y \in {3, 7}
  \/ i.table = "ED" /\ i.x \in {0, 3}
  \/ i.table = "ED" /\ i.x = 1 /\ i.z \in {0, 1}
  \/ i.table = "ED" /\ i.x = 1 /\ i.z = 7 /\ i.y >= 6
  \/ i.table = "ED" /\ i.x = 2 /\ (i.y < 4 \/ i.z >= 2)

NoOperation(i) ==
  /\ Nothing(i) /\ After(i.len + IF Main(i, 3, 3) /\ i.y = 2 THEN 1 ELSE 0)
  /\ UNCHANGED <<mode, a, f, reg, alt, sys, mem>>

-----------------------------------------------------------------------------

Execute ==
  \E i \in {Instruction} :
     \/ LoadPair(i) \/ StoreA(i) \/ LoadA(i) \/ StoreDirect(i) \/ LoadDirect(i)
     \/ LoadByte(i) \/ Move(i) \/ StepPair(i) \/ StepByte(i) \/ AddPairs(i)
     \/ AddWithCarry(i) \/ AluRegister(i) \/ AluImmediate(i) \/ AccumulatorOp(i)
     \/ Negate(i) \/ ChangeBits(i) \/ TestBit(i) \/ RotateDigits(i) \/ Push(i) \/ Pop(i)
     \/ PopPsw(i) \/ ExchangeTop(i) \/ LoadSp(i) \/ Jump(i) \/ RelativeJump(i)
     \/ Call(i) \/ CallOrReturnNot(i) \/ Restart(i) \/ Return(i) \/ ExchangeDe(i)
     \/ ExchangeAll(i) \/ ExchangeAf(i) \/ MoveBlock(i) \/ SearchBlock(i)
     \/ SetInterruptMode(i) \/ SetIR(i) \/ GetIR(i) \/ Input(i) \/ NoOperation(i)
=============================================================================
