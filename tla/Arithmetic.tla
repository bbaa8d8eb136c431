----------------------------- MODULE Arithmetic -----------------------------
(***************************************************************************)
(* The arithmetic of src/src/qkz80.cc and the flags of                     *)
(* src/src/qkz80_reg_set.cc, in Z80 and in 8080 mode: what each operation  *)
(* makes of its operands and of the flags.  Bytes and words are numbers,   *)
(* the flag byte is the set of the flags that are 1; additions and         *)
(* subtractions are done bit by bit, as the helpers of the code do.  Cpu   *)
(* takes these operations as instructions.                                 *)
(***************************************************************************)
EXTENDS Integers, FiniteSets, Sequences

CONSTANT Modes          \* what cpu_mode may be set to at start: "z80", "8080"

ASSUME ModesAssumption == Modes \subseteq {"z80", "8080"}

VARIABLES
  mode,      \* cpu_mode: set_cpu_mode is called once, before the first instruction
  a, f       \* A, and the flags as get_flags returns them

Byte  == 0..255
Word  == 0..65535
Flags == {"S", "Z", "Y", "H", "X", "P", "N", "C"}

\* fix_flags: bits 3 and 5 read 0 on an 8080, bit 1 reads 1.
Fix(g) == IF mode = "8080" THEN (g \ {"X", "Y"}) \cup {"N"} ELSE g

AccumulatorOK ==
  /\ mode \in Modes /\ a \in Byte
  /\ f \subseteq Flags /\ (mode = "8080" => f \cap {"X", "Y", "N"} = {"N"})

-----------------------------------------------------------------------------
(* Bits *)

Bit(v, i) == (v \div 2 ^ i) % 2
Xor(x, y) == (x + y) % 2
Ones(v)   == Cardinality({i \in 0..7 : Bit(v, i) = 1})
Signed(v) == IF v < 128 THEN v ELSE v - 256

\* The number of n bits whose bit i is Bt(i).
NumberOf(n, Bt(_)) ==
  LET low[i \in 0..n] == IF i = 0 THEN 0 ELSE low[i - 1] + 2 ^ (i - 1) * Bt(i - 1)
  IN  low[n]

\* add8_bitwise and add16_bitwise: the carry into bit i, for i in 0..n.
Carries(n, x, y, c0) ==
  LET cy[i \in 0..n] ==
        IF i = 0 THEN c0
        ELSE IF Bit(x, i - 1) + Bit(y, i - 1) + cy[i - 1] >= 2 THEN 1 ELSE 0
  IN  cy

\* sub8_bitwise and sub16_bitwise: the borrow into bit i.
Borrows(n, x, y, c0) ==
  LET cy[i \in 0..n] ==
        IF i = 0 THEN c0
        ELSE IF Bit(y, i - 1) + cy[i - 1] > Bit(x, i - 1) THEN 1 ELSE 0
  IN  cy

\* Faulty: the half carry is taken one bit too late.
OutcomeLateHalf(n, x, y, cy) ==
  [r |-> NumberOf(n, LAMBDA i : Xor(Bit(x, i), Xor(Bit(y, i), cy[i]))),
   h |-> cy[n - 3], c |-> cy[n], v |-> Xor(cy[n], cy[n - 1])]

\* What all four return: the number, the carries out of bit n - 5 and of the
\* last bit, and whether the one into the last bit differs.
Outcome(n, x, y, cy) ==
  [r |-> NumberOf(n, LAMBDA i : Xor(Bit(x, i), Xor(Bit(y, i), cy[i]))),
   h |-> cy[n - 4], c |-> cy[n], v |-> Xor(cy[n], cy[n - 1])]
AddBits(n, x, y, c0) == Outcome(n, x, y, Carries(n, x, y, c0))
SubBits(n, x, y, c0) == Outcome(n, x, y, Borrows(n, x, y, c0))

-----------------------------------------------------------------------------
(* Flags *)

When(flag, c)  == IF c THEN {flag} ELSE {}
CarryIn        == IF "C" \in f THEN 1 ELSE 0
XY(r)          == When("X", Bit(r, 3) = 1) \cup When("Y", Bit(r, 5) = 1)
SignZero(r)    == When("S", Bit(r, 7) = 1) \cup When("Z", r = 0)
Parity(r)      == When("P", Ones(r) % 2 = 0)
ResultFlags(r) == SignZero(r) \cup Parity(r) \cup XY(r)

\* P after arithmetic: overflow on a Z80, parity on an 8080.
Overflow(v, r) == IF mode = "z80" THEN When("P", v) ELSE Parity(r)

SumFlags(x, y, c0) ==
  LET s == AddBits(8, x, y, c0)
  IN  Fix(SignZero(s.r) \cup XY(s.r) \cup When("C", s.c = 1) \cup When("H", s.h = 1)
            \cup Overflow(s.v = 1, (x + y + c0) % 256))
DiffFlags(x, y, c0) ==
  LET d == SubBits(8, x, y, c0)
      q == (x - y - c0) % 256
      h == IF mode = "z80" THEN d.h = 1 ELSE Xor(Bit(x, 4), Xor(Bit(y, 4), Bit(q, 4))) = 0
  IN  Fix(SignZero(d.r) \cup XY(d.r) \cup When("C", d.c = 1) \cup When("H", h)
            \cup {"N"} \cup Overflow(d.v = 1, q))
LogicFlags(r, c, h) == Fix(ResultFlags(r) \cup When("C", c = 1) \cup When("H", h))
ShiftFlags(r, c)    == Fix(ResultFlags(r) \cup When("C", c = 1))

\* RLCA, RRCA, RLA, RRA: an 8080 keeps H.
RotateFlags(r, c) ==
  Fix((f \ ({"C", "X", "Y"} \cup IF mode = "z80" THEN {"N", "H"} ELSE {}))
        \cup When("C", c = 1) \cup XY(r))
StepFlags(r, h, v, up) ==     \* set_zspa_from_inr
  Fix((f \cap {"C"}) \cup SignZero(r) \cup XY(r) \cup When("H", h) \cup Overflow(v, r)
        \cup When("N", ~up))

\* condition_code: NZ Z NC C PO PE P M.
ConditionCode(cond, g) ==
  LET flag == <<"Z", "Z", "C", "C", "P", "P", "S", "S">>[cond + 1]
  IN  (flag \in g) = (cond % 2 = 1)

\* Words: X, Y and S are those of the high byte.
WordFlags(o) ==
  XY(o.r \div 256) \cup When("C", o.c = 1) \cup When("H", o.h = 1)
\* Faulty: ADD HL sets all the flags.
WordSumFlagsAll(x, y) ==
  LET o == AddBits(16, x, y, 0)
  IN  IF mode = "z80" THEN WordFlags(o) \cup When("S", o.r >= 32768) \cup When("Z", o.r = 0)
                      ELSE (f \ {"C"}) \cup When("C", x + y > 65535)

\* ADD HL keeps S, Z and P/V on a Z80; DAD sets the carry only.
WordSumFlags(x, y) ==
  IF mode = "z80" THEN (f \cap {"S", "Z", "P"}) \cup WordFlags(AddBits(16, x, y, 0))
                  ELSE (f \ {"C"}) \cup When("C", x + y > 65535)

\* ADC HL and SBC HL set all flags.
WordResultFlags(o) ==
  WordFlags(o) \cup When("S", o.r >= 32768) \cup When("Z", o.r = 0) \cup When("P", o.v = 1)

-----------------------------------------------------------------------------
(* Operations: what becomes of the operand (r) and of the flags (f). *)

AluOps == <<"add", "adc", "sub", "sbb", "ana", "xra", "ora", "cmp">>
AccOps == <<"rlca", "rrca", "rla", "rra", "daa", "cpl", "scf", "ccf">>
ShiftOps == <<"rlc", "rrc", "rl", "rr", "sla", "sra", "sll", "srl">>

Result(r, g) == [r |-> r, f |-> g]

Sum(op, y) ==
  LET c == IF op = "adc" THEN CarryIn ELSE 0
  IN  Result((a + y + c) % 256, SumFlags(a, y, c))
Difference(op, y) ==
  LET c == IF op = "sbb" THEN CarryIn ELSE 0
  IN  Result((a - y - c) % 256, DiffFlags(a, y, c))
\* X and Y are those of the operand.
Comparison(y) == Result(a, Fix((DiffFlags(a, y, 0) \ {"X", "Y"}) \cup XY(y)))
Conjunction(y) ==
  LET r == NumberOf(8, LAMBDA i : Bit(a, i) * Bit(y, i))
  IN  Result(r, LogicFlags(r, 0, mode = "z80" \/ Bit(a, 3) + Bit(y, 3) > 0))
Disjunction(op, y) ==
  LET r == NumberOf(8, LAMBDA i : IF op = "xra" THEN Xor(Bit(a, i), Bit(y, i))
                                  ELSE IF Bit(a, i) + Bit(y, i) > 0 THEN 1 ELSE 0)
  IN  Result(r, LogicFlags(r, 0, FALSE))
Combined(op, y) ==
  CASE op \in {"add", "adc"} -> Sum(op, y)
    [] op \in {"sub", "sbb"} -> Difference(op, y)
    [] op = "cmp"            -> Comparison(y)
    [] op = "ana"            -> Conjunction(y)
    [] OTHER                 -> Disjunction(op, y)

Incremented(v) ==
  LET r == (v + 1) % 256 IN Result(r, StepFlags(r, r % 16 = 0, r = 128, TRUE))
Decremented(v) ==
  LET r == (v - 1) % 256
  IN  Result(r, StepFlags(r, (r % 16 = 15) = (mode = "z80"), r = 127, FALSE))

\* Faulty: the tens are looked at before the ones have carried into them.
AdjustedTensFirst ==
  LET tens == "C" \in f \/ a \div 16 >= 10
      ones == "H" \in f \/ a % 16 >= 10
      diff == (IF tens THEN 96 ELSE 0) + (IF ones THEN 6 ELSE 0)
      r    == IF "N" \in f THEN (a - diff) % 256 ELSE (a + diff) % 256
  IN  Result(r, Fix(ResultFlags(r) \cup When("C", tens) \cup When("H", ones)
                      \cup (f \cap {"N"})))

Adjusted ==     \* DAA
  LET low  == a % 16
      high == a \div 16
      tens == "C" \in f \/ high >= 10 \/ (high = 9 /\ low >= 10)
      ones == "H" \in f \/ low >= 10
      diff == (IF tens THEN 96 ELSE 0) + (IF ones THEN 6 ELSE 0)
      r    == IF "N" \in f THEN (a - diff) % 256 ELSE (a + diff) % 256
      half == IF "N" \in f THEN "H" \in f /\ low < 6 ELSE low >= 10
  IN  Result(r, Fix(ResultFlags(r) \cup When("C", tens) \cup When("H", half)
                      \cup (f \cap {"N"})))

Rotated(op) ==
  LET out == IF op \in {"rlca", "rla"} THEN Bit(a, 7) ELSE Bit(a, 0)
      in  == IF op \in {"rlca", "rrca"} THEN out ELSE CarryIn
      r   == IF op \in {"rlca", "rla"} THEN ((2 * a) % 256) + in ELSE a \div 2 + 128 * in
  IN  Result(r, RotateFlags(r, out))
Complemented == Result(255 - a, Fix((f \ {"X", "Y"}) \cup {"N", "H"} \cup XY(255 - a)))
CarrySet     == Result(a, Fix((f \ {"N", "H", "X", "Y"}) \cup {"C"} \cup XY(a)))
CarryFlipped == Result(a, Fix((f \ {"N", "C", "H", "X", "Y"}) \cup XY(a)
                                \cup (IF "C" \in f THEN {"H"} ELSE {"C"})))
OnAccumulator(op) ==
  CASE op = "daa" -> Adjusted
    [] op = "cpl" -> Complemented
    [] op = "scf" -> CarrySet
    [] op = "ccf" -> CarryFlipped
    [] OTHER      -> Rotated(op)

\* do_rlc to do_srl.
Shifted(op, v) ==
  LET left == op \in {"rlc", "rl", "sla", "sll"}
      out  == Bit(v, IF left THEN 7 ELSE 0)
      in   == CASE op \in {"rlc", "rrc"} -> out
                [] op \in {"rl", "rr"}   -> CarryIn
                [] op = "sra"            -> Bit(v, 7)
                [] op = "sll"            -> 1
                [] OTHER                 -> 0
      r    == IF left THEN ((2 * v) % 256) + in ELSE v \div 2 + 128 * in
  IN  Result(r, ShiftFlags(r, out))

\* BIT n: X and Y are those of another byte.
BitTested(n, v, xy) ==
  (f \cap {"C"}) \cup {"H"} \cup XY(xy) \cup When("S", n = 7 /\ Bit(v, 7) = 1)
    \cup (IF Bit(v, n) = 0 THEN {"Z", "P"} ELSE {})
=============================================================================
