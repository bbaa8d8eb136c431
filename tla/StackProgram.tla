---------------------------- MODULE StackProgram ----------------------------
(***************************************************************************)
(* Programs made of instructions on the stack in any order: what they see  *)
(* is a WordStack, wherever in the 64 KB their stack lies.                 *)
(***************************************************************************)
EXTENDS Program

CONSTANTS
  Phrases,     \* the instructions they are made of
  Length,      \* how many there are
  Routines,    \* the memory their calls lead to
  Bases        \* where SP starts

ASSUME StackAssumption ==
  /\ Phrases \subseteq Seq(Byte) /\ Length \in Nat /\ Bases \subseteq Word
  /\ DOMAIN Routines \subseteq Word /\ \A x \in DOMAIN Routines : Routines[x] \in Byte

StackInit ==
  /\ kind = "stack" /\ mode = "z80" /\ a = 171 /\ f = {"Z", "H", "C"}
  /\ \E base \in Bases :
       reg = [BC |-> 258, DE |-> 772, HL |-> 1286, SP |-> base, IX |-> 1800, IY |-> 2314]
  /\ \E s \in [1..Length -> Phrases] : Begins(Flat(s), Routines)

\* The words on the stack; below the start only if the program popped what it had not pushed.
Depth == ((was.reg["SP"] - reg["SP"]) % 65536) \div 2

\* A program that pops and exchanges no more than it pushed.
WithinStack ==
  /\ Depth' <= Length + 2
  /\ Depth = 0 /\ reg'["SP"] = reg["SP"] => mem' = mem

-----------------------------------------------------------------------------
(* The instruction at pc, from the tables of opcodes: what CpuNext decodes is *)
(* compared with it.                                                          *)

Registers == {"BC", "DE", "HL", "IX", "IY", "AF"}
OnCodes(base) == {base + 8 * c : c \in 0..7}     \* base and the condition or restart c

\* NZ Z NC C PO PE P M.
Holds(c) == (c % 2 = 1) = (<<"Z", "C", "P", "S">>[c \div 2 + 1] \in f)

AtPc ==
  LET prefixed == Read(pc) \in {221, 253}
      start    == IF prefixed THEN Plus(pc, 1) ELSE pc
      op       == Read(start)
      index    == IF prefixed THEN IF Read(pc) = 221 THEN "IX" ELSE "IY" ELSE "HL"
      taken    == op \in OnCodes(192) \cup OnCodes(196) => Holds((op % 64) \div 8)
      length   == IF op \in {205} \cup OnCodes(196) THEN 3 ELSE IF op = 237 THEN 2 ELSE 1
  IN  [does   |-> CASE op \in {197, 213, 229, 245} -> "push"
                    [] op \in {193, 209, 225, 241} -> "pop"
                    [] op = 227 -> "exchange"
                    [] op \in {205} \cup OnCodes(196) \cup OnCodes(199) /\ taken -> "call"
                    [] op \in {201, 237} \cup OnCodes(192) /\ taken -> "return"
                    [] OTHER -> "pass",
       name   |-> CASE op \in {193, 197} -> "BC" [] op \in {209, 213} -> "DE"
                    [] op \in {225, 227, 229} -> index [] OTHER -> "AF",
       length |-> IF prefixed THEN length + 1 ELSE length,
       to     |-> IF op \in OnCodes(199) THEN op - 199 ELSE ReadWord(Plus(start, 1))]

-----------------------------------------------------------------------------
(* Properties *)

OnStack == [k \in 1..Depth |-> ReadWord(Plus(reg["SP"], 2 * (k - 1)))]
Abstract ==
  INSTANCE WordStack WITH
    Names <- Registers, Words <- Word,
    items <- IF kind = "stack" THEN OnStack ELSE <<>>,
    at    <- IF kind = "stack" THEN pc ELSE 0,
    val   <- IF kind = "stack"
             THEN [BC |-> reg["BC"], DE |-> reg["DE"], HL |-> reg["HL"], IX |-> reg["IX"],
                   IY |-> reg["IY"], AF |-> Pair(a, FlagByte)]
             ELSE [n \in Registers |-> 0],
    ahead <- IF kind = "stack" THEN AtPc
             ELSE [does |-> "pass", name |-> "HL", length |-> 1, to |-> 0]

\* PUSH, POP, XTHL, CALL, RST and the returns, conditional or not, implement the stack of
\* words: what was pushed comes back whole, to the register the opcode and its prefix name and
\* to no other, AF with all its flags; a call leads to its address and its return behind all
\* its bytes, also where the stack crosses address 0 or lies at an odd address (push_word,
\* pop_word, read_word and the decoding of qkz80.cc).
WordStackSpec == Abstract!StackSpec
=============================================================================
