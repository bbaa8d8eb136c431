------------------------------- MODULE Twins -------------------------------
(***************************************************************************)
(* Every instruction, from registers and memory that are told apart: a     *)
(* text of a few bytes that is executed once, or, in "modes" and           *)
(* "leaders", by two processors at once to compare what they do.  In       *)
(* "modes" one is an 8080 and the other a Z80; in "leaders" both are Z80s, *)
(* and the second starts at the last of the index prefixes the first has   *)
(* before it.                                                              *)
(***************************************************************************)
EXTENDS Program

CONSTANTS
  Leaders,     \* the prefixes a single instruction may have, as sequences of bytes
  Follower,    \* the bytes after its opcode
  Operand,     \* the bytes after a compared one: also the address of what follows them
  Seconds,     \* the texts that may follow it
  Chains,      \* chains of index prefixes; the opcode may be a fourth, which is the limit
  Repeats      \* the values BC takes

ASSUME TwinsAssumption ==
  /\ Leaders \cup Seconds \subseteq Seq(Byte) /\ Follower \in Seq(Byte) /\ Operand \in Seq(Byte)
  /\ \A s \in Chains : s \in Seq({221, 253}) /\ Len(s) \in 2..3
  /\ Repeats \subseteq Word

VARIABLES mode2, a2, f2, reg2, pc2, alt2, sys2, mem2    \* the second processor

twin == <<mode2, a2, f2, reg2, pc2, alt2, sys2, mem2>>

Twin == INSTANCE Cpu WITH mode <- mode2, a <- a2, f <- f2, reg <- reg2, pc <- pc2,
                          alt <- alt2, sys <- sys2, mem <- mem2

\* What an 8080 and a Z80 take for the same instruction: the documented opcodes
\* of the 8080 except those that show P, H or N: DAA, the jumps, calls and
\* returns on PO and PE, and PUSH PSW.
Shared8080 ==
  Byte \ ({8, 16, 24, 32, 40, 48, 56, 203, 217, 221, 237, 253} \cup {39, 245}
            \cup {224, 226, 228, 232, 234, 236})

\* The second processor beginning as the first, in its own mode and place.
TwinBegins(m, g, x) ==
  mode2 = m /\ f2 = g /\ pc2 = x /\ a2 = a /\ reg2 = reg /\ alt2 = alt /\ sys2 = sys /\ mem2 = mem

InstructionInit ==
  /\ mode \in Modes /\ a = 143 /\ f \in {Fix({}), Fix({"C", "Z", "P", "S"})}
  /\ \E n \in Repeats :
       reg = [BC |-> n, DE |-> 16384, HL |-> 24831, SP |-> 65535, IX |-> 32895, IY |-> 41216]
  /\ \/ /\ kind = "single"
        /\ \E lead \in Leaders, op \in Byte : Begins(lead \o <<op>> \o Follower, <<>>)
        /\ TwinBegins(mode, f, TextAt)
     \/ /\ kind = "modes" /\ mode = "8080"
        /\ \E op \in Shared8080, s \in Seconds : Begins(<<op>> \o Operand \o s, <<>>)
        /\ TwinBegins("z80", f \ {"N"}, TextAt)
     \/ /\ kind = "leaders" /\ mode = "z80"
        /\ \E s \in Chains, op \in Byte :
             /\ Begins(s \o <<op>> \o Operand, <<>>)
             /\ TwinBegins("z80", f, TextAt + Len(s) - 1)

\* A repeated block instruction, or a jump to itself, is executed until it goes on.
Single == kind = "single" /\ pc = TextAt /\ Execute /\ UNCHANGED <<textVars, twin>>

\* Until the first leaves the text; until the two meet.
BothExecute ==
  /\ \/ kind = "modes" /\ pc \in TextAt..(TextAt + 5)
     \/ kind = "leaders" /\ pc # pc2
  /\ Execute /\ Twin!Execute /\ UNCHANGED textVars

-----------------------------------------------------------------------------
(* The same of any program and any state of the registers and the memory: a    *)
(* processor by itself; an 8080 and a Z80 as long as they meet instructions    *)
(* both have; a Z80 before a chain of prefixes, and one before its last.       *)

ChainOf(d) ==     \* not beyond the limit
  (\A k \in 0..d : Code(k) \in {221, 253}) /\ \E k \in (d + 1)..4 : Code(k) \notin {221, 253}

AnyInit ==
  /\ CpuOK /\ was = [a |-> a, f |-> f, reg |-> reg, alt |-> alt, sys |-> sys, mem |-> mem]
  /\ \/ kind = "single"
     \/ kind = "modes" /\ mode = "8080" /\ TwinBegins("z80", f \ {"N"}, pc)
     \/ /\ kind = "leaders" /\ mode = "z80" /\ pc = TextAt
        /\ \E d \in 1..3 : ChainOf(d) /\ TwinBegins("z80", f, Plus(pc, d))

AnyNext ==
  /\ Execute /\ UNCHANGED textVars
  /\ \/ kind = "single" /\ UNCHANGED twin
     \/ kind = "modes" /\ Code(0) \in Shared8080 /\ Twin!Execute
     \/ kind = "leaders" /\ pc # pc2 /\ Twin!Execute

AnySpec == AnyInit /\ [][AnyNext]_<<state, textVars, twin>>

-----------------------------------------------------------------------------
(* Properties *)

\* The same 8080 program in both modes: after every step PC, A, the pairs, the
\* memory and the flags S, Z and C are the same, so that all the differences of
\* the modes (P, H, N, X, Y) stay within those flags; and whatever bytes an 8080
\* executes, IX, IY, the alternate registers, I, R and the interrupt state, which
\* it has not, stay as they are (README.md, "8080 and Z80 mode"; the conditions on
\* cpu_mode in qkz80.cc and qkz80_reg_set.cc).
ModesAgree ==
  /\ kind = "modes" =>
       /\ pc = pc2 /\ a = a2 /\ reg = reg2 /\ mem = mem2
       /\ f \cap {"S", "Z", "C"} = f2 \cap {"S", "Z", "C"}
  /\ mode = "8080" =>
       /\ alt = was.alt /\ sys = was.sys
       /\ reg["IX"] = was.reg["IX"] /\ reg["IY"] = was.reg["IY"]

\* Of a chain of index prefixes only the last one counts: started at that one
\* the processor does the same and ends at the same address ("the last one
\* wins", qkz80.cc:318).
LastLeaderWins ==
  kind = "leaders" /\ pc # TextAt =>
    <<mode, a, f, reg, pc, alt, sys, mem>> = twin
=============================================================================
