---------------------------- MODULE BlockProgram ----------------------------
(***************************************************************************)
(* A program of one repeated block instruction, LDIR, LDDR, CPIR or CPDR,  *)
(* on a small area of memory, with source, destination and count of any    *)
(* relation.  It is executed one byte a step, from the instruction's first *)
(* byte each time.                                                         *)
(***************************************************************************)
EXTENDS Program

CONSTANTS
  BlockTexts,  \* the instruction's forms
  Area,        \* the first bytes of the memory
  Sources, Destinations, Counts, Sought     \* what HL, DE, BC and A are

ASSUME BlockAssumption ==
  /\ BlockTexts \subseteq Seq(Byte) /\ \A x \in DOMAIN Area : x \in Word
  /\ Sources \cup Destinations \cup Counts \subseteq Word /\ Sought \subseteq Byte

BlockInit ==
  /\ kind = "block" /\ mode = "z80" /\ a \in Sought /\ f \in {{}, {"S", "Z", "C"}}
  /\ \E hl \in Sources, de \in Destinations, bc \in Counts :
       reg = [BC |-> bc, DE |-> de, HL |-> hl, SP |-> 32768, IX |-> 0, IY |-> 0]
  /\ \E text \in BlockTexts : Begins(text, Area)

-----------------------------------------------------------------------------
(* The instruction and its block *)

Last      == Read(Plus(end, -1))
Direction == IF Last \in {176, 177} THEN 1 ELSE -1     \* LDIR and CPIR, or LDDR and CPDR
Moves     == Last \in {176, 184}
BC0       == was.reg["BC"]
HL0       == was.reg["HL"]
DE0       == was.reg["DE"]
Count     == ((BC0 - 1) % 65536) + 1     \* BC = 0 stands for 65536

\* The cells that are read and written one after the other.
Source(k) == Plus(HL0, Direction * k)
Target(k) == Plus(DE0, Direction * k)

\* The same from any registers and memory, with up to four index prefixes, as long as
\* no byte is moved onto the instruction itself.
AnyBlockInit ==
  /\ CpuOK /\ mode = "z80" /\ kind = "block"
  /\ was = [a |-> a, f |-> f, reg |-> reg, alt |-> alt, sys |-> sys, mem |-> mem]
  /\ \E n \in 0..4 : /\ \A k \in 0..(n - 1) : Code(k) \in {221, 253}
                     /\ Code(n) = 237 /\ end = Plus(pc, n + 2)
  /\ Last \in {176, 177, 184, 185}
  /\ Moves => \A k \in 0..(Count - 1) : Target(k) \notin {Plus(end, -1), Plus(end, -2)}

AnyBlockSpec == AnyBlockInit /\ [][Continues]_<<state, textVars>>

-----------------------------------------------------------------------------
(* Properties *)

\* How far the destination is before the source on the way.
Ahead == (Direction * (DE0 - HL0)) % 65536

\* What arrives in the k-th cell.
Arriving(k) == Before(Source(IF Ahead \in 1..(BC0 - 1) THEN k % Ahead ELSE k))

\* A block that is moved arrives whole, and nothing else changes, also where it
\* overlaps the source or crosses address 0; when it runs into its own source, the
\* first bytes are repeated, which is what programs fill memory with.  HL and DE
\* end behind the blocks, BC is 0, P is reset, S, Z and C are kept
\* (docs/z80_manual.txt, LDIR and LDDR; qkz80.cc, cases b0 and b8).
MoveIsExact ==
  kind = "block" /\ Finished /\ Moves =>
    /\ \A k \in 0..(BC0 - 1) : Read(Target(k)) = Arriving(k)
    /\ \A x \in DOMAIN mem : x \notin {Target(k) : k \in 0..(BC0 - 1)} => Read(x) = Before(x)
    /\ reg["HL"] = Source(BC0) /\ reg["DE"] = Target(BC0) /\ reg["BC"] = 0
    /\ f \cap {"S", "Z", "C", "P"} = was.f \cap {"S", "Z", "C"}

\* How many bytes a search has looked at.
Looked == ((BC0 - reg["BC"] - 1) % 65536) + 1

\* A search ends at the first byte equal to A: Z says whether there is one among
\* the BC bytes, HL is behind it, P says whether bytes are left; C is kept
\* (qkz80.cc, cases b1 and b9).
SearchFindsFirst ==
  kind = "block" /\ Finished /\ ~Moves =>
    /\ reg["HL"] = Source(Looked)
    /\ "Z" \in f <=> Before(Source(Looked - 1)) = a
    /\ \A k \in 0..(Looked - 2) : Before(Source(k)) # a
    /\ "Z" \notin f => reg["BC"] = 0
    /\ "P" \in f <=> reg["BC"] # 0
    /\ "C" \in f <=> "C" \in was.f
    /\ mem = was.mem

\* Both, as one promise of the repeated instructions.
BlockIsExact == MoveIsExact /\ SearchFindsFirst
=============================================================================
