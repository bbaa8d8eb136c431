------------------------------ MODULE Program ------------------------------
(***************************************************************************)
(* Programs, not part of the emulator: a text that begins at TextAt and is *)
(* executed by Cpu, one instruction a step, until PC is behind it.  The    *)
(* families of programs are those of the modules that extend this one.     *)
(***************************************************************************)
EXTENDS Cpu

CONSTANT TextAt     \* where the text is

ASSUME TextAssumption == TextAt \in Word

VARIABLES
  kind,      \* the family the program belongs to
  end,       \* the address behind the text
  was        \* registers and memory at the start

textVars == <<kind, end, was>>

Flat(texts) ==
  LET upto[i \in 0..Len(texts)] == IF i = 0 THEN <<>> ELSE upto[i - 1] \o texts[i]
  IN  upto[Len(texts)]

Joined(m, n) == [x \in DOMAIN m \cup DOMAIN n |-> IF x \in DOMAIN m THEN m[x] ELSE n[x]]

\* What is still to be said of the start once A, the flags and the pairs are known:
\* the text lies in the memory m, and nothing has set the interrupt registers.
Begins(text, m) ==
  /\ alt = [a |-> 17, f |-> Fix({"Z"}), BC |-> 33000, DE |-> 34000, HL |-> 35000]
  /\ \E u \in Unset : sys = [r \in {"I", "R", "IM", "IFF1", "IFF2"} |-> u]
  /\ mem = Joined(Loaded(TextAt, text), m)
  /\ pc = TextAt /\ end = TextAt + Len(text)
  /\ was = [a |-> a, f |-> f, reg |-> reg, alt |-> alt, sys |-> sys, mem |-> mem]

Continues == pc # end /\ Execute /\ UNCHANGED textVars

Finished == pc = end

\* What a cell held at the start.
Before(x) == IF x \in DOMAIN was.mem THEN was.mem[x] ELSE 0
=============================================================================
