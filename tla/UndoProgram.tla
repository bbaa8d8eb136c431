---------------------------- MODULE UndoProgram ----------------------------
(***************************************************************************)
(* Programs that do something, something else within it, and undo both.    *)
(***************************************************************************)
EXTENDS Program

CONSTANTS
  Scratch,      \* the cells they store to meanwhile
  Outer, Inner, \* pairs of texts that undo each other, and what they make of the carry
  Values,       \* what A, and the byte HL points at, are at the start
  Stacks        \* where SP starts

Undoing == [do : Seq(Byte), undo : Seq(Byte), carry : {"kept", "lost", "needed"}]

ASSUME UndoAssumption ==
  /\ Scratch \subseteq Word /\ Stacks \subseteq Word
  /\ Outer \cup Inner \subseteq Undoing /\ Values \subseteq Byte

\* The inner pair leaves the carry alone where the outer one needs it.
Undone(o, i) == o.do \o i.do \o i.undo \o o.undo
UndoTexts ==
  {Undone(p[1], p[2]) : p \in {q \in Outer \X Inner : q[1].carry # "needed" \/ q[2].carry # "lost"}}

UndoInit ==
  /\ kind = "undo" /\ mode = "z80" /\ a \in Values /\ f \in {{}, {"C", "P", "H"}}
  /\ \E sp \in Stacks :
       reg = [BC |-> 24578, DE |-> 28935, HL |-> 40960, SP |-> sp, IX |-> 45000, IY |-> 65535]
  /\ \E text \in UndoTexts, v \in Values : Begins(text, [x \in {reg["HL"]} |-> v])

-----------------------------------------------------------------------------
(* Properties *)

\* The programs whose pairs both keep the carry.
Keeping ==
  {Undone(p[1], p[2]) : p \in {q \in Outer \X Inner : "lost" \notin {q[1].carry, q[2].carry}}}
CarryKept == [k \in 1..(end - TextAt) |-> was.mem[TextAt + k - 1]] \in Keeping

\* The memory a program may leave changed: its scratch cells and what is below SP.
Left == Scratch \cup {Plus(reg["SP"], -k) : k \in 1..4}

\* Whatever is done and undone in the reverse order leaves the registers, the
\* alternate ones (but for their flags) and the memory as they were: exchanges done
\* twice, what is pushed and popped, stored and loaded, counted up and down, rotated to and fro
\* (also through the carry, and by nibbles), added and subtracted; and the carry
\* is what it was if both pairs keep it.
UndoRestores ==
  kind = "undo" /\ Finished =>
    /\ a = was.a /\ reg = was.reg
    /\ \A r \in {"a", "BC", "DE", "HL"} : alt[r] = was.alt[r]
    /\ CarryKept => ("C" \in f) = ("C" \in was.f)
    /\ \A x \in DOMAIN mem \ Left : mem[x] = Before(x)
=============================================================================
