----------------------------- MODULE MCProcessor -----------------------------
(* All families of programs in one processor, one after the other: each run    *)
(* of it is a program of one family, be it on the bare processor or one that   *)
(* makes system calls in its CP/M.  What the family has no use for stays as it *)
(* begins.                                                                     *)
EXTENDS BlockProgram, StackProgram, NumberProgram, UndoProgram, Twins, MachineProgram

bareVars == <<textVars, form, twin>>
ownVars  == <<stage, own, program, answers>>
processorVars == <<state, bareVars, ownVars>>

NoMachine ==
  /\ stage = "setup" /\ drive = 0 /\ user = 0 /\ iobyte = 0 /\ dma = 128 /\ diskMode = "ok"
  /\ program = [top |-> FALSE, depth |-> 0, calls |-> <<>>] /\ answers = <<>>

CallsBegin ==
  /\ ProgramInit /\ mode = "8080" /\ kind = "calls" /\ end = 0 /\ form = "none"
  /\ was = [a |-> a, f |-> f, reg |-> reg, alt |-> alt, sys |-> sys, mem |-> mem]
  /\ TwinBegins(mode, f, pc)

BareBegins ==
  \/ InstructionInit /\ form = "none"
  \/ /\ \/ NumberInit
        \/ (BlockInit \/ StackInit \/ UndoInit) /\ form = "none"
     /\ TwinBegins(mode, f, pc)

BareNext ==
  /\ form' = form
  /\ \/ Single
     \/ BothExecute
     \/ /\ kind \in {"number", "block", "stack", "undo"} /\ Continues /\ UNCHANGED twin
        /\ kind = "stack" => WithinStack

\* A bare program may stop where its text does; one that makes calls only by an exit.
MayStop == kind # "calls" \/ stage = "exited"

ProcessorInit == CallsBegin \/ (BareBegins /\ NoMachine)
ProcessorNext ==
  \/ BareNext /\ UNCHANGED ownVars
  \/ kind = "calls" /\ ProgramNext /\ UNCHANGED bareVars
  \/ MayStop /\ UNCHANGED processorVars

ProcessorSpec == ProcessorInit /\ [][ProcessorNext]_processorVars

-----------------------------------------------------------------------------
\* Twins: chains of index prefixes up to a fifth; operand bytes that point just
\* before the text's page and to negative offsets; and a compared instruction is
\* followed by one that shows carry, zero, sign or a register.
AllLeaders == {<<>>, <<203>>, <<237>>, <<221>>, <<253>>, <<221, 203, 254>>, <<253, 203, 5>>,
               <<221, 253>>, <<253, 237>>, <<253, 221, 253, 221>>, <<221, 221, 221, 221, 221>>}
NearTail    == <<254, 255>>
HereOperand == <<3, 3>>
TwoChains   == {<<221, 253>>, <<253, 221>>, <<221, 253, 221>>}
Probes ==   \* JC, JM, RZ, RAL, RAR, ADC B, SBB M, CMC, CMP M, DAD H, PUSH H, POP B
  {<<218, 6, 3>>, <<250, 6, 3>>, <<200>>, <<23>>, <<31>>, <<136>>, <<158>>, <<63>>, <<190>>,
   <<41>>, <<229>>, <<193>>}

\* BlockProgram: sources and destinations on both sides of each other and of address
\* 0; a search for bytes that are there, twice or once, and for one that is not.
RepeatedTexts == {<<237, 176>>, <<237, 184>>, <<237, 177>>, <<237, 185>>, <<221, 237, 176>>}
SixBytes      == [x \in 0..5 |-> <<7, 7, 9, 200, 11, 9>>[x + 1]]

\* StackProgram: CALL 16 and RST 1 lead to routines that use the stack themselves.
StackPhrases ==
  {<<197>>, <<245>>, <<221, 229>>,        \* PUSH B, PUSH PSW, PUSH IX
   <<209>>, <<241>>, <<253, 225>>,        \* POP D, POP PSW, POP IY
   <<227>>, <<221, 227>>,                 \* XTHL, EX (SP),IX
   <<205, 16, 0>>, <<212, 16, 0>>, <<207>>}   \* CALL 16, CNC 16, RST 1

\* 8: PUSH D, POP H, RC, RET.  16: POP H, PUSH H, RNZ, RETI.
TwoRoutines ==
  [x \in (8..11) \cup (16..20) |->
     (8 :> 213 @@ 9 :> 225 @@ 10 :> 216 @@ 11 :> 201
        @@ 16 :> 225 @@ 17 :> 229 @@ 18 :> 192 @@ 19 :> 237 @@ 20 :> 77)[x]]

\* UndoProgram: each kind of instruction that has an inverse, with the operands it
\* has a form of its own for.  Of the registers that hold one value only (I, R, the
\* cells stored to) the inner pairs use others.
Pairing(do, undo, carry) == [do |-> do, undo |-> undo, carry |-> carry]

Twice(s, carry) == Pairing(s, s, carry)
Common ==
  { Twice(<<235>>, "kept"), Twice(<<221, 235>>, "kept"),        \* XCHG; with IX
    Twice(<<217>>, "kept"), Twice(<<8>>, "kept"),               \* EXX; EX AF,AF'
    Twice(<<227>>, "kept"), Twice(<<253, 227>>, "kept"),        \* XTHL; EX (SP),IY
    Twice(<<47>>, "kept"), Twice(<<63>>, "kept"),               \* CMA; CMC
    Twice(<<237, 68>>, "lost"), Twice(<<238, 165>>, "lost"),    \* NEG; XRI A5h
    Pairing(<<197, 6, 3>>, <<193>>, "kept"),                     \* PUSH B, MVI B; POP B
    Pairing(<<245, 175>>, <<241>>, "kept"),                      \* PUSH PSW, XRA A; POP PSW
    Pairing(<<221, 229, 221, 46, 3>>, <<221, 225>>, "kept"),     \* PUSH IX, LD IXL,3; POP IX
    Pairing(<<3>>, <<11>>, "kept"),                              \* INX B; DCX B
    Pairing(<<59>>, <<51>>, "kept"),                             \* DCX SP; INX SP
    Pairing(<<253, 35>>, <<253, 43>>, "kept"),                   \* INC IY; DEC IY
    Pairing(<<60>>, <<61>>, "kept"),                             \* INR A; DCR A
    Pairing(<<53>>, <<52>>, "kept"),                             \* DCR M; INR M
    Pairing(<<253, 52, 127>>, <<253, 53, 127>>, "kept"),         \* INC (IY+127); DEC (IY+127)
    Pairing(<<221, 36>>, <<221, 37>>, "kept"),                   \* INC IXH; DEC IXH
    Pairing(<<7>>, <<15>>, "lost"),                              \* RLC; RRC
    Pairing(<<31>>, <<23>>, "needed"),                           \* RAR; RAL
    Pairing(<<203, 20>>, <<203, 28>>, "needed"),                 \* RL H; RR H
    Pairing(<<203, 14>>, <<203, 6>>, "lost"),                    \* RRC (HL); RLC (HL)
    Pairing(<<221, 203, 200, 30>>, <<221, 203, 200, 22>>, "needed"),  \* RR (IX-56); RL (IX-56)
    Pairing(<<237, 111>>, <<237, 103>>, "kept"),                 \* RLD; RRD
    Pairing(<<237, 103>>, <<237, 111>>, "kept"),                 \* RRD; RLD
    Pairing(<<198, 200>>, <<214, 200>>, "lost"),                 \* ADI C8h; SUI C8h
    Pairing(<<25>>, <<183, 237, 82>>, "lost"),                   \* DAD D; ORA A, SBC HL,DE
    Pairing(<<183, 237, 114>>, <<57>>, "lost") }                 \* ORA A, SBC HL,SP; DAD SP

\* SHLD, LXI H; LHLD.  LD (nn),DE, LXI D; LD DE,(nn).  LD (nn),SP; LD SP,(nn).
\* STA, XRA A; LDA.  LD (nn),IX, LD IX; LD IX,(nn).
Stores(n) ==
  { Pairing(<<34, n, 0, 33, 1, 2>>, <<42, n, 0>>, "kept"),
    Pairing(<<237, 83, n, 0, 17, 1, 2>>, <<237, 91, n, 0>>, "kept"),
    Pairing(<<237, 115, n, 0>>, <<237, 123, n, 0>>, "kept"),
    Pairing(<<50, n, 0, 175>>, <<58, n, 0>>, "lost"),
    Pairing(<<221, 34, n, 0, 221, 33, 1, 2>>, <<221, 42, n, 0>>, "kept") }

\* LD I,A or LD R,A, XRA A; LD A,I or LD A,R.
OuterPairs == Common \cup Stores(8) \cup {Pairing(<<237, 71, 175>>, <<237, 87>>, "lost")}
InnerPairs == Common \cup Stores(12) \cup {Pairing(<<237, 79, 175>>, <<237, 95>>, "lost")}

\* MachineProgram: all pairs of calls, triples of those that set and get, and full
\* stacks, the loader's and one that begins below the word at 6.
BdosCall(n, arg) == [bios |-> FALSE, number |-> n, arg |-> arg]
BiosCall(n, arg) == [bios |-> TRUE, number |-> n, arg |-> arg]

SetAndGet ==
  {BdosCall(7, 0), BdosCall(8, 149), BdosCall(13, 0), BdosCall(14, 33), BdosCall(25, 0),
   BdosCall(32, 19), BdosCall(32, 255)}
Others ==
  {BdosCall(n, 4660) : n \in {2, 12, 24, 26, 27, 28, 29, 30, 31, 38, 39, 41}}
    \cup {BiosCall(n, arg) : n \in {2, 9, 16}, arg \in {0, 1}}
    \cup {BiosCall(n, 0) : n \in {0, 4, 8, 10, 14, 15}}
Leaving == {BdosCall(0, 0), BiosCall(1, 0)}

Plain(calls) == [top |-> FALSE, depth |-> 0, calls |-> calls]
MCPrograms ==
  {Plain(<<k, l>>) : k \in SetAndGet \cup Others, l \in SetAndGet \cup Others \cup Leaving}
    \cup {Plain(<<k, l, m>>) : k, l, m \in SetAndGet}
    \cup {[top |-> t, depth |-> n, calls |-> <<BiosCall(16, 0), BdosCall(31, 0)>>]
            : t \in BOOLEAN, n \in {1, 100, 221}}
=============================================================================
