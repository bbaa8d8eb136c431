--------------------------- MODULE MachineProgram ---------------------------
(***************************************************************************)
(* Programs, not part of the emulator, that push some words and then make  *)
(* calls: the BDOS by CALL 5, the BIOS through the vector at 0001h, as     *)
(* programs do that run on every CP/M.  They end with RET, or with JMP 0   *)
(* when words are left on the stack.                                       *)
(***************************************************************************)
EXTENDS Machine

CONSTANT Programs     \* [top, depth, calls]: LHLD 6 / SPHL first; words to push

ASSUME ProgramAssumption ==
  \A p \in Programs :
    /\ p.top \in BOOLEAN /\ p.depth \in 0..255
    /\ \A k \in DOMAIN p.calls : p.calls[k].bios \in BOOLEAN /\ p.calls[k].number \in Byte
                                  /\ p.calls[k].arg \in Word

VARIABLES
  program,     \* the program
  answers      \* A and HL behind each of its calls

programVars == <<machine, program, answers>>

\* Sixteen bytes at x.  The BIOS's entry is taken from the vector in a routine of
\* its own, behind the jump to the next block.
CallBlock(x, c) ==
  IF c.bios
  THEN <<205>> \o WordAt(x + 6) \o <<195>> \o WordAt(x + 16)
         \o <<42, 1, 0, 17>> \o WordAt((3 * (c.number - 1)) % 65536) \o <<25, 14, c.arg % 256, 233>>
  ELSE <<17>> \o WordAt(c.arg) \o <<14, c.number, 205, 5, 0>> \o [k \in 1..8 |-> 0]

\* LHLD 6, SPHL; MVI B,depth, then PUSH D, DCR B, JNZ.
Prologue(p) ==
  (IF p.top THEN <<42, 6, 0, 249>> ELSE <<0, 0, 0, 0>>)
    \o (IF p.depth = 0 THEN [k \in 1..7 |-> 0]
        ELSE <<6, p.depth, 213, 5, 194>> \o WordAt(TpaStart + 6))

Text(p) ==
  LET blocks[k \in 0..Len(p.calls)] ==
        IF k = 0 THEN Prologue(p)
        ELSE blocks[k - 1] \o CallBlock(TpaStart + Len(blocks[k - 1]), p.calls[k])
  IN  blocks[Len(p.calls)] \o (IF p.depth = 0 /\ ~p.top THEN <<201>> ELSE <<195, 0, 0>>)

ProgramInit == MachineInit /\ program \in Programs /\ answers = <<>>

ProgramNext ==
  /\ \/ SetupMemory \/ LoadProgram(Text(program)) \/ Running
  /\ program' = program
  /\ answers' = IF stage = "run" /\ AtTrap /\ stage' = "run" /\ Len(answers) < Len(program.calls)
                THEN Append(answers, [a |-> a', hl |-> reg'["HL"]]) ELSE answers

ProgramSpec == ProgramInit /\ [][ProgramNext]_programVars

-----------------------------------------------------------------------------
(* Properties                                                                 *)

Calls ==
  INSTANCE SystemCalls WITH
    Header <- DphAt, Parameters <- DpbAt, Allocation <- AlvAt, calls <- program.calls,
    system <- [drive |-> drive, user |-> user, iobyte |-> iobyte, dma |-> dma]

\* Instructions, jump tables, traps, argument registers and the simulated RET make
\* calls that happen one by one in the program's order and come back with their
\* answers, with up to 221 words on the stack setup_memory begins (setup_memory,
\* handle_pc, bdos_call, bios_call).
SystemCallsSpec == Calls!CallsSpec
=============================================================================
