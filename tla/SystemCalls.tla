---------------------------- MODULE SystemCalls ----------------------------
(***************************************************************************)
(* What CP/M promises a program of the calls on its own state: each call   *)
(* is one step, made in the program's order with the program's argument;   *)
(* what it sets is what later calls answer.                                *)
(***************************************************************************)
EXTENDS Integers, SequencesExt

CONSTANTS Header, Parameters, Allocation     \* where the disk's tables are

VARIABLES
  calls,       \* the program: [bios, number, arg]
  answers,     \* [a, hl] as each call that has come back left them
  system       \* [drive, user, iobyte, dma]

CallsInit ==
  answers = <<>> /\ system = [drive |-> 0, user |-> 0, iobyte |-> 0, dma |-> 128]

Sets(c, n) == ~c.bios /\ c.number = n

\* The state behind a call.
Later(s, c) ==
  CASE Sets(c, 8)  -> [s EXCEPT !.iobyte = c.arg % 256]
    [] Sets(c, 13) -> [s EXCEPT !.drive = 0, !.user = 0]
    [] Sets(c, 14) -> [s EXCEPT !.drive = c.arg % 16]
    [] Sets(c, 26) -> [s EXCEPT !.dma = c.arg]
    [] Sets(c, 32) /\ c.arg % 256 # 255 -> [s EXCEPT !.user = c.arg % 16]
    [] OTHER -> s

\* What the program finds in A and HL; a call that answers nothing may leave anything.
Fits(s, c, r) ==
  IF c.bios
  THEN CASE c.number = 2  -> r.a \in {0, 255}
         [] c.number = 9  -> r.hl = IF c.arg = 0 THEN Header ELSE 0
         [] c.number = 15 -> r.a = 255
         [] c.number \in {8, 10, 11, 12, 13, 14, 16} -> r.a = 0
         [] OTHER -> TRUE
  ELSE CASE c.number = 7  -> r.a = s.iobyte
         [] c.number = 12 -> r.a = 34 /\ r.hl = 34
         [] c.number = 24 -> r.hl = 1
         [] c.number = 25 -> r.a = s.drive
         [] c.number = 27 -> r.hl = Allocation
         [] c.number = 29 -> r.hl = 0
         [] c.number \in {30, 38} -> r.a = 0
         [] c.number = 31 -> r.hl = Parameters
         [] c.number = 32 /\ c.arg % 256 = 255 -> r.a = s.user
         [] c.number > 40 -> r.a = 255
         [] OTHER -> TRUE

CallsNext ==
  /\ Len(answers) < Len(calls) /\ UNCHANGED calls
  /\ Len(answers') = Len(answers) + 1 /\ IsPrefix(answers, answers')
  /\ LET c == calls[Len(answers')]
     IN  system' = Later(system, c) /\ Fits(system, c, answers'[Len(answers')])

CallsSpec == CallsInit /\ [][CallsNext]_<<calls, answers, system>>
=============================================================================
