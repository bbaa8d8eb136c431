------------------------------ MODULE Emulator ------------------------------
(***************************************************************************)
(* main and the run loop of src/src/cpmemu.cc: start-up with its early     *)
(* ends and the set-up of page zero (CommandLine), the traps handle_pc     *)
(* looks for before every instruction, the dispatch of BDOS and BIOS calls *)
(* as far as control goes, the instruction limit, and every way out with   *)
(* what it does about the saved memory and the terminal.  What a call does *)
(* to files, console and registers is modelled elsewhere; what an          *)
(* instruction does but move PC and SP is not, so page zero stays as the   *)
(* program finds it.                                                       *)
(***************************************************************************)
EXTENDS CommandLine

CONSTANTS
  Code,        \* addresses of the program's instructions, Start among them
  Start,       \* TPA_START
  Boot,        \* address 0
  Bdos,        \* 0005h, whose JMP leads to the trap at BDOS_BASE
  Bios,        \* the kinds of BIOS entries: "boot" "wboot" "conin" "disk" "other"
  SaveFile,    \* --save-memory was given
  DiskMode,    \* bios_disk_mode: "ok", "fail" or "error"
  StackMax,    \* bound of the model: return addresses on the stack
  Limit        \* max_instructions

ASSUME EmulatorAssumption ==
  /\ Start \in Code /\ {Boot, Bdos} \cap Code = {}
  /\ Bios \subseteq {"boot", "wboot", "conin", "disk", "other"}
  /\ SaveFile \in BOOLEAN /\ DiskMode \in {"ok", "fail", "error"}
  /\ StackMax \in Nat /\ Limit \in Nat \ {0}

Entry(k) == <<"entry", k>>      \* a jump of the table at BIOS_BASE
Trap(k)  == <<"trap", k>>       \* where it leads, from 0FF00h on
BdosTrap == <<"trap", "bdos">>

Target == Code \cup {Boot, Bdos} \cup {Entry(k) : k \in Bios}
Pc     == Target \cup {BdosTrap} \cup {Trap(k) : k \in Bios}

VARIABLES
  stage,      \* where main is; "exited" or "aborted" once the process has ended
  terminal,   \* stdin is one
  raw,        \* ... and is in raw mode
  saved,      \* do_save_memory has written the file
  pc, stack,  \* PC and the words from SP on
  executed    \* instruction_count

process == <<stage, terminal, raw, saved, pc, stack, executed>>
vars == <<pageZero, process>>
cpu == <<pc, stack, executed>>

Init ==
  /\ SetupInit
  /\ stage = "options" /\ terminal \in BOOLEAN /\ raw = FALSE /\ saved = FALSE
  /\ pc = Start /\ stack = <<>> /\ executed = 0

\* Faulty: nothing is registered with atexit.
LeaveRaw(saves) ==
  /\ stage' = "exited" /\ raw' = raw
  /\ saved' = (saves /\ SaveFile)
  /\ terminal' = terminal

\* exit() and the return from main run what atexit was given: disable_raw_mode.
Leave(saves) ==
  /\ stage' = "exited" /\ raw' = FALSE
  /\ saved' = (saves /\ SaveFile)
  /\ terminal' = terminal

Ahead(next) == stage' = next /\ UNCHANGED <<terminal, saved, cpu, pageZero>>

---------------------------------------------------------------------------
(* main, up to the run loop                                                 *)

\* Without a program there is nothing but a message.
ParseOptions ==
  /\ stage = "options"
  /\ \/ Leave(FALSE) /\ UNCHANGED <<cpu, pageZero>>
     \/ Ahead("raw") /\ raw' = raw

EnableRawMode == stage = "raw" /\ Ahead("config") /\ raw' = terminal

\* A config file that cannot be read or names no program, a program that cannot.
Opened(next) == \/ Leave(FALSE) /\ UNCHANGED <<cpu, pageZero>>
                \/ Ahead(next) /\ raw' = raw

\* An empty key or value in the file is an exception that nothing catches, and
\* the process ends without what atexit was given.
LoadConfig ==
  /\ stage = "config"
  /\ \/ Opened("setup")
     \/ stage' = "aborted" /\ UNCHANGED <<terminal, raw, saved, cpu, pageZero>>

SetUp == stage = "setup" /\ Setup /\ UNCHANGED <<terminal, raw, saved, cpu>>
           /\ stage' = IF step' = "run" THEN "load" ELSE "setup"

LoadProgram == stage = "load" /\ Opened("run")

---------------------------------------------------------------------------
(* Traps: handle_pc                                                         *)

Stay == UNCHANGED <<stage, terminal, raw, saved, pageZero>>

\* Beyond the words the program pushed memory is zero, as at the start; a program
\* that fills its stack with the trap's own address is left out.
PopWord ==
  \/ stack = <<>> /\ pc' = Boot /\ stack' = stack
  \/ stack # <<>> /\ pc' = Head(stack) /\ stack' = Tail(stack)

\* Faulty: the emulated RET is forgotten.
TrapStays == UNCHANGED <<pc, stack, executed>> /\ Stay

TrapReturn == PopWord /\ executed' = executed /\ Stay

TrapBoot == stage = "run" /\ pc = Boot /\ Leave(TRUE) /\ UNCHANGED <<cpu, pageZero>>

\* BDOS 0 exits, the console calls do at the fifth ^C, all others return.
TrapBdos ==
  /\ stage = "run" /\ pc = BdosTrap
  /\ \/ Leave(FALSE) /\ UNCHANGED <<cpu, pageZero>>       \* fn 0
     \/ Leave(TRUE) /\ UNCHANGED <<cpu, pageZero>>        \* fn 1, 6, 10
     \/ TrapReturn

TrapBios ==
  /\ stage = "run"
  /\ \/ pc = Trap("wboot") /\ Leave(FALSE) /\ UNCHANGED <<cpu, pageZero>>
     \/ pc = Trap("conin") /\ Leave(TRUE) /\ UNCHANGED <<cpu, pageZero>>
     \/ pc = Trap("disk") /\ DiskMode = "error" /\ Leave(FALSE) /\ UNCHANGED <<cpu, pageZero>>
     \/ pc \in {Trap(k) : k \in Bios \ {"wboot"}}
          /\ ~(pc = Trap("disk") /\ DiskMode = "error") /\ TrapReturn

---------------------------------------------------------------------------
(* Instructions                                                             *)

\* Counting, and the end of main at the limit.
Counted ==
  /\ executed' = executed + 1
  /\ \/ executed' >= Limit /\ Leave(FALSE)
     \/ executed' < Limit /\ Stay

\* Only instructions that move PC elsewhere or use the stack.
Jump == pc \in Code /\ pc' \in Target /\ stack' = stack

Call ==
  /\ pc \in Code /\ Len(stack) < StackMax
  /\ pc' \in Target /\ \E next \in Code : stack' = <<next>> \o stack

Return == pc \in Code /\ PopWord

\* The jumps setup_memory has placed at 0005h and in the BIOS table.
TableJump ==
  /\ \/ pc = Bdos /\ pc' = BdosTrap
     \/ \E k \in Bios : pc = Entry(k) /\ pc' = Trap(k)
  /\ stack' = stack

Execute ==
  stage = "run" /\ UNCHANGED pageZero /\ (Jump \/ Call \/ Return \/ TableJump) /\ Counted

Exited == stage \in {"exited", "aborted"} /\ UNCHANGED vars

Next == ParseOptions \/ EnableRawMode \/ LoadConfig \/ SetUp \/ LoadProgram
          \/ TrapBoot \/ TrapBdos \/ TrapBios \/ Execute \/ Exited

\* The process runs on; console input is answered, be it with ^Z.
Spec == Init /\ [][Next]_vars /\ WF_vars(Next)

---------------------------------------------------------------------------
(* Properties                                                               *)

\* However the emulator ends by itself, the terminal is as it was (157-185,
\* 2386-2667).
TerminalRestored == stage = "exited" => ~raw

\* It does end: traps are not counted, but each takes a word off the stack
\* (2632-2665).
RunEnds == <>(stage \in {"exited", "aborted"})
=============================================================================
