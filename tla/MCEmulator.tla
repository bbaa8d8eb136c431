------------------------------ MODULE MCEmulator ------------------------------
(* The process: main and the run loop, or the program's console calls.  Each run   *)
(* of the model is one of the two; the part it leaves out takes no step.           *)
(* Two instructions of a program are enough: where it is and where it goes.        *)
(* The shapes of an argument: short, without extension, longer than 8.3, of two    *)
(* dots, with a drive, in a directory, and two that are cut to one name.           *)
EXTENDS Emulator, Console

bothVars == <<vars, pvars>>

NoConsole == ConsoleInit /\ way = "none" /\ told = FALSE

NoMain ==
  /\ argv = <<>> /\ mem = <<>> /\ fileMap = <<>> /\ step = "memory"
  /\ stage = "exited" /\ terminal = FALSE /\ raw = FALSE /\ saved = FALSE
  /\ pc = Start /\ stack = <<>> /\ executed = 0

\* One thread: main with what it calls, or the program that calls the console.
Process ==
  \/ way = "none" /\ Next /\ UNCHANGED pvars
  \/ way # "none" /\ ProgramStep /\ UNCHANGED vars

User == way # "none" /\ UserStep /\ UNCHANGED vars

\* The program may exit, or wait for a user who types no more.
Waiting == way # "none" /\ UNCHANGED bothVars

ProcessSpec ==
  /\ (Init /\ NoConsole) \/ (NoMain /\ ProgramInit)
  /\ [][Process \/ User \/ Waiting]_bothVars /\ WF_bothVars(Process)

Short == <<97, 46, 116>>                                             \* a.t
Bare  == <<98, 99>>                                                  \* bc
Long1 == <<97, 98, 99, 100, 101, 102, 103, 104, 105, 46, 116>>       \* abcdefghi.t
Long2 == <<97, 98, 99, 100, 101, 102, 103, 104, 106, 46, 116>>       \* abcdefghj.t
Dots  == <<97, 46, 98, 46, 99, 100>>                                 \* a.b.cd
Drive == <<98, 58, 97, 46, 116>>                                     \* b:a.t
Away  == <<100, 100, 100, 100, 47, 97, 98, 99, 100, 101, 46, 116>>   \* dddd/abcde.t
Odd   == <<57, 58, 97>>                                               \* 9:a
Switch == <<45, 120>>                                                \* -x

MCArgument == {Short, Bare, Long1, Long2, Dots, Drive, Away, Odd, Switch}
MCRegular == MCArgument \ {Drive, Odd, Switch}
=============================================================================
