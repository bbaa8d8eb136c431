------------------------------- MODULE Console -------------------------------
(***************************************************************************)
(* The console calls of src/src/cpmemu.cc: BDOS 1 (console input), 6       *)
(* (direct console I/O), 10 (read console buffer), 11 (console status) and *)
(* the BIOS's CONST and CONIN, over the C library's stdin.                 *)
(*                                                                         *)
(* The actors are the user, who types at any time and may close the input, *)
(* and the CP/M program.  A typed character waits in the kernel ("arrived",*)
(* what select() asks about) until getchar() takes everything that waits   *)
(* into stdin's buffer ("fetched") and delivers from there.  Reading a     *)
(* line blocks for each character, so one character is one step.           *)
(*                                                                         *)
(* One program makes any call at any time; the others read keys for as     *)
(* long as they run, each in one of the ways CP/M offers: it waits in      *)
(* BDOS 1, it reads lines, it asks BDOS 11 before it reads, or it takes    *)
(* what direct input gives.                                                *)
(***************************************************************************)
EXTENDS Integers, Sequences, FiniteSets

CONSTANTS
  Printable,      \* characters a line stores and echoes
  CtrlC, CtrlU, CtrlZ, Del, Cr, Lf,
  Other,          \* control characters a line ignores
  Nul,            \* what direct input returns when there is no character
  NoChar,         \* getchar's EOF
  NoLine,         \* no line is being read
  CtrlCExitCount, \* CTRL_C_EXIT_COUNT: 5
  LineMax,        \* the buffer sizes a program passes to BDOS 10
  Keys,           \* what the user types
  TypeBound,      \* bound of the model: characters the user types
  Ways            \* what the program may be

Char == Printable \cup {CtrlC, CtrlU, CtrlZ, Del, Cr, Lf} \cup Other

ASSUME ConsoleAssumption ==
  /\ CtrlCExitCount \in Nat \ {0} /\ LineMax \subseteq Nat /\ Keys \subseteq Char /\ TypeBound \in Nat
  /\ Nul \notin Char /\ NoChar \notin Char
  /\ {CtrlC, CtrlU, CtrlZ, Del, Cr, Lf} \cap (Printable \cup Other) = {}
  /\ Cardinality({CtrlC, CtrlU, CtrlZ, Del, Cr, Lf}) = 6
  /\ Ways \subseteq {"any", "waits", "lines", "asks", "direct"}

VARIABLES
  arrived,      \* typed, not yet read by the process
  fetched,      \* stdin's buffer
  closed,       \* the input has ended
  consumed,     \* every character the emulator has taken so far
  consecutive,  \* consecutive_ctrl_c
  line,         \* BDOS 10 in progress: the characters stored so far
  a,            \* register A: a character, Nul, or what a status call returns
  running,      \* the emulator has not exited
  way,          \* what the program is
  told          \* the last status call said that a key is there

consoleVars == <<arrived, fetched, closed, consumed, consecutive, line, a, running>>
input == <<arrived, fetched, closed>>

Ready == 255
NotReady == 0

\* The line being read: its size, its characters, and where its input begins.
Line == [max : LineMax, text : Seq(Char), from : Nat]

TypeOK ==
  /\ arrived \in Seq(Char) /\ fetched \in Seq(Char) /\ closed \in BOOLEAN
  /\ consumed \in Seq(Char \cup {NoChar})
  /\ consecutive \in 0..CtrlCExitCount
  /\ line \in Line \cup {NoLine}
  /\ a \in Char \cup {Nul, Ready, NotReady} /\ running \in BOOLEAN

ConsoleInit ==
  /\ arrived = <<>> /\ fetched = <<>> /\ closed = FALSE /\ consumed = <<>>
  /\ consecutive = 0 /\ line = NoLine /\ a = Nul /\ running = TRUE

---------------------------------------------------------------------------
(* The user                                                                 *)

Typed == Len(consumed) + Len(fetched) + Len(arrived)

Type(c) ==
  /\ ~closed /\ Typed < TypeBound
  /\ arrived' = Append(arrived, c)
  /\ UNCHANGED <<fetched, closed, consumed, consecutive, line, a, running>>

CloseInput ==
  /\ ~closed
  /\ closed' = TRUE
  /\ UNCHANGED <<arrived, fetched, consumed, consecutive, line, a, running>>

---------------------------------------------------------------------------
(* getchar and select                                                       *)

\* stdin_has_data: select() on the descriptor, for which an ended input is readable.
HasData == arrived # <<>> \/ closed

CanGet == fetched # <<>> \/ arrived # <<>> \/ closed

NextChar ==
  IF fetched # <<>> THEN Head(fetched) ELSE IF arrived # <<>> THEN Head(arrived) ELSE NoChar

\* Faulty: any other character leaves the count as it is.
CheckTotalCtrlC(ch) ==
  /\ consecutive' = IF ch = CtrlC THEN consecutive + 1 ELSE consecutive
  /\ running' = (consecutive' < CtrlCExitCount)

\* check_ctrl_c_exit: the emulator exits at the fifth ^C in a row.
CheckCtrlC(ch) ==
  /\ consecutive' = IF ch = CtrlC THEN consecutive + 1 ELSE 0
  /\ running' = (consecutive' < CtrlCExitCount)

\* The model keeps one NoChar at the end of consumed.
GetChar ==
  /\ CanGet
  /\ fetched' = IF fetched # <<>> THEN Tail(fetched)
                ELSE IF arrived # <<>> THEN Tail(arrived) ELSE <<>>
  /\ arrived' = IF fetched # <<>> THEN arrived ELSE <<>>
  /\ consumed' = IF NextChar = NoChar /\ consumed # <<>> /\ consumed[Len(consumed)] = NoChar
                 THEN consumed ELSE Append(consumed, NextChar)
  /\ CheckCtrlC(NextChar)
  /\ closed' = closed

\* An end of line becomes CR; the end of the input becomes eof.
Delivered(eof) == IF NextChar = NoChar THEN eof ELSE IF NextChar = Lf THEN Cr ELSE NextChar

Calling == running /\ line = NoLine

---------------------------------------------------------------------------
(* The program's calls                                                      *)

\* Faulty: waits in select() before getchar().
ReadConsoleSelects ==
  /\ Calling /\ HasData /\ GetChar
  /\ a' = Delivered(CtrlZ)
  /\ UNCHANGED line

\* fn 1 and CONIN.
ReadConsole ==
  /\ Calling /\ GetChar
  /\ a' = Delivered(CtrlZ)
  /\ UNCHANGED line

\* fn 6 with E = 0FFh.
DirectInput ==
  /\ Calling
  /\ \/ HasData /\ GetChar /\ a' = Delivered(Nul)
     \/ ~HasData /\ a' = Nul /\ UNCHANGED <<input, consumed, consecutive, running>>
  /\ UNCHANGED line

\* fn 11, fn 6 with E = 0FEh, and CONST.
Status ==
  /\ Calling
  /\ a' = IF HasData THEN Ready ELSE NotReady
  /\ UNCHANGED <<input, consumed, consecutive, line, running>>

\* fn 10: a buffer of no characters is returned at once.
StartLine(max) ==
  /\ Calling
  /\ \/ max = 0 /\ a' = NotReady /\ UNCHANGED line
     \/ /\ max > 0
        /\ line' = [max |-> max, text |-> <<>>, from |-> Len(consumed)] /\ a' = a
  /\ UNCHANGED <<input, consumed, consecutive, running>>

EndsLine(ch) == ch \in {Cr, Lf, CtrlZ, NoChar}

\* Faulty: ^U clears the screen and not the buffer.
StoredAfterCancel(text, ch) ==
  IF ch \in Printable \cup {CtrlC} THEN Append(text, ch)
  ELSE IF ch = Del /\ text # <<>> THEN SubSeq(text, 1, Len(text) - 1) ELSE text

\* The line after one character.
Stored(text, ch) ==
  IF ch \in Printable \cup {CtrlC} THEN Append(text, ch)
  ELSE IF ch = Del /\ text # <<>> THEN SubSeq(text, 1, Len(text) - 1)
  ELSE IF ch = CtrlU THEN <<>> ELSE text

\* One turn of fn 10's loop.
EditLine ==
  /\ running /\ line # NoLine /\ GetChar
  /\ LET text == Stored(line.text, NextChar)
         ends == EndsLine(NextChar) \/ Len(text) = line.max
     IN  /\ line' = IF ends THEN NoLine ELSE [line EXCEPT !.text = text]
         /\ a' = IF ends THEN NotReady ELSE a

\* A program's next step, whatever it does.
AnyCall ==
  \/ ReadConsole \/ DirectInput \/ Status \/ EditLine
  \/ \E max \in LineMax : StartLine(max)

---------------------------------------------------------------------------
(* Programs and users                                                       *)

pvars == <<consoleVars, way, told>>

ProgramStep ==
  /\ way' = way
  /\ \/ way = "any" /\ AnyCall /\ told' = told
     \/ way = "waits" /\ ReadConsole /\ told' = told
     \/ way = "lines" /\ told' = told /\ (EditLine \/ \E max \in LineMax : StartLine(max))
     \/ way = "direct" /\ DirectInput /\ told' = told
     \/ way = "asks" /\ ~told /\ Status /\ told' = (a' = Ready)
     \/ way = "asks" /\ told /\ ReadConsole /\ told' = FALSE

\* A user who types to a program that asks first waits until it has read each key:
\* what is typed ahead of it stays in stdin's buffer, where the status call does not
\* see it (79-99).
Slow == fetched \o arrived = <<>>

UserStep ==
  /\ (way \in {"asks", "direct"} => Slow)
  /\ (CloseInput \/ \E c \in Keys : Type(c))
  /\ UNCHANGED <<way, told>>

ProgramInit == ConsoleInit /\ way \in Ways /\ told = FALSE

\* The emulator executes the program whenever it can; the user is under no obligation.
ProgramSpec ==
  ProgramInit /\ [][UserStep \/ ProgramStep]_pvars /\ WF_pvars(ProgramStep)

---------------------------------------------------------------------------
(* Properties                                                               *)

\* The ^Cs at the end of what was consumed.
TrailingCtrlC ==
  Cardinality({k \in DOMAIN consumed : \A j \in k..Len(consumed) : consumed[j] = CtrlC})

\* The emulator exits exactly when the last five characters it took, by whatever
\* calls, were ^C: none of the calls forgets to count or to reset (141-155).
ExitsAtFiveCtrlC ==
  /\ TrailingCtrlC = consecutive
  /\ running <=> TrailingCtrlC < CtrlCExitCount

\* A character stored at position k of the line's input survives when no later
\* ^U, and no later Del left over by the characters after it, erased it.
Count(from, to, S) == Cardinality({j \in from..to : consumed[j] \in S})

Survives(k) ==
  /\ consumed[k] \in Printable \cup {CtrlC}
  /\ \A j \in (k + 1)..Len(consumed) :
       /\ consumed[j] # CtrlU
       /\ Count(k + 1, j, {Del}) <= Count(k + 1, j, Printable \cup {CtrlC})

Surviving == {k \in (line.from + 1)..Len(consumed) : Survives(k)}

\* The line BDOS 10 has stored is what a reader of the keys would expect, and it
\* stays below the size the program gave (1321-1402).
LineIsWhatSurvives ==
  line # NoLine =>
    /\ line.text = [i \in 1..Cardinality(Surviving) |->
                      consumed[CHOOSE k \in Surviving :
                                 Cardinality({j \in Surviving : j <= k}) = i]]
    /\ Len(line.text) < line.max

KeepsReading == way # "any"

\* A program that keeps reading is given every key, and a line it reads comes to an
\* end once the input has ended (1313-1402, 1859-1882).
InputAnswered ==
  /\ (KeepsReading /\ fetched \o arrived # <<>>) ~> (fetched \o arrived = <<>> \/ ~running)
  /\ (KeepsReading /\ closed /\ line # NoLine) ~> (line = NoLine \/ ~running)
=============================================================================
