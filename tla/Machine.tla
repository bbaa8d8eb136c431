------------------------------ MODULE Machine ------------------------------
(***************************************************************************)
(* The processor in its CP/M: setup_memory lays page zero, the jump tables *)
(* and the disk tables into the memory of Cpu, and handle_pc looks at PC   *)
(* before every instruction (src/src/cpmemu.cc).  Here are the calls that  *)
(* answer from the emulator's own state, in registers; console, devices    *)
(* and files are the matter of other modules, and their calls no step of   *)
(* this one, except for those that change no register.  The command line   *)
(* (CommandLine) and the instruction limit (Emulator) are left out.        *)
(***************************************************************************)
EXTENDS Cpu, TLC

CONSTANT DiskModes     \* what CPM_BIOS_DISK may have set: "ok" "fail" "error"

ASSUME MachineAssumption == DiskModes \subseteq {"ok", "fail", "error"}

VARIABLES
  stage,               \* "setup" "load" "run" "exited"
  drive, user,         \* current_drive, current_user
  iobyte, dma,         \* iobyte, current_dma
  diskMode             \* bios_disk_mode

own == <<drive, user, iobyte, dma, diskMode>>
machine == <<state, stage, own>>

TpaStart == 256       \* 0100h
BdosBase == 64768     \* 0FD00h
BiosBase == 65024     \* 0FE00h
Magic    == 65280     \* 0FF00h
StackTop == 65520     \* 0FFF0h
DphAt    == 64224     \* 0FAE0h
DpbAt    == 64240     \* 0FAF0h
DirBufAt == 64256     \* 0FB00h
AlvAt    == 64384     \* 0FB80h
CsvAt    == 64448     \* 0FBC0h

JumpTo(x, to) == Loaded(x, <<195, Lo(to), Hi(to)>>)
WordAt(w)     == <<Lo(w), Hi(w)>>

\* Faulty: every entry of the table leads to the trap of the one before.
BiosTableOffByOne ==
  [x \in BiosBase..(BiosBase + 50) |->
     LET k == x - BiosBase IN <<195, (((k \div 3) + 31) % 32), 255>>[(k % 3) + 1]]

\* Seventeen jumps, to Magic and the addresses behind it.
BiosTable ==
  [x \in BiosBase..(BiosBase + 50) |->
     LET k == x - BiosBase IN <<195, k \div 3, 255>>[(k % 3) + 1]]

DiskTables ==
  Loaded(DphAt, <<0, 0, 0, 0, 0, 0, 0, 0>> \o WordAt(DirBufAt) \o WordAt(DpbAt)
                  \o WordAt(CsvAt) \o WordAt(AlvAt))
    @@ Loaded(DpbAt, <<128, 0, 4, 15, 0, 255, 15, 255, 3, 255, 0, 0, 0, 0, 0>>)
    @@ [x \in DirBufAt..(DirBufAt + 127) |-> 229]

MachineInit ==
  /\ PowerOn /\ mem = Loaded(0, <<>>)
  /\ stage = "setup" /\ drive = 0 /\ user = 0 /\ iobyte = 0 /\ dma = 128
  /\ diskMode \in DiskModes

\* The memory is all zero before: the FCBs and the allocation vector need no word.
SetupMemory ==
  /\ stage = "setup" /\ stage' = "load"
  /\ mem' = JumpTo(0, BiosBase + 3) @@ Loaded(3, <<0, 0>>) @@ JumpTo(5, BdosBase)
              @@ BiosTable @@ DiskTables
  /\ reg' = [reg EXCEPT !["SP"] = StackTop]
  /\ dma' = 128 /\ UNCHANGED <<mode, a, f, pc, alt, sys, drive, user, iobyte, diskMode>>

\* At most 0E000h bytes.
LoadProgram(text) ==
  /\ stage = "load" /\ stage' = "run"
  /\ LET room == IF Len(text) < 57344 THEN Len(text) ELSE 57344
     IN  mem' = Loaded(TpaStart, SubSeq(text, 1, room)) @@ mem
  /\ pc' = TpaStart
  /\ UNCHANGED <<mode, a, f, reg, alt, sys, own>>

-----------------------------------------------------------------------------
(* Calls.  A call answers in A or HL, or not at all.                          *)

Same == UNCHANGED <<mode, f, alt, sys, mem, stage>>

\* Every trap that comes back: the registers, then the RET handle_pc simulates.
ReturnWith(v, pairs) ==
  /\ a' = v /\ reg' = [pairs EXCEPT !["SP"] = Plus(@, 2)] /\ pc' = Top /\ Same

InA(v)    == ReturnWith(v, reg)
InHL(w)   == ReturnWith(a, [reg EXCEPT !["HL"] = w])
NoAnswer  == ReturnWith(a, reg)

Exit == stage' = "exited" /\ UNCHANGED <<state, own>>

\* JMP 0, whatever memory holds there.
AtBoot == pc = 0 /\ Exit

C == Lo(reg["BC"])
E == Lo(reg["DE"])
Bdos(n) == pc = BdosBase /\ C = n

SystemReset == Bdos(0) /\ Exit
GetIobyte   == Bdos(7) /\ InA(iobyte) /\ UNCHANGED own
SetIobyte   == Bdos(8) /\ iobyte' = E /\ NoAnswer /\ UNCHANGED <<drive, user, dma, diskMode>>
GetVersion  ==
  /\ Bdos(12) /\ UNCHANGED own
  /\ ReturnWith(34, [reg EXCEPT !["HL"] = 34, !["BC"] = Lo(@)])
\* The files it closes are those of BdosFiles.
ResetDisk   == Bdos(13) /\ drive' = 0 /\ user' = 0 /\ NoAnswer /\ UNCHANGED <<iobyte, dma, diskMode>>
SetDrive    == Bdos(14) /\ drive' = E % 16 /\ NoAnswer /\ UNCHANGED <<user, iobyte, dma, diskMode>>
GetDrive    == Bdos(25) /\ InA(drive) /\ UNCHANGED own
SetDma      == Bdos(26) /\ dma' = reg["DE"] /\ NoAnswer /\ UNCHANGED <<drive, user, iobyte, diskMode>>

GetSetUser  ==
  /\ Bdos(32)
  /\ \/ E = 255 /\ InA(user) /\ UNCHANGED own
     \/ E # 255 /\ user' = E % 16 /\ NoAnswer /\ UNCHANGED <<drive, iobyte, dma, diskMode>>

\* Login vector, allocation vector, read-only vector and parameter block; what only
\* says that it is done; what only outputs; and what there is not.
Information ==
  /\ \/ Bdos(24) /\ InHL(1)
     \/ Bdos(27) /\ InHL(AlvAt)
     \/ Bdos(29) /\ InHL(0)
     \/ Bdos(31) /\ InHL(DpbAt)
     \/ (Bdos(30) \/ Bdos(38)) /\ InA(0)
     \/ (Bdos(2) \/ Bdos(28) \/ Bdos(39)) /\ NoAnswer
     \/ pc = BdosBase /\ C > 40 /\ InA(255)
  /\ UNCHANGED own

Bios(k) == pc = Magic + k
Disk    == {8, 10, 11, 12, 13, 14, 16}     \* HOME SETTRK SETSEC SETDMA READ WRITE SECTRAN

SelectDisk == Bios(9) /\ InHL(IF C = 0 THEN DphAt ELSE 0) /\ UNCHANGED own

DiskCall ==
  /\ \E k \in Disk : Bios(k)
  /\ \/ diskMode = "error" /\ Exit
     \/ diskMode \in {"ok", "fail"} /\ InA(0) /\ UNCHANGED own

\* CONST and LISTST; CONOUT; what there is not, cold boot included.
OtherBios ==
  /\ \/ Bios(2) /\ \E v \in {0, 255} : InA(v)
     \/ Bios(15) /\ InA(255)
     \/ \E k \in {0, 4} \cup (17..31) : Bios(k) /\ NoAnswer
  /\ UNCHANGED own

WarmBoot == Bios(1) /\ Exit

\* handle_pc; an instruction runs only where it answers false.
HandlePc ==
  \/ AtBoot \/ SystemReset \/ GetIobyte \/ SetIobyte \/ GetVersion \/ ResetDisk \/ SetDrive
  \/ GetDrive \/ SetDma \/ GetSetUser \/ Information
  \/ SelectDisk \/ DiskCall \/ OtherBios \/ WarmBoot

AtTrap == pc = 0 \/ pc = BdosBase \/ pc \in Magic..(Magic + 31)

Instructions == ~AtTrap /\ Execute /\ UNCHANGED <<stage, own>>

Running == stage = "run" /\ (HandlePc \/ Instructions)
=============================================================================
