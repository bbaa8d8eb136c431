# A verification of cpmemu

cpmemu runs CP/M 2.2 programs on Unix: it interprets 8080 or Z80 code and
answers the BDOS and BIOS calls itself, with ordinary files of the host. This
directory holds TLA+ models of its core (`src/src/cpmemu.cc`, `qkz80.cc`,
`qkz80_reg_set.cc`), TLC configurations that check them on small instances, and
TLAPS proofs for every size. Line numbers without a file are lines of
`src/src/cpmemu.cc`.

Check a run with `tlc -config X.cfg M`, where `PROJECT.json` names the module M
of each configuration, and the proofs with `tlapm BdosFilesProofs.tla` (likewise
the other modules `*Proofs`).

## 1. The system

One process, one thread. It is driven by the CP/M program, which may make any
call at any time with any arguments, and around it are a user at the keyboard,
the C library's buffered streams, the host's files, and the end of the process
by `exit` or by a signal. What is hard here comes from *state kept in several
places*: a file is a path, an inode, a stream with its buffer, an entry of
`open_files`, and bytes of an FCB in guest memory, and every call touches some
of them.

| Component | State | Operations | Interacts with | Correct when |
|---|---|---|---|---|
| BDOS file calls (1490-1898, 2209-2224) | `open_files`, FCB bytes EX, CR, R0-R2, the DMA record, register A | open, close, make, delete, rename, read and write sequential and random, size, set random record, resets | names, conversion, C library, host | no stream is used after it is closed or leaks unnoticed; nothing written is lost on close; a reported random write survives a crash; buffering is invisible; a failing call changes no file |
| Text conversion (722-816) | position and end-of-file of a stream, `eof_seen` | read, write and pad a record | BDOS file calls | a text that goes through the program comes out unchanged; no byte beyond the record |
| Names and modes (590-720) | `file_mappings`, `file_map` | match, find, detect | all calls with names, search, command line | what was made or renamed is found under its name |
| Directory search (1974-2170) | `search_results`, `search_index`, the entry in the DMA buffer | search first, search next | names, delete, rename, make between the steps | lists what can be opened, once, where names and paths agree; survives changes of the directory |
| Console (79-155, 1313-1450, 1859-1882) | stdin's buffer, the kernel's queue, `consecutive_ctrl_c`, the line being read | BDOS 1, 6, 10, 11; CONST, CONIN | the user | exits at the fifth ^C in a row and only then; a line is what the keys say; no key waits for ever |
| Command line (510-562, 960-1049, 2494-2602) | page zero from 005Ch, `file_map` | tail, two FCBs, mappings of arguments | names, start-up | the program finds its arguments, and open finds the user's file |
| Start-up, run loop, traps (1080-1295, 2226-2318, 2386-2667) | PC, stack, `instruction_count`, terminal mode | early ends, traps, dispatch, limit | all others | every way out restores the terminal; a limited run ends |
| CPU (`qkz80.cc`, `qkz80_reg_set.cc`) | registers, flags, alternate set, memory | every opcode of the main, CB, ED and DD/FD tables, as an 8080 and as a Z80 | memory, traps | results and flags are those of the numbers; the two modes differ only where they should; blocks, stack and exchanges lose nothing at the 64 KB wrap |
| Memory (`qkz80_mem.cc`, 425-508, 2604-2618) | 64 KB, page zero, jump tables, disk tables | load, store, set-up, loader | CPU, traps | a call through the tables reaches its handler and comes back |
| Disk, user and IOBYTE state, BIOS disk calls (1439-1488, 1884, 2172-2207, 2265-2310) | `current_drive`, `current_user`, `iobyte`, `current_dma` | get and set calls, SELDSK, the calls `CPM_BIOS_DISK` governs | CPU, memory | what was set is what is answered |
| Configuration file (818-912, 2465-2512) | `file_mappings`, the defaults, current directory | one line after the other, environment | names, devices | a name leads to the first line that matches and exists |
| Printer, reader, punch (914-945, 1404-1437, 2332-2383) | `printer_file`, `aux_in_file`, `aux_out_file` | open, reopen, BDOS 3-5, LIST, PUNCH, READER, LISTST | configuration, C library, a kill | what was sent is in the file, in order, at every moment |
| Trace and debug output | none | | | not modelled |

### What is hard, and which property watches it

`PROJECT.json` lists each hazard with its line. The important families:

* **one FILE for reads and writes of two kinds** (1571-1761): a fetched window
  must not hide a later write, a pending write must not land at a moved position
  -- `StreamShape`, `WindowFresh`, `DirectSpec`;
* **reopening an open FCB** (1527): the first stream drops out of the table --
  `HandleOwnership`, `OrphanOnlyByReopen`;
* **buffered bytes and the end of the process** -- `ClosingWritesOut`,
  `RandomWriteIsDurable`, `FileIsWhatWasSent`; a call that fails half-way --
  `FailureChangesNoFile`;
* **records against lines of text** (722-816): line ends at a record's last byte,
  a short last record -- `CopyIsExact`, `SaveIsExact`, `BufferBound`, `LoopsCompute`;
* **positions kept in bytes** (1599): CR, EX and R0-R2 -- `IndexFindsRecord`;
* **a search over a directory that changes** -- `AllErased`, `OnlyMatchesErased`;
* **one file under several names, one name for several files** (2005-2097): mappings,
  `file_map` and the directory overlap -- `ListingIsExact`, `EntryLeadsToFile`,
  `RenameMovesFile`, `EntryNameMatches`;
* **the order of a configuration**, with `cd` between its lines and devices named
  twice -- `LookupFollowsFile`, `DeviceIsLastNamed`;
* **two queues of keys and a counter shared by four calls** -- `ExitsAtFiveCtrlC`,
  `LineIsWhatSurvives`, `InputAnswered`;
* **overlapping writers of page zero** -- `FcbsHoldArguments`, `TailKept`;
* **a dozen ways out of the process** -- `TerminalRestored`;
* **bit-by-bit flags with two processors' conventions** -- `ArithmeticIsExact`,
  `NumbersAreExact`, `ModesAgree`;
* **prefixes, and instructions that restart themselves** -- `LastLeaderWins`,
  `BlockIsExact`; **two words exchanged through one temporary**, a stack that wraps
  -- `UndoRestores`, `WordStackSpec`;
* **a call that is CALL, jump, trap and simulated RET** (1085-1116) --
  `SystemCallsSpec`, `RunEnds`.

Some hazards have no property, because the code does go wrong there: a line end across
two records (795), CR at 256 (1599), keys a status call does not see (97), the memory
that most exits do not save (1126), what page zero and the emulator both keep (1444).
Section 5 has them, with all others.

## 2. The modules

```
HostFiles            the host: paths, inodes, bytes
 +- Stdio            C library streams: window, pending bytes, end-of-file flag
 |   +- Devices         printer, reader and punch
 +- TextConversion   the record conversions as functions
     +- ConversionLoops   ... as the byte loops of the code
     +- FileMapping       names to paths, detection of the mode
     |   +- DirectFiles   what the file calls promise: files without streams
     |   +- BdosFiles (with Stdio)      the file calls
     |       +- SoleUse                 implements DirectFiles
     |       +- FilePrograms            programs that copy, index and save files
     |       +- DirSearch               search first, search next
     |           +- EraseProgram        a program that erases what it finds
     +- Configuration (instance of FileMapping)    configuration file, devices
Console            console input, and programs that keep reading
CommandLine        page zero
 +- Emulator            main, run loop, traps; takes CommandLine's steps
Arithmetic         operations and flags
 +- Cpu                 one instruction a step, over registers and memory
     +- Program             texts that are executed to their end
     |   +- NumberProgram, BlockProgram, UndoProgram
     |   +- StackProgram        implements WordStack
     |   +- Twins               two processors side by side
     +- Machine             set-up of the memory, traps, system calls
         +- MachineProgram      implements SystemCalls

StreamProofs                        lemmas on streams, conversions, texts and numbers
BdosFilesProofs (BdosFiles, SoleUse, FilePrograms), SearchProofs (DirSearch, EraseProgram),
CharactersProofs (ConversionLoops, Devices), ConsoleProofs, EmulatorProofs,
ConfigurationProofs, ProcessorProofs (Cpu, Twins, NumberProgram, BlockProgram)
                                    theorems
```

The `MC*` modules give the constants values. Four of them also join what does not
interact into one run (`MCProcessor`, `MCFilePrograms`, `MCCharacters`, `MCEmulator`):
the initial state chooses a family, and only its actions are taken.

**HostFiles, Stdio** are the environment. No definition of theirs translates code
of the repository: they are what `cpmemu.cc` relies on. A file is a sequence of
bytes, and bytes are told apart where the code does (Cr, Lf, ^Z, the zero of a
gap, others). A stream is a record: a position, the window the last `read(2)`
fetched, the bytes written but not handed over, the sticky end-of-file flag.
Reading first writes out what is pending, and the window does not follow later
changes of the file; `fseek` keeps a window that holds its target; `fflush`
drops the part of the window beyond the position. ISO C leaves a read right
after a write without a seek, and the reverse, undefined. The code does it
(sequential read and write on one FCB), and the model follows glibc, the library
cpmemu is built with. A file fits one buffer, so bytes are never written out for
lack of room.

**TextConversion** gives both conversions as functions of the bytes a stream has
left; **ConversionLoops** has the loops, one step per byte, and shows that they
compute those functions. That lets `BdosFiles` take a record in one step, as the
single-threaded code does.

**BdosFiles** has one action per call. `open_files` maps FCBs to a stream, a
mode and `eof_seen`; `stream` is what the C library holds for each `FILE*`,
also for those that have dropped out of the table. FCB bytes the code changes
(EX, CR, R0-R2) are state, the name in an FCB is a parameter, because the code
reads it anew at every call: the program may pass one FCB with two names. `Exit`
is `exit()`, which writes out all streams in an order of the C library's own,
`Crash` the end by a signal; after both the next emulator starts on the same
files. `StoreFcb` and `StoreDma` are the program's own stores.

**DirectFiles** is the abstract specification: a call acts on the bytes of the
file at once. **SoleUse** maps BdosFiles to it (the logical file is the bytes
with everything pending written out) for programs that have no file open through
two streams, ask for the size of a file only when nothing is pending, and are not
killed. Each restriction is needed: `stat` does not see pending bytes (1763), a
second stream has a buffer of its own, and a signal loses buffers.

**DirSearch** adds the snapshot of search first, in every order `readdir` may
give. The list has three parts: every exact mapping whose name matches and whose file
exists, in their order and also two of one name (`Hits`, `HitOrders`), then names of
`file_map` not met before, then files of the directory whose names were not met before;
the code's set of names met is consulted for the second and the third only. A mapped
file is compared by its mapping's name and gets its entry from its Unix path. So search
and open can agree on some names only, which `Plain` describes: no second mapping and no
`*` leads the name anywhere, all the sources that know it have the same path for it, and
an entry made from a path has the name just when the path is listed for it. A name is
plain or not in a state of the directory; the others the properties leave out, and
`EntryNameMatches` shows what happens to one of them. `OneFilePerName`, a
hypothesis about the erasing program alone, says of a whole directory what a program may
rely on when it erases what it found. **EraseProgram** and
**FilePrograms** (one copies, one notes positions and
returns to them, one saves) are programs, not parts of cpmemu: promises such as "a
copy is exact" are promises about sequences of calls. `CopySpec`, `IndexSpec` and
`SaveSpec` are such a program alone, on any disk and with any text; the run starts all
of them on chosen disks.

**Configuration** takes the lines of a file one a step. A line is its key, the
pattern it is when it is no directive, and the words of its value; a path means
something only in the current directory, which `cd` changes, so `Absolute[d][p]`
says what p is called in d. Opening a device closes the old stream first and may
empty or create a file. After the file come the environment and the loading of the
program; then the program makes files, which changes what the mappings lead to.

**Devices** has the two halves of a character output, `fputc` and `fflush`, as steps
of their own, so that a kill finds the process between them, and the reader's file
may be the punch's, or grow by another process's hand.

**Console** separates the kernel's queue (what `select` sees) from stdin's buffer
(what `getchar` delivers first). Characters are read one a step, also within BDOS
10, because the user types meanwhile. **CommandLine** works on the real addresses
and ASCII codes: whether areas overlap is a matter of addresses. **Emulator**
has main's early ends, an exception in the configuration, the steps of CommandLine
in their order, every trap, every way out. What calls do to files is left to the
others; each is a return or an exit here.

**Arithmetic** computes bit by bit, as `add8_bitwise` and `sub8_bitwise` do, with the
flag byte as a set and `fix_flags` of each mode. Carry chains are recursive
functions, so the module stays within reach of the provers. **Cpu** is `execute`:
`Instruction` fetches prefixes and opcode (at most four index prefixes, the last of
which counts; a displacement in front of the opcode behind DD CB), and there is one
action per group of opcodes. Memory is kept as the cells that were stored to, all
others are zero, and every address wraps. I, R, IM and the two IFFs are never
initialised by the code, and start with any value of the constant `Unset`. Ports
read FFh and interrupts are never raised, as with the classes cpmemu uses.

**Program** is a text of bytes that runs until PC is behind it. Its families ask
different questions of the same steps: **NumberProgram** calculates, with results
known from the numbers; **BlockProgram** is one repeated instruction, again from
its first byte for each byte moved; **UndoProgram** does two things and undoes
both; **StackProgram** is any sequence of stack instructions, shown to implement
**WordStack**, a sequence of words: the opcode at PC, read from the opcode tables
(`AtPc`), says which register is pushed or filled, how long the instruction is and where
it leads, and no other register may change; **Twins** runs two processors on one text, an
8080 beside a Z80, or one with a chain of prefixes beside one without. For the proofs
three families have specifications without chosen texts: `AnySpec` of Twins,
`AnyBlockSpec` and `AnyNumberSpec`, from any registers and memory.

**Machine** lays page zero, the jump tables and the disk tables into Cpu's memory
and has `handle_pc` look at PC before each instruction. Its calls are those that
answer from the emulator's own state. **MachineProgram** makes calls as CP/M
programs do, in machine code: CALL 5, or the vector at 0001h plus an offset.
**SystemCalls** is what they promise, one step per call; it knows no PC,
stack or jump table, and shows that none of these loses or repeats a call.

Operators marked *Faulty* are not part of any specification. Each is a plausible
mistake in one definition, and `PROJECT.json` names for each property the mistake
it catches.

## 3. The runs

| Run | What it shows | Bounds |
|---|---|---|
| MCBdosFiles | every order of file calls through two FCBs on one name and two inodes: three invariants and four action properties | records and files of one byte, two streams, binary mode |
| MCSoleUse | buffering is invisible to careful programs, in two worlds: a text read, written and positioned through one stream at a time; a raw file with positions stored by the program (gaps, reads beyond the end), and a second stream, left behind on another file by an open or make, that has not been read | records of 2; text of 3 bytes, raw file of 4; one FCB, two streams, two inodes |
| MCSearch | searches among deletes, renames and makes, on two names: one with two mappings, one of them to a file in mixed case that has the Unix name of the other; the other with a `*` mapping. Plain names are found through a mapping, `file_map`, the lower and the upper case | five paths, two inodes, two patterns, one FCB |
| MCEraseProgram | two names in lower and upper case, one mapped, any calls, then a program that erases a pattern | three inodes, files of one byte |
| MCFilePrograms | *copy*: every text of up to 4 bytes over {other, Cr, Lf, ^Z}; *index*: positions noted in files of several lengths, beyond what CR counts in an extent; *save*: CP/M texts of up to 10 bytes (four records), saved as a new file or over an old one and loaded again | records of 3, extents of 4 records, CR of 8 (files of up to 25 bytes), three noted positions |
| MCCharacters | both conversion loops on every input; any calls on the three devices with any sharing of files, growth and a kill at every moment | inputs of 5, records of 4; 5 calls |
| MCEmulator | *main*: all ways through it, with up to two of nine shapes of arguments, and through the run loop; *console*: any calls against any typing, and four kinds of programs that keep reading | 2 program addresses, stack of 3, limit of 4; 4 keys typed, limit of 3 ^C, lines of 0 or 3 |
| MCProcessor | all families of programs: each opcode of each table behind eleven kinds of prefixes, alone and in both modes followed by one of twelve that show its effects; chains of prefixes; single operations on every value of A; sums, products, packed decimals and sums of B equal terms, B = 0 included; block instructions of every overlap; stack sequences; pairs of actions undone; *calls*: all pairs of system calls, triples of those that set and get, and stacks of up to 222 words at the loader's place and below the word at 0006h, in two disk modes | stacks of 4 instructions, at 40001 and across 0; operands at the borders of digit, nibble, byte, word and sign |
| MCConfiguration | files of up to four lines, two directories, three names, two environments, then any files made | four lines, one of each kind of path |
| MCCopyEof | *violated*: the text before a ^Z is copied whole | as MCFilePrograms |
| MCCommandTail | *violated*: the program finds its command tail | as MCEmulator |
| MCSearchEntry | *violated*: the entry of a search has a name the pattern matches | as MCSearch |

**Why the bounds suffice.** A conversion looks at most one byte ahead and at the
room left, so records of three bytes show each line end before, across and behind
a border. The file calls know one record and one position; two FCBs and two
streams give every sharing (same file, other file, leaked stream), and one byte
per record keeps raw transfers, gaps and overwrites apart. What section 4 proves
holds for all sizes besides. Three ^C instead of five leave
room to type other keys between; the counter is only compared with its limit.
Operand values are where a carry, half carry, sign or overflow begins, and A takes
all 256. A block instruction looks at one byte a step, so blocks of up to five
bytes (and one of forty) give every overlap of source, destination and the
instruction's own text. A configuration line acts on defaults, directory or
mappings alone, and each ordered pair and triple of the kinds is there.
In `MCProcessor` the interrupt registers start at 255, one of the values they may
hold; no property is about that value.

**Bounds that are not in the code.** `FileBound` keeps writes from growing a file,
`TypeBound` limits keys, `StackMax` and `Length` calls and stack instructions,
`MaxArgs` arguments, `InputBound` the streams of the loops, `CallBound` calls on
devices, `SourceBound`, `TextBound` and `EntryBound` what programs copy, save and
note; each is a guard on growth and never on an outcome. `CrMod` (256),
`ExtentRecords` (128), `RecSize` (128), `CtrlCExitCount` (5), `HeuristicMin` (20) and
`HeuristicMax` (512) are constants of the code, most with smaller values in the runs. Addresses, bytes,
words and the 64 KB of Cpu and Machine have their real size.

**Deadlock** is checked except where the system may stop: `MCCharacters` (the record
is done, the calls are used up, the process is killed) and `MCConfiguration` (the
configuration has failed). In `MCEmulator` a program at the console may wait for a user
who types no more (`Waiting`), and in `MCProcessor` a text may be at its end (`MayStop`);
main, and programs that make system calls, may not stop but by an exit.

### Fairness

The emulator is one thread and executes the program as long as it runs, so its
steps are weakly fair: the copying program (`ClientsSpec`), the erasing one from
the moment it has started (`EraseSpec`), `ProgramSpec` of `Console` (program
steps, never the user's), `Emulator`, and `ProcessSpec`, which joins these two. A user owes nothing:
liveness of the console is about keys that were typed and inputs that were closed.
Programs that poll (`asks`, `direct`) get a user who waits until each key was read,
because without that the property fails (97, section 5). In `Emulator` console input is
assumed to be answered, and a program does not fill its stack with the trap's own
address: traps are not counted as instructions, so such a program never reaches
the limit.

## 4. The proofs

The theorems hold for every value of the constants: any number of FCBs, streams,
files, names, mappings, keys, arguments and configuration lines, any record size,
any limits, any program, and for the processor any registers, flags and memory.

| Theorem | Property | Inductive invariant |
|---|---|---|
| `TypeCorrect`, `OwnershipHolds`, `StreamsWellFormed` | `TypeOK`, `HandleOwnership`, `StreamShape` | `Inv`, their conjunction |
| `OrphansOnlyByReopen`, `ClosingsWriteOut`, `RandomWritesAreDurable` | `OrphanOnlyByReopen`, `ClosingWritesOut`, `RandomWriteIsDurable` | `Inv`, used at each step |
| `RenamesMoveFiles` | `RenameMovesFile` | `Inv`, used at each step |
| `FailuresChangeNoFile` | `FailureChangesNoFile` | `Inv` and `TextIsWritten` |
| `WindowsStayFresh` | `WindowFresh` | `Careful` |
| `BufferingIsInvisible` | `DirectSpec` (a refinement) | `Careful` |
| `RecordsAreFound` | `IndexFindsRecord` | `IndexInv` |
| `CopiesAreExact` | `CopyIsExact` | `CopyInv` |
| `SavesAreExact` | `SaveIsExact` | `SaveInv` |
| `BufferIsBounded`, `LoopsAreTheFunctions` | `BufferBound`, `LoopsCompute` | `LoopInv` |
| `OutputsAreKept`, `ReaderIsInOrder` | `FileIsWhatWasSent`, `ReaderGivesFile` | `DevicesInv` |
| `FiveCtrlCExit`, `LineIsExact` | `ExitsAtFiveCtrlC`, `LineIsWhatSurvives` | `ConsoleInv` |
| `FcbsAreKept` | `FcbsHoldArguments` | `SetupInv` |
| `TerminalIsRestored` | `TerminalRestored` | itself |
| `LookupIsTheFile` | `LookupFollowsFile` | `ReadInv` and `SettingsInv` |
| `DevicesAreTheFiles` | `DeviceIsLastNamed` | `ReadInv` and `DeviceInv` |
| `ProcessorTypeCorrect` | `CpuOK` | itself |
| `BothModesAgree`, `OnlyTheLastPrefixCounts` | `ModesAgree`, `LastLeaderWins` | `IInv` |
| `BlocksAreExact` | `BlockIsExact` | `BlockInv` |
| `OperationsAreExact` | `ArithmeticIsExact` | not executed yet, or exact |
| `SearchErasesAll` | `AllErased` | `EraseInv` |
| `SearchErasesOnlyMatches` | `OnlyMatchesErased` | `EraseInv`, used at each step |
| `EntriesLeadToFiles`, `ListingsAreExact` | `EntryLeadsToFile`, `ListingIsExact` | none: they hold of the calls in every state |

**File calls** (`BdosFilesProofs`). None of the three parts of `Inv` is inductive
alone. The type of `data` after a read or a close depends on the pending bytes
fitting before the position (StreamShape), since they are written at
`off - Len(pend)`. StreamShape is about streams that are open, and a transfer uses
the one its FCB names, which is open only by HandleOwnership. Ownership in turn
needs the types: a new stream is taken from those that are closed. There is one
lemma per call (`OpenStep` to `EndStep`), resting on four that say how a call may
change table and streams (`KeepsStreams`, `MovesStream`, `TakesStream`,
`ClosesStreams`), on `StreamProofs` (each stream operator keeps a stream well formed
whatever the file holds, and what the conversions deliver is bytes, fits a record
and uses no more of the stream than there is). Type
correctness is worth its proof because of what hides in it: the order of flushes in
a reset picks, for each byte, the last stream that holds it, and that this pick
exists is a lemma (`LastHolderExists`).

The four action properties then follow call by call. `FailuresChangeNoFile` needs
more: a call that fails may have flushed a stream first, and changes the file
unless nothing was pending. `TextIsWritten` says that a stream whose FCB is in text
mode holds nothing back, because each text transfer ends in a seek or a flush.
`ClosingWritesOut` is about a stream that is alone on its file; of two streams on one
file nothing is proved but that a random write is in the file when its call returns.
`RenamesMoveFiles` is about every file call and rename, and about any name that no
mapping applies to after the rename: a mapping is asked before `file_map` (676), so it
would hide the renamed file.

**Careful use** (`BdosFilesProofs`). `Careful` adds to `Inv` that no two streams
share a file and that each stream is fresh: its window is what the file holds there,
and its end-of-file flag is set only at the end. Freshness is stated for one stream
and one file (`Fresh`), and `StreamProofs` shows that each stream operator keeps it.
The refinement maps a file to its bytes with everything pending written out
(`Logical`) and an open FCB to its position, rights and modes (`Joined`). Each call
is shown to be the call of the same name in DirectFiles under this mapping or to
leave it unchanged: what a fresh stream reads is what the logical file holds at that
position, what it writes is what DirectFiles writes there, and what a close, reset or
exit writes out was in the logical file already.

**Programs** (`BdosFilesProofs`). The three theorems are about any number of calls, so each
needs an invariant that relates what the program has to how far its streams have come.
They rest on lemmas about one call on a stream that holds nothing back (`CleanOpen`,
`CleanRead`, `CleanMake`, `CleanWrite`, `CleanClose`): which bytes it takes or puts, and
that nothing is held back after it. `IndexInv` says that the n-th record read lies n
records into the file and that CR counts to it, from which set random record takes the
position and read random finds it again. The hypothesis of `IndexSpec` is that the file
is read as it is: read as text, a record takes fewer bytes of the host's file than it
has, while positions count the file's bytes (1599), and the property is false. `CopyInv`
says that at each call the target is the source as far as it was read, or as far as the
buffer begins, and that the buffer holds the rest of what was read, expanded and padded.
The lemma that matters is `RoundTrip`: `Collapse(Pad(Expand(s))) = s` for every s
without ^Z that fits a record when expanded, with a Cr of its own before a line end, or
a Lf where the record ends. The hypotheses of `CopySpec` are that the source is found
under its name, that the target is another file, and that both are treated as text; a
record must have room for a line end, or reading would not go on (`CopyAssumption`).

A program that saves chooses its records, so what the copy has by its own reads must be
shown for the text: where no line end lies across a border, every border lies between
what two bytes of the host's file make (`RecordBorder`). So a record is the expansion of
a part of the file, padded, and is written as that part (`RecordText`, `RoundTrip`); and
reading, which takes what fits, stops at the same borders (`RecordRead`). `SaveInv` says
that the file is the bytes that made the records sent, and that the records loaded are the
first ones of the document. The hypotheses of `SaveSpec` are that the records are those
of a text whose every Lf a program's Cr precedes, in the last record up to its length and
then ^Z (`Records`, of which `TextOfRecords` shows that its text is the one it was made
of), that the name has an extension of a text file, that no mapping and no argument of
the command line leads it elsewhere, and that a file made is treated as text: it is made
under the default mode and opened under its detected one (`SavedLookup`).

**Loops and devices** (`CharactersProofs`). What a loop has written after some bytes
is stated by positions, not by recursion, so the invariant carries the induction
over the input that the provers do not have: `out` is what the input read so far
gives, and the function's result starts with it. `DevicesInv` says of an output that
is alone on its file that file and pending bytes are what was sent, but for the
character of a call that is under way; of the reader that its window is a part of
a file that only grows (`Follows`), and that what it gave is that file as far as
the stream has come, then ^Z for ever (`Given`).

**Console** (`ConsoleProofs`). The line is explained by a witness for each stored
character: the key it came from, such that behind it as many characters were rubbed
out as stored but for those still there. `Surviving` is defined by such balances, and
the theorem shows that the keys that survive are the witnesses, in order.

**Start-up** (`EmulatorProofs`). `SetupInv` says that an argument, once parsed, is
held in the first twelve bytes of its FCB. Parsing the second argument writes 36 bytes
from 006Ch, behind those twelve of the first at 005Ch; the proof is on addresses.

**Configuration** (`ConfigurationProofs`). `SettingsInv` numbers the mappings by the
lines they came from, in increasing order, with the defaults above each line. The
directory above a line is a recursive function of the lines; `DeviceInv` speaks
instead of every function that satisfies its equations as far as the file is read,
and says that such a function exists, which an induction along the steps establishes.

**Processor** (`ProcessorProofs`). The specification is `AnySpec`: one processor alone;
an 8080 and a Z80 that go on as long as the next opcode is one both have
(`Shared8080`), which may be for ever, wherever jumps, calls and their own stores lead;
two Z80s at a chain of prefixes. `ExecuteTypes` goes through the 39 actions and shows
that each keeps bytes, words, the memory's range and what `fix_flags` promises, with
displacements of both signs and addresses that wrap, and that an 8080 leaves alone
IX, IY, the alternate registers, I, R and the interrupt state. For the comparison, an
invariant about two states is carried through one step of both: `Together` says that
both stand before the same instruction, perhaps at two addresses from which the bytes
that follow are the same, with equal registers and memory and with equal flags
(`FlagsMeet`: all flags in one mode, S, Z and C across modes); `BothStepsMeet` says
that then they are in the same state behind it. That both take the same action is a
lemma of its own (`KindOf` names the one action an opcode has in a mode). What is
not plain in it: half carries and overflow, which the modes compute in different
ways, have to stay out of S, Z, C and of A (only DAA, the conditions PO and PE, and
PUSH PSW let them out: `Differing` is these and the opcodes an 8080 has not); and the Z80's DAD takes its carry
from sixteen steps of an adder, the 8080's from the sum, so `SixteenBitCarry` proves
the adder correct for all words, from the carry into each bit as a number.

`OperationsAreExact` is about any one of the instructions on A, in either mode, with
any operands, flags and memory. The results come from numbers, the flags from a chain
of carries, so the work is in lemmas that bring the two together: the carry into bit i
is whether the operands below bit i add up to 2^i or more, borrows likewise, hence H, C,
and overflow from the numbers with their signs, for all bytes (`SumFlagsExact`,
`DiffFlagsExact`, `StepFlagsExact`). `BlocksAreExact` takes LDIR, LDDR, CPIR and CPDR at
any address, with up to four index prefixes and any source, destination, count and
memory. `BlockInv` says that each time the instruction is entered the first n bytes
have arrived, for some n, with HL, DE and BC at n; in an overlap what has arrived is
the block's beginning over and over, which is why `Arriving` is periodic. The hypothesis
is that no byte is moved onto the instruction's last two bytes (with BC = 0 every cell
is a target, so that case is excluded): otherwise it goes on as another instruction. A
search has no such hypothesis.

**Searches** (`SearchProofs`). `EntriesLeadToFiles` and `ListingsAreExact` have no
hypothesis on the directory, the mappings or `file_map`; the properties themselves are
about the names that are `Plain` in the state of the call. `PathIsOpened` follows the
lookup and `PlainPath` concludes that a plain name leads to the one path it is listed
with. Of a list, `Lists` says that it has each plain name of a set once and no other:
an ordered set of names with their paths is such a list (`ListsOrder`), and so are two
of different names one behind the other (`ListsJoin`); that the three parts have
different names is what the code's set of names met is for. `NamesFound` shows that the
names of the three parts are those the pattern matches and open would find. `HitOrders`
takes the ascending ones among all sequences of the hits, because about the library's
sort the provers know nothing.

The two theorems about the erasing program suppose `OneFilePerName`: files are in lower
case, mappings are exact and lead to them, and no name has two. TLC evaluates it for
`MCEraseProgram`. It is a hypothesis of the theorems and not an assumption of the
modules, because the emulator does not require it; without it the program can fail to
erase a file, or erase another. Under it every name is plain (`TidyIsPlain`). `EraseInv`
has three parts: that the directory and the table stay as tidy as they were (`Tidy`,
kept by every call, renames included), that every file the pattern matches that is left
is among the results not yet dealt with (`Remains`), and that this is none in the end.

**Assumptions** are those named in the modules. They give the constants their types,
keep markers (`Closed`, `NotOpen`, `NoFile`, `Nul`, `NoChar`) out of the sets they
mark, make control keys differ from each other and from printable ones, say that
streams are finitely many, that clearing bit 7 twice is clearing it once
(`DevicesAssumption`) and that a path has one name in each directory
(`ConfigurationAssumption`). TLC evaluates them in the runs.

**Only model-checked:**

* *Liveness* (`RunEnds`, `CopyEnds`, `EraseEnds`, `InputAnswered`): beyond the prover.
* *The processor's longer programs*: `NumbersAreExact`, `UndoRestores` and
  `WordStackSpec`. They are about texts of several instructions of many kinds, and a
  proof would follow each text through all of its states.
* `SystemCallsSpec`: it holds for the programs of its run. With a stack that runs into
  the emulator's areas it is false, so a theorem would need a bound on every program.
* `CopyIsExact` of a source that is not read as text, where the run has it too.
* `PlainArgumentOpens`: cleaning a name is the library's recursive `SelectSeq`.

## 5. Where code and words differ

Three differences have a run that exhibits them:

* **MCCopyEof** (1585): read sequential answers end of file for the very record
  in which ^Z was found, so the text before it in that record is lost, against the
  comment at 736 and `docs/file_handling_notes.md:19` (notes below).
* **MCCommandTail** (560): parsing the second argument clears 36 bytes from 006Ch,
  and with them the first 16 bytes of the command tail at 0080h, against 546 and
  `README.md:190`.
* **MCSearchEntry** (2097, 2142): the entry of a mapped file has the name of the Unix
  file, which need not match the pattern nor lead back to it, against 2005 and 2013.

Others were met while modelling. The models do what the code does in each case,
and no property claims otherwise. Here notes is
`docs/file_handling_notes.md`; line numbers without a file are of `cpmemu.cc`.

| Code | What it does | Words |
|---|---|---|
| 759, 1590 | a line end on a record's last byte leaves a short record that is padded with ^Z in mid-file | notes:9, ^Z marks the end |
| 795 | Cr and Lf in two records stay Cr Lf in the host's file | notes:34 |
| 1599 | CR wraps at 256 and EX never moves, so set random record starts again at 0 | 1798 |
| 1622 | a text record that begins with ^Z is reported as a write error | - |
| 1656 | a new .COM file is written through the text conversion when the default mode is auto | notes:214 |
| 1646 | make ignores mappings | notes:108 |
| 676 | mappings apply in the order they were added, so a pattern may hide an exact name below it | notes:224-225, exact ones first |
| 678 | a mapping to a directory gives the directory itself | notes:98, files in it |
| 891 | `eol_convert` and `default_mode` reach only the mappings below them | `examples/mbasic_tests.cfg`:26, one setting |
| 894 | a line with a mode alone is a mapping to a file of that name | notes:83, `examples/example.cfg`:20 |
| 863-887 | `args`, `drive_X` and `verbose` are no directives but mappings | `examples/example.cfg`:18, `assembler.cfg`:21 |
| 694 | a stale entry of `file_map` hides the upper-case file | notes:227 |
| 707, 714 | a file found without a mapping has its mode detected whatever `default_mode` says | notes:53 |
| 2604 | the program of a configuration is opened after its `cd` lines, in the directory they end in | - |
| 1527, 1886 | a disk reset leaves a stream that a reopen dropped | 1885 "close all files" |
| 2005-2022 | two mappings of one name are both listed, and a mapped file beside another that has its Unix name | 2002, 2021 |
| 97, 1449 | the status call does not see keys in stdin's buffer: of keys typed together a polling program gets the first, and ^C typed ahead do not end it | 1448, README.md:29 |
| 1374 | ^U leaves a column of an echoed ^C | 1373 |
| 1321 | BDOS 10 reads and edits a line | README.md:157, a stub |
| 555 | an argument with a directory reaches the FCB with its path | 2570, 2584 |
| 1126, 2262, 2296, 2662 | BDOS 0, warm boot, disk error and the instruction limit do not save memory | 2395, 2464 |
| 1444, 1472, 1486 | IOBYTE, drive and user of page zero follow neither the calls nor the reverse | README.md:186-187 |
| 853 | an exception in the configuration leaves the terminal raw | 157, restored at exit |
| 222 | the disk tables lie at FAE0h-FBBFh, in what is called the TPA | 221, README.md:191 |
| 2299 | disk calls in "fail" mode return success | 2298-2299 |
| 2354, 1416 | without a file PUNCH writes to the screen, BDOS 4 nowhere | 2360, 1423 |
| 915, 935 | printer and punch on one file have a stream each and overwrite each other | - |
| `qkz80_reg_set.cc`:302-388 | 8080 CMA, STC and CMC change H | `docs/8080_instruction_encoding.txt`:82-84 |
| `qkz80.cc`:1326 | in 8080 mode DAA subtracts, because bit 1 of F reads 1 | `docs/8080_instruction_encoding.txt`:69 |
| 2413 | the default CPU is the Z80 | README.md:23, 85 |

## 6. What is not modelled, and why

* **Other processes that change the host's files** (but for a reader's file that
  grows), **and a full host disk.** The code looks at neither: the first leaves it
  no promise to keep, and with the second `fwrite`'s count, which is all it looks
  at, says nothing of the bytes reaching the disk.
* **Overlaps in guest memory of FCBs and DMA buffer.** Names in FCBs are parameters
  of the file calls; a program that puts the DMA buffer over an FCB is outside.
* **Patterns** other than an exact name, `*.EXT` and `*`; drives in mappings. The
  lexing of configuration lines is abstracted, except where it throws.
* **Output** (BDOS 2, 5 to the screen, 9, CONOUT): it changes no state.
* **Trace, cycle counts, interrupts and ports.** The first two are output; cpmemu
  raises no interrupt and its ports read FFh. IN and OUT are instructions of Cpu.
  The block I/O of the ED table does nothing in the code.

## 7. Plan

1. *Done*: every component of section 1; the theorems of section 4.
2. *To prove next*: `UndoRestores` for single pairs of instructions, from the lemmas
   behind `OperationsAreExact`.
