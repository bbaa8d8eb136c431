---------------------------- MODULE Configuration ----------------------------
(***************************************************************************)
(* Configuration files: load_config_file of src/src/cpmemu.cc takes one    *)
(* line after the other, then main opens the devices that the environment  *)
(* names and the program, and the program looks for files with             *)
(* find_unix_file_ex.  A path means something only in a current directory, *)
(* which the lines change.  The words of a value are opaque; only "text"   *)
(* and "binary" are told apart, and may be paths as well.                  *)
(***************************************************************************)
EXTENDS TextConversion

CONSTANTS
  Name, ExtOf, NoExt, TextExt, BinaryExt, Lower, AsIs, Sibling, Control, HeuristicMin, HeuristicMax,
  Dir,         \* the paths that are directories
  Absolute,    \* Absolute[d][p]: what p is called in d
  Creatable,   \* the absolute paths fopen can create or empty
  Expansion,   \* what words with a $ expand to
  Configs,     \* sequences of lines
  Environs,    \* what CPM_PRINTER, CPM_AUX_IN and CPM_AUX_OUT are set to
  Hosts,       \* the host's files at the start
  Home         \* the directory the emulator is started in

Devices == {"printer", "aux_input", "aux_output"}
Keys    == {"program", "cd", "default_mode", "eol_convert", "debug"} \cup Devices
Word    == Path \cup DOMAIN Expansion

ASSUME ConfigurationAssumption ==
  /\ Dir \subseteq Path /\ Home \in Dir /\ Creatable \subseteq Path \ Dir
  /\ Absolute \in [Dir -> [Path -> Path]] /\ Expansion \in [DOMAIN Expansion -> Path]
  /\ Lower \in [Name -> Path] /\ AsIs \in [Name -> Path]
  /\ \A c \in Configs : c \in Seq({c[k] : k \in DOMAIN c})
  /\ \A c \in Configs : \A k \in DOMAIN c :
       /\ c[k].key \in Keys \cup {"map", "none", ""} /\ c[k].value \in Seq(Word)
       /\ Len(c[k].value) = 2 => c[k].value[2] \in {"text", "binary"}
  /\ Environs \subseteq [Devices -> Path \cup {NoFile}]
  /\ \A h \in Hosts : h.dir \in Directory /\ h.data \in Contents

VARIABLES
  lines, env,              \* the file, and the environment
  at,                      \* lines and variables taken
  stage,                   \* "lines" "environment" "load" "run"; "ended", "aborted"
  cwd, program,            \* the current directory and config_program
  defaultMode, defaultEol, \* default_mode and default_eol_convert
  mappings,                \* file_mappings
  device,                  \* the files of printer_file, aux_in_file and aux_out_file
  dir, data                \* the host's files

settings == <<cwd, program, defaultMode, defaultEol, mappings>>
configVars == <<lines, env, at, stage, settings, device, dir, data>>

Find == INSTANCE FileMapping WITH
          Mappings <- mappings, DefaultMode <- defaultMode, DefaultEol <- defaultEol

ConfigInit ==
  /\ lines \in Configs /\ env \in Environs /\ at = 0 /\ stage = "lines"
  /\ cwd = Home /\ program = NoFile /\ defaultMode = "auto" /\ defaultEol = TRUE
  /\ mappings = <<>> /\ device = [d \in Devices |-> NoFile]
  /\ \E h \in Hosts : dir = h.dir /\ data = h.data

Here(p) == Absolute[cwd][p]

-----------------------------------------------------------------------------
(* Lines.  What is behind a # is cut off first.                               *)

Line      == lines[at + 1]
Taken(key) == stage = "lines" /\ at < Len(lines) /\ Line.key = key /\ at' = at + 1
Expanded(w) == IF w \in DOMAIN Expansion THEN Expansion[w] ELSE w
First     == Expanded(Line.value[1])
Readable  == Line.key # "" /\ Line.value # <<>>
Unchanged == UNCHANGED <<lines, env, stage>>

\* Nothing to take: blank, only a comment, or without a "=".
Skip == Taken("none") /\ Unchanged /\ UNCHANGED <<settings, device, dir, data>>

\* An empty key or value: substr throws, and nothing catches it.
Abort ==
  /\ stage = "lines" /\ at < Len(lines) /\ Line.key # "none" /\ ~Readable
  /\ stage' = "aborted" /\ UNCHANGED <<lines, env, at, settings, device, dir, data>>

SetProgram ==
  /\ Taken("program") /\ Readable /\ program' = First
  /\ Unchanged /\ UNCHANGED <<cwd, defaultMode, defaultEol, mappings, device, dir, data>>

\* A directory that is not there leaves the old one, with a message.
ChangeDirectory ==
  /\ Taken("cd") /\ Readable
  /\ cwd' = IF Here(First) \in Dir THEN Here(First) ELSE cwd
  /\ Unchanged /\ UNCHANGED <<program, defaultMode, defaultEol, mappings, device, dir, data>>

SetDefaultMode ==
  /\ Taken("default_mode") /\ Readable
  /\ defaultMode' = IF First \in {"text", "binary"} THEN First ELSE "auto"
  /\ Unchanged /\ UNCHANGED <<cwd, program, defaultEol, mappings, device, dir, data>>

SetEolConvert ==
  /\ Taken("eol_convert") /\ Readable /\ defaultEol' = (First \in {"true", "1", "yes"})
  /\ Unchanged /\ UNCHANGED <<cwd, program, defaultMode, mappings, device, dir, data>>

SetDebug ==
  Taken("debug") /\ Readable /\ Unchanged /\ UNCHANGED <<settings, device, dir, data>>

\* The mode at the end of a value; a value of one word has none.
ModeWord == IF Len(Line.value) = 2 THEN Line.value[2] ELSE ""

\* Faulty: the latest mapping is the first one asked.
AddMappingInFront ==
  /\ Taken("map") /\ Readable
  /\ mappings' =
       <<[pattern |-> Line.pattern, path |-> First,
          mode |-> IF ModeWord = "" THEN defaultMode ELSE ModeWord,
          eol  |-> defaultEol /\ ModeWord # "binary"]>> \o mappings
  /\ Unchanged /\ UNCHANGED <<cwd, program, defaultMode, defaultEol, device, dir, data>>

\* Every other key, whatever it is, is the pattern of a mapping.
AddMapping ==
  /\ Taken("map") /\ Readable
  /\ mappings' = Append(mappings,
       [pattern |-> Line.pattern, path |-> First,
        mode |-> IF ModeWord = "" THEN defaultMode ELSE ModeWord,
        eol  |-> defaultEol /\ ModeWord # "binary"])
  /\ Unchanged /\ UNCHANGED <<cwd, program, defaultMode, defaultEol, device, dir, data>>

-----------------------------------------------------------------------------
(* Devices: set_printer_file, set_aux_input_file, set_aux_output_file         *)

Spare == CHOOSE i \in Inode : i \notin Linked(dir)

\* Faulty: the old stream is kept when the new one cannot be opened.
OpenedDeviceKept(d, p) ==
  LET works == IF d = "aux_input" THEN Exists(dir, p) ELSE p \in Creatable
      empties == works /\ d # "aux_input"
      ino     == IF Exists(dir, p) THEN dir[p] ELSE Spare
  IN  /\ device' = [device EXCEPT ![d] = IF works THEN p ELSE @]
      /\ dir' = IF empties THEN [dir EXCEPT ![p] = ino] ELSE dir
      /\ data' = IF empties THEN [data EXCEPT ![ino] = <<>>] ELSE data

\* The old stream is closed, the new file opened: for reading, or emptied.
OpenedDevice(d, p) ==
  LET works == IF d = "aux_input" THEN Exists(dir, p) ELSE p \in Creatable
      empties == works /\ d # "aux_input"
      ino     == IF Exists(dir, p) THEN dir[p] ELSE Spare
  IN  /\ device' = [device EXCEPT ![d] = IF works THEN p ELSE NoFile]
      /\ dir' = IF empties THEN [dir EXCEPT ![p] = ino] ELSE dir
      /\ data' = IF empties THEN [data EXCEPT ![ino] = <<>>] ELSE data

Redirect(d) ==
  Taken(d) /\ Readable /\ OpenedDevice(d, Here(First)) /\ Unchanged /\ UNCHANGED settings

-----------------------------------------------------------------------------
(* main                                                                       *)

\* Without a program there is a message and the end.
EndOfFile ==
  /\ stage = "lines" /\ at = Len(lines)
  /\ stage' = IF program \in {NoFile, ""} THEN "ended" ELSE "environment"
  /\ UNCHANGED <<lines, env, at, settings, device, dir, data>>

\* CPM_PRINTER, CPM_AUX_IN and CPM_AUX_OUT, in this order.
Variables == <<"printer", "aux_input", "aux_output">>
FromEnvironment ==
  /\ stage = "environment" /\ at' = at + 1
  /\ stage' = IF at' = Len(lines) + 3 THEN "load" ELSE stage
  /\ LET d == Variables[at' - Len(lines)]
     IN  IF env[d] = NoFile THEN UNCHANGED <<device, dir, data>>
         ELSE OpenedDevice(d, Here(env[d]))
  /\ UNCHANGED <<lines, env, settings>>

\* fopen opens a directory, too; then nothing is loaded.
LoadProgram ==
  /\ stage = "load" /\ stage' = IF Exists(dir, Here(program)) THEN "run" ELSE "ended"
  /\ UNCHANGED <<lines, env, at, settings, device, dir, data>>

\* The program makes a file of that name, in the current directory.
Made(n) ==
  /\ stage = "run" /\ Here(Lower[n]) \in Creatable
  /\ LET p   == Here(Lower[n])
         ino == IF Exists(dir, p) THEN dir[p] ELSE Spare
     IN  dir' = [dir EXCEPT ![p] = ino] /\ data' = [data EXCEPT ![ino] = <<>>]
  /\ UNCHANGED <<lines, env, at, stage, settings, device>>

ConfigNext ==
  \/ Skip \/ Abort \/ SetProgram \/ ChangeDirectory \/ SetDefaultMode \/ SetEolConvert
  \/ SetDebug \/ AddMapping \/ \E d \in Devices : Redirect(d)
  \/ EndOfFile \/ FromEnvironment \/ LoadProgram \/ \E n \in Name : Made(n)

ConfigSpec == ConfigInit /\ [][ConfigNext]_configVars

\* What find_unix_file_ex answers now: access looks from the current directory.
View      == [p \in Path |-> dir[Here(p)]]
Lookup(n) == Find!FindUnixFileEx(n, View, data, [m \in Name |-> NoFile])

-----------------------------------------------------------------------------
(* Properties.  They read the file as a whole, where the code goes through it *)
(* line by line.                                                              *)

LastOf(S)  == CHOOSE i \in S : \A j \in S : j <= i
FirstOf(S) == CHOOSE i \in S : \A j \in S : i <= j
Lines(key) == {i \in DOMAIN lines : lines[i].key = key}
Value(i)   == Expanded(lines[i].value[1])

\* What a key's last line before line i says, or else otherwise.
Before(key, i, otherwise) ==
  LET S == {j \in Lines(key) : j < i} IN IF S = {} THEN otherwise ELSE Value(LastOf(S))

CwdBefore(i) ==
  LET after[k \in 0..Len(lines)] ==
        IF k = 0 THEN Home
        ELSE IF k \in Lines("cd") /\ Absolute[after[k - 1]][Value(k)] \in Dir
             THEN Absolute[after[k - 1]][Value(k)] ELSE after[k - 1]
  IN  after[i - 1]
FirstThere(paths) ==
  LET S == {k \in DOMAIN paths : Exists(dir, Here(paths[k]))}
  IN  IF S = {} THEN NoFile ELSE paths[FirstOf(S)]
EolBefore(i) == Before("eol_convert", i, "true") \in {"true", "1", "yes"}
ModeBefore(i) ==
  LET m == Before("default_mode", i, "auto") IN IF m \in {"text", "binary"} THEN m ELSE "auto"

\* While the program runs a name leads to the first line of the file whose pattern
\* matches and whose path is there, as seen from the directory the whole file ends
\* in, also after the program has made files; its mode is the line's word or the
\* default set above the line, its line ends are converted unless the word is
\* "binary" or the lines above say no.  Without such a line it is the file in the
\* current directory, with the file's last setting of eol_convert
\* (load_config_file, add_file_mapping_ex, find_unix_file_ex).
LookupFollowsFile ==
  stage = "run" => \A n \in Name :
    LET S == {i \in Lines("map") : Find!MatchPattern(lines[i].pattern, n)
                                    /\ Exists(dir, Here(Value(i)))}
        i == FirstOf(S)
        said  == IF Len(lines[i].value) = 2 THEN lines[i].value[2] ELSE ModeBefore(i)
        found == Lookup(n)
    IN  IF S = {} THEN found.path = FirstThere(<<Lower[n], AsIs[n]>>)
                         /\ found.eol = EolBefore(Len(lines) + 1)
        ELSE /\ found.path = Value(i)
             /\ found.mode = IF said = "auto" THEN Find!DetectFileMode(n, Value(i), View, data)
                             ELSE said
             /\ found.eol = (EolBefore(i) /\ ~(Len(lines[i].value) = 2 /\ said = "binary"))

\* Each device is what the environment, or else the file's last line about it,
\* names in the directory of that line, and closed if that could not be opened,
\* even if an earlier one could (set_printer_file and its like).  Files are only
\* added, so an input that is still missing was missing then.
DeviceIsLastNamed ==
  stage \in {"load", "run"} => \A d \in Devices :
    LET named == IF env[d] # NoFile THEN Here(env[d])
                 ELSE IF Lines(d) = {} THEN NoFile
                 ELSE Absolute[CwdBefore(LastOf(Lines(d)))][Value(LastOf(Lines(d)))]
    IN  IF named = NoFile THEN device[d] = NoFile
        ELSE IF d = "aux_input"
             THEN device[d] \in {named, NoFile} /\ (device[d] = named => Exists(dir, named))
             ELSE device[d] = IF named \in Creatable THEN named ELSE NoFile
=============================================================================
