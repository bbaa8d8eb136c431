------------------------- MODULE ConfigurationProofs -------------------------
(***************************************************************************)
(* What a configuration file comes to, for every file, every environment   *)
(* and every host: load_config_file takes one line after the other, and    *)
(* what it leaves is what the file as a whole says.  While lines are read  *)
(* the settings are those of the lines before the next one, the mappings   *)
(* are numbered by the lines that add them, and each device follows its    *)
(* last line or its variable in the directory that held there.             *)
(***************************************************************************)
EXTENDS Configuration, StreamProofs

\* The lines of the file that have been taken.
Done == IF at < Len(lines) THEN at ELSE Len(lines)

\* The lines of a key before line i.
Earlier(key, i) == {j \in Lines(key) : j < i}

\* The mapping that line i adds.
Entry(i) ==
  [pattern |-> lines[i].pattern, path |-> Value(i),
   mode |-> IF Len(lines[i].value) = 2 THEN lines[i].value[2] ELSE ModeBefore(i),
   eol  |-> EolBefore(i) /\ ~(Len(lines[i].value) = 2 /\ lines[i].value[2] = "binary")]

\* idx numbers the mapping lines of the first m lines.
Numbers(idx, m) ==
  /\ idx \in [1..Len(mappings) -> 1..m]
  /\ \A j \in 1..Len(mappings) : \A k \in 1..Len(mappings) : j < k => idx[j] < idx[k]
  /\ \A k \in 1..Len(mappings) : idx[k] \in Lines("map") /\ mappings[k] = Entry(idx[k])
  /\ \A i \in Lines("map") : i <= m => \E k \in 1..Len(mappings) : idx[k] = i

\* How far the file and the environment are read.
ReadInv ==
  /\ lines \in Configs /\ env \in Environs /\ at \in Nat
  /\ stage = "lines" => at <= Len(lines)
  /\ stage = "environment" => at \in Len(lines)..(Len(lines) + 2)
  /\ stage \in {"load", "run"} => at = Len(lines) + 3

\* The settings are what the lines before the next one say.
SettingsInv ==
  /\ defaultEol = EolBefore(Done + 1) /\ defaultMode = ModeBefore(Done + 1)
  /\ mappings \in Seq({Entry(i) : i \in Lines("map")})
  /\ \A i \in Lines("map") : i <= Done => lines[i].value # <<>>
  /\ \E idx : Numbers(idx, Done)

\* A line has been taken, or something else has happened that leaves the settings.
LineTaken ==
  LET k == at + 1
  IN  /\ stage = "lines" /\ at < Len(lines) /\ at' = at + 1
      /\ UNCHANGED <<lines, env, stage>>
      /\ lines[k].key \in {"map", "cd"} \cup Devices => lines[k].value # <<>>
      /\ defaultMode' = IF lines[k].key # "default_mode" THEN defaultMode
                        ELSE IF Value(k) \in {"text", "binary"} THEN Value(k) ELSE "auto"
      /\ defaultEol' = IF lines[k].key # "eol_convert" THEN defaultEol
                       ELSE Value(k) \in {"true", "1", "yes"}
      /\ mappings' = IF lines[k].key # "map" THEN mappings
                     ELSE Append(mappings,
                            [pattern |-> lines[k].pattern, path |-> Value(k),
                             mode |-> IF Len(lines[k].value) = 2 THEN lines[k].value[2]
                                      ELSE defaultMode,
                             eol |-> defaultEol /\ ~(Len(lines[k].value) = 2
                                                      /\ lines[k].value[2] = "binary")])
      /\ cwd' = IF lines[k].key = "cd" /\ Here(Value(k)) \in Dir THEN Here(Value(k)) ELSE cwd
      /\ IF lines[k].key \in Devices THEN OpenedDevice(lines[k].key, Here(Value(k)))
         ELSE UNCHANGED <<device, dir>>

OtherStep ==
  /\ UNCHANGED <<lines, env, at, settings, device>>
  /\ \/ stage' \in {stage, "ended", "aborted"}
     \/ stage = "lines" /\ at = Len(lines) /\ stage' = "environment"
     \/ stage = "load" /\ stage' = "run"
  /\ \/ dir' = dir
     \/ \E p : \E i : dir' = [dir EXCEPT ![p] = i] /\ (Exists(dir, p) => i = dir[p])

\* What the assumptions say about line k.
LEMMA LineShape ==
  ASSUME ReadInv
  PROVE  /\ Len(lines) \in Nat /\ DOMAIN lines = 1..Len(lines)
         /\ \A k \in 1..Len(lines) :
              /\ lines[k].key \in Keys \cup {"map", "none", ""} /\ lines[k].value \in Seq(Word)
              /\ Len(lines[k].value) = 2 => lines[k].value[2] \in {"text", "binary"}
<1>1. lines \in Configs
  BY DEF ReadInv
<1>2. lines \in Seq({lines[k] : k \in DOMAIN lines})
  BY <1>1, ConfigurationAssumption
<1>3. Len(lines) \in Nat /\ DOMAIN lines = 1..Len(lines)
  BY <1>2, LenProperties
<1>4. QED  BY <1>1, <1>3, ConfigurationAssumption

\* A value that is there is a path.
LEMMA ValueIsPath ==
  ASSUME ReadInv, NEW k \in 1..Len(lines), lines[k].value # <<>>
  PROVE  Value(k) \in Path
<1>1. lines[k].value \in Seq(Word)
  BY LineShape
<1>2. Len(lines[k].value) \in Nat \ {0}
  BY <1>1, EmptySeq
<1>3. 1 \in 1..Len(lines[k].value)
  BY <1>2
<1>4. lines[k].value[1] \in Word
  BY <1>1, <1>3, ElementOfSeq
<1>5. \A w \in Word : Expanded(w) \in Path
  BY ConfigurationAssumption DEF Word, Expanded
<1>6. QED  BY <1>4, <1>5 DEF Value

\* A line is the last of its key before the next one; the other keys have none more.
LEMMA EarlierNext ==
  ASSUME ReadInv, NEW k \in 1..Len(lines), NEW key
  PROVE  /\ lines[k].key = key =>
              Earlier(key, k + 1) # {} /\ LastOf(Earlier(key, k + 1)) = k
         /\ lines[k].key # key => Earlier(key, k + 1) = Earlier(key, k)
<1>1. DOMAIN lines = 1..Len(lines) /\ Len(lines) \in Nat
  BY LineShape
<1>2. CASE lines[k].key = key
  <2>1. k \in Earlier(key, k + 1) /\ \A j \in Earlier(key, k + 1) : j \in Nat /\ j <= k
    BY <1>1, <1>2 DEF Earlier, Lines
  <2> DEFINE E == Earlier(key, k + 1)
  <2> HIDE DEF E
  <2>2. k \in E /\ \A j \in E : j \in Nat /\ j <= k
    BY <2>1 DEF E
  <2>3. LastOf(E) \in E /\ \A j \in E : j <= LastOf(E)
    BY <2>2 DEF LastOf
  <2>4. k \in Nat /\ LastOf(E) \in Nat
    BY <1>1, <2>2, <2>3
  <2>5. LastOf(E) <= k /\ k <= LastOf(E)
    BY <2>2, <2>3
  <2>6. LastOf(E) = k
    BY <2>4, <2>5
  <2>7. QED  BY <1>2, <2>2, <2>6 DEF E
<1>3. CASE lines[k].key # key
  <2>1. \A j \in Lines(key) : j < k + 1 <=> j < k
    BY <1>1, <1>3 DEF Lines
  <2>2. QED  BY <1>3, <2>1 DEF Earlier
<1>4. QED  BY <1>2, <1>3

\* So what the lines of a key say changes at its lines only.
LEMMA BeforeNext ==
  ASSUME ReadInv, NEW k \in 1..Len(lines), NEW key, NEW otherwise
  PROVE  Before(key, k + 1, otherwise) =
           IF lines[k].key = key THEN Value(k) ELSE Before(key, k, otherwise)
<1>1. \A i : Before(key, i, otherwise) =
               IF Earlier(key, i) = {} THEN otherwise ELSE Value(LastOf(Earlier(key, i)))
  BY DEF Before, Earlier
<1>2. CASE lines[k].key = key
  BY <1>1, <1>2, EarlierNext
<1>3. CASE lines[k].key # key
  BY <1>1, <1>3, EarlierNext
<1>4. QED  BY <1>2, <1>3

\* Nothing else changes what they say.
LEMMA LinesFixed ==
  ASSUME lines' = lines
  PROVE  /\ \A i : EolBefore(i)' = EolBefore(i) /\ ModeBefore(i)' = ModeBefore(i)
         /\ \A i : Entry(i)' = Entry(i)
         /\ \A key : Lines(key)' = Lines(key)
         /\ \A i : Value(i)' = Value(i)
<1>1. /\ \A key : Lines(key)' = Lines(key)
      /\ \A i : Value(i)' = Value(i)
  BY DEF Lines, Value
<1>2. \A i : EolBefore(i)' = EolBefore(i) /\ ModeBefore(i)' = ModeBefore(i)
  BY <1>1 DEF EolBefore, ModeBefore, Before
<1>3. \A i : Entry(i)' = Entry(i)
  BY <1>1, <1>2 DEF Entry
<1>4. QED  BY <1>1, <1>2, <1>3

\* A key is neither of the two that have no line of their own.
LEMMA TakenIs ==
  ASSUME NEW key, Taken(key)
  PROVE  /\ stage = "lines" /\ at < Len(lines) /\ at' = at + 1 /\ lines[at + 1].key = key
         /\ Line = lines[at + 1] /\ First = Value(at + 1)
BY DEF Taken, Line, First, Value

\* What every step does.
LEMMA StepIs ==
  ASSUME ReadInv, [ConfigNext]_configVars
  PROVE  LineTaken \/ FromEnvironment \/ OtherStep
<1>1. \A key : Taken(key) => ReadInv /\ at + 1 \in 1..Len(lines)
  <2> SUFFICES ASSUME NEW key, Taken(key)  PROVE at + 1 \in 1..Len(lines)
    OBVIOUS
  <2>1. at < Len(lines) /\ at \in Nat /\ Len(lines) \in Nat
    BY LineShape DEF ReadInv, Taken
  <2>2. QED  BY <2>1
<1> USE DEF settings, Unchanged, Readable
<1>2. CASE Skip
  <2>1. Taken("none") /\ UNCHANGED <<lines, env, stage>>
    BY <1>2 DEF Skip
  <2>2. /\ stage = "lines" /\ at < Len(lines) /\ at' = at + 1 /\ lines[at + 1].key = "none"
        /\ Line = lines[at + 1] /\ First = Value(at + 1)
    BY <2>1, TakenIs
  <2>3. /\ UNCHANGED <<cwd, defaultMode, defaultEol, mappings, device, dir>>
    BY <1>2, <2>2 DEF Skip
  <2> HIDE DEF settings, Unchanged, Readable
  <2>4. QED  BY <2>1, <2>2, <2>3 DEF LineTaken, Devices
<1>3. CASE SetProgram
  <2>1. Taken("program") /\ UNCHANGED <<lines, env, stage>>
    BY <1>3 DEF SetProgram
  <2>2. /\ stage = "lines" /\ at < Len(lines) /\ at' = at + 1 /\ lines[at + 1].key = "program"
        /\ Line = lines[at + 1] /\ First = Value(at + 1)
    BY <2>1, TakenIs
  <2>3. /\ UNCHANGED <<cwd, defaultMode, defaultEol, mappings, device, dir>>
    BY <1>3, <2>2 DEF SetProgram
  <2> HIDE DEF settings, Unchanged, Readable
  <2>4. QED  BY <2>1, <2>2, <2>3 DEF LineTaken, Devices
<1>4. CASE ChangeDirectory
  <2>1. Taken("cd") /\ UNCHANGED <<lines, env, stage>>
    BY <1>4 DEF ChangeDirectory
  <2>2. /\ stage = "lines" /\ at < Len(lines) /\ at' = at + 1 /\ lines[at + 1].key = "cd"
        /\ Line = lines[at + 1] /\ First = Value(at + 1)
    BY <2>1, TakenIs
  <2>3. /\ UNCHANGED <<defaultMode, defaultEol, mappings, device, dir>>
         /\ cwd' = (IF Here(Value(at + 1)) \in Dir THEN Here(Value(at + 1)) ELSE cwd)
         /\ lines[at + 1].value # <<>>
    BY <1>4, <2>2 DEF ChangeDirectory
  <2> HIDE DEF settings, Unchanged, Readable
  <2>4. QED  BY <2>1, <2>2, <2>3 DEF LineTaken, Devices
<1>5. CASE SetDefaultMode
  <2>1. Taken("default_mode") /\ UNCHANGED <<lines, env, stage>>
    BY <1>5 DEF SetDefaultMode
  <2>2. /\ stage = "lines" /\ at < Len(lines) /\ at' = at + 1 /\ lines[at + 1].key = "default_mode"
        /\ Line = lines[at + 1] /\ First = Value(at + 1)
    BY <2>1, TakenIs
  <2>3. /\ UNCHANGED <<cwd, defaultEol, mappings, device, dir>>
         /\ defaultMode' = (IF Value(at + 1) \in {"text", "binary"} THEN Value(at + 1) ELSE "auto")
    BY <1>5, <2>2 DEF SetDefaultMode
  <2> HIDE DEF settings, Unchanged, Readable
  <2>4. QED  BY <2>1, <2>2, <2>3 DEF LineTaken, Devices
<1>6. CASE SetEolConvert
  <2>1. Taken("eol_convert") /\ UNCHANGED <<lines, env, stage>>
    BY <1>6 DEF SetEolConvert
  <2>2. /\ stage = "lines" /\ at < Len(lines) /\ at' = at + 1 /\ lines[at + 1].key = "eol_convert"
        /\ Line = lines[at + 1] /\ First = Value(at + 1)
    BY <2>1, TakenIs
  <2>3. /\ UNCHANGED <<cwd, defaultMode, mappings, device, dir>>
         /\ defaultEol' = (Value(at + 1) \in {"true", "1", "yes"})
    BY <1>6, <2>2 DEF SetEolConvert
  <2> HIDE DEF settings, Unchanged, Readable
  <2>4. QED  BY <2>1, <2>2, <2>3 DEF LineTaken, Devices
<1>7. CASE SetDebug
  <2>1. Taken("debug") /\ UNCHANGED <<lines, env, stage>>
    BY <1>7 DEF SetDebug
  <2>2. /\ stage = "lines" /\ at < Len(lines) /\ at' = at + 1 /\ lines[at + 1].key = "debug"
        /\ Line = lines[at + 1] /\ First = Value(at + 1)
    BY <2>1, TakenIs
  <2>3. /\ UNCHANGED <<cwd, defaultMode, defaultEol, mappings, device, dir>>
    BY <1>7, <2>2 DEF SetDebug
  <2> HIDE DEF settings, Unchanged, Readable
  <2>4. QED  BY <2>1, <2>2, <2>3 DEF LineTaken, Devices
<1>8. CASE AddMapping
  <2>1. Taken("map") /\ Readable
    BY <1>8 DEF AddMapping
  <2> DEFINE k == at + 1
  <2>2. Line = lines[k] /\ First = Value(k) /\ lines[k].key = "map" /\ k \in 1..Len(lines)
    BY <1>1, <2>1, TakenIs
  <2>3. Len(lines[k].value) = 2 => lines[k].value[2] \in {"text", "binary"}
    BY <2>2, LineShape
  <2> DEFINE mode == IF Len(lines[k].value) = 2 THEN lines[k].value[2] ELSE defaultMode
             eol  == defaultEol /\ ~(Len(lines[k].value) = 2 /\ lines[k].value[2] = "binary")
  <2>4. /\ (IF ModeWord = "" THEN defaultMode ELSE ModeWord) = mode
        /\ (defaultEol /\ ModeWord # "binary") = eol
    BY <2>2, <2>3 DEF ModeWord
  <2>5. mappings' = Append(mappings, [pattern |-> lines[k].pattern, path |-> Value(k),
                                      mode |-> mode, eol |-> eol])
    BY <1>8, <2>2, <2>4 DEF AddMapping
  <2>6. UNCHANGED <<cwd, defaultMode, defaultEol, device, dir>> /\ UNCHANGED <<lines, env, stage>>
    BY <1>8 DEF AddMapping
  <2>7. QED  BY <2>1, <2>2, <2>5, <2>6, TakenIs DEF LineTaken, Devices
<1>9. CASE \E d \in Devices : Redirect(d)
  <2>1. PICK d \in Devices : Redirect(d)
    BY <1>9
  <2>2. Taken(d) /\ lines[at + 1].key = d /\ First = Value(at + 1) /\ Line = lines[at + 1]
    BY <2>1, TakenIs DEF Redirect
  <2>3. OpenedDevice(d, Here(Value(at + 1)))
    BY <2>1, <2>2 DEF Redirect
  <2>4. d \notin {"map", "cd", "default_mode", "eol_convert"}
    BY <2>1 DEF Devices
  <2>5. UNCHANGED <<cwd, defaultMode, defaultEol, mappings>> /\ UNCHANGED <<lines, env, stage>>
    BY <2>1 DEF Redirect
  <2>6. stage = "lines" /\ at < Len(lines) /\ at' = at + 1 /\ lines[at + 1].value # <<>>
    BY <2>1, <2>2 DEF Redirect, Taken
  <2> HIDE DEF settings, Unchanged, Readable
  <2>7. QED  BY <2>1, <2>2, <2>3, <2>4, <2>5, <2>6 DEF LineTaken
<1>10. CASE Abort \/ EndOfFile \/ LoadProgram
  BY <1>10 DEF Abort, EndOfFile, LoadProgram, OtherStep
<1>11. CASE FromEnvironment
  BY <1>11
<1>12. CASE \E n \in Name : Made(n)
  <2>1. PICK n \in Name : Made(n)
    BY <1>12
  <2> DEFINE p   == Here(Lower[n])
             ino == IF Exists(dir, p) THEN dir[p] ELSE Spare
  <2>2. dir' = [dir EXCEPT ![p] = ino]
    BY <2>1 DEF Made
  <2>3. Exists(dir, p) => ino = dir[p]
    OBVIOUS
  <2>4. UNCHANGED <<lines, env, at, settings, device>> /\ stage' = stage
    BY <2>1 DEF Made
  <2> HIDE DEF p, ino
  <2>5. QED  BY <2>2, <2>3, <2>4 DEF OtherStep
<1>13. CASE UNCHANGED configVars
  BY <1>13 DEF configVars, OtherStep
<1>14. QED
  BY <1>2, <1>3, <1>4, <1>5, <1>6, <1>7, <1>8, <1>9, <1>10, <1>11, <1>12, <1>13 DEF ConfigNext

\* Nothing is read at first.
LEMMA ReadInit == ConfigInit => ReadInv
<1> SUFFICES ASSUME ConfigInit  PROVE ReadInv
  OBVIOUS
<1>1. lines \in Configs /\ env \in Environs /\ at = 0 /\ stage = "lines"
  BY DEF ConfigInit
<1>2. lines \in Seq({lines[k] : k \in DOMAIN lines})
  BY <1>1, ConfigurationAssumption
<1>3. Len(lines) \in Nat
  BY <1>2, LenProperties
<1>4. QED  BY <1>1, <1>3 DEF ReadInv

\* The lines are taken in order, then the three variables, then the program is loaded.
LEMMA ReadStep ==
  ASSUME ReadInv, [ConfigNext]_configVars
  PROVE  ReadInv'
<1>1. Len(lines) \in Nat
  BY LineShape
<1> USE DEF ReadInv
<1>2. CASE LineTaken
  <2>1. stage = "lines" /\ at < Len(lines) /\ at' = at + 1 /\ UNCHANGED <<lines, env, stage>>
    BY <1>2 DEF LineTaken
  <2>2. QED  BY <1>1, <2>1
<1>3. CASE FromEnvironment
  BY <1>1, <1>3 DEF FromEnvironment
<1>4. CASE OtherStep
  BY <1>1, <1>4 DEF OtherStep
<1>5. QED  BY <1>2, <1>3, <1>4, StepIs

\* What is added to mappings is the line's entry.
LEMMA MappingsNext ==
  ASSUME ReadInv, SettingsInv, LineTaken
  PROVE  mappings' = IF lines[at + 1].key = "map" THEN Append(mappings, Entry(at + 1))
                     ELSE mappings
<1>1. defaultEol = EolBefore(at + 1) /\ defaultMode = ModeBefore(at + 1)
  BY DEF SettingsInv, LineTaken, Done
<1>2. QED  BY <1>1 DEF LineTaken, Entry

\* Numbers, with one more line and a mapping if it adds one.
LEMMA NumbersNext ==
  ASSUME ReadInv, SettingsInv, NEW k \in 1..Len(lines), NEW idx, Numbers(idx, k - 1),
         lines' = lines,
         mappings' = IF lines[k].key = "map" THEN Append(mappings, Entry(k)) ELSE mappings
  PROVE  /\ mappings' \in Seq({Entry(i) : i \in Lines("map")})
         /\ \E new : Numbers(new, k)'
<1> DEFINE E == {Entry(i) : i \in Lines("map")}
           n == Len(mappings)
<1>1. mappings \in Seq(E) /\ n \in Nat
  BY LenProperties DEF SettingsInv
<1>2. DOMAIN lines = 1..Len(lines) /\ Len(lines) \in Nat
  BY LineShape
<1>3. Lines("map")' = Lines("map") /\ \A i : Entry(i)' = Entry(i)
  BY LinesFixed
<1>4. CASE lines[k].key # "map"
  <2>1. mappings' = mappings /\ k \notin Lines("map")
    BY <1>4 DEF Lines
  <2>2. \A i \in Lines("map") : i <= k => i <= k - 1
    BY <1>2, <2>1 DEF Lines
  <2>3. idx \in [1..n -> 1..k]
    BY DEF Numbers
  <2>4. Numbers(idx, k)'
    BY <1>3, <2>1, <2>2, <2>3 DEF Numbers
  <2>5. QED  BY <1>1, <2>1, <2>4
<1>5. CASE lines[k].key = "map"
  <2>1. k \in Lines("map") /\ k \in Nat /\ Entry(k) \in E
    BY <1>2, <1>5 DEF Lines
  <2> DEFINE more == Append(mappings, Entry(k))
  <2>0. PICK new : new = [h \in 1..(n + 1) |-> IF h = n + 1 THEN k ELSE idx[h]]
    OBVIOUS
  <2>2. /\ more \in Seq(E) /\ Len(more) = n + 1
        /\ \A h \in 1..n : more[h] = mappings[h]
        /\ more[n + 1] = Entry(k)
    BY <1>1, <2>1, AppendProperties
  <2>3. mappings' = more
    BY <1>5
  <2> HIDE DEF more
  <2>4. \A h \in 1..n : idx[h] \in 1..(k - 1)
    BY DEF Numbers
  <2>5. \A h \in 1..n : new[h] = idx[h] /\ h \in 1..(n + 1)
    BY <1>1, <2>0
  <2>6. new[n + 1] = k /\ n + 1 \in 1..(n + 1)
    BY <1>1, <2>0
  <2>7. new \in [1..(n + 1) -> 1..k]
    BY <1>1, <2>0, <2>1, <2>4
  <2> HIDE DEF E
  <2>8. ASSUME NEW h \in 1..(n + 1)  PROVE h \in 1..n \/ h = n + 1
    BY <1>1
  <2>9. \A j \in 1..(n + 1) : \A h \in 1..(n + 1) : j < h => new[j] < new[h]
    <3> SUFFICES ASSUME NEW j \in 1..(n + 1), NEW h \in 1..(n + 1), j < h
                 PROVE  new[j] < new[h]
      OBVIOUS
    <3>1. j \in 1..n
      BY <1>1, <2>8
    <3>2. CASE h \in 1..n
      BY <2>5, <3>1, <3>2 DEF Numbers
    <3>3. CASE h = n + 1
      <4>1. new[j] \in 1..(k - 1)
        BY <2>4, <2>5, <3>1
      <4>2. new[h] = k
        BY <2>6, <3>3
      <4>3. QED  BY <2>1, <4>1, <4>2
    <3>4. QED  BY <2>8, <3>2, <3>3
  <2>10. \A h \in 1..(n + 1) : new[h] \in Lines("map") /\ more[h] = Entry(new[h])
    <3>1. \A h \in 1..n : new[h] \in Lines("map") /\ more[h] = Entry(new[h])
      BY <2>2, <2>5 DEF Numbers
    <3>2. new[n + 1] \in Lines("map") /\ more[n + 1] = Entry(new[n + 1])
      BY <2>1, <2>2, <2>6
    <3>3. QED  BY <2>8, <3>1, <3>2
  <2>11. ASSUME NEW i \in Lines("map"), i <= k  PROVE \E h \in 1..(n + 1) : new[h] = i
    <3>1. CASE i = k
      BY <2>6, <3>1
    <3>2. CASE i # k
      <4>1. i <= k - 1
        BY <1>2, <2>1, <2>11, <3>2 DEF Lines
      <4>2. PICK h \in 1..n : idx[h] = i
        BY <4>1 DEF Numbers
      <4>3. QED  BY <2>5, <4>2
    <3>3. QED  BY <3>1, <3>2
  <2>12. Numbers(new, k)'
    <3>1. Len(mappings)' = n + 1
      BY <2>2, <2>3
    <3> HIDE DEF n
    <3>2. QED  BY <1>3, <2>3, <2>7, <2>9, <2>10, <2>11, <3>1 DEF Numbers
  <2>13. QED  BY <2>2, <2>3, <2>12 DEF E
<1>6. QED  BY <1>4, <1>5, <1>3

\* No line, no mapping.
LEMMA SettingsInit == ConfigInit => SettingsInv
<1> SUFFICES ASSUME ConfigInit  PROVE SettingsInv
  OBVIOUS
<1>1. ReadInv /\ at = 0 /\ defaultEol = TRUE /\ defaultMode = "auto" /\ mappings = <<>>
  BY ReadInit DEF ConfigInit
<1>2. Len(lines) \in Nat /\ DOMAIN lines = 1..Len(lines)
  BY <1>1, LineShape
<1>3. Done = 0
  BY <1>1, <1>2 DEF Done
<1>4. \A key : \A otherwise : Before(key, 1, otherwise) = otherwise
  <2>1. \A key : {j \in Lines(key) : j < 1} = {}
    BY <1>2 DEF Lines
  <2>2. QED  BY <2>1 DEF Before
<1>5. defaultEol = EolBefore(1) /\ defaultMode = ModeBefore(1)
  BY <1>1, <1>4 DEF EolBefore, ModeBefore
<1>6. Numbers(<<>>, 0)
  <2>1. Len(mappings) = 0
    BY <1>1
  <2>2. \A i \in Lines("map") : ~(i <= 0)
    BY <1>2 DEF Lines
  <2>3. 1..0 = {} /\ <<>> \in [1..0 -> 1..0]
    OBVIOUS
  <2>4. QED  BY <2>1, <2>2, <2>3 DEF Numbers
<1>7. \A i \in Lines("map") : ~(i <= 0)
  BY <1>2 DEF Lines
<1>8. QED  BY <1>1, <1>3, <1>5, <1>6, <1>7 DEF SettingsInv

\* A line leaves the settings that it and the lines before it say.
LEMMA SettingsStep ==
  ASSUME ReadInv, SettingsInv, [ConfigNext]_configVars
  PROVE  SettingsInv'
<1>1. Len(lines) \in Nat /\ at \in Nat
  BY LineShape DEF ReadInv
<1>2. CASE LineTaken
  <2>0. PICK k \in Nat : k = at + 1
    BY <1>1
  <2>1. Done = at /\ Done' = k /\ k \in 1..Len(lines) /\ lines' = lines
    BY <1>1, <1>2, <2>0 DEF LineTaken, Done
  <2>2. defaultEol = EolBefore(k) /\ defaultMode = ModeBefore(k)
    BY <2>0, <2>1 DEF SettingsInv
  <2>3. /\ EolBefore(k + 1) = IF lines[k].key = "eol_convert" THEN Value(k) \in {"true", "1", "yes"}
                               ELSE EolBefore(k)
        /\ ModeBefore(k + 1) = IF lines[k].key # "default_mode" THEN ModeBefore(k)
                                ELSE IF Value(k) \in {"text", "binary"} THEN Value(k) ELSE "auto"
    BY <2>1, BeforeNext DEF EolBefore, ModeBefore
  <2>4. defaultEol' = EolBefore(k + 1) /\ defaultMode' = ModeBefore(k + 1)
    BY <1>2, <2>0, <2>2, <2>3 DEF LineTaken
  <2>5. (EolBefore(Done + 1))' = EolBefore(k + 1) /\ (ModeBefore(Done + 1))' = ModeBefore(k + 1)
    BY <2>1, LinesFixed
  <2>6. PICK idx : Numbers(idx, at)
    BY <2>1 DEF SettingsInv
  <2>7. k - 1 = at
    BY <1>1, <2>0
  <2>8. /\ mappings' \in Seq({Entry(i) : i \in Lines("map")})
        /\ \E new : Numbers(new, k)'
    <3>1. mappings' = IF lines[k].key = "map" THEN Append(mappings, Entry(k)) ELSE mappings
      BY <1>2, <2>0, MappingsNext
    <3>2. QED  BY <2>1, <2>6, <2>7, <3>1, NumbersNext
  <2>9. \A i \in Lines("map") : i <= k => lines[i].value # <<>>
    <3>0. DOMAIN lines = 1..Len(lines)
      BY LineShape
    <3>1. ASSUME NEW i \in Lines("map"), i <= k
          PROVE  i <= at \/ (i = k /\ lines[k].key = "map")
      <4>1. i \in Nat /\ lines[i].key = "map"
        BY <1>1, <3>0 DEF Lines
      <4>2. i <= at \/ i = k
        BY <1>1, <2>0, <3>1, <4>1
      <4>3. QED  BY <4>1, <4>2
    <3>2. lines[k].key = "map" => lines[k].value # <<>>
      BY <1>2, <2>0 DEF LineTaken
    <3>3. \A i \in Lines("map") : i <= at => lines[i].value # <<>>
      BY <2>1 DEF SettingsInv
    <3>4. QED  BY <3>1, <3>2, <3>3
  <2>10. QED  BY <2>1, <2>4, <2>5, <2>8, <2>9, LinesFixed DEF SettingsInv
<1>3. CASE FromEnvironment \/ OtherStep
  <2>1. UNCHANGED <<lines, defaultMode, defaultEol, mappings>>
    BY <1>3 DEF FromEnvironment, OtherStep, settings
  <2>2. Done' = Done
    BY <1>1, <1>3 DEF FromEnvironment, OtherStep, ReadInv, Done
  <2>3. \A idx : Numbers(idx, Done)' <=> Numbers(idx, Done)
    BY <2>1, <2>2, LinesFixed DEF Numbers
  <2>4. QED  BY <2>1, <2>2, <2>3, LinesFixed DEF SettingsInv
<1>4. QED  BY <1>2, <1>3, StepIs

\* The lines that map n to a file that is there.
Mapping(n) ==
  {i \in Lines("map") : Find!MatchPattern(lines[i].pattern, n) /\ Exists(dir, Here(Value(i)))}

\* A mapping applies when its line does.
LEMMA AppliesIs ==
  ASSUME ReadInv, SettingsInv, NEW n \in Name, NEW idx, Numbers(idx, Len(lines)),
         NEW k \in 1..Len(mappings), lines[idx[k]].value # <<>>
  PROVE  Find!Applies(k, n, View) <=> idx[k] \in Mapping(n)
<1>1. idx[k] \in Lines("map") /\ mappings[k] = Entry(idx[k]) /\ idx[k] \in 1..Len(lines)
  BY DEF Numbers
<1>2. Value(idx[k]) \in Path
  BY <1>1, ValueIsPath
<1>3. mappings[k].pattern = lines[idx[k]].pattern /\ mappings[k].path = Value(idx[k])
  BY <1>1 DEF Entry
<1>4. Find!Exists(View, Value(idx[k])) <=> Exists(dir, Here(Value(idx[k])))
  BY <1>2 DEF View, Find!Exists, Exists
<1>5. QED  BY <1>1, <1>3, <1>4 DEF Find!Applies, Mapping

\* The least of a set of naturals.
LEMMA FirstOfIs ==
  ASSUME NEW S \in SUBSET Nat, S # {}
  PROVE  FirstOf(S) \in S /\ \A j \in S : FirstOf(S) <= j
BY LeastNatural DEF FirstOf

\* The first mapping that applies is the one that the first such line has added.
LEMMA FirstMappingIs ==
  ASSUME ReadInv, SettingsInv, Done = Len(lines), NEW n \in Name
  PROVE  /\ Find!Mapped(n, View) <=> Mapping(n) # {}
         /\ Mapping(n) # {} =>
              Find!FirstMapping(n, View) = Entry(FirstOf(Mapping(n)))
<1>1. PICK idx : Numbers(idx, Len(lines))
  BY DEF SettingsInv
<1> DEFINE m == Len(mappings)
<1>2. m \in Nat /\ DOMAIN mappings = 1..m /\ Len(lines) \in Nat /\ DOMAIN lines = 1..Len(lines)
  BY LineShape, LenProperties DEF SettingsInv
<1>3. \A k \in 1..m : idx[k] \in Lines("map") /\ idx[k] \in 1..Len(lines)
  BY <1>1 DEF Numbers
<1>4. \A i \in Lines("map") : i \in 1..Len(lines) /\ i <= Len(lines) /\ lines[i].value # <<>>
  BY <1>2 DEF Lines, SettingsInv
<1>5. ASSUME NEW k \in 1..m  PROVE Find!Applies(k, n, View) <=> idx[k] \in Mapping(n)
  BY <1>1, <1>3, <1>4, AppliesIs
<1>6. ASSUME NEW i \in Mapping(n)  PROVE \E k \in 1..m : idx[k] = i
  <2>1. i \in Lines("map")
    BY DEF Mapping
  <2>2. QED  BY <1>1, <1>4, <2>1 DEF Numbers
<1>7. Find!Mapped(n, View) <=> Mapping(n) # {}
  BY <1>2, <1>5, <1>6 DEF Find!Mapped
<1>8. ASSUME Mapping(n) # {}  PROVE Find!FirstMapping(n, View) = Entry(FirstOf(Mapping(n)))
  <2> DEFINE S == Mapping(n)
             i == FirstOf(S)
  <2>1. S \in SUBSET Nat
    BY <1>4 DEF Mapping
  <2>2. i \in S /\ \A j \in S : i <= j
    <3> HIDE DEF S
    <3>1. S # {}
      BY <1>8 DEF S
    <3>2. QED  BY <2>1, <3>1, FirstOfIs
  <2>3. PICK k \in 1..m : idx[k] = i
    BY <1>6, <2>2
  <2> HIDE DEF S, i
  <2>4. \A j \in 1..m : j < k => ~ (idx[j] \in S)
    <3> SUFFICES ASSUME NEW j \in 1..m, j < k, idx[j] \in S  PROVE FALSE
      OBVIOUS
    <3>1. idx[j] < i
      BY <1>1, <2>3 DEF Numbers
    <3>2. i <= idx[j] /\ i \in Nat /\ idx[j] \in Nat
      BY <2>1, <2>2
    <3>3. QED  BY <3>1, <3>2
  <2> DEFINE first(h) == /\ Find!Applies(h, n, View)
                         /\ \A j \in 1..(h - 1) : ~ Find!Applies(j, n, View)
  <2>5. \A h \in 1..m : Find!Applies(h, n, View) <=> idx[h] \in S
    BY <1>5 DEF S
  <2>6. first(k)
    <3>1. \A j \in 1..(k - 1) : j \in 1..m /\ j < k
      BY <1>2
    <3>2. QED  BY <2>2, <2>3, <2>4, <2>5, <3>1
  <2>7. ASSUME NEW h \in 1..m, first(h)  PROVE h = k
    <3>1. ~ (h < k)
      BY <2>4, <2>5, <2>7
    <3>2. ~ (k < h)
      <4>1. k < h => k \in 1..(h - 1)
        BY <1>2
      <4>2. QED  BY <2>6, <2>7, <4>1
    <3>3. QED  BY <1>2, <3>1, <3>2
  <2>8. (CHOOSE h \in 1..m : first(h)) = k
    <3> HIDE DEF first
    <3>1. QED  BY <2>6, <2>7
  <2>9. Find!FirstMapping(n, View) = mappings[k]
    BY <1>2, <2>8 DEF Find!FirstMapping
  <2>10. mappings[k] = Entry(i)
    BY <1>1, <2>3 DEF Numbers
  <2>11. QED  BY <2>9, <2>10 DEF S, i
<1>9. QED  BY <1>7, <1>8

\* What LookupFollowsFile says of one name.
LEMMA LookupIs ==
  ASSUME ReadInv, SettingsInv, stage = "run", NEW n \in Name
  PROVE  LET S == Mapping(n)
             i == FirstOf(S)
             said  == IF Len(lines[i].value) = 2 THEN lines[i].value[2] ELSE ModeBefore(i)
             found == Lookup(n)
         IN  IF S = {} THEN found.path = FirstThere(<<Lower[n], AsIs[n]>>)
                              /\ found.eol = EolBefore(Len(lines) + 1)
             ELSE /\ found.path = Value(i)
                  /\ found.mode = IF said = "auto" THEN Find!DetectFileMode(n, Value(i), View, data)
                                  ELSE said
                  /\ found.eol = (EolBefore(i) /\ ~(Len(lines[i].value) = 2 /\ said = "binary"))
<1>1. Len(lines) \in Nat /\ DOMAIN lines = 1..Len(lines)
  BY LineShape
<1>2. Done = Len(lines)
  <2>1. at = Len(lines) + 3
    BY DEF ReadInv
  <2>2. ~ (at < Len(lines))
    BY <1>1, <2>1
  <2>3. QED  BY <2>2 DEF Done
<1>3. CASE Mapping(n) = {}
  <2>1. ~ Find!Mapped(n, View)
    BY <1>2, <1>3, FirstMappingIs
  <2>2. Lower[n] \in Path /\ AsIs[n] \in Path
    BY ConfigurationAssumption
  <2>3. \A p \in Path : Find!Exists(View, p) <=> Exists(dir, Here(p))
    BY DEF View, Find!Exists, Exists
  <2>4. Lookup(n).path = IF Exists(dir, Here(Lower[n])) THEN Lower[n]
                         ELSE IF Exists(dir, Here(AsIs[n])) THEN AsIs[n] ELSE NoFile
    BY <2>1, <2>2, <2>3 DEF Lookup, Find!FindUnixFileEx, Find!FindPath
  <2>5. FirstThere(<<Lower[n], AsIs[n]>>) =
          IF Exists(dir, Here(Lower[n])) THEN Lower[n]
          ELSE IF Exists(dir, Here(AsIs[n])) THEN AsIs[n] ELSE NoFile
    <3> DEFINE paths == <<Lower[n], AsIs[n]>>
               T == {k \in DOMAIN paths : Exists(dir, Here(paths[k]))}
    <3>1. DOMAIN paths = {1, 2} /\ paths[1] = Lower[n] /\ paths[2] = AsIs[n]
      OBVIOUS
    <3> HIDE DEF paths
    <3>2. T \in SUBSET Nat
      BY <3>1
    <3>3. (1 \in T <=> Exists(dir, Here(Lower[n]))) /\ (2 \in T <=> Exists(dir, Here(AsIs[n])))
          /\ T \subseteq {1, 2}
      BY <3>1
    <3>4. FirstThere(paths) = IF T = {} THEN NoFile ELSE paths[FirstOf(T)]
      BY DEF FirstThere
    <3> HIDE DEF T
    <3>5. T # {} => FirstOf(T) \in T /\ \A j \in T : FirstOf(T) <= j
      BY <3>2, FirstOfIs
    <3>6. ASSUME T # {}  PROVE FirstOf(T) = IF 1 \in T THEN 1 ELSE 2
      <4>1. FirstOf(T) \in {1, 2} /\ FirstOf(T) \in T
        BY <3>3, <3>5, <3>6
      <4>2. 1 \in T => FirstOf(T) <= 1
        BY <3>5, <3>6
      <4>3. 1 \in T => FirstOf(T) = 1
        BY <4>1, <4>2
      <4>4. QED  BY <4>1, <4>3
    <3>7. QED  BY <3>1, <3>3, <3>4, <3>6 DEF paths
  <2>6. Lookup(n).eol = defaultEol
    BY <2>1 DEF Lookup, Find!FindUnixFileEx
  <2>7. defaultEol = EolBefore(Len(lines) + 1)
    BY <1>2 DEF SettingsInv
  <2>8. QED  BY <1>3, <2>4, <2>5, <2>6, <2>7
<1>4. CASE Mapping(n) # {}
  <2> DEFINE i == FirstOf(Mapping(n))
             e == Entry(i)
  <2>1. Find!Mapped(n, View) /\ Find!FirstMapping(n, View) = e
    BY <1>2, <1>4, FirstMappingIs
  <2>2. /\ Lookup(n).path = e.path
        /\ Lookup(n).eol = e.eol
        /\ Lookup(n).mode = IF e.mode = "auto" THEN Find!DetectFileMode(n, e.path, View, data)
                            ELSE e.mode
    <3> HIDE DEF e
    <3>1. QED  BY <2>1 DEF Lookup, Find!FindUnixFileEx, Find!FindPath
  <2> HIDE DEF i
  <2>3. /\ e.path = Value(i)
        /\ e.mode = IF Len(lines[i].value) = 2 THEN lines[i].value[2] ELSE ModeBefore(i)
        /\ e.eol = (EolBefore(i) /\ ~(Len(lines[i].value) = 2 /\ lines[i].value[2] = "binary"))
    BY DEF Entry
  <2> HIDE DEF e
  <2>4. QED  BY <1>4, <2>2, <2>3 DEF i
<1>5. QED  BY <1>3, <1>4

\* While the program runs, a name leads where the first line of the file that maps
\* it to a file that is there says, in the mode and with the line ends that the line
\* and those above it say, or else to the file of the current directory
\* (load_config_file, add_file_mapping_ex, find_unix_file_ex).
THEOREM LookupIsTheFile == ConfigSpec => []LookupFollowsFile
<1>1. ConfigInit => ReadInv /\ SettingsInv
  BY ReadInit, SettingsInit
<1>2. ReadInv /\ SettingsInv /\ [ConfigNext]_configVars => ReadInv' /\ SettingsInv'
  BY ReadStep, SettingsStep
<1>3. ReadInv /\ SettingsInv => LookupFollowsFile
  BY LookupIs DEF LookupFollowsFile, Mapping
<1>4. QED  BY <1>1, <1>2, <1>3, PTL DEF ConfigSpec

-----------------------------------------------------------------------------
\* f is the current directory after each of the first m lines.
Directories(f, m) ==
  f = [k \in 0..m |->
        IF k = 0 THEN Home
        ELSE IF k \in Lines("cd") /\ Absolute[f[k - 1]][Value(k)] \in Dir
             THEN Absolute[f[k - 1]][Value(k)] ELSE f[k - 1]]

\* The place of a device in Variables.
Nth(d) == IF d = "printer" THEN 1 ELSE IF d = "aux_input" THEN 2 ELSE 3

\* What has been said of device d so far, in the directories of g.
Named(d, g) ==
  IF env[d] # NoFile /\ Len(lines) + Nth(d) <= at THEN Here(env[d])
  ELSE IF Earlier(d, Done + 1) = {} THEN NoFile
  ELSE Absolute[g[LastOf(Earlier(d, Done + 1)) - 1]][Value(LastOf(Earlier(d, Done + 1)))]

\* file is what DeviceIsLastNamed says it is, when the device is named so.
FollowsIn(file, files, d, named) ==
  IF named = NoFile THEN file = NoFile
  ELSE IF d = "aux_input"
       THEN file \in {named, NoFile} /\ (file = named => Exists(files, named))
       ELSE file = IF named \in Creatable THEN named ELSE NoFile

\* The streams and the directory have the domains they begin with.
FilesShaped(files) ==
  /\ device \in [Devices -> Path \cup {NoFile}]
  /\ files = [p \in Path |-> files[p]]

DeviceInv ==
  /\ cwd \in Dir /\ FilesShaped(dir)
  /\ \E f : Directories(f, Done) /\ f[Done] = cwd
  /\ \A g : Directories(g, Len(lines)) =>
       g[Done] = cwd /\ \A d \in Devices : FollowsIn(device[d], dir, d, Named(d, g))

\* Files are only added.
Grows(old, new) ==
  /\ new = [p \in Path |-> new[p]]
  /\ \A p \in Path : Exists(old, p) => Exists(new, p)

\* An entry that is made or kept is all that changes.
LEMMA EntryGrows ==
  ASSUME NEW old, old = [p \in Path |-> old[p]], NEW q, NEW i, Exists(old, q) => i = old[q]
  PROVE  Grows(old, [old EXCEPT ![q] = i])
<1> DEFINE new == [old EXCEPT ![q] = i]
<1>1. \A p \in Path : new[p] = IF p = q THEN i ELSE old[p]
  OBVIOUS
<1>2. new = [p \in Path |-> new[p]]
  OBVIOUS
<1> HIDE DEF new
<1>3. \A p \in Path : Exists(old, p) => Exists(new, p)
  BY <1>1 DEF Exists
<1>4. QED  BY <1>2, <1>3 DEF Grows, new

\* A device that is not opened follows its name as before.
LEMMA FollowsKept ==
  ASSUME NEW file \in Path \cup {NoFile}, NEW old, NEW new, Grows(old, new), NEW d, NEW named,
         FollowsIn(file, old, d, named)
  PROVE  FollowsIn(file, new, d, named)
BY DEF FollowsIn, Grows

\* Opening a device makes it follow its name and leaves the others.
LEMMA OpenedDeviceIs ==
  ASSUME FilesShaped(dir), NEW d \in Devices, NEW p \in Path, OpenedDevice(d, p)
  PROVE  /\ device' \in [Devices -> Path \cup {NoFile}]
         /\ \A e \in Devices : e # d => device'[e] = device[e]
         /\ Grows(dir, dir') /\ FollowsIn(device'[d], dir', d, p)
<1> DEFINE works == IF d = "aux_input" THEN Exists(dir, p) ELSE p \in Creatable
           empties == works /\ d # "aux_input"
           ino     == IF Exists(dir, p) THEN dir[p] ELSE Spare
<1>1. /\ device' = [device EXCEPT ![d] = IF works THEN p ELSE NoFile]
      /\ dir' = IF empties THEN [dir EXCEPT ![p] = ino] ELSE dir
  BY DEF OpenedDevice
<1>2. Grows(dir, dir')
  <2>1. Exists(dir, p) => ino = dir[p]
    OBVIOUS
  <2> HIDE DEF works, empties, ino
  <2>2. CASE empties
    BY <1>1, <2>1, <2>2, EntryGrows DEF FilesShaped
  <2>3. CASE ~ empties
    <3>1. dir' = dir
      BY <1>1, <2>3
    <3>2. QED  BY <3>1 DEF Grows, FilesShaped
  <2>4. QED  BY <2>2, <2>3
<1>3. /\ device' \in [Devices -> Path \cup {NoFile}]
      /\ \A e \in Devices : e # d => device'[e] = device[e]
      /\ device'[d] = IF works THEN p ELSE NoFile
  <2> HIDE DEF works, empties, ino
  <2>1. QED  BY <1>1 DEF FilesShaped
<1>4. FollowsIn(device'[d], dir', d, p)
  <2>1. p # NoFile
    BY HostAssumption
  <2>2. CASE d = "aux_input"
    <3>1. dir' = dir
      BY <1>1, <2>2
    <3>2. QED  BY <1>3, <2>1, <2>2, <3>1 DEF FollowsIn
  <2>3. CASE d # "aux_input"
    BY <1>3, <2>1, <2>3 DEF FollowsIn
  <2>4. QED  BY <2>2, <2>3
<1>5. QED  BY <1>2, <1>3, <1>4

\* The directories of the first lines, with one more.
LEMMA DirectoriesNext ==
  ASSUME NEW k \in Nat \ {0}, NEW f, Directories(f, k - 1), NEW next,
         next = IF k \in Lines("cd") /\ Absolute[f[k - 1]][Value(k)] \in Dir
                THEN Absolute[f[k - 1]][Value(k)] ELSE f[k - 1]
  PROVE  \E new : Directories(new, k) /\ new[k] = next
<1>1. PICK new : new = [j \in 0..k |-> IF j = k THEN next ELSE f[j]]
  OBVIOUS
<1>2. new[k] = next /\ \A j \in 0..(k - 1) : new[j] = f[j]
  BY <1>1
<1> DEFINE at1(h, j) == IF j = 0 THEN Home
                        ELSE IF j \in Lines("cd") /\ Absolute[h[j - 1]][Value(j)] \in Dir
                             THEN Absolute[h[j - 1]][Value(j)] ELSE h[j - 1]
<1>3. \A j \in 0..(k - 1) : f[j] = at1(f, j)
  BY DEF Directories
<1>4. ASSUME NEW j \in 0..k  PROVE new[j] = at1(new, j)
  <2>1. CASE j = k
    <3>1. k - 1 \in 0..(k - 1) /\ k # 0
      OBVIOUS
    <3>2. new[k - 1] = f[k - 1]
      BY <1>2, <3>1
    <3>3. QED  BY <1>2, <2>1, <3>1, <3>2
  <2>2. CASE j # k
    <3>1. j \in 0..(k - 1) /\ (j # 0 => j - 1 \in 0..(k - 1))
      BY <2>2
    <3>2. j # 0 => new[j - 1] = f[j - 1]
      BY <1>2, <3>1
    <3>3. at1(new, j) = at1(f, j)
      BY <3>2
    <3>4. QED  BY <1>2, <1>3, <3>1, <3>3
  <2>3. QED  BY <2>1, <2>2
<1>5. new = [j \in 0..k |-> new[j]]
  <2>1. \A j \in 0..k : new[j] = IF j = k THEN next ELSE f[j]
    BY <1>1
  <2>2. QED  BY <1>1, <2>1
<1>6. new = [j \in 0..k |-> at1(new, j)]
  <2> HIDE DEF at1
  <2>1. QED  BY <1>4, <1>5
<1>7. QED  BY <1>2, <1>6 DEF Directories

\* While lines are read what is said of a device is in its last line.
LEMMA NamedNext ==
  ASSUME ReadInv, NEW k \in 1..Len(lines), k = at + 1, at' = k, lines' = lines, env' = env,
         NEW d \in Devices, NEW g
  PROVE  Named(d, g)' = IF lines[k].key = d THEN Absolute[g[k - 1]][Value(k)] ELSE Named(d, g)
<1>1. Len(lines) \in Nat /\ at \in Nat
  BY LineShape DEF ReadInv
<1>2. Done = at /\ Done' = k
  BY <1>1 DEF Done
<1>3. ~ (Len(lines) + Nth(d) <= at) /\ ~ (Len(lines) + Nth(d) <= k)
  BY <1>1 DEF Nth
<1> DEFINE said(E) == IF E = {} THEN NoFile ELSE Absolute[g[LastOf(E) - 1]][Value(LastOf(E))]
<1>4. Named(d, g) = said(Earlier(d, k))
  BY <1>2, <1>3 DEF Named
<1>5. Earlier(d, Done + 1)' = Earlier(d, k + 1)
  BY <1>2, LinesFixed DEF Earlier
<1>6. Named(d, g)' = said(Earlier(d, k + 1))
  <2>1. \A i : Value(i)' = Value(i)
    BY LinesFixed
  <2>2. env[d]' = env[d] /\ ~ (Len(lines) + Nth(d) <= at)'
    BY <1>3
  <2>3. QED  BY <1>5, <2>1, <2>2 DEF Named
<1>7. CASE lines[k].key = d
  <2>1. Earlier(d, k + 1) # {} /\ LastOf(Earlier(d, k + 1)) = k
    BY <1>7, EarlierNext
  <2>2. QED  BY <1>6, <1>7, <2>1
<1>8. CASE lines[k].key # d
  <2>1. Earlier(d, k + 1) = Earlier(d, k)
    BY <1>8, EarlierNext
  <2>2. QED  BY <1>4, <1>6, <1>8, <2>1
<1>9. QED  BY <1>7, <1>8

\* Afterwards it changes for the device whose variable is read.
LEMMA NamedAfter ==
  ASSUME ReadInv, Len(lines) <= at, at' = at \/ at' = at + 1, UNCHANGED <<lines, env, cwd>>,
         NEW d \in Devices, NEW g
  PROVE  Named(d, g)' = IF at' = Len(lines) + Nth(d) /\ at' # at /\ env[d] # NoFile
                        THEN Here(env[d]) ELSE Named(d, g)
<1>1. Len(lines) \in Nat /\ at \in Nat
  BY LineShape DEF ReadInv
<1>2. Done = Len(lines) /\ Done' = Len(lines)
  BY <1>1 DEF Done
<1>3. Earlier(d, Done + 1)' = Earlier(d, Done + 1)
  BY <1>2, LinesFixed DEF Earlier
<1>4. Here(env[d])' = Here(env[d]) /\ \A i : Value(i)' = Value(i)
  BY LinesFixed DEF Here
<1>5. (Len(lines) + Nth(d) <= at)' <=>
        (Len(lines) + Nth(d) <= at) \/ (at' = Len(lines) + Nth(d) /\ at' # at)
  BY <1>1 DEF Nth
<1>6. QED  BY <1>3, <1>4, <1>5 DEF Named

\* What is read of the variables: the device of each once.
LEMMA VariableIs ==
  ASSUME ReadInv, FromEnvironment
  PROVE  LET d == Variables[at' - Len(lines)]
         IN  /\ d \in Devices /\ at' = Len(lines) + Nth(d)
             /\ \A e \in Devices : at' = Len(lines) + Nth(e) => e = d
<1>1. Len(lines) \in Nat /\ at \in Len(lines)..(Len(lines) + 2) /\ at' = at + 1
  BY LineShape DEF ReadInv, FromEnvironment
<1>2. PICK j \in 1..3 : at' = Len(lines) + j
  <2>1. at' - Len(lines) \in 1..3 /\ at' = Len(lines) + (at' - Len(lines))
    BY <1>1
  <2>2. QED  BY <2>1
<1>3. at' - Len(lines) = j
  BY <1>1, <1>2
<1>4. /\ Variables[j] \in Devices /\ j = Nth(Variables[j])
      /\ \A e \in Devices : Nth(e) = j => e = Variables[j]
  <2>1. j = 1 \/ j = 2 \/ j = 3
    OBVIOUS
  <2>2. QED  BY <2>1 DEF Variables, Devices, Nth
<1>5. \A e \in Devices : at' = Len(lines) + Nth(e) => Nth(e) = j
  BY <1>1, <1>2 DEF Nth
<1>6. QED  BY <1>2, <1>3, <1>4, <1>5

\* At the start there is no device and the directory is Home.
LEMMA DeviceInit == ConfigInit => DeviceInv
<1> SUFFICES ASSUME ConfigInit  PROVE DeviceInv
  OBVIOUS
<1>1. ReadInv /\ at = 0 /\ cwd = Home /\ device = [d \in Devices |-> NoFile]
  BY ReadInit DEF ConfigInit
<1>2. Len(lines) \in Nat /\ DOMAIN lines = 1..Len(lines)
  BY <1>1, LineShape
<1>3. Done = 0
  BY <1>1, <1>2 DEF Done
<1>4. FilesShaped(dir) /\ cwd \in Dir
  <2>1. PICK h \in Hosts : dir = h.dir
    BY DEF ConfigInit
  <2>2. dir \in Directory
    BY <2>1, ConfigurationAssumption
  <2>3. QED  BY <1>1, <2>2, ConfigurationAssumption DEF FilesShaped, Directory
<1>5. \E f : Directories(f, 0) /\ f[0] = cwd
  <2> DEFINE f == [k \in 0..0 |-> Home]
  <2>1. f[0] = Home /\ \A k \in 0..0 : k = 0
    OBVIOUS
  <2>2. Directories(f, 0)
    BY <2>1 DEF Directories
  <2>3. QED  BY <1>1, <2>1, <2>2
<1>6. ASSUME NEW g, Directories(g, Len(lines)), NEW d \in Devices
      PROVE  g[0] = cwd /\ FollowsIn(device[d], dir, d, Named(d, g))
  <2>1. g[0] = Home
    BY <1>2, <1>6 DEF Directories
  <2>2. Earlier(d, 1) = {}
    BY <1>2 DEF Earlier, Lines
  <2>3. ~ (Len(lines) + Nth(d) <= at)
    BY <1>1, <1>2 DEF Nth
  <2>4. Named(d, g) = NoFile
    BY <1>3, <2>2, <2>3 DEF Named
  <2>5. QED  BY <1>1, <2>1, <2>4 DEF FollowsIn
<1>7. "printer" \in Devices
  BY DEF Devices
<1>8. QED  BY <1>3, <1>4, <1>5, <1>6, <1>7 DEF DeviceInv

\* A line or a variable that names a device opens it where the directories lead, and
\* every other step leaves the devices and only adds files.
LEMMA DeviceStep ==
  ASSUME ReadInv, DeviceInv, [ConfigNext]_configVars
  PROVE  DeviceInv'
<1>1. Len(lines) \in Nat /\ at \in Nat
  BY LineShape DEF ReadInv
<1>2. \A p \in Path : Here(p) \in Path
  <2>1. cwd \in Dir
    BY DEF DeviceInv
  <2>2. Absolute \in [Dir -> [Path -> Path]]
    BY ConfigurationAssumption
  <2>3. QED  BY <2>1, <2>2 DEF Here
<1>3. \A g : \A m : lines' = lines => (Directories(g, m)' <=> Directories(g, m))
  BY LinesFixed DEF Directories
<1>4. \A d \in Devices : device[d] \in Path \cup {NoFile}
  BY DEF DeviceInv, FilesShaped
<1>5. CASE LineTaken
  <2>1. PICK k \in Nat \ {0} : k = at + 1
    BY <1>1
  <2>2. /\ k \in 1..Len(lines) /\ at' = k /\ Done = k - 1 /\ Done' = k
        /\ UNCHANGED <<lines, env>> /\ k - 1 \in 0..Len(lines) /\ k \in 0..Len(lines) /\ k # 0
    BY <1>1, <1>5, <2>1 DEF LineTaken, Done
  <2> DEFINE key == lines[k].key
  <2>3. cwd' = IF key = "cd" /\ Here(Value(k)) \in Dir THEN Here(Value(k)) ELSE cwd
    BY <1>5, <2>1 DEF LineTaken
  <2>4. k \in Lines("cd") <=> key = "cd"
    BY <2>2, LineShape DEF Lines
  <2>5. cwd' = IF k \in Lines("cd") /\ Absolute[cwd][Value(k)] \in Dir
               THEN Absolute[cwd][Value(k)] ELSE cwd
    BY <2>3, <2>4 DEF Here
  <2>6. cwd' \in Dir
    BY <2>3 DEF DeviceInv
  <2>7. \E f : (Directories(f, Done) /\ f[Done] = cwd)'
    <3>1. PICK f : Directories(f, k - 1) /\ f[k - 1] = cwd
      BY <2>2 DEF DeviceInv
    <3>2. PICK next : next = cwd'
      OBVIOUS
    <3>3. next = IF k \in Lines("cd") /\ Absolute[f[k - 1]][Value(k)] \in Dir
                 THEN Absolute[f[k - 1]][Value(k)] ELSE f[k - 1]
      BY <2>5, <3>1, <3>2
    <3>4. PICK new : Directories(new, k) /\ new[k] = next
      BY <3>1, <3>3, DirectoriesNext
    <3>5. Directories(new, k)'
      BY <1>3, <2>2, <3>4
    <3>6. (Directories(new, Done) /\ new[Done] = cwd)'
      BY <2>2, <3>2, <3>4, <3>5
    <3>7. QED  BY <3>6
  <2>8. /\ device' \in [Devices -> Path \cup {NoFile}] /\ Grows(dir, dir')
        /\ \A e \in Devices : e # key => device'[e] = device[e]
        /\ key \in Devices => FollowsIn(device'[key], dir', key, Here(Value(k)))
    <3>1. CASE key \in Devices
      <4>1. OpenedDevice(key, Here(Value(k))) /\ lines[k].value # <<>>
        BY <1>5, <2>1, <3>1 DEF LineTaken
      <4>2. Here(Value(k)) \in Path
        BY <1>2, <2>2, <4>1, ValueIsPath
      <4>3. PICK p \in Path : p = Here(Value(k))
        BY <4>2
      <4>4. PICK d \in Devices : d = key
        BY <3>1
      <4>5. FilesShaped(dir) /\ OpenedDevice(d, p)
        BY <4>1, <4>3, <4>4 DEF DeviceInv
      <4> HIDE DEF key
      <4>6. QED  BY <4>3, <4>4, <4>5, OpenedDeviceIs
    <3>2. CASE key \notin Devices
      <4>1. device' = device /\ dir' = dir
        BY <1>5, <2>1, <3>2 DEF LineTaken
      <4>2. QED  BY <3>2, <4>1 DEF DeviceInv, FilesShaped, Grows
    <3>3. QED  BY <3>1, <3>2
  <2>9. ASSUME NEW g, Directories(g, Len(lines))
        PROVE  g[k] = cwd' /\ \A d \in Devices : FollowsIn(device'[d], dir', d, Named(d, g)')
    <3>1. g[k - 1] = cwd
      BY <2>2, <2>9 DEF DeviceInv
    <3>2. g[k] = IF k \in Lines("cd") /\ Absolute[g[k - 1]][Value(k)] \in Dir
                 THEN Absolute[g[k - 1]][Value(k)] ELSE g[k - 1]
      BY <2>2, <2>9 DEF Directories
    <3>3. ASSUME NEW d \in Devices  PROVE FollowsIn(device'[d], dir', d, Named(d, g)')
      <4>1. Named(d, g)' = IF key = d THEN Here(Value(k)) ELSE Named(d, g)
        BY <2>1, <2>2, <3>1, NamedNext DEF Here
      <4>2. CASE key = d
        BY <2>8, <4>1, <4>2
      <4>3. CASE key # d
        <5>1. FollowsIn(device[d], dir, d, Named(d, g))
          BY <2>9 DEF DeviceInv
        <5>2. device'[d] = device[d] /\ Named(d, g)' = Named(d, g) /\ Grows(dir, dir')
          BY <2>8, <4>1, <4>3
        <5>3. QED  BY <1>4, <5>1, <5>2, FollowsKept
      <4>4. QED  BY <4>2, <4>3
    <3>4. QED  BY <2>5, <3>1, <3>2, <3>3
  <2>10. FilesShaped(dir)'
    BY <2>8 DEF FilesShaped, Grows
  <2>11. \A g : Directories(g, Len(lines))' =>
           (g[Done] = cwd /\ \A d \in Devices : FollowsIn(device[d], dir, d, Named(d, g)))'
    <3> SUFFICES ASSUME NEW g, Directories(g, Len(lines))'
                 PROVE  /\ (g[Done] = cwd)'
                        /\ (\A d \in Devices : FollowsIn(device[d], dir, d, Named(d, g)))'
      OBVIOUS
    <3>1. Directories(g, Len(lines))
      <4>1. PICK m : m = Len(lines)
        OBVIOUS
      <4>2. Directories(g, m)'
        BY <2>2, <4>1
      <4>3. QED  BY <1>3, <2>2, <4>1, <4>2
    <3>2. g[k] = cwd' /\ \A d \in Devices : FollowsIn(device'[d], dir', d, Named(d, g)')
      BY <2>9, <3>1
    <3>3. QED  BY <2>2, <3>2 DEF FollowsIn
  <2>12. QED  BY <2>6, <2>7, <2>10, <2>11 DEF DeviceInv
<1>6. ASSUME Len(lines) <= at \/ at' = at, at' \in {at, at + 1},
             UNCHANGED <<lines, env, cwd>>, Grows(dir, dir'),
             device' \in [Devices -> Path \cup {NoFile}],
             \A g : Directories(g, Len(lines)) =>
               \A d \in Devices : FollowsIn(device'[d], dir', d, Named(d, g)')
      PROVE  DeviceInv'
  <2>1. Done' = Done
    BY <1>1, <1>6 DEF Done
  <2>2. PICK m : m = Len(lines)
    OBVIOUS
  <2>3. \A g : Directories(g, Len(lines))' <=> Directories(g, Len(lines))
    <3>1. \A g : Directories(g, Len(lines))' <=> Directories(g, m)'
      BY <1>6, <2>2 DEF Directories
    <3>2. \A g : Directories(g, m)' <=> Directories(g, m)
      BY <1>3, <1>6
    <3>3. QED  BY <2>2, <3>1, <3>2
  <2>4. \E f : (Directories(f, Done) /\ f[Done] = cwd)'
    <3>1. PICK f : Directories(f, Done) /\ f[Done] = cwd
      BY DEF DeviceInv
    <3>2. PICK n : n = Done
      OBVIOUS
    <3>3. Directories(f, n)'
      BY <1>3, <1>6, <3>1, <3>2
    <3>4. Directories(f, Done)'
      BY <2>1, <3>2, <3>3
    <3>5. QED  BY <1>6, <2>1, <3>1, <3>4
  <2>5. \A g : Directories(g, Len(lines))' =>
          (g[Done] = cwd /\ \A d \in Devices : FollowsIn(device[d], dir, d, Named(d, g)))'
    <3> SUFFICES ASSUME NEW g, Directories(g, Len(lines))'
                 PROVE  /\ (g[Done] = cwd)'
                        /\ (\A d \in Devices : FollowsIn(device[d], dir, d, Named(d, g)))'
      OBVIOUS
    <3>1. Directories(g, Len(lines))
      BY <2>3
    <3>2. g[Done] = cwd
      BY <3>1 DEF DeviceInv
    <3>3. \A d \in Devices : FollowsIn(device'[d], dir', d, Named(d, g)')
      BY <1>6, <3>1
    <3>4. QED  BY <1>6, <2>1, <3>2, <3>3 DEF FollowsIn
  <2>6. FilesShaped(dir)' /\ (cwd \in Dir)'
    BY <1>6 DEF DeviceInv, FilesShaped, Grows
  <2>7. QED  BY <2>4, <2>5, <2>6 DEF DeviceInv
<1>7. CASE FromEnvironment
  <2> DEFINE v == Variables[at' - Len(lines)]
  <2>1. /\ v \in Devices /\ at' = Len(lines) + Nth(v)
        /\ \A e \in Devices : at' = Len(lines) + Nth(e) => e = v
    BY <1>7, VariableIs
  <2>2. Len(lines) <= at /\ at' = at + 1 /\ at' # at /\ UNCHANGED <<lines, env, cwd>>
    BY <1>1, <1>7 DEF FromEnvironment, ReadInv, settings
  <2>3. IF env[v] = NoFile THEN UNCHANGED <<device, dir, data>>
        ELSE OpenedDevice(v, Here(env[v]))
    BY <1>7 DEF FromEnvironment
  <2>4. env[v] # NoFile => Here(env[v]) \in Path
    <3>1. env \in [Devices -> Path \cup {NoFile}]
      BY ConfigurationAssumption DEF ReadInv
    <3>2. QED  BY <1>2, <2>1, <3>1
  <2> HIDE DEF v
  <2>5. /\ device' \in [Devices -> Path \cup {NoFile}] /\ Grows(dir, dir')
        /\ \A e \in Devices : e # v => device'[e] = device[e]
        /\ IF env[v] = NoFile THEN device'[v] = device[v]
           ELSE FollowsIn(device'[v], dir', v, Here(env[v]))
    <3>1. CASE env[v] = NoFile
      BY <2>3, <3>1 DEF DeviceInv, FilesShaped, Grows
    <3>2. CASE env[v] # NoFile
      <4>1. PICK p \in Path : p = Here(env[v])
        BY <2>4, <3>2
      <4>2. PICK d \in Devices : d = v
        BY <2>1
      <4>3. FilesShaped(dir) /\ OpenedDevice(d, p)
        BY <2>3, <3>2, <4>1, <4>2 DEF DeviceInv
      <4>4. QED  BY <3>2, <4>1, <4>2, <4>3, OpenedDeviceIs
    <3>3. QED  BY <3>1, <3>2
  <2>6. ASSUME NEW g, Directories(g, Len(lines)), NEW d \in Devices
        PROVE  FollowsIn(device'[d], dir', d, Named(d, g)')
    <3>1. Named(d, g)' = IF at' = Len(lines) + Nth(d) /\ at' # at /\ env[d] # NoFile
                         THEN Here(env[d]) ELSE Named(d, g)
      BY <2>2, NamedAfter
    <3>2. CASE d = v /\ env[v] # NoFile
      BY <2>1, <2>2, <2>5, <3>1, <3>2
    <3>3. CASE ~ (d = v /\ env[v] # NoFile)
      <4>1. Named(d, g)' = Named(d, g) /\ device'[d] = device[d]
        BY <2>1, <2>5, <3>1, <3>3
      <4>2. FollowsIn(device[d], dir, d, Named(d, g))
        BY <2>6 DEF DeviceInv
      <4>3. QED  BY <1>4, <2>5, <4>1, <4>2, FollowsKept
    <3>4. QED  BY <3>2, <3>3
  <2>7. QED  BY <1>6, <2>2, <2>5, <2>6
<1>8. CASE OtherStep
  <2>1. at' = at /\ UNCHANGED <<lines, env, cwd, device>>
    BY <1>8 DEF OtherStep, settings
  <2>2. Grows(dir, dir')
    <3>1. CASE dir' = dir
      BY <3>1 DEF DeviceInv, FilesShaped, Grows
    <3>2. CASE \E p : \E i : dir' = [dir EXCEPT ![p] = i] /\ (Exists(dir, p) => i = dir[p])
      <4>1. PICK p, i : dir' = [dir EXCEPT ![p] = i] /\ (Exists(dir, p) => i = dir[p])
        BY <3>2
      <4>2. QED  BY <4>1, EntryGrows DEF DeviceInv, FilesShaped
    <3>3. QED  BY <1>8, <3>1, <3>2 DEF OtherStep
  <2>3. device' \in [Devices -> Path \cup {NoFile}]
    BY <2>1 DEF DeviceInv, FilesShaped
  <2>4. ASSUME NEW g, Directories(g, Len(lines)), NEW d \in Devices
        PROVE  FollowsIn(device'[d], dir', d, Named(d, g)')
    <3>1. Named(d, g)' = Named(d, g)
      BY <2>1, LinesFixed DEF Named, Done, Earlier, Here
    <3>2. FollowsIn(device[d], dir, d, Named(d, g))
      BY <2>4 DEF DeviceInv
    <3>3. QED  BY <1>4, <2>1, <2>2, <3>1, <3>2, FollowsKept
  <2>5. QED  BY <1>6, <2>1, <2>2, <2>3, <2>4
<1>9. QED  BY <1>5, <1>7, <1>8, StepIs

\* The directories that CwdBefore works out are those the lines go through.
LEMMA CwdBeforeIs ==
  ASSUME NEW f, Directories(f, Len(lines))
  PROVE  \E g : Directories(g, Len(lines)) /\ \A i : CwdBefore(i) = g[i - 1]
<1> DEFINE g == CHOOSE h : Directories(h, Len(lines))
<1>1. Directories(g, Len(lines))
  OBVIOUS
<1>2. \A i : CwdBefore(i) = g[i - 1]
  BY DEF CwdBefore, Directories
<1> HIDE DEF g
<1>3. QED  BY <1>1, <1>2

\* Once the file and the environment are read each device is what the environment, or
\* else the file's last line about it, names in the directory that the cd lines above
\* that line lead to, or closed (set_printer_file, set_aux_input_file,
\* set_aux_output_file).
THEOREM DevicesAreTheFiles == ConfigSpec => []DeviceIsLastNamed
<1>1. ConfigInit => ReadInv /\ DeviceInv
  BY ReadInit, DeviceInit
<1>2. ReadInv /\ DeviceInv /\ [ConfigNext]_configVars => ReadInv' /\ DeviceInv'
  BY ReadStep, DeviceStep
<1>3. ReadInv /\ DeviceInv => DeviceIsLastNamed
  <2> SUFFICES ASSUME ReadInv, DeviceInv, stage \in {"load", "run"}
               PROVE  DeviceIsLastNamed
    BY DEF DeviceIsLastNamed
  <2>1. Len(lines) \in Nat /\ DOMAIN lines = 1..Len(lines) /\ at = Len(lines) + 3
    BY LineShape DEF ReadInv
  <2>2. Done = Len(lines)
    <3>1. ~ (at < Len(lines))
      BY <2>1
    <3>2. QED  BY <3>1 DEF Done
  <2>3. PICK g : Directories(g, Len(lines)) /\ \A i : CwdBefore(i) = g[i - 1]
    BY <2>2, CwdBeforeIs DEF DeviceInv
  <2>4. ASSUME NEW d \in Devices
        PROVE  Named(d, g) = IF env[d] # NoFile THEN Here(env[d])
                             ELSE IF Lines(d) = {} THEN NoFile
                             ELSE Absolute[CwdBefore(LastOf(Lines(d)))][Value(LastOf(Lines(d)))]
    <3>1. Earlier(d, Done + 1) = Lines(d)
      BY <2>1, <2>2 DEF Earlier, Lines
    <3>2. Len(lines) + Nth(d) <= at
      BY <2>1 DEF Nth
    <3>3. QED  BY <2>3, <3>1, <3>2 DEF Named
  <2>5. \A d \in Devices : FollowsIn(device[d], dir, d, Named(d, g))
    BY <2>3 DEF DeviceInv
  <2>6. QED  BY <2>4, <2>5 DEF DeviceIsLastNamed, FollowsIn
<1>4. QED  BY <1>1, <1>2, <1>3, PTL DEF ConfigSpec
=============================================================================
