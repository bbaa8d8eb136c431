------------------------------- MODULE Devices -------------------------------
(***************************************************************************)
(* Printer, reader and punch: BDOS 3, 4 and 5 and the BIOS's LIST, PUNCH,  *)
(* READER and LISTST of src/src/cpmemu.cc, over the streams that           *)
(* Configuration opened.  A character is put into the stream's buffer and  *)
(* flushed at once; the process can be killed between the two.  The        *)
(* reader's file may grow while it is read: by another process, or as the  *)
(* file the punch writes.                                                  *)
(***************************************************************************)
EXTENDS Stdio

CONSTANTS
  Low7,        \* Low7[b]: b & 7Fh
  Yes,         \* 0FFh
  Outputs,     \* characters programs send
  Hosts,       \* what the reader's file holds at the start
  Setups,      \* which files the devices are: [Device -> Inode \cup {NoFile}]
  CallBound    \* bound of the model: the calls, and what a host appends

Device == {"printer", "reader", "punch"}

ASSUME DevicesAssumption ==
  /\ Low7 \in [Byte -> Byte] /\ \A b \in Byte : Low7[Low7[b]] = Low7[b]
  /\ Low7[CtrlZ] = CtrlZ /\ Outputs \subseteq Byte /\ Hosts \subseteq Seq(Byte)
  /\ NoFile \notin Device /\ Closed \notin Stream
  /\ Setups \subseteq [Device -> Inode \cup {NoFile}] /\ CallBound \in Nat

VARIABLES
  stream,      \* printer_file, aux_in_file and aux_out_file
  data,        \* the host's files
  screen,      \* what goes to stdout instead: [to, char]
  a,           \* register A
  busy,        \* the device whose character is not flushed yet, or NoFile
  sent, got,   \* what programs have sent to each device, and what the reader gave
  running      \* the process is there

deviceVars == <<stream, data, screen, a, busy, sent, got, running>>

IsOpen(d) == stream[d] # Closed
File(d)   == data[stream[d].ino]

\* main opened them: the outputs empty, the reader as it is.
DevicesInit ==
  \E s \in Setups, h \in Hosts :
    /\ stream = [d \in Device |-> IF s[d] = NoFile THEN Closed ELSE Opened(s[d], d # "reader")]
    /\ data = [i \in Inode |-> IF i = s["reader"] /\ i \notin {s["printer"], s["punch"]}
                               THEN h ELSE <<>>]
    /\ screen = <<>> /\ a = Zero /\ busy = NoFile /\ running = TRUE
    /\ sent = [d \in {"printer", "punch"} |-> <<>>] /\ got = <<>>

Ready == running /\ busy = NoFile

\* fputc.
Puts(d, c) ==
  /\ stream' = [stream EXCEPT ![d] = Put(@, <<Low7[c]>>)] /\ busy' = d
  /\ sent' = [sent EXCEPT ![d] = Append(@, Low7[c])]
  /\ UNCHANGED <<data, screen, a, got, running>>

Shows(d, c) ==
  /\ screen' = Append(screen, [to |-> d, char |-> Low7[c]])
  /\ UNCHANGED <<stream, data, a, busy, sent, got, running>>

Room == Len(sent["printer"]) + Len(sent["punch"]) + Len(got) + Len(screen) < CallBound

\* BDOS 5 and LIST.
ListOutput(c) ==
  /\ Ready /\ Room
  /\ \/ IsOpen("printer") /\ Puts("printer", c)
     \/ ~IsOpen("printer") /\ Shows("printer", c)

\* BDOS 4; without a file it does nothing.
AuxOutput(c) ==
  /\ Ready /\ Room
  /\ \/ IsOpen("punch") /\ Puts("punch", c)
     \/ ~IsOpen("punch") /\ UNCHANGED deviceVars

\* PUNCH; without a file it writes to stdout.
Punch(c) ==
  /\ Ready /\ Room
  /\ \/ IsOpen("punch") /\ Puts("punch", c)
     \/ ~IsOpen("punch") /\ Shows("punch", c)

\* Faulty: the character waits in the buffer.
FlushLater == running /\ busy # NoFile /\ busy' = NoFile
                /\ UNCHANGED <<stream, data, screen, a, sent, got, running>>

\* fflush, and the return.
Flush ==
  /\ running /\ busy # NoFile /\ busy' = NoFile
  /\ data' = [data EXCEPT ![stream[busy].ino] = Flushed(stream[busy], @)]
  /\ stream' = [stream EXCEPT ![busy] = AfterFlush(@)]
  /\ UNCHANGED <<screen, a, sent, got, running>>

\* Faulty: fgetc tries again at the end of the file.
ReadsOn ==
  LET s == [stream["reader"] EXCEPT !.eof = FALSE]
      seen == Seen(s, File("reader"))
      used == AtMost(1, Len(seen))
  IN  /\ stream' = [stream EXCEPT !["reader"] = Advance(s, File("reader"), used, 1)]
      /\ a' = IF used = 1 THEN Low7[seen[1]] ELSE CtrlZ

\* fgetc; EOF becomes ^Z.
Reads ==
  LET s == stream["reader"]
      seen == Seen(s, File("reader"))
      used == AtMost(1, Len(seen))
  IN  /\ stream' = [stream EXCEPT !["reader"] = Advance(s, File("reader"), used, 1)]
      /\ a' = IF used = 1 THEN Low7[seen[1]] ELSE CtrlZ

\* BDOS 3 and READER.
AuxInput ==
  /\ Ready /\ Room
  /\ \/ IsOpen("reader") /\ Reads
     \/ ~IsOpen("reader") /\ a' = CtrlZ /\ stream' = stream
  /\ got' = Append(got, a') /\ UNCHANGED <<data, screen, busy, sent, running>>

\* LISTST: the printer is always ready.
ListStatus ==
  /\ Ready /\ a' = Yes /\ UNCHANGED <<stream, data, screen, busy, sent, got, running>>

\* Another process writes to the end of the reader's file.
HostAppends(c) ==
  /\ IsOpen("reader") /\ \A d \in Device \ {"reader"} : ~IsOpen(d)
  /\ Len(File("reader")) < CallBound
  /\ data' = [data EXCEPT ![stream["reader"].ino] = Append(@, c)]
  /\ UNCHANGED <<stream, screen, a, busy, sent, got, running>>

\* A signal, at any time: nothing is written out any more.
Kill == running /\ running' = FALSE /\ UNCHANGED <<stream, data, screen, a, busy, sent, got>>

DevicesNext ==
  \/ \E c \in Outputs : ListOutput(c) \/ AuxOutput(c) \/ Punch(c) \/ HostAppends(c)
  \/ Flush \/ AuxInput \/ ListStatus \/ Kill

DevicesSpec == DevicesInit /\ [][DevicesNext]_deviceVars

-----------------------------------------------------------------------------
(* Properties                                                                 *)

Alone(d) == \A e \in {"printer", "punch"} \ {d} : IsOpen(e) => stream[e].ino # stream[d].ino

\* A device's file is what has been sent to it, seven bits a character and in order,
\* up to the character of the call that is going on, at every moment and so also
\* after a kill (bdos_list_output, bdos_aux_output, bios_list, bios_punch).
FileIsWhatWasSent ==
  \A d \in {"printer", "punch"} : IsOpen(d) /\ Alone(d) =>
    File(d) = SubSeq(sent[d], 1, Len(sent[d]) - IF busy = d THEN 1 ELSE 0)

\* The reader's file only grows: two outputs on it would write over each other.
Growing ==
  \A d \in {"printer", "punch"} :
    IsOpen(d) /\ IsOpen("reader") /\ stream[d].ino = stream["reader"].ino => Alone(d)

\* The reader gives the file's characters in order, none lost or given twice though
\* the file grows between the calls, and once it has said ^Z for the end it says
\* nothing else (bdos_aux_input, bios_reader).
ReaderGivesFile == Growing =>
  LET taken == IF IsOpen("reader") THEN stream["reader"].off ELSE 0
  IN  got = [k \in DOMAIN got |-> IF k <= taken THEN Low7[File("reader")[k]] ELSE CtrlZ]
=============================================================================
