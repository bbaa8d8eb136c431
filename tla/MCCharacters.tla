---------------------------- MODULE MCCharacters ----------------------------
(* Characters that go one by one through the C library: the conversion loops, *)
(* on every input of up to InputBound bytes in records of four, or the        *)
(* devices: with files of their own, with none, and with a reader that reads  *)
(* what the punch, the printer or both write.                                 *)
EXTENDS ConversionLoops, Devices

MCByte == {0, 10, 13, 26, 65, 154, 193}     \* 9Ah is ^Z and 0C1h is A with bit 7
MCLow7 == [b \in MCByte |-> b % 128]
MCOutputs == {65, 154}
MCHosts == {<<>>, <<193, 26, 65>>}
MCSetups ==
  {[printer |-> 1, reader |-> 2, punch |-> 3], [printer |-> NoFile, reader |-> NoFile, punch |-> NoFile],
   [printer |-> NoFile, reader |-> 2, punch |-> NoFile], [printer |-> NoFile, reader |-> 2, punch |-> 2],
   [printer |-> 1, reader |-> NoFile, punch |-> 1], [printer |-> 2, reader |-> 2, punch |-> 1],
   [printer |-> 2, reader |-> 2, punch |-> 2]}

NoLoop == input = <<>> /\ loop = "done" /\ next = 0 /\ asked = 0 /\ out = <<>> /\ eofSeen = FALSE

NoDevice ==
  /\ stream = [d \in Device |-> Closed] /\ data = [i \in Inode |-> <<>>]
  /\ screen = <<>> /\ a = Zero /\ busy = NoFile /\ running = FALSE
  /\ sent = [d \in {"printer", "punch"} |-> <<>>] /\ got = <<>>

CharactersInit == (LoopInit /\ NoDevice) \/ (DevicesInit /\ NoLoop)

CharactersNext ==
  \/ LoopNext /\ UNCHANGED deviceVars
  \/ DevicesNext /\ UNCHANGED loopVars

CharactersSpec == CharactersInit /\ [][CharactersNext]_<<loopVars, deviceVars>>
=============================================================================
