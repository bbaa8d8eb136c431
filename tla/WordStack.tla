------------------------------ MODULE WordStack ------------------------------
(***************************************************************************)
(* What the stack of a processor promises its program: words come back in  *)
(* the reverse order of the pushes and to the register the instruction     *)
(* names, a return leads behind its call, and no other register changes.   *)
(***************************************************************************)
EXTENDS Integers, Sequences

CONSTANTS Names, Words     \* the registers that are pushed and popped; their values

VARIABLES
  items,     \* the stack, the last pushed first
  val,       \* what the registers hold
  at,        \* where the program is
  ahead      \* the instruction it executes next

abstractVars == <<items, val, at, ahead>>

\* What it does, to which register, how long it is and where it leads; "pass" is a
\* call or return whose condition does not hold.
Instruction ==
  [does : {"push", "pop", "exchange", "call", "return", "pass"},
   name : Names, length : 1..4, to : Words]

Behind == (at + ahead.length) % 65536

StackInit == items = <<>> /\ val \in [Names -> Words] /\ at \in Words /\ ahead \in Instruction

StackPush ==
  ahead.does = "push" /\ items' = <<val[ahead.name]>> \o items /\ at' = Behind /\ UNCHANGED val

StackPop ==
  /\ ahead.does = "pop" /\ items # <<>>
  /\ val' = [val EXCEPT ![ahead.name] = Head(items)] /\ items' = Tail(items) /\ at' = Behind

StackExchange ==
  /\ ahead.does = "exchange" /\ items # <<>>
  /\ val' = [val EXCEPT ![ahead.name] = Head(items)]
  /\ items' = <<val[ahead.name]>> \o Tail(items) /\ at' = Behind

StackCall ==
  ahead.does = "call" /\ items' = <<Behind>> \o items /\ at' = ahead.to /\ UNCHANGED val

StackReturn ==
  /\ ahead.does = "return" /\ items # <<>>
  /\ at' = Head(items) /\ items' = Tail(items) /\ UNCHANGED val

StackPass == ahead.does = "pass" /\ at' = Behind /\ UNCHANGED <<items, val>>

\* Any instruction may follow.
StackNext ==
  /\ StackPush \/ StackPop \/ StackExchange \/ StackCall \/ StackReturn \/ StackPass
  /\ ahead' \in Instruction

StackSpec == StackInit /\ [][StackNext]_abstractVars
=============================================================================
