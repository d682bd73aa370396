---------------------------- MODULE PrivateMemory ----------------------------
(***************************************************************************)
(* What fork promises a program: every process has a memory of its own.    *)
(* A child starts with a copy of its parent's, and afterwards nothing one  *)
(* process writes is seen by another.                                      *)
(***************************************************************************)
CONSTANTS
  Proc, VPage, Value,
  Unmapped,
  Images      \* the memories of programs that have just been loaded

VARIABLES
  memory,
  alive       \* processes that run

vars == <<memory, alive>>

Fresh(p) == \A v \in VPage : memory[p][v] = Unmapped

Init ==
  /\ memory = [p \in Proc |-> [v \in VPage |-> Unmapped]]
  /\ alive = {}

\* only the memory of p changes
Only(p) == memory' = [memory EXCEPT ![p] = memory'[p]]

Image(p) ==
  /\ Fresh(p)
  /\ memory'[p] \in Images
  /\ Only(p)

\* the first program
Boot(p) ==
  /\ \A q \in Proc : Fresh(q)
  /\ Image(p)
  /\ alive' = {p}

\* a new image takes the place of the caller
Exec(p, c) ==
  /\ Image(c)
  /\ alive' = (alive \ {p}) \cup {c}

Fork(p, c) ==
  /\ Fresh(c)
  /\ memory' = [memory EXCEPT ![c] = memory[p]]
  /\ alive' = alive \cup {c}

\* pages of the heap or the stack, zero when they appear
Map(p) ==
  /\ \A v \in VPage : \/ memory'[p][v] = memory[p][v]
                      \/ memory[p][v] = Unmapped /\ memory'[p][v] = 0
  /\ Only(p)
  /\ UNCHANGED alive

Write(p, v, x) ==
  /\ memory[p][v] # Unmapped
  /\ memory' = [memory EXCEPT ![p][v] = x]
  /\ UNCHANGED alive

Exit(p) ==
  /\ alive' = alive \ {p}
  /\ UNCHANGED memory

Next ==
  \/ \E p \in Proc : Boot(p)
  \/ \E p \in alive :
       \/ \E c \in Proc \ {p} : Exec(p, c) \/ Fork(p, c)
       \/ Map(p)
       \/ \E v \in VPage, x \in Value : Write(p, v, x)
       \/ Exit(p)

Spec == Init /\ [][Next]_vars
==============================================================================
