------------------------------ MODULE Allocator ------------------------------
(***************************************************************************)
(* What malloc and free promise a program: memory that no other block in   *)
(* use has a byte of.  A block is a set of addresses from..from + size - 1.*)
(***************************************************************************)
EXTENDS Integers

CONSTANT Requests    \* the sizes the program asks for

VARIABLES
  inUse,   \* the blocks in use
  asked,   \* the size of the last request
  running  \* whether the program has not been ended

Apart(b, d) == b.from + b.size <= d.from \/ d.from + d.size <= b.from

vars == <<inUse, asked, running>>

Init == inUse = {} /\ asked = 0 /\ running = TRUE

Malloc(n) ==
  /\ running /\ running' = TRUE
  /\ asked' = n
  /\ \E b \in inUse' \ inUse :
       /\ b.size >= n
       /\ \A d \in inUse : d.from # b.from /\ Apart(b, d)
       /\ inUse' = inUse \cup {b}

\* a request that ends the program
Fail(n) == running /\ running' = FALSE /\ asked' = n /\ UNCHANGED inUse

Free ==
  /\ running /\ running' = TRUE
  /\ \E b \in inUse : inUse' = inUse \ {b}
  /\ UNCHANGED asked

\* a second free of the same block ends the program
DoubleFree == running /\ running' = FALSE /\ UNCHANGED <<inUse, asked>>

Next == Free \/ DoubleFree \/ \E n \in Requests : Malloc(n) \/ Fail(n)

Spec == Init /\ [][Next]_vars
==============================================================================
