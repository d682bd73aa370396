------------------------------- MODULE Malloc --------------------------------
(***************************************************************************)
(* The heap of a program: malloc, free and sbrk of libc/memory.c over      *)
(* sys_brk.  A block is its struct meta followed by the bytes the program  *)
(* gets.  Storing into a new block's meta is a demand fault if the address *)
(* is in the heap's or the stack's vma and ends the program otherwise.     *)
(***************************************************************************)
EXTENDS Integers, Sequences

CONSTANTS
  Malign,     \* MALIGN
  MetaSize,   \* sizeof(struct meta)
  PageSize,   \* PGSIZE
  HeapStart,  \* start_brk, on a page boundary
  StackEnd,   \* USER_STACK_TOP - USER_STACK_SIZE, the stack's lowest address
  StackTop,   \* USER_STACK_TOP
  AddrMod,    \* 2^64
  Requests,   \* the sizes asked for
  MaxBlocks   \* bound on the blocks made

\* the requests do not wrap around, which those of size_t values near 2^64 would
ASSUME MallocAssumption ==
  /\ {Malign, MetaSize, PageSize} \subseteq Nat \ {0}
  /\ {HeapStart, StackEnd, StackTop, AddrMod} \subseteq Nat
  /\ HeapStart < StackEnd /\ StackEnd < StackTop
  /\ HeapStart % PageSize = 0 /\ StackEnd % PageSize = 0
  /\ Requests \subseteq Nat
  /\ \A n \in Requests : StackTop + n + MetaSize + Malign < AddrMod
  /\ MaxBlocks \in Nat

VARIABLES
  blocks,   \* the list from head, in order
  brk,      \* mm->brk
  vm_end,   \* of the heap's vma
  running,  \* FALSE: exit(1) or a segmentation fault
  asked     \* history: the size of the last request

heapVars == <<blocks, brk, vm_end, running, asked>>

\* load_elf: an empty heap behind the program
BrkInit == brk = HeapStart /\ vm_end = HeapStart

HeapInit ==
  /\ blocks = <<>>
  /\ BrkInit
  /\ running = TRUE
  /\ asked = 0

-----------------------------------------------------------------------------
(* The kernel *)

AlignUp(x) == (x - 1) - ((x - 1) % PageSize) + PageSize

\* mutant: a refused request leaves the break alone
SysBrkAtomic(p) ==
  IF p > brk /\ (p > vm_end => p < StackEnd)
  THEN brk' = p /\ vm_end' = IF p > vm_end THEN AlignUp(p) ELSE vm_end
  ELSE UNCHANGED <<brk, vm_end>>

\* mutant: the heap's vma keeps its size
SysBrkFixed(p) == brk' = (IF p > brk THEN p ELSE brk) /\ UNCHANGED vm_end

\* the break moves even if the vma cannot follow it
SysBrk(p) ==
  IF p > brk
  THEN /\ brk' = p
       /\ vm_end' = IF p > vm_end /\ p < StackEnd THEN AlignUp(p) ELSE vm_end
  ELSE UNCHANGED <<brk, vm_end>>

\* whether a vma of the program has the address
Mapped(a) == (HeapStart <= a /\ a < vm_end') \/ (StackEnd <= a /\ a < StackTop)

-----------------------------------------------------------------------------
(* libc *)

MalignUp(x) == x - (x % Malign) + Malign

\* the test of brk's result, a pointer, against 0 never fails
Sbrk(inc) == SysBrk(MalignUp((brk + inc) % AddrMod))

\* mutant: a block in use is taken again
FitsUsed(i, n) == blocks[i].size >= n

Fits(i, n) == blocks[i].free /\ blocks[i].size >= n

\* the first free block that is large enough; it is not split
MallocReuse(n) ==
  /\ running
  /\ \E i \in DOMAIN blocks :
       /\ Fits(i, n)
       /\ \A k \in 1..(i - 1) : ~Fits(k, n)
       /\ blocks' = [blocks EXCEPT ![i].free = FALSE]
  /\ asked' = n
  /\ UNCHANGED <<brk, vm_end, running>>

\* a new block at the old break, at the end of the list
MallocGrow(n) ==
  /\ running
  /\ Len(blocks) < MaxBlocks
  /\ \A i \in DOMAIN blocks : ~Fits(i, n)
  /\ Sbrk(n + MetaSize)
  /\ running' = Mapped(brk)
  /\ asked' = n
  /\ blocks' = IF running'
               THEN Append(blocks, [addr |-> brk, size |-> n, free |-> FALSE])
               ELSE blocks

\* a second free of the same block ends the program
FreeBlock(i) ==
  /\ running
  /\ running' = ~blocks[i].free
  /\ blocks' = [blocks EXCEPT ![i].free = TRUE]
  /\ UNCHANGED <<brk, vm_end, asked>>

HeapNext ==
  \/ \E n \in Requests : MallocReuse(n) \/ MallocGrow(n)
  \/ \E i \in DOMAIN blocks : FreeBlock(i)

HeapSpec == HeapInit /\ [][HeapNext]_heapVars

-----------------------------------------------------------------------------

End(b) == b.addr + MetaSize + b.size

HeapTypeOK ==
  /\ blocks \in Seq([addr : Nat, size : Nat, free : BOOLEAN])
  /\ Len(blocks) <= MaxBlocks
  /\ brk \in Nat /\ vm_end \in Nat
  /\ running \in BOOLEAN
  /\ asked \in Nat

\* No two blocks, with their meta data, share a byte, whatever was freed, taken
\* again or refused: malloc puts a block at the break and relies on sys_brk to have
\* moved it past the last one, also when sys_brk returned -1
BlocksDisjoint ==
  \A i, k \in DOMAIN blocks : i < k => End(blocks[i]) <= blocks[k].addr

\* The heap's vma never reaches the stack's, and until a request is refused every
\* block lies in it: the program can touch all the memory it was given (sys_brk
\* extends vm_end by whole pages, and moves the break before it refuses)
BlocksInHeap ==
  /\ vm_end <= StackEnd
  /\ brk < StackEnd =>
       /\ brk <= vm_end
       /\ \A i \in DOMAIN blocks : HeapStart <= blocks[i].addr /\ End(blocks[i]) <= vm_end

\* the blocks the program holds
InUse ==
  {[from |-> blocks[i].addr + MetaSize, size |-> blocks[i].size] :
     i \in {k \in DOMAIN blocks : ~blocks[k].free}}

A == INSTANCE Allocator WITH inUse <- InUse

\* First fit, the reuse of freed blocks and the growth of the heap give the program
\* memory that no block in use has a byte of
ImplementsAllocator == A!Spec
==============================================================================
