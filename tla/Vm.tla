---------------------------------- MODULE Vm ----------------------------------
(***************************************************************************)
(* Address spaces: load_elf, fork_process, handle_pg_fault, kmmap and      *)
(* sys_brk, over the page counts of sys/pmap.c (PageAlloc).                *)
(*                                                                         *)
(* Virtual pages are numbers: the segments' first, then the heap, then the *)
(* stack, from StackBase to Top.  The kernel handles a call or a fault     *)
(* with interrupts off, so each is one step; an allocation that fails ends *)
(* in a fault at a kernel address and stops the machine.                   *)
(***************************************************************************)
EXTENDS Integers, FiniteSets, Sequences

CONSTANTS
  Proc,         \* address spaces
  Page,         \* physical pages
  None,         \* no page
  Layouts,      \* programs: <<[lo, hi], ...>>, the pages of their segments
  HeapBase, StackBase, Top,
  PageSize,     \* PGSIZE: page v begins at the address v * PageSize
  Value,        \* page contents; 0 is a zeroed page, 1 what the loader writes
  Brks,         \* the breaks programs ask for, addresses
  TablePages,   \* pages a process costs besides its own: tables, kernel stack
  Buffers       \* pages that system calls store into

VPage == 1..Top

ASSUME VmAssumption ==
  /\ None \notin Page \cup Value /\ IsFiniteSet(Page) /\ IsFiniteSet(Proc)
  /\ HeapBase \in Nat \ {0} /\ StackBase \in Nat /\ Top \in Nat
  /\ HeapBase < StackBase /\ StackBase <= Top
  /\ Layouts \subseteq Seq([lo : VPage, hi : VPage])
  /\ \A s \in Layouts : \A i \in DOMAIN s : s[i].hi < HeapBase
  /\ {0, 1} \subseteq Value
  /\ PageSize \in Nat \ {0} /\ Brks \subseteq Nat
  /\ TablePages \in Nat
  /\ Buffers \subseteq VPage

VARIABLES
  segments, \* the layout of the programs; two segments may share a page
  count,   \* map_count of every page
  mem,     \* what every page holds
  pte,     \* the page table of every address space
  vm_end,  \* the first page after the heap's vma
  brk,     \* an address
  live,    \* processes that run
  halted   \* the machine has stopped

vars == <<segments, count, mem, pte, vm_end, brk, live, halted>>

NoPte == [page |-> None, rw |-> FALSE, cow |-> FALSE]
RwUser(q) == [page |-> q, rw |-> TRUE, cow |-> FALSE]
Present(p, v) == pte[p][v].page # None

TypeOK ==
  /\ segments \in Layouts
  /\ count \in [Page -> Nat]
  /\ mem \in [Page -> Value]
  /\ pte \in [Proc -> [VPage -> [page : Page \cup {None}, rw : BOOLEAN, cow : BOOLEAN]]]
  /\ vm_end \in [Proc -> HeapBase..StackBase]
  /\ brk \in [Proc -> Nat]
  /\ live \subseteq Proc
  /\ halted \in BOOLEAN

Init ==
  /\ segments \in Layouts
  /\ count = [q \in Page |-> 0]
  /\ mem = [q \in Page |-> 0]
  /\ pte = [p \in Proc |-> [v \in VPage |-> NoPte]]
  /\ vm_end = [p \in Proc |-> HeapBase]
  /\ brk = [p \in Proc |-> HeapBase * PageSize]
  /\ live = {}
  /\ halted = FALSE

-----------------------------------------------------------------------------
(* Pages and areas *)

Free == {q \in Page : count[q] = 0}

\* the ways to give each of S a free page of its own
Allocations(S) == {f \in [S -> Free] : \A u, v \in S : f[u] = f[v] => u = v}

\* n pages for kernel structures
Taken(n, avoid) == {T \in SUBSET (Free \ avoid) : Cardinality(T) = n}

Halt == halted' = TRUE /\ UNCHANGED <<count, mem, pte, vm_end, brk, live>>

\* the vma list: segments, heap, stack
Vmas(p) ==
  segments \o << [lo |-> HeapBase, hi |-> vm_end[p] - 1], [lo |-> StackBase, hi |-> Top] >>

InVma(v, a) == a.lo <= v /\ v <= a.hi

PagesOf(layout) == {v \in VPage : \E i \in DOMAIN layout : InVma(v, layout[i])}
SegmentPages == PagesOf(segments)

\* the first vma that holds v
Holds(p, v) == {i \in DOMAIN Vmas(p) : InVma(v, Vmas(p)[i])}
VmaOf(p, v) == Vmas(p)[CHOOSE i \in Holds(p, v) : \A k \in Holds(p, v) : i <= k]

\* a process that does not exist yet: structures come from the pools in order
New(c) == ~ \E v \in VPage : Present(c, v)

-----------------------------------------------------------------------------
(* Operations *)

(***************************************************************************)
(* load_elf: every segment is mapped read-write and filled, then one page  *)
(* of stack; the heap is empty.  sys_execve loads a new address space and  *)
(* retires the caller's, whose pages it does not give back.                *)
(***************************************************************************)
Load(c, retired) ==
  LET S == SegmentPages \cup {Top} IN
  /\ ~halted
  /\ New(c)
  /\ IF Cardinality(Free) < Cardinality(S) + TablePages
     THEN Halt
     ELSE \E f \in Allocations(S) : \E T \in Taken(TablePages, {f[v] : v \in S}) :
          /\ count' = [q \in Page |-> IF q \in T \cup {f[v] : v \in S} THEN 1 ELSE count[q]]
          /\ mem' = [q \in Page |-> IF \E v \in S : f[v] = q THEN 1 ELSE mem[q]]
          /\ pte' = [pte EXCEPT ![c] = [v \in VPage |-> IF v \in S THEN RwUser(f[v]) ELSE NoPte]]
          /\ live' = (live \ retired) \cup {c}
          /\ UNCHANGED <<vm_end, brk, halted>>

\* mutant: only the page load_elf mapped
StackCopiedTop(p) == {Top}

\* fork's loop over the stack stops at the first page that is not there
StackCopied(p) == {v \in StackBase..Top : \A u \in v..Top : Present(p, u)}

\* mutant: inc_map_count is forgotten
VisitsNone(p, q) == {}

\* the vmas other than the stack that hold a page fork shares; each counts once
Visits(p, q) ==
  {m \in (1..(Len(segments) + 1)) \X VPage : InVma(m[2], Vmas(p)[m[1]]) /\ pte[p][m[2]].page = q}

\* mutant: the write permission stays
SharedWritable(e) == IF e.rw THEN [e EXCEPT !.cow = TRUE] ELSE e

\* a shared entry: read-only and copy-on-write, if it was writable
Shared(e) == IF e.rw THEN [e EXCEPT !.rw = FALSE, !.cow = TRUE] ELSE e

IsShared(p, v) == \E i \in 1..(Len(segments) + 1) : InVma(v, Vmas(p)[i]) /\ Present(p, v)

(***************************************************************************)
(* fork_process: the stack is copied, every other page is shared.  A page  *)
(* two segments hold is visited twice: the second map_page finds it mapped *)
(* and its release_page is refused, as the address still has its flags;    *)
(* inc_map_count is called all the same.                                   *)
(***************************************************************************)
Fork(p, c) ==
  LET S == StackCopied(p) IN
  /\ ~halted /\ p \in live
  /\ New(c)
  /\ IF Cardinality(Free) < Cardinality(S) + TablePages
     THEN Halt
     ELSE \E f \in Allocations(S) : \E T \in Taken(TablePages, {f[v] : v \in S}) :
          /\ count' = [q \in Page |-> IF q \in T \cup {f[v] : v \in S} THEN 1
                                      ELSE count[q] + Cardinality(Visits(p, q))]
          /\ mem' = [q \in Page |-> IF \E v \in S : f[v] = q
                                    THEN mem[pte[p][CHOOSE v \in S : f[v] = q].page]
                                    ELSE mem[q]]
          /\ pte' = [pte EXCEPT
               ![p] = [v \in VPage |-> IF IsShared(p, v) THEN Shared(@[v]) ELSE @[v]],
               ![c] = [v \in VPage |-> IF v \in S THEN RwUser(f[v])
                                       ELSE IF IsShared(p, v) THEN Shared(pte[p][v]) ELSE NoPte]]
          /\ vm_end' = [vm_end EXCEPT ![c] = vm_end[p]]
          /\ brk' = [brk EXCEPT ![c] = brk[p]]
          /\ live' = live \cup {c}
          /\ UNCHANGED halted

\* handle_pg_fault on a copy-on-write page: a private copy, the shared one released
CowFault(p, v) ==
  LET old == pte[p][v].page IN
  /\ ~halted /\ p \in live
  /\ Present(p, v) /\ pte[p][v].cow /\ ~pte[p][v].rw
  /\ IF Free = {}
     THEN Halt
     ELSE \E q \in Free :
          /\ count' = [count EXCEPT ![q] = 1, ![old] = @ - 1]
          /\ mem' = [mem EXCEPT ![q] = mem[old]]
          /\ pte' = [pte EXCEPT ![p][v] = RwUser(q)]
          /\ UNCHANGED <<vm_end, brk, live, halted>>

\* kmmap asks for a page before it sees that the address is mapped and gives it back
Suffices(p, a) ==
  \A v \in a.lo..a.hi : Cardinality({u \in a.lo..(v - 1) : ~Present(p, u)}) < Cardinality(Free)

\* handle_pg_fault on an absent page of a vma: kmmap of the whole vma
DemandFault(p, v) ==
  /\ ~halted /\ p \in live
  /\ ~Present(p, v)
  /\ Holds(p, v) # {}
  /\ LET a == VmaOf(p, v)
         S == {u \in a.lo..a.hi : ~Present(p, u)}
     IN
     IF ~Suffices(p, a)
     THEN Halt
     ELSE \E f \in Allocations(S) :
          /\ count' = [q \in Page |-> IF \E u \in S : f[u] = q THEN 1 ELSE count[q]]
          /\ mem' = [q \in Page |-> IF \E u \in S : f[u] = q THEN 0 ELSE mem[q]]
          /\ pte' = [pte EXCEPT ![p] = [u \in VPage |-> IF u \in S THEN RwUser(f[u]) ELSE @[u]]]
          /\ UNCHANGED <<vm_end, brk, live, halted>>

\* handle_pg_fault outside every vma: panic
SegFault(p, v) ==
  /\ ~halted /\ p \in live
  /\ ~Present(p, v)
  /\ Holds(p, v) = {}
  /\ Halt

\* a program's store; the processor faults first unless the entry is writable
Write(p, v, x) ==
  /\ ~halted /\ p \in live
  /\ Present(p, v) /\ pte[p][v].rw
  /\ mem' = [mem EXCEPT ![pte[p][v].page] = x]
  /\ UNCHANGED <<count, pte, vm_end, brk, live, halted>>

\* a system call's store: nothing sets CR0.WP, so ring 0 writes read-only pages
KernelWrite(p, v, x) ==
  /\ v \in Buffers
  /\ ~halted /\ p \in live
  /\ Present(p, v)
  /\ mem' = [mem EXCEPT ![pte[p][v].page] = x]
  /\ UNCHANGED <<count, pte, vm_end, brk, live, halted>>

\* ALIGN_UP, as a page
AlignUp(a) == (a - 1) \div PageSize + 1

\* sys_brk upwards: brk is set before the check against the stack.  A break in the last
\* page below the stack passes it and the heap then ends where the stack begins
Brk(p, nbrk) ==
  /\ ~halted /\ p \in live
  /\ nbrk > brk[p]
  /\ brk' = [brk EXCEPT ![p] = nbrk]
  /\ vm_end' = IF nbrk > vm_end[p] * PageSize /\ nbrk < StackBase * PageSize
               THEN [vm_end EXCEPT ![p] = AlignUp(nbrk)] ELSE vm_end
  /\ UNCHANGED <<count, mem, pte, live, halted>>

\* sys_exit gives no page back
Exit(p) ==
  /\ ~halted /\ p \in live
  /\ live' = live \ {p}
  /\ UNCHANGED <<count, mem, pte, vm_end, brk, halted>>

-----------------------------------------------------------------------------

Next ==
  /\ \/ \E c \in Proc : (\A p \in Proc : New(p)) /\ Load(c, {})
     \/ \E p, c \in Proc : p \in live /\ Load(c, {p})
     \/ \E p, c \in Proc : Fork(p, c)
     \/ \E p \in Proc, v \in VPage : CowFault(p, v)
     \/ \E p \in Proc, v \in VPage : DemandFault(p, v)
     \/ \E p \in Proc, v \in VPage : SegFault(p, v)
     \/ \E p \in Proc, v \in VPage, x \in Value : Write(p, v, x)
     \/ \E p \in Proc, v \in VPage, x \in Value : KernelWrite(p, v, x)
     \/ \E p \in Proc, b \in Brks : Brk(p, b)
     \/ \E p \in Proc : Exit(p)
  /\ UNCHANGED segments

Spec == Init /\ [][Next]_vars

-----------------------------------------------------------------------------
(* Properties *)

Mappings(q) == {m \in Proc \X VPage : pte[m[1]][m[2]].page = q}

\* No page is given out again while some page table still maps it: release_page in
\* the copy-on-write fault takes a count that fork really added, for any tree of
\* forks, and for pages two segments share
MappedIsCounted == \A q \in Page : count[q] >= Cardinality(Mappings(q))

\* A page that one address space can write is mapped nowhere else: fork makes both
\* sides read-only and the fault copies before it grants the write
WritableIsPrivate ==
  \A p \in Proc, v \in VPage : pte[p][v].rw => Mappings(pte[p][v].page) = {<<p, v>>}

\* a program that has just been loaded: its segments and a page of stack
Images ==
  {[v \in VPage |-> IF v \in PagesOf(s) \cup {Top} THEN 1 ELSE None] : s \in Layouts}

PM == INSTANCE PrivateMemory WITH
  Unmapped <- None,
  alive <- live,
  memory <- [p \in Proc |-> [v \in VPage |-> IF Present(p, v) THEN mem[pte[p][v].page] ELSE None]]

\* Sharing cannot be observed: the page tables implement one private memory per
\* process ("If page is written to, then copy first"): a child begins with its
\* parent's memory, a program after execve with nothing but its image, new pages
\* with zeros.  It holds when system calls store into the stack only, which fork copies
ImplementsPrivateMemory == PM!Spec
==============================================================================
