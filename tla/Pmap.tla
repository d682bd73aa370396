-------------------------------- MODULE Pmap --------------------------------
(***************************************************************************)
(* The physical page allocator, sys/pmap.c.                                *)
(*                                                                         *)
(* list_arr is an array of descriptors, one per page, and the free list is *)
(* threaded through their next fields.  A descriptor is named by its index *)
(* in the array, counted from 1, and 0 is the null pointer; addresses are  *)
(* page numbers.  pmap_init builds the list one descriptor per step; after *)
(* it, get_free_page, release_page and inc_map_count are called in any     *)
(* order and with any pointer of Ptr, valid or not.  Each call is one step:*)
(* no interrupt handler calls into this file.                              *)
(***************************************************************************)
EXTENDS Integers, FiniteSets

CONSTANTS
  EntryCount,   \* entry_count, the length of list_arr
  Base,         \* Base[j]: the address of the page that list_arr[j] describes
  PhysBase,     \* [PhysBase, PhysFree): the kernel image, list_arr itself and
  PhysFree,     \*   the first page tables (physbase and real_physfree)
  Ptr,          \* addresses that callers pass
  MaxMapCount   \* bound on map_count, a uint32_t in the code

VARIABLES
  j,              \* the descriptor pmap_init is at; Booted once it has returned
  prev,           \* pmap_init's tail pointer
  map_count,
  next,
  freelist_head,
  free_pg_count,
  ret             \* <<outcome, address>> of the last call

vars == <<j, prev, map_count, next, freelist_head, free_pg_count, ret>>

Entry == 1..EntryCount
NULL == 0
Booted == EntryCount + 2

\* list_arr[i].base >= physbase && list_arr[i].base < real_physfree
InKernel(i) == Base[i] >= PhysBase /\ Base[i] < PhysFree

(***************************************************************************)
(* The first page is not the kernel's: pmap_init makes entry 0 of region 0 *)
(* the head, and has no tail to link to before it.  On the PC the first    *)
(* region is the low 640 KB, below physbase = 2 MB.                        *)
(***************************************************************************)
ASSUME PmapAssumption ==
  /\ EntryCount \in Nat \ {0}
  /\ Base \in [Entry -> Nat]
  /\ \A i, k \in Entry : Base[i] = Base[k] => i = k
  /\ PhysBase \in Nat /\ PhysFree \in Nat
  /\ ~InKernel(1)
  /\ Ptr \subseteq Int
  /\ -1 \in Ptr /\ {Base[i] : i \in Entry} \subseteq Ptr
  /\ MaxMapCount \in Nat \ {0}

Outcome == {"none", "page", "oom", "corrupt", "ok", "invalid", "unallocated"}

TypeOK ==
  /\ j \in 1..Booted
  /\ prev \in Entry \cup {NULL}
  /\ map_count \in [Entry -> 0..MaxMapCount]
  /\ next \in [Entry -> Entry \cup {NULL}]
  /\ freelist_head \in Entry \cup {NULL}
  /\ free_pg_count \in Int
  /\ ret \in Outcome \X Ptr

-----------------------------------------------------------------------------
(* pmap_init *)

Init ==
  /\ j = 1
  /\ prev = NULL
  /\ map_count = [i \in Entry |-> 0]
  /\ next = [i \in Entry |-> NULL]
  /\ freelist_head = NULL
  /\ free_pg_count = EntryCount
  /\ ret = <<"none", -1>>

\* a page of the kernel: counted once and left off the list
InitKernelPage ==
  /\ j \in Entry
  /\ InKernel(j)
  /\ map_count' = [map_count EXCEPT ![j] = 1]
  /\ next' = [next EXCEPT ![j] = NULL]
  /\ free_pg_count' = free_pg_count - 1
  /\ j' = j + 1
  /\ UNCHANGED <<prev, freelist_head, ret>>

InitFirstPage ==
  /\ j = 1
  /\ ~InKernel(j)
  /\ map_count' = [map_count EXCEPT ![j] = 0]
  /\ freelist_head' = j
  /\ prev' = j
  /\ j' = j + 1
  /\ UNCHANGED <<next, free_pg_count, ret>>

\* mutant: links the array neighbour instead of the last free page
InitFreePageNeighbour ==
  /\ j \in Entry \ {1}
  /\ ~InKernel(j)
  /\ map_count' = [map_count EXCEPT ![j] = 0]
  /\ next' = [next EXCEPT ![j - 1] = j]
  /\ prev' = j
  /\ j' = j + 1
  /\ UNCHANGED <<freelist_head, free_pg_count, ret>>

InitFreePage ==
  /\ j \in Entry \ {1}
  /\ ~InKernel(j)
  /\ map_count' = [map_count EXCEPT ![j] = 0]
  /\ next' = [next EXCEPT ![prev] = j]
  /\ prev' = j
  /\ j' = j + 1
  /\ UNCHANGED <<freelist_head, free_pg_count, ret>>

InitTail ==
  /\ j = EntryCount + 1
  /\ next' = [next EXCEPT ![prev] = NULL]
  /\ j' = Booted
  /\ UNCHANGED <<prev, map_count, freelist_head, free_pg_count, ret>>

-----------------------------------------------------------------------------
(* The calls *)

\* walk_list: the first descriptor with this base, or null
WalkList(p) ==
  IF \E i \in Entry : Base[i] = p
  THEN CHOOSE i \in Entry : Base[i] = p /\ \A k \in 1..(i - 1) : Base[k] # p
  ELSE NULL

GetFreePage ==
  /\ j = Booted
  /\ IF freelist_head = NULL
     THEN /\ ret' = <<"oom", -1>>
          /\ UNCHANGED <<map_count, next, freelist_head>>
     ELSE IF map_count[freelist_head] # 0
     THEN /\ ret' = <<"corrupt", -1>>
          /\ UNCHANGED <<map_count, next, freelist_head>>
     ELSE /\ map_count' = [map_count EXCEPT ![freelist_head] = 1]
          /\ freelist_head' = next[freelist_head]
          /\ next' = [next EXCEPT ![freelist_head] = NULL]
          /\ ret' = <<"page", Base[freelist_head]>>
  /\ UNCHANGED <<j, prev, free_pg_count>>

\* mutant: the page is linked, the head is not moved
ReleaseLastLost(p, e) ==
  /\ e # NULL
  /\ map_count[e] = 1
  /\ map_count' = [map_count EXCEPT ![e] = 0]
  /\ next' = [next EXCEPT ![e] = freelist_head]
  /\ ret' = <<"ok", p>>
  /\ UNCHANGED freelist_head

\* the last mapping goes: the page becomes the head of the free list
ReleaseLast(p, e) ==
  /\ e # NULL
  /\ map_count[e] = 1
  /\ map_count' = [map_count EXCEPT ![e] = 0]
  /\ next' = [next EXCEPT ![e] = freelist_head]
  /\ freelist_head' = e
  /\ ret' = <<"ok", p>>

\* mutant: every release returns the page to the free list
ReleaseOneFrees(p, e) ==
  /\ e # NULL
  /\ map_count[e] > 1
  /\ map_count' = [map_count EXCEPT ![e] = @ - 1]
  /\ next' = [next EXCEPT ![e] = freelist_head]
  /\ freelist_head' = e
  /\ ret' = <<"ok", p>>

ReleaseOne(p, e) ==
  /\ e # NULL
  /\ map_count[e] > 1
  /\ map_count' = [map_count EXCEPT ![e] = @ - 1]
  /\ ret' = <<"ok", p>>
  /\ UNCHANGED <<next, freelist_head>>

\* a pointer walk_list does not find: message, return
RefuseInvalid(p, e) ==
  /\ e = NULL
  /\ ret' = <<"invalid", p>>
  /\ UNCHANGED <<map_count, next, freelist_head>>

\* a page nobody holds (map_count is unsigned, so <= 0 is = 0): message, return
RefuseUnallocated(p, e) ==
  /\ e # NULL
  /\ map_count[e] = 0
  /\ ret' = <<"unallocated", p>>
  /\ UNCHANGED <<map_count, next, freelist_head>>

ReleasePage(p) ==
  LET e == WalkList(p) IN
  /\ j = Booted
  /\ \/ ReleaseLast(p, e)
     \/ ReleaseOne(p, e)
     \/ RefuseInvalid(p, e)
     \/ RefuseUnallocated(p, e)
  /\ UNCHANGED <<j, prev, free_pg_count>>

AddMapping(p, e) ==
  /\ e # NULL
  /\ map_count[e] \in 1..(MaxMapCount - 1)
  /\ map_count' = [map_count EXCEPT ![e] = @ + 1]
  /\ ret' = <<"ok", p>>
  /\ UNCHANGED <<next, freelist_head>>

IncMapCount(p) ==
  LET e == WalkList(p) IN
  /\ j = Booted
  /\ \/ AddMapping(p, e)
     \/ RefuseInvalid(p, e)
     \/ RefuseUnallocated(p, e)
  /\ UNCHANGED <<j, prev, free_pg_count>>

-----------------------------------------------------------------------------

Next ==
  \/ InitKernelPage
  \/ InitFirstPage
  \/ InitFreePage
  \/ InitTail
  \/ GetFreePage
  \/ \E p \in Ptr : ReleasePage(p)
  \/ \E p \in Ptr : IncMapCount(p)

Spec == Init /\ [][Next]_vars

-----------------------------------------------------------------------------
(* Properties *)

\* the pages that are free now; during boot, those already entered
Free == {i \in Entry : i < j /\ map_count[i] = 0}

\* s lists the free pages in the order of the next pointers, head first
IsFreeList(s, n) ==
  /\ \A i, k \in 1..n : s[i] = s[k] => i = k
  /\ \A e \in Entry : e \in Free <=> \E i \in 1..n : s[i] = e
  /\ freelist_head = IF n = 0 THEN NULL ELSE s[1]
  /\ \A i \in 1..n : next[s[i]] = IF i = n THEN NULL ELSE s[i + 1]

(***************************************************************************)
(* The chain that starts at freelist_head ends, holds no page twice, and   *)
(* holds exactly the pages with map_count 0: no free page is lost and no   *)
(* page in use can be handed out again, whatever pmap_init skipped and     *)
(* whatever release_page and inc_map_count were called with.               *)
(***************************************************************************)
FreeListExact ==
  \E s \in [1..Cardinality(Free) -> Free] : IsFreeList(s, Cardinality(Free))

(***************************************************************************)
(* get_free_page's own sanity check, "free page with nonzero map_count",   *)
(* never fires.                                                            *)
(***************************************************************************)
NeverCorrupt == ret[1] # "corrupt"

\* the abstract allocator: counts by address, as they will be after pmap_init
Alloc == INSTANCE PageAlloc WITH
  Page <- {Base[i] : i \in Entry},
  Kernel <- {Base[i] : i \in {k \in Entry : InKernel(k)}},
  count <- [a \in {Base[i] : i \in Entry} |->
              IF j = Booted THEN map_count[WalkList(a)]
              ELSE IF InKernel(WalkList(a)) THEN 1 ELSE 0]

(***************************************************************************)
(* The descriptor array and its free list implement PageAlloc: in          *)
(* particular get_free_page reports "out of memory" only when no page has  *)
(* map_count 0, and otherwise returns a page that nobody maps.             *)
(***************************************************************************)
ImplementsPageAlloc == Alloc!Spec
==============================================================================
