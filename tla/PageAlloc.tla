------------------------------ MODULE PageAlloc ------------------------------
(***************************************************************************)
(* What the physical page allocator of sys/pmap.c promises its callers,    *)
(* with no free list: every page has a mapping count, a page may be handed *)
(* out exactly when its count is 0, and an allocation fails only when no   *)
(* page has count 0.  Pmap.tla implements this specification; the pages    *)
(* of Vm.tla carry the same counts.                                        *)
(***************************************************************************)
EXTENDS Integers

CONSTANTS
  Page,         \* addresses of the physical pages the allocator describes
  Kernel,       \* those in use from boot: [physbase, real_physfree)
  Ptr,          \* addresses a caller may pass to release_page, inc_map_count
  MaxMapCount   \* bound on a mapping count (the code's is 2^32 - 1)

VARIABLES
  count,        \* count[a]: number of mappings of page a
  ret           \* <<outcome, address>> of the last call

vars == <<count, ret>>

Outcome == {"none", "page", "oom", "ok", "invalid", "unallocated"}

TypeOK ==
  /\ count \in [Page -> 0..MaxMapCount]
  /\ ret \in Outcome \X Ptr

Init ==
  /\ count = [a \in Page |-> IF a \in Kernel THEN 1 ELSE 0]
  /\ ret = <<"none", -1>>

Get ==
  \/ \E a \in Page :
       /\ count[a] = 0
       /\ count' = [count EXCEPT ![a] = 1]
       /\ ret' = <<"page", a>>
  \/ /\ \A a \in Page : count[a] # 0
     /\ ret' = <<"oom", -1>>
     /\ UNCHANGED count

Release(p) ==
  \/ /\ p \in Page
     /\ count[p] > 0
     /\ count' = [count EXCEPT ![p] = @ - 1]
     /\ ret' = <<"ok", p>>
  \/ /\ p \notin Page
     /\ ret' = <<"invalid", p>>
     /\ UNCHANGED count
  \/ /\ p \in Page
     /\ count[p] = 0
     /\ ret' = <<"unallocated", p>>
     /\ UNCHANGED count

Increment(p) ==
  \/ /\ p \in Page
     /\ count[p] \in 1..(MaxMapCount - 1)
     /\ count' = [count EXCEPT ![p] = @ + 1]
     /\ ret' = <<"ok", p>>
  \/ /\ p \notin Page
     /\ ret' = <<"invalid", p>>
     /\ UNCHANGED count
  \/ /\ p \in Page
     /\ count[p] = 0
     /\ ret' = <<"unallocated", p>>
     /\ UNCHANGED count

Next ==
  \/ Get
  \/ \E p \in Ptr : Release(p) \/ Increment(p)

Spec == Init /\ [][Next]_vars
==============================================================================
