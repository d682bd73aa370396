--------------------------- MODULE AllocatorProofs ---------------------------
(***************************************************************************)
(* Proofs about the two allocators: that of pages, for every number of     *)
(* pages, every placement of the kernel and every set of pointers callers  *)
(* pass; and the heap of a program, for every alignment, page size, layout *)
(* and set of requests that do not wrap around.                            *)
(***************************************************************************)
EXTENDS Pmap, Malloc, FiniteSetTheorems, TLAPS

-----------------------------------------------------------------------------
(* Pages.  FreeListExact is inductive once pmap_init's tail pointer is     *)
(* pinned to the last page of the list under construction (BootInv).  The  *)
(* proof works with a list of any length n (Chain); that n is the number   *)
(* of free pages is a counting argument made once, at the end.             *)

\* the free list, of some length
Chain == \E n \in Nat : \E s \in [1..n -> Entry] : IsFreeList(s, n)

\* while pmap_init runs: what it has filled in, what it has not, and its tail
BootInv ==
  j # Booted =>
    /\ \A i \in Entry :
         /\ i >= j => map_count[i] = 0 /\ next[i] = NULL
         /\ i < j => map_count[i] = IF InKernel(i) THEN 1 ELSE 0
    /\ j > 1 => prev \in Free /\ next[prev] = NULL

IInv == TypeOK /\ Chain /\ BootInv /\ NeverCorrupt

-----------------------------------------------------------------------------
(* walk_list *)

\* walk_list returns the descriptor of the page at p, or null if there is none
LEMMA WalkListFinds ==
  ASSUME NEW p \in Ptr
  PROVE  /\ WalkList(p) \in Entry \cup {NULL}
         /\ WalkList(p) # NULL <=> p \in {Base[i] : i \in Entry}
         /\ WalkList(p) # NULL => WalkList(p) \in Entry /\ Base[WalkList(p)] = p
<1>1. CASE \E i \in Entry : Base[i] = p
  <2>1. PICK i \in Entry : Base[i] = p
    BY <1>1, Zenon
  <2>2. \A k \in 1..(i - 1) : Base[k] # p
    BY <2>1, PmapAssumption DEF Entry
  <2>3. WalkList(p) = CHOOSE e \in Entry : Base[e] = p /\ \A k \in 1..(e - 1) : Base[k] # p
    BY <1>1, Zenon DEF WalkList
  <2>4. WalkList(p) \in Entry /\ Base[WalkList(p)] = p
    BY <2>1, <2>2, <2>3, Zenon
  <2> QED
    BY <2>4, PmapAssumption DEF Entry, NULL
<1>2. CASE ~\E i \in Entry : Base[i] = p
  BY <1>2, PmapAssumption, Zenon DEF WalkList, Entry, NULL
<1> QED
  BY <1>1, <1>2, Zenon

\* walk_list inverts Base
LEMMA WalkListBase ==
  ASSUME NEW i \in Entry
  PROVE  WalkList(Base[i]) = i /\ Base[i] \in Ptr
<1>1. Base[i] \in Ptr
  BY PmapAssumption, Zenon
<1>2. Base[i] \in {Base[k] : k \in Entry}
  BY Zenon
<1> QED
  BY <1>1, <1>2, WalkListFinds, PmapAssumption, Zenon

-----------------------------------------------------------------------------
(* What each kind of step does to the list *)

\* pmap_init and every call: a step that changes neither the set of free
\* pages, nor the head, nor a free page's next pointer keeps the list
LEMMA ChainKept ==
  ASSUME Chain, Free' = Free, freelist_head' = freelist_head,
         \A i \in Free : next'[i] = next[i]
  PROVE  Chain'
<1>0. PICK n \in Nat : \E s \in [1..n -> Entry] : IsFreeList(s, n)
  BY Zenon DEF Chain
<1>1. PICK s \in [1..n -> Entry] : IsFreeList(s, n)
  BY <1>0, Zenon
<1>2. \A i \in 1..n : s[i] \in Free
  BY <1>1, Zenon DEF IsFreeList
<1>3. IsFreeList(s, n)'
  BY <1>1, <1>2, Zenon DEF IsFreeList
<1> QED
  BY <1>3, Zenon DEF Chain

\* pmap_init's linking of a free page after the tail appends to the list
LEMMA ChainAppend ==
  ASSUME TypeOK, Chain, NEW e \in Entry, e \notin Free,
         prev \in Free, next[prev] = NULL, next[e] = NULL,
         Free' = Free \cup {e}, freelist_head' = freelist_head,
         next' = [next EXCEPT ![prev] = e]
  PROVE  Chain'
<1>0. PICK n \in Nat : \E s \in [1..n -> Entry] : IsFreeList(s, n)
  BY Zenon DEF Chain
<1>1. PICK s \in [1..n -> Entry] : IsFreeList(s, n)
  BY <1>0, Zenon
<1>2. \A i \in 1..n : s[i] \in Free /\ s[i] # e /\ s[i] # NULL
  BY <1>1, PmapAssumption DEF IsFreeList, Entry, NULL
<1>3. PICK l \in 1..n : s[l] = prev
  BY <1>1, Zenon DEF IsFreeList, Free
<1>4. l = n /\ n # 0
  BY <1>1, <1>2, <1>3 DEF IsFreeList, NULL
<1> DEFINE t == [i \in 1..(n + 1) |-> IF i = n + 1 THEN e ELSE s[i]]
<1>5. t \in [1..(n + 1) -> Entry]
  OBVIOUS
<1>6. \A i \in 1..n : t[i] = s[i]
  OBVIOUS
<1>7. t[n + 1] = e
  OBVIOUS
<1>h. prev \in Entry /\ next \in [Entry -> Entry \cup {NULL}] /\ prev # e
  BY Zenon DEF TypeOK, Free
<1> HIDE DEF t
<1>8. \A i, k \in 1..(n + 1) : t[i] = t[k] => i = k
  <2> SUFFICES ASSUME NEW i \in 1..(n + 1), NEW k \in 1..(n + 1), t[i] = t[k]
               PROVE  i = k
    BY Zenon
  <2>1. CASE i \in 1..n /\ k \in 1..n
    BY <2>1, <1>1, <1>6, Zenon DEF IsFreeList
  <2>2. CASE i = n + 1 /\ k \in 1..n
    BY <2>2, <1>2, <1>6, <1>7, Zenon
  <2>3. CASE i \in 1..n /\ k = n + 1
    BY <2>3, <1>2, <1>6, <1>7, Zenon
  <2> QED
    BY <2>1, <2>2, <2>3
<1>9. \A x \in Entry : x \in Free' <=> \E i \in 1..(n + 1) : t[i] = x
  <2> SUFFICES ASSUME NEW x \in Entry
               PROVE  x \in Free' <=> \E i \in 1..(n + 1) : t[i] = x
    BY Zenon
  <2>1. x \in Free <=> \E i \in 1..n : s[i] = x
    BY <1>1, Zenon DEF IsFreeList
  <2> QED
    BY <2>1, <1>6, <1>7
<1>10. freelist_head' = IF n + 1 = 0 THEN NULL ELSE t[1]
  BY <1>1, <1>4, <1>6 DEF IsFreeList
<1>11. \A i \in 1..(n + 1) : next'[t[i]] = IF i = n + 1 THEN NULL ELSE t[i + 1]
  <2> SUFFICES ASSUME NEW i \in 1..(n + 1)
               PROVE  next'[t[i]] = IF i = n + 1 THEN NULL ELSE t[i + 1]
    BY Zenon
  <2>1. CASE i = n + 1
    BY <2>1, <1>7, <1>h, Zenon
  <2>2. CASE i = n
    BY <2>2, <1>3, <1>4, <1>6, <1>7, <1>h, Zenon
  <2>3. CASE i \in 1..(n - 1)
    <3>1. s[i] # prev /\ s[i] \in Entry
      BY <2>3, <1>1, <1>3, <1>4 DEF IsFreeList
    <3>2. next[s[i]] = s[i + 1]
      BY <2>3, <1>1 DEF IsFreeList
    <3>3. t[i] = s[i] /\ t[i + 1] = s[i + 1]
      BY <2>3, <1>6
    <3> QED
      BY <2>3, <3>1, <3>2, <3>3, <1>h
  <2> QED
    BY <2>1, <2>2, <2>3
<1>12. IsFreeList(t, n + 1)'
  BY <1>8, <1>9, <1>10, <1>11, Zenon DEF IsFreeList
<1>13. n + 1 \in Nat
  OBVIOUS
<1> QED
  BY <1>5, <1>12, <1>13, Zenon DEF Chain

\* get_free_page's removal of the head leaves the rest of the list
LEMMA ChainPop ==
  ASSUME TypeOK, Chain, freelist_head # NULL,
         Free' = Free \ {freelist_head},
         freelist_head' = next[freelist_head],
         next' = [next EXCEPT ![freelist_head] = NULL]
  PROVE  Chain'
<1>0. PICK n \in Nat : \E s \in [1..n -> Entry] : IsFreeList(s, n)
  BY Zenon DEF Chain
<1>1. PICK s \in [1..n -> Entry] : IsFreeList(s, n)
  BY <1>0, Zenon
<1>2. n \in Nat \ {0} /\ freelist_head = s[1] /\ freelist_head \in Entry
  BY <1>1, Zenon DEF IsFreeList, TypeOK
<1> DEFINE t == [i \in 1..(n - 1) |-> s[i + 1]]
<1>3. n - 1 \in Nat /\ t \in [1..(n - 1) -> Entry]
  BY <1>2
<1>4. \A i \in 1..(n - 1) : t[i] = s[i + 1] /\ i + 1 \in 1..n
  BY <1>2
<1> HIDE DEF t
<1>5. \A i, k \in 1..n : s[i] = s[k] => i = k
  BY <1>1, Zenon DEF IsFreeList
<1>6. \A i, k \in 1..(n - 1) : t[i] = t[k] => i = k
  BY <1>2, <1>4, <1>5
<1>7. \A x \in Entry : x \in Free' <=> \E i \in 1..(n - 1) : t[i] = x
  <2> SUFFICES ASSUME NEW x \in Entry
               PROVE  x \in Free' <=> \E i \in 1..(n - 1) : t[i] = x
    BY Zenon
  <2>1. x \in Free <=> \E i \in 1..n : s[i] = x
    BY <1>1, Zenon DEF IsFreeList
  <2>2. ASSUME x \in Free' PROVE \E i \in 1..(n - 1) : t[i] = x
    <3>1. PICK k \in 1..n : s[k] = x
      BY <2>1, <2>2, Zenon
    <3>2. k # 1
      BY <3>1, <2>2, <1>2, Zenon
    <3>3. k - 1 \in 1..(n - 1) /\ t[k - 1] = x
      BY <3>1, <3>2, <1>2, <1>4
    <3> QED
      BY <3>3, Zenon
  <2>3. ASSUME NEW i \in 1..(n - 1), t[i] = x PROVE x \in Free'
    <3>1. s[i + 1] = x /\ i + 1 \in 1..n /\ i + 1 # 1
      BY <2>3, <1>4
    <3>2. x # s[1]
      BY <3>1, <1>2, <1>5
    <3> QED
      BY <3>1, <3>2, <2>1, <1>2, Zenon
  <2> QED
    BY <2>2, <2>3, Zenon
<1>8. freelist_head' = IF n - 1 = 0 THEN NULL ELSE t[1]
  <2>1. next[s[1]] = IF 1 = n THEN NULL ELSE s[2]
    BY <1>1, <1>2 DEF IsFreeList
  <2> QED
    BY <2>1, <1>2, <1>4
<1>9. \A i \in 1..(n - 1) : next'[t[i]] = IF i = n - 1 THEN NULL ELSE t[i + 1]
  <2> SUFFICES ASSUME NEW i \in 1..(n - 1)
               PROVE  next'[t[i]] = IF i = n - 1 THEN NULL ELSE t[i + 1]
    BY Zenon
  <2>1. t[i] = s[i + 1] /\ s[i + 1] # s[1] /\ s[i + 1] \in Entry
    BY <1>2, <1>4, <1>5
  <2>2. next'[t[i]] = next[s[i + 1]]
    BY <2>1, <1>2, Zenon DEF TypeOK
  <2>3. next[s[i + 1]] = IF i + 1 = n THEN NULL ELSE s[i + 2]
    BY <1>1, <1>2, <1>4 DEF IsFreeList
  <2>4. i # n - 1 => t[i + 1] = s[i + 2]
    BY <1>2, <1>4
  <2> QED
    BY <2>2, <2>3, <2>4, <1>2
<1>10. IsFreeList(t, n - 1)'
  BY <1>6, <1>7, <1>8, <1>9, Zenon DEF IsFreeList
<1> QED
  BY <1>3, <1>10, Zenon DEF Chain

\* release_page's insertion of a page that became free puts it first
LEMMA ChainPush ==
  ASSUME TypeOK, Chain, NEW e \in Entry, e \notin Free,
         Free' = Free \cup {e},
         freelist_head' = e,
         next' = [next EXCEPT ![e] = freelist_head]
  PROVE  Chain'
<1>0. PICK n \in Nat : \E s \in [1..n -> Entry] : IsFreeList(s, n)
  BY Zenon DEF Chain
<1>1. PICK s \in [1..n -> Entry] : IsFreeList(s, n)
  BY <1>0, Zenon
<1> DEFINE t == [i \in 1..(n + 1) |-> IF i = 1 THEN e ELSE s[i - 1]]
<1>2. n + 1 \in Nat /\ t \in [1..(n + 1) -> Entry]
  OBVIOUS
<1>3. t[1] = e /\ \A i \in 2..(n + 1) : t[i] = s[i - 1] /\ i - 1 \in 1..n
  OBVIOUS
<1> HIDE DEF t
<1>4. \A i \in 1..n : s[i] \in Free /\ s[i] # e
  BY <1>1, Zenon DEF IsFreeList
<1>5. \A i, k \in 1..n : s[i] = s[k] => i = k
  BY <1>1, Zenon DEF IsFreeList
<1>6. \A i, k \in 1..(n + 1) : t[i] = t[k] => i = k
  <2> SUFFICES ASSUME NEW i \in 1..(n + 1), NEW k \in 1..(n + 1), t[i] = t[k]
               PROVE  i = k
    BY Zenon
  <2>1. CASE i = 1 /\ k \in 2..(n + 1)
    BY <2>1, <1>3, <1>4, Zenon
  <2>2. CASE i \in 2..(n + 1) /\ k = 1
    BY <2>2, <1>3, <1>4, Zenon
  <2>3. CASE i \in 2..(n + 1) /\ k \in 2..(n + 1)
    <3>1. i - 1 = k - 1
      BY <2>3, <1>3, <1>5, Zenon
    <3> QED
      BY <3>1
  <2> QED
    BY <2>1, <2>2, <2>3
<1>7. \A x \in Entry : x \in Free' <=> \E i \in 1..(n + 1) : t[i] = x
  <2> SUFFICES ASSUME NEW x \in Entry
               PROVE  x \in Free' <=> \E i \in 1..(n + 1) : t[i] = x
    BY Zenon
  <2>1. x \in Free <=> \E i \in 1..n : s[i] = x
    BY <1>1, Zenon DEF IsFreeList
  <2>2. ASSUME NEW k \in 1..n PROVE k + 1 \in 1..(n + 1) /\ t[k + 1] = s[k]
    BY <1>3
  <2>3. ASSUME x \in Free' PROVE \E i \in 1..(n + 1) : t[i] = x
    BY <2>1, <2>2, <2>3, <1>3
  <2>4. ASSUME NEW i \in 1..(n + 1), t[i] = x PROVE x \in Free'
    <3>1. CASE i = 1
      BY <3>1, <2>4, <1>3, Zenon
    <3>2. CASE i \in 2..(n + 1)
      BY <3>2, <2>4, <1>3, <2>1, Zenon
    <3> QED
      BY <3>1, <3>2
  <2> QED
    BY <2>3, <2>4, Zenon
<1>8. freelist_head' = IF n + 1 = 0 THEN NULL ELSE t[1]
  BY <1>3
<1>9. \A i \in 1..(n + 1) : next'[t[i]] = IF i = n + 1 THEN NULL ELSE t[i + 1]
  <2> SUFFICES ASSUME NEW i \in 1..(n + 1)
               PROVE  next'[t[i]] = IF i = n + 1 THEN NULL ELSE t[i + 1]
    BY Zenon
  <2>1. CASE i = 1
    <3>1. next'[t[i]] = freelist_head
      BY <2>1, <1>3, Zenon DEF TypeOK
    <3>2. n # 0 => t[2] = s[1]
      BY <1>3
    <3> QED
      BY <2>1, <3>1, <3>2, <1>1 DEF IsFreeList
  <2>2. CASE i \in 2..(n + 1)
    <3>1. t[i] = s[i - 1] /\ i - 1 \in 1..n
      BY <2>2, <1>3, Zenon
    <3>2. next'[t[i]] = next[s[i - 1]]
      BY <3>1, <1>4, Zenon DEF TypeOK
    <3>3. next[s[i - 1]] = IF i - 1 = n THEN NULL ELSE s[i]
      <4>1. \A m \in 1..n : next[s[m]] = IF m = n THEN NULL ELSE s[m + 1]
        BY <1>1, Zenon DEF IsFreeList
      <4> QED
        BY <3>1, <4>1
    <3>4. i # n + 1 => t[i + 1] = s[i]
      BY <2>2, <1>3
    <3> QED
      BY <3>2, <3>3, <3>4
  <2> QED
    BY <2>1, <2>2
<1>10. IsFreeList(t, n + 1)'
  BY <1>6, <1>7, <1>8, <1>9, Zenon DEF IsFreeList
<1> QED
  BY <1>2, <1>10, Zenon DEF Chain

-----------------------------------------------------------------------------
(* The inductive invariant *)

\* each kind of step leaves the state well typed
LEMMA TypeInductive == TypeOK /\ BootInv /\ [Next]_vars => TypeOK'
<1> SUFFICES ASSUME TypeOK, BootInv, [Next]_vars PROVE TypeOK'
  BY Zenon
<1>a. /\ EntryCount \in Nat \ {0} /\ MaxMapCount \in Nat \ {0} /\ -1 \in Ptr
      /\ \A i \in Entry : Base[i] \in Ptr
  BY PmapAssumption, Zenon
<1>r. \A o \in Outcome, p \in Ptr : <<o, p>> \in Outcome \X Ptr
  BY Zenon
<1>1. CASE InitKernelPage
  BY <1>1, <1>a DEF InitKernelPage, TypeOK, Entry, NULL, Booted
<1>2. CASE InitFirstPage
  BY <1>2, <1>a DEF InitFirstPage, TypeOK, Entry, NULL, Booted
<1>3. CASE InitFreePage
  <2>1. next' \in [Entry -> Entry \cup {NULL}]
    BY <1>3, Zenon DEF InitFreePage, TypeOK
  <2> QED
    BY <1>3, <1>a, <2>1 DEF InitFreePage, TypeOK, Entry, Booted
<1>4. CASE InitTail
  <2>1. next' \in [Entry -> Entry \cup {NULL}]
    BY <1>4, Zenon DEF InitTail, TypeOK
  <2> QED
    BY <1>4, <1>a, <2>1 DEF InitTail, TypeOK, Booted
<1>5. CASE GetFreePage
  <2>1. ret' \in Outcome \X Ptr
    <3>1. "oom" \in Outcome /\ "corrupt" \in Outcome /\ "page" \in Outcome
      BY Zenon DEF Outcome
    <3>2. freelist_head # NULL => freelist_head \in Entry
      BY Zenon DEF TypeOK
    <3> QED
      BY <1>5, <1>a, <1>r, <3>1, <3>2 DEF GetFreePage
  <2>2. map_count' \in [Entry -> 0..MaxMapCount]
    BY <1>5, <1>a DEF GetFreePage, TypeOK
  <2>3. next' \in [Entry -> Entry \cup {NULL}] /\ freelist_head' \in Entry \cup {NULL}
    BY <1>5, Zenon DEF GetFreePage, TypeOK
  <2> QED
    BY <1>5, <2>1, <2>2, <2>3, Zenon DEF GetFreePage, TypeOK
<1>6. ASSUME NEW p \in Ptr, ReleasePage(p) PROVE TypeOK'
  <2> DEFINE e == WalkList(p)
  <2>1. e \in Entry \cup {NULL}
    BY WalkListFinds, Zenon
  <2> HIDE DEF e
  <2>2. ret' \in Outcome \X Ptr
    <3>1. "ok" \in Outcome /\ "invalid" \in Outcome /\ "unallocated" \in Outcome
      BY Zenon DEF Outcome
    <3> QED
      BY <1>6, <1>r, <3>1, Zenon
         DEF ReleasePage, ReleaseLast, ReleaseOne, RefuseInvalid, RefuseUnallocated
  <2>3. /\ map_count' \in [Entry -> 0..MaxMapCount]
        /\ next' \in [Entry -> Entry \cup {NULL}]
        /\ freelist_head' \in Entry \cup {NULL}
    <3>1. CASE ReleaseLast(p, e)
      BY <3>1, <2>1, <1>a DEF ReleaseLast, TypeOK
    <3>2. CASE ReleaseOne(p, e)
      BY <3>2, <2>1, <1>a DEF ReleaseOne, TypeOK
    <3>3. CASE RefuseInvalid(p, e) \/ RefuseUnallocated(p, e)
      BY <3>3, Zenon DEF RefuseInvalid, RefuseUnallocated, TypeOK
    <3> QED
      BY <1>6, <3>1, <3>2, <3>3, Zenon DEF ReleasePage, e
  <2> QED
    BY <1>6, <2>2, <2>3, Zenon DEF ReleasePage, TypeOK
<1>7. ASSUME NEW p \in Ptr, IncMapCount(p) PROVE TypeOK'
  <2> DEFINE e == WalkList(p)
  <2>1. e \in Entry \cup {NULL}
    BY WalkListFinds, Zenon
  <2> HIDE DEF e
  <2>2. ret' \in Outcome \X Ptr
    <3>1. "ok" \in Outcome /\ "invalid" \in Outcome /\ "unallocated" \in Outcome
      BY Zenon DEF Outcome
    <3> QED
      BY <1>7, <1>r, <3>1, Zenon DEF IncMapCount, AddMapping, RefuseInvalid, RefuseUnallocated
  <2>3. /\ map_count' \in [Entry -> 0..MaxMapCount]
        /\ next' \in [Entry -> Entry \cup {NULL}]
        /\ freelist_head' \in Entry \cup {NULL}
    <3>1. CASE AddMapping(p, e)
      BY <3>1, <2>1, <1>a DEF AddMapping, TypeOK
    <3>2. CASE RefuseInvalid(p, e) \/ RefuseUnallocated(p, e)
      BY <3>2, Zenon DEF RefuseInvalid, RefuseUnallocated, TypeOK
    <3> QED
      BY <1>7, <3>1, <3>2, Zenon DEF IncMapCount, e
  <2> QED
    BY <1>7, <2>2, <2>3, Zenon DEF IncMapCount, TypeOK
<1>8. CASE UNCHANGED vars
  BY <1>8, Zenon DEF vars, TypeOK
<1> QED
  BY <1>1, <1>2, <1>3, <1>4, <1>5, <1>6, <1>7, <1>8, Zenon DEF Next

\* every step keeps the free list a list of exactly the free pages, and
\* pmap_init's partial list consistent with its loop variables
LEMMA ListInductive == IInv /\ [Next]_vars => Chain' /\ BootInv' /\ NeverCorrupt'
<1> SUFFICES ASSUME IInv, [Next]_vars PROVE Chain' /\ BootInv' /\ NeverCorrupt'
  BY Zenon
<1>t. TypeOK /\ Chain /\ BootInv /\ NeverCorrupt
  BY Zenon DEF IInv
<1>a. EntryCount \in Nat \ {0} /\ j \in 1..Booted /\ Booted = EntryCount + 2
  BY <1>t, PmapAssumption, Zenon DEF TypeOK, Booted
<1>1. CASE InitKernelPage
  <2>1. j \in Entry /\ j # Booted /\ j \notin Free /\ j' = j + 1 /\ NeverCorrupt'
    BY <1>1, <1>a, <1>t DEF InitKernelPage, Free, Entry, NeverCorrupt
  <2>2. Free' = Free
    BY <1>1, <1>a, <1>t, <2>1 DEF InitKernelPage, Free, TypeOK, Entry
  <2>3. \A i \in Free : next'[i] = next[i]
    BY <1>1, <1>t, <2>1, Zenon DEF InitKernelPage, TypeOK, Free
  <2>4. Chain'
    BY <1>1, <1>t, <2>2, <2>3, ChainKept, Zenon DEF InitKernelPage
  <2>5. BootInv'
    <3>1. /\ map_count' = [map_count EXCEPT ![j] = 1] /\ next' = [next EXCEPT ![j] = NULL]
          /\ prev' = prev /\ InKernel(j) /\ DOMAIN map_count = Entry /\ DOMAIN next = Entry
          /\ j \in Nat /\ Entry \subseteq Nat
      BY <1>1, <1>a, <1>t DEF InitKernelPage, TypeOK, Entry
    <3>2. j > 1
      BY <2>1, <3>1, PmapAssumption DEF Entry
    <3>3. prev' \in Free' /\ next'[prev'] = NULL
      BY <1>t, <2>1, <2>2, <2>3, <3>1, <3>2, Zenon DEF BootInv
    <3>4. ASSUME NEW i \in Entry
          PROVE  /\ i >= j' => map_count'[i] = 0 /\ next'[i] = NULL
                 /\ i < j' => map_count'[i] = IF InKernel(i) THEN 1 ELSE 0
      BY <1>t, <2>1, <3>1 DEF BootInv
    <3> QED  BY <3>3, <3>4, Zenon DEF BootInv, InKernel, Booted, Entry
  <2> QED
    BY <2>1, <2>4, <2>5, Zenon
<1>2. CASE InitFirstPage
  <2>1. j = 1 /\ j \in Entry /\ j' = 2 /\ j # Booted /\ Free = {} /\ NeverCorrupt'
    BY <1>2, <1>a, <1>t DEF InitFirstPage, Free, Entry, NeverCorrupt
  <2>2. Free' = {1}
    BY <1>2, <1>a, <1>t, <2>1 DEF InitFirstPage, Free, TypeOK, Entry
  <2>3. next'[1] = NULL /\ freelist_head' = 1 /\ prev' = 1
    BY <1>2, <1>a, <1>t, <2>1 DEF InitFirstPage, BootInv
  <2> DEFINE t == [i \in 1..1 |-> 1]
  <2>4. IsFreeList(t, 1)'
    BY <2>2, <2>3 DEF IsFreeList
  <2>5. Chain'
    BY <2>1, <2>4, Zenon DEF Chain
  <2>6. BootInv'
    BY <1>2, <1>a, <1>t, <2>1, <2>2, <2>3 DEF InitFirstPage, BootInv, TypeOK, Entry
  <2> QED
    BY <2>1, <2>5, <2>6, Zenon
<1>3. CASE InitFreePage
  <2>1. j \in Entry /\ j > 1 /\ j # Booted /\ j \notin Free /\ j' = j + 1 /\ NeverCorrupt'
    BY <1>3, <1>a, <1>t DEF InitFreePage, Free, Entry, NeverCorrupt
  <2>2. prev \in Free /\ next[prev] = NULL /\ next[j] = NULL /\ map_count[j] = 0
    BY <1>a, <1>t, <2>1 DEF BootInv, Entry
  <2>3. Free' = Free \cup {j}
    BY <1>3, <1>a, <1>t, <2>1 DEF InitFreePage, Free, TypeOK, Entry
  <2>4. Chain'
    BY <1>3, <1>t, <2>1, <2>2, <2>3, ChainAppend, Zenon DEF InitFreePage
  <2>5. prev # j /\ prev \in Entry /\ prev < j
    BY <2>1, <2>2, Zenon DEF Free
  <2>6. BootInv'
    BY <1>3, <1>a, <1>t, <2>1, <2>2, <2>3, <2>5
       DEF InitFreePage, BootInv, TypeOK, Entry, NULL
  <2> QED
    BY <2>1, <2>4, <2>6, Zenon
<1>4. CASE InitTail
  <2>1. prev \in Free /\ next[prev] = NULL /\ j > 1 /\ NeverCorrupt'
    BY <1>4, <1>a, <1>t DEF InitTail, BootInv, NeverCorrupt
  <2>2. Free' = Free /\ next' = next
    BY <1>4, <1>a, <1>t, <2>1 DEF InitTail, Free, TypeOK, Entry
  <2>3. Chain'
    BY <1>4, <1>t, <2>2, ChainKept, Zenon DEF InitTail
  <2>4. BootInv'
    BY <1>4, <1>a, Zenon DEF InitTail, BootInv
  <2> QED
    BY <2>1, <2>3, <2>4, Zenon
<1>5. CASE GetFreePage
  <2>1. j = Booted /\ j' = j /\ BootInv'
    BY <1>5, <1>a, Zenon DEF GetFreePage, BootInv
  <2>2. CASE freelist_head = NULL
    <3>1. UNCHANGED <<map_count, next, freelist_head>> /\ NeverCorrupt'
      BY <1>5, <2>2 DEF GetFreePage, NeverCorrupt
    <3>2. Chain'
      BY <1>t, <2>1, <3>1, ChainKept, Zenon DEF Free
    <3> QED
      BY <2>1, <3>1, <3>2, Zenon
  <2>3. CASE freelist_head # NULL
    <3>1. freelist_head \in Free
      <4>1. PICK n \in Nat : \E s \in [1..n -> Entry] : IsFreeList(s, n)
        BY <1>t, Zenon DEF Chain
      <4>2. PICK s \in [1..n -> Entry] : IsFreeList(s, n)
        BY <4>1, Zenon
      <4>3. n # 0 /\ freelist_head = s[1] /\ 1 \in 1..n /\ s[1] \in Entry
        BY <2>3, <4>2 DEF IsFreeList
      <4> QED
        BY <4>2, <4>3, Zenon DEF IsFreeList
    <3>2. map_count[freelist_head] = 0 /\ freelist_head \in Entry
      BY <3>1, Zenon DEF Free
    <3>3. /\ map_count' = [map_count EXCEPT ![freelist_head] = 1]
          /\ freelist_head' = next[freelist_head]
          /\ next' = [next EXCEPT ![freelist_head] = NULL]
          /\ NeverCorrupt'
      BY <1>5, <2>3, <3>2 DEF GetFreePage, NeverCorrupt
    <3>4. Free' = Free \ {freelist_head}
      BY <1>t, <2>1, <3>2, <3>3 DEF Free, TypeOK
    <3>5. Chain'
      BY <1>t, <2>3, <3>3, <3>4, ChainPop, Zenon
    <3> QED
      BY <2>1, <3>3, <3>5, Zenon
  <2> QED
    BY <2>2, <2>3, Zenon
<1>6. ASSUME NEW p \in Ptr, ReleasePage(p) PROVE Chain' /\ BootInv' /\ NeverCorrupt'
  <2> DEFINE e == WalkList(p)
  <2>1. j = Booted /\ j' = j /\ BootInv'
    BY <1>6, <1>a, Zenon DEF ReleasePage, BootInv
  <2>2. NeverCorrupt'
    BY <1>6 DEF ReleasePage, ReleaseLast, ReleaseOne, RefuseInvalid, RefuseUnallocated, NeverCorrupt
  <2>3. e \in Entry \cup {NULL}
    BY WalkListFinds, Zenon
  <2> HIDE DEF e
  <2>4. CASE ReleaseLast(p, e)
    <3>1. e \in Entry /\ map_count[e] = 1
      BY <2>3, <2>4, Zenon DEF ReleaseLast
    <3>2. Free' = Free \cup {e} /\ e \notin Free
      BY <1>t, <1>a, <2>1, <2>4, <3>1 DEF ReleaseLast, Free, TypeOK, Entry
    <3> QED
      BY <1>t, <2>1, <2>2, <2>4, <3>1, <3>2, ChainPush, Zenon DEF ReleaseLast
  <2>5. CASE ReleaseOne(p, e)
    <3>1. e \in Entry /\ map_count[e] > 1
      BY <2>3, <2>5, Zenon DEF ReleaseOne
    <3>2. Free' = Free
      BY <1>t, <2>1, <2>5, <3>1 DEF ReleaseOne, Free, TypeOK
    <3> QED
      BY <1>t, <2>1, <2>2, <2>5, <3>2, ChainKept, Zenon DEF ReleaseOne
  <2>6. CASE RefuseInvalid(p, e) \/ RefuseUnallocated(p, e)
    <3>1. UNCHANGED <<map_count, next, freelist_head>> /\ Free' = Free
      BY <2>1, <2>6, Zenon DEF RefuseInvalid, RefuseUnallocated, Free
    <3> QED
      BY <1>t, <2>1, <2>2, <3>1, ChainKept, Zenon
  <2> QED
    BY <1>6, <2>4, <2>5, <2>6, Zenon DEF ReleasePage, e
<1>7. ASSUME NEW p \in Ptr, IncMapCount(p) PROVE Chain' /\ BootInv' /\ NeverCorrupt'
  <2> DEFINE e == WalkList(p)
  <2>1. j = Booted /\ j' = j /\ BootInv'
    BY <1>7, <1>a, Zenon DEF IncMapCount, BootInv
  <2>2. NeverCorrupt'
    BY <1>7 DEF IncMapCount, AddMapping, RefuseInvalid, RefuseUnallocated, NeverCorrupt
  <2>3. e \in Entry \cup {NULL}
    BY WalkListFinds, Zenon
  <2> HIDE DEF e
  <2>4. CASE AddMapping(p, e)
    <3>1. e \in Entry /\ map_count[e] > 0
      BY <2>3, <2>4 DEF AddMapping
    <3>2. Free' = Free
      BY <1>t, <2>1, <2>4, <3>1 DEF AddMapping, Free, TypeOK
    <3> QED
      BY <1>t, <2>1, <2>2, <2>4, <3>2, ChainKept, Zenon DEF AddMapping
  <2>5. CASE RefuseInvalid(p, e) \/ RefuseUnallocated(p, e)
    <3>1. UNCHANGED <<map_count, next, freelist_head>> /\ Free' = Free
      BY <2>1, <2>5, Zenon DEF RefuseInvalid, RefuseUnallocated, Free
    <3> QED
      BY <1>t, <2>1, <2>2, <3>1, ChainKept, Zenon
  <2> QED
    BY <1>7, <2>4, <2>5, Zenon DEF IncMapCount, e
<1>8. CASE UNCHANGED vars
  <2>1. Free' = Free
    BY <1>8, Zenon DEF vars, Free
  <2>2. Chain'
    BY <1>8, <1>t, <2>1, ChainKept, Zenon DEF vars
  <2>3. BootInv' /\ NeverCorrupt'
    BY <1>8, <1>t, <2>1, Zenon DEF vars, BootInv, NeverCorrupt
  <2> QED
    BY <2>2, <2>3, Zenon
<1> QED
  BY <1>1, <1>2, <1>3, <1>4, <1>5, <1>6, <1>7, <1>8, Zenon DEF Next

\* before pmap_init's first iteration no page is listed and nothing is free
LEMMA InitInv == Init => IInv
<1> SUFFICES ASSUME Init PROVE IInv
  BY Zenon
<1>1. TypeOK
  <2>1. "none" \in Outcome /\ -1 \in Ptr
    BY PmapAssumption, Zenon DEF Outcome
  <2> QED
    BY <2>1, PmapAssumption DEF Init, TypeOK, Entry, Booted, NULL
<1>2. Free = {}
  BY PmapAssumption DEF Init, Free, Entry
<1>3. Chain
  <2> DEFINE s == [i \in 1..0 |-> 1]
  <2>1. s \in [1..0 -> Entry]
    OBVIOUS
  <2>2. IsFreeList(s, 0)
    BY <1>2 DEF IsFreeList, Init
  <2> QED
    BY <2>1, <2>2, Zenon DEF Chain
<1>4. BootInv /\ NeverCorrupt
  BY PmapAssumption DEF Init, BootInv, NeverCorrupt, Entry
<1> QED
  BY <1>1, <1>3, <1>4, Zenon DEF IInv

\* IInv holds in every reachable state
LEMMA Inductive == Spec => []IInv
<1>1. IInv /\ [Next]_vars => IInv'
  BY TypeInductive, ListInductive, Zenon DEF IInv
<1> QED
  BY InitInv, <1>1, PTL DEF Spec

\* a list without repetition of exactly the free pages has as many elements
LEMMA ChainExact == IInv => FreeListExact
<1> SUFFICES ASSUME IInv PROVE FreeListExact
  BY Zenon
<1>0. PICK n \in Nat : \E s \in [1..n -> Entry] : IsFreeList(s, n)
  BY Zenon DEF IInv, Chain
<1>1. PICK s \in [1..n -> Entry] : IsFreeList(s, n)
  BY <1>0, Zenon
<1>2. \A e \in Free : e \in Entry
  BY Zenon DEF Free
<1>3. s \in [1..n -> Free]
  BY <1>1, Zenon DEF IsFreeList
<1>4. s \in Bijection(1..n, Free)
  BY <1>1, <1>2, <1>3, Zenon DEF IsFreeList, Bijection, Injection, Surjection, IsInjective
<1>5. ExistsBijection(1..n, Free)
  BY <1>4, Zenon DEF ExistsBijection
<1>6. Cardinality(Free) = n
  BY <1>5, FS_CountingElements, Zenon
<1> QED
  BY <1>1, <1>3, <1>6, Zenon DEF FreeListExact

-----------------------------------------------------------------------------
(* Results *)

(***************************************************************************)
(* The allocator's variables stay in their types: in particular the head   *)
(* and every next pointer are null or point into list_arr, and map_count   *)
(* is never negative.                                                      *)
(***************************************************************************)
THEOREM TypeCorrect == Spec => []TypeOK
<1>1. IInv => TypeOK
  BY Zenon DEF IInv
<1> QED
  BY Inductive, <1>1, PTL

(***************************************************************************)
(* For every memory map, kernel placement and sequence of calls, the free  *)
(* list built by pmap_init and maintained by get_free_page and             *)
(* release_page holds each page with map_count 0 exactly once, and nothing *)
(* else.                                                                   *)
(***************************************************************************)
THEOREM FreeListCorrect == Spec => []FreeListExact
BY Inductive, ChainExact, PTL

(***************************************************************************)
(* get_free_page never takes its "free page with nonzero map_count"        *)
(* branch.                                                                 *)
(***************************************************************************)
THEOREM HeadIsFree == Spec => []NeverCorrupt
<1>1. IInv => NeverCorrupt
  BY Zenon DEF IInv
<1> QED
  BY Inductive, <1>1, PTL

-----------------------------------------------------------------------------
(* Refinement of PageAlloc *)

Pages == {Base[i] : i \in Entry}

\* the refinement mapping of Pmap!Alloc for the variable count
CountOf ==
  [a \in Pages |-> IF j = Booted THEN map_count[WalkList(a)]
                   ELSE IF InKernel(WalkList(a)) THEN 1 ELSE 0]

\* pages and descriptors correspond
LEMMA PagesAndEntries ==
  /\ \A a \in Pages : a \in Ptr /\ WalkList(a) \in Entry /\ Base[WalkList(a)] = a
  /\ \A i \in Entry : Base[i] \in Pages /\ WalkList(Base[i]) = i
<1>1. ASSUME NEW a \in Pages
      PROVE  a \in Ptr /\ WalkList(a) \in Entry /\ Base[WalkList(a)] = a
  <2>1. PICK i \in Entry : a = Base[i]
    BY Zenon DEF Pages
  <2> QED
    BY <2>1, WalkListBase, Zenon
<1>2. ASSUME NEW i \in Entry
      PROVE  Base[i] \in Pages /\ WalkList(Base[i]) = i
  BY WalkListBase, Zenon DEF Pages
<1> QED
  BY <1>1, <1>2, Zenon

\* a call that updates one descriptor's map_count updates one page's count
LEMMA CountUpdate ==
  ASSUME j = Booted, j' = j, TypeOK, NEW e \in Entry, NEW v,
         map_count' = [map_count EXCEPT ![e] = v]
  PROVE  /\ CountOf' = [CountOf EXCEPT ![Base[e]] = v]
         /\ CountOf[Base[e]] = map_count[e]
<1>1. \A a \in Pages : WalkList(a) \in Entry /\ (WalkList(a) = e <=> a = Base[e])
  BY PagesAndEntries, Zenon
<1>2. CountOf = [a \in Pages |-> map_count[WalkList(a)]]
  BY Zenon DEF CountOf
<1>3. CountOf' = [a \in Pages |-> map_count'[WalkList(a)]]
  BY DEF CountOf
<1>4. \A a \in Pages : map_count'[WalkList(a)] = IF a = Base[e] THEN v ELSE map_count[WalkList(a)]
  BY <1>1, Zenon DEF TypeOK
<1> QED
  BY <1>2, <1>3, <1>4, PagesAndEntries, Zenon

\* pmap_init's initial state maps to PageAlloc's
LEMMA RefineInit == Init => Alloc!Init
<1> SUFFICES ASSUME Init PROVE Alloc!Init
  BY Zenon
<1> DEFINE K == {Base[i] : i \in {k \in Entry : InKernel(k)}}
<1>1. j # Booted
  BY PmapAssumption DEF Init, Booted
<1>2. \A a \in Pages : InKernel(WalkList(a)) <=> a \in K
  <2> SUFFICES ASSUME NEW a \in Pages PROVE InKernel(WalkList(a)) <=> a \in K
    BY Zenon
  <2>1. WalkList(a) \in Entry /\ Base[WalkList(a)] = a
    BY PagesAndEntries, Zenon
  <2>2. ASSUME a \in K PROVE InKernel(WalkList(a))
    <3>1. PICK i \in {k \in Entry : InKernel(k)} : a = Base[i]
      BY <2>2, Zenon
    <3> QED
      BY <3>1, PagesAndEntries, Zenon
  <2>3. ASSUME InKernel(WalkList(a)) PROVE a \in K
    BY <2>1, <2>3, Zenon
  <2> QED
    BY <2>2, <2>3, Zenon
<1>3. CountOf = [a \in Pages |-> IF a \in K THEN 1 ELSE 0]
  BY <1>1, <1>2, Zenon DEF CountOf
<1> QED
  BY <1>3, Zenon DEF Init, Alloc!Init, CountOf, Pages

\* every step of pmap.c maps to a step of PageAlloc or leaves it unchanged
LEMMA RefineStep == IInv /\ [Next]_vars => [Alloc!Next]_(Alloc!vars)
<1> SUFFICES ASSUME IInv, [Next]_vars PROVE [Alloc!Next]_(Alloc!vars)
  BY Zenon
<1>t. TypeOK /\ Chain /\ BootInv
  BY Zenon DEF IInv
<1>a. EntryCount \in Nat \ {0} /\ Booted = EntryCount + 2
  BY PmapAssumption, Zenon DEF Booted
<1>s. ASSUME CountOf' = CountOf, ret' = ret PROVE Alloc!vars' = Alloc!vars
  BY <1>s, Zenon DEF Alloc!vars, CountOf, Pages
<1>g. ASSUME NEW a \in Pages, CountOf[a] = 0,
             CountOf' = [CountOf EXCEPT ![a] = 1], ret' = <<"page", a>>
      PROVE  Alloc!Get
  BY <1>g, Zenon DEF Alloc!Get, CountOf, Pages
<1>1. CASE InitKernelPage \/ InitFirstPage \/ InitFreePage
  <2>1. j # Booted /\ j' # Booted /\ ret' = ret
    BY <1>1, <1>a DEF InitKernelPage, InitFirstPage, InitFreePage, Entry
  <2>2. CountOf' = CountOf
    BY <2>1, Zenon DEF CountOf
  <2> QED
    BY <2>1, <2>2, <1>s, Zenon
<1>2. CASE InitTail
  <2>1. j # Booted /\ j' = Booted /\ ret' = ret /\ map_count' = map_count
    BY <1>2, <1>a DEF InitTail
  <2>2. \A i \in Entry : map_count[i] = IF InKernel(i) THEN 1 ELSE 0
    BY <1>2, <1>a, <1>t DEF InitTail, BootInv, Entry
  <2>3. CountOf' = CountOf
    BY <2>1, <2>2, PagesAndEntries, Zenon DEF CountOf
  <2> QED
    BY <2>1, <2>3, <1>s, Zenon
<1>3. CASE GetFreePage
  <2>1. j = Booted /\ j' = j
    BY <1>3, Zenon DEF GetFreePage
  <2>2. CASE freelist_head = NULL
    <3>1. Free = {}
      <4>1. PICK n \in Nat : \E s \in [1..n -> Entry] : IsFreeList(s, n)
        BY <1>t, Zenon DEF Chain
      <4>2. PICK s \in [1..n -> Entry] : IsFreeList(s, n)
        BY <4>1, Zenon
      <4>3. n = 0
        BY <4>2, <2>2, PmapAssumption DEF IsFreeList, Entry, NULL
      <4> QED
        BY <4>2, <4>3 DEF IsFreeList, Free
    <3>2. \A i \in Entry : map_count[i] # 0
      BY <3>1, <2>1, <1>a DEF Free, Entry
    <3>3. \A a \in Pages : CountOf[a] # 0
      BY <3>2, <2>1, PagesAndEntries, Zenon DEF CountOf
    <3>4. ret' = <<"oom", -1>> /\ CountOf' = CountOf
      BY <1>3, <2>1, <2>2, Zenon DEF GetFreePage, CountOf
    <3>5. Alloc!Get
      BY <3>3, <3>4, Zenon DEF Alloc!Get, CountOf, Pages
    <3> QED
      BY <3>5, Zenon DEF Alloc!Next
  <2>3. CASE freelist_head # NULL
    <3>1. freelist_head \in Entry /\ map_count[freelist_head] = 0
      <4>1. PICK n \in Nat : \E s \in [1..n -> Entry] : IsFreeList(s, n)
        BY <1>t, Zenon DEF Chain
      <4>2. PICK s \in [1..n -> Entry] : IsFreeList(s, n)
        BY <4>1, Zenon
      <4>3. n # 0 /\ freelist_head = s[1] /\ 1 \in 1..n /\ s[1] \in Entry
        BY <2>3, <4>2 DEF IsFreeList
      <4>4. freelist_head \in Free
        BY <4>2, <4>3, Zenon DEF IsFreeList
      <4> QED
        BY <4>4, Zenon DEF Free
    <3>2. /\ map_count' = [map_count EXCEPT ![freelist_head] = 1]
          /\ ret' = <<"page", Base[freelist_head]>>
      BY <1>3, <2>3, <3>1, Zenon DEF GetFreePage
    <3>3. /\ CountOf' = [CountOf EXCEPT ![Base[freelist_head]] = 1]
          /\ CountOf[Base[freelist_head]] = 0
      BY <1>t, <2>1, <3>1, <3>2, CountUpdate, Zenon
    <3>4. Alloc!Get
      BY <1>g, <3>1, <3>2, <3>3, PagesAndEntries, Zenon
    <3> QED
      BY <3>4, Zenon DEF Alloc!Next
  <2> QED
    BY <2>2, <2>3, Zenon
<1>4. ASSUME NEW p \in Ptr, ReleasePage(p) PROVE Alloc!Release(p)
  <2> DEFINE e == WalkList(p)
  <2>1. j = Booted /\ j' = j
    BY <1>4, Zenon DEF ReleasePage
  <2>2. /\ e = NULL => p \notin Pages
        /\ e # NULL => e \in Entry /\ Base[e] = p /\ p \in Pages
    BY WalkListFinds, Zenon DEF Pages
  <2>3. e # NULL => CountOf[p] = map_count[e] /\ map_count[e] \in Nat
    BY <2>1, <2>2, <1>t DEF CountOf, TypeOK
  <2> HIDE DEF e
  <2>4. CASE ReleaseLast(p, e) \/ ReleaseOne(p, e)
    <3>1. e # NULL /\ map_count' = [map_count EXCEPT ![e] = map_count[e] - 1]
          /\ ret' = <<"ok", p>> /\ map_count[e] > 0
      <4>1. CASE ReleaseLast(p, e)
        <5>1. map_count[e] = 1 /\ map_count[e] - 1 = 0
          BY <4>1 DEF ReleaseLast
        <5> QED
          BY <4>1, <5>1 DEF ReleaseLast
      <4>2. CASE ReleaseOne(p, e)
        BY <4>2, <2>3 DEF ReleaseOne
      <4> QED
        BY <2>4, <4>1, <4>2, Zenon
    <3>2. CountOf' = [CountOf EXCEPT ![p] = CountOf[p] - 1]
      BY <1>t, <2>1, <2>2, <2>3, <3>1, CountUpdate, Zenon
    <3> QED
      BY <2>2, <2>3, <3>1, <3>2, Zenon DEF Alloc!Release, CountOf, Pages
  <2>5. CASE RefuseInvalid(p, e)
    <3>1. CountOf' = CountOf /\ p \notin Pages /\ ret' = <<"invalid", p>>
      BY <2>1, <2>2, <2>5, Zenon DEF RefuseInvalid, CountOf
    <3> QED
      BY <3>1, Zenon DEF Alloc!Release, CountOf, Pages
  <2>6. CASE RefuseUnallocated(p, e)
    <3>1. CountOf' = CountOf /\ p \in Pages /\ CountOf[p] = 0 /\ ret' = <<"unallocated", p>>
      BY <2>1, <2>2, <2>3, <2>6, Zenon DEF RefuseUnallocated, CountOf
    <3> QED
      BY <3>1, Zenon DEF Alloc!Release, CountOf, Pages
  <2> QED
    BY <1>4, <2>4, <2>5, <2>6, Zenon DEF ReleasePage, e
<1>5. ASSUME NEW p \in Ptr, IncMapCount(p) PROVE Alloc!Increment(p)
  <2> DEFINE e == WalkList(p)
  <2>1. j = Booted /\ j' = j
    BY <1>5, Zenon DEF IncMapCount
  <2>2. /\ e = NULL => p \notin Pages
        /\ e # NULL => e \in Entry /\ Base[e] = p /\ p \in Pages
    BY WalkListFinds, Zenon DEF Pages
  <2>3. e # NULL => CountOf[p] = map_count[e]
    BY <2>1, <2>2, Zenon DEF CountOf
  <2> HIDE DEF e
  <2>4. CASE AddMapping(p, e)
    <3>1. e # NULL /\ map_count' = [map_count EXCEPT ![e] = map_count[e] + 1]
          /\ ret' = <<"ok", p>> /\ map_count[e] \in 1..(MaxMapCount - 1)
      BY <2>4, Zenon DEF AddMapping
    <3>2. CountOf' = [CountOf EXCEPT ![p] = CountOf[p] + 1]
      BY <1>t, <2>1, <2>2, <2>3, <3>1, CountUpdate, Zenon
    <3> QED
      BY <2>2, <2>3, <3>1, <3>2, Zenon DEF Alloc!Increment, CountOf, Pages
  <2>5. CASE RefuseInvalid(p, e)
    <3>1. CountOf' = CountOf /\ p \notin Pages /\ ret' = <<"invalid", p>>
      BY <2>1, <2>2, <2>5, Zenon DEF RefuseInvalid, CountOf
    <3> QED
      BY <3>1, Zenon DEF Alloc!Increment, CountOf, Pages
  <2>6. CASE RefuseUnallocated(p, e)
    <3>1. CountOf' = CountOf /\ p \in Pages /\ CountOf[p] = 0 /\ ret' = <<"unallocated", p>>
      BY <2>1, <2>2, <2>3, <2>6, Zenon DEF RefuseUnallocated, CountOf
    <3> QED
      BY <3>1, Zenon DEF Alloc!Increment, CountOf, Pages
  <2> QED
    BY <1>5, <2>4, <2>5, <2>6, Zenon DEF IncMapCount, e
<1>6. CASE UNCHANGED vars
  <2>1. CountOf' = CountOf /\ ret' = ret
    BY <1>6, Zenon DEF vars, CountOf
  <2> QED
    BY <2>1, <1>s, Zenon
<1> QED
  BY <1>1, <1>2, <1>3, <1>4, <1>5, <1>6, Zenon DEF Next, Alloc!Next

(***************************************************************************)
(* The descriptor array of pmap.c implements the abstract allocator: an    *)
(* allocation fails only when every page is in use, and otherwise returns  *)
(* a page with no mapping, for every number of pages and every caller.     *)
(***************************************************************************)
THEOREM RefinesPageAlloc == Spec => ImplementsPageAlloc
<1>1. Spec => Init /\ [][Next]_vars /\ []IInv
  BY Inductive, Zenon DEF Spec
<1> QED
  BY <1>1, RefineInit, RefineStep, PTL DEF ImplementsPageAlloc, Alloc!Spec

-----------------------------------------------------------------------------
(* The heap of a program *)

\* MALIGN_UP goes past its argument, by at most MALIGN
LEMMA MalignUpAbove ==
  ASSUME NEW x \in Nat
  PROVE  MalignUp(x) \in Nat /\ x < MalignUp(x) /\ MalignUp(x) <= x + Malign
<1>1. Malign \in Nat /\ Malign > 0
  BY MallocAssumption
<1>2. x % Malign \in 0..(Malign - 1)
  BY <1>1
<1> QED  BY <1>1, <1>2 DEF MalignUp

\* ALIGN_UP does not go below its argument, nor past a page boundary above it
LEMMA AlignUpBounds ==
  ASSUME NEW x \in Nat, x > 0, x <= StackEnd
  PROVE  AlignUp(x) \in Nat /\ x <= AlignUp(x) /\ AlignUp(x) <= StackEnd
<1> DEFINE P == PageSize
           q == (x - 1) \div P
           r == (x - 1) % P
           s == StackEnd \div P
<1>1. P \in Nat /\ P > 0 /\ StackEnd \in Nat /\ StackEnd % P = 0
  BY MallocAssumption
<1>2. x - 1 \in Nat
  OBVIOUS
<1>3. q \in Int /\ r \in 0..(P - 1) /\ x - 1 = P * q + r
  BY <1>1, <1>2, Z3
<1>4. s \in Int /\ StackEnd = P * s
  BY <1>1, Z3
<1>5. AlignUp(x) = P * q + P
  BY <1>1, <1>3 DEF AlignUp
<1>6. q < s
  <2> SUFFICES ASSUME s <= q PROVE FALSE
    BY <1>3, <1>4
  <2>1. q - s \in Nat /\ P * (q - s) \in Nat
    BY <1>1, <1>3, <1>4, Z3
  <2>2. P * q = P * s + P * (q - s)
    BY <1>1, <1>3, <1>4, Z3
  <2> QED  BY <1>1, <1>2, <1>3, <1>4, <2>1, <2>2
<1>7. s - q - 1 \in Nat /\ P * (s - q - 1) \in Nat
  BY <1>1, <1>3, <1>4, <1>6, Z3
<1>8. P * s = P * q + P + P * (s - q - 1)
  BY <1>1, <1>3, <1>4, Z3
<1>9. P * q \in Int
  BY <1>1, <1>3
<1> HIDE DEF P, q, r, s
<1> QED  BY <1>1, <1>2, <1>3, <1>4, <1>5, <1>7, <1>8, <1>9

-----------------------------------------------------------------------------

\* The invariant behind the theorems: blocks lie in order below the break
HeapInv ==
  /\ HeapTypeOK
  /\ HeapStart <= brk
  /\ BlocksDisjoint
  /\ \A i \in DOMAIN blocks : HeapStart <= blocks[i].addr /\ End(blocks[i]) <= brk
  /\ vm_end <= StackEnd
  /\ brk < StackEnd => brk <= vm_end

\* The invariant of the block list holds of an empty heap
LEMMA InitHeap == HeapInit => HeapInv
<1> SUFFICES ASSUME HeapInit PROVE HeapInv
  BY Zenon
<1>1. blocks = <<>> /\ DOMAIN blocks = {}
  BY DEF HeapInit
<1> QED  BY <1>1, MallocAssumption DEF HeapInit, BrkInit, HeapInv, HeapTypeOK, BlocksDisjoint

\* sys_brk moves the break up only, and the vma stays below the stack and, below
\* it, above the break
LEMMA SysBrkKeeps ==
  ASSUME HeapInv, NEW p \in Nat, SysBrk(p)
  PROVE  /\ brk' \in Nat /\ vm_end' \in Nat
         /\ brk <= brk' /\ (p > brk => brk' = p)
         /\ vm_end' <= StackEnd
         /\ brk' < StackEnd => brk' <= vm_end'
<1>1. brk \in Nat /\ vm_end \in Nat /\ StackEnd \in Nat
  BY MallocAssumption, Zenon DEF HeapInv, HeapTypeOK
<1>2. CASE p > brk /\ p > vm_end /\ p < StackEnd
  BY <1>1, <1>2, AlignUpBounds DEF SysBrk
<1>3. CASE p > brk /\ ~(p > vm_end /\ p < StackEnd)
  BY <1>1, <1>3 DEF SysBrk, HeapInv
<1>4. CASE ~(p > brk)
  BY <1>1, <1>4 DEF SysBrk, HeapInv
<1> QED  BY <1>2, <1>3, <1>4, Zenon

\* blocks are records of the right type, with an end
LEMMA BlockTypes ==
  ASSUME HeapTypeOK
  PROVE  \A k \in DOMAIN blocks :
           /\ blocks[k] \in [addr : Nat, size : Nat, free : BOOLEAN]
           /\ blocks[k].addr \in Nat /\ blocks[k].size \in Nat /\ blocks[k].free \in BOOLEAN
           /\ End(blocks[k]) \in Nat
<1> SUFFICES ASSUME NEW k \in DOMAIN blocks
             PROVE  /\ blocks[k] \in [addr : Nat, size : Nat, free : BOOLEAN]
                    /\ blocks[k].addr \in Nat /\ blocks[k].size \in Nat /\ blocks[k].free \in BOOLEAN
                    /\ End(blocks[k]) \in Nat
  BY Zenon
<1> DEFINE B == [addr : Nat, size : Nat, free : BOOLEAN]
<1>1. blocks[k] \in B
  <2>1. blocks \in Seq(B)
    BY Zenon DEF HeapTypeOK
  <2> HIDE DEF B
  <2> QED  BY <2>1
<1>2. MetaSize \in Nat
  BY MallocAssumption, Zenon
<1>3. blocks[k].addr \in Nat /\ blocks[k].size \in Nat /\ blocks[k].free \in BOOLEAN
  BY <1>1, Zenon
<1> QED  BY <1>1, <1>2, <1>3 DEF End

\* marking a block free or in use moves no block
LEMMA MarkKeeps ==
  ASSUME HeapTypeOK, NEW i \in DOMAIN blocks, NEW v \in BOOLEAN,
         blocks' = [blocks EXCEPT ![i].free = v]
  PROVE  /\ blocks' \in Seq([addr : Nat, size : Nat, free : BOOLEAN])
         /\ Len(blocks') = Len(blocks) /\ DOMAIN blocks' = DOMAIN blocks
         /\ \A k \in DOMAIN blocks : /\ blocks'[k].addr = blocks[k].addr
                                     /\ blocks'[k].size = blocks[k].size
                                     /\ blocks'[k].free = IF k = i THEN v ELSE blocks[k].free
<1> DEFINE B == [addr : Nat, size : Nat, free : BOOLEAN]
           b == [blocks[i] EXCEPT !.free = v]
<1>1. blocks[i] \in B
  BY BlockTypes, Zenon
<1>2. b \in B /\ b.addr = blocks[i].addr /\ b.size = blocks[i].size /\ b.free = v
  BY <1>1, Zenon
<1>3. blocks' = [blocks EXCEPT ![i] = b]
  BY Zenon
<1> HIDE DEF b
<1>4. blocks \in Seq(B)
  BY Zenon DEF HeapTypeOK
<1>5. blocks' \in Seq(B) /\ Len(blocks') = Len(blocks) /\ DOMAIN blocks' = DOMAIN blocks
  <2>1. b \in B
    BY <1>2, Zenon
  <2> HIDE DEF B
  <2> QED  BY <2>1, <1>3, <1>4
<1> QED  BY <1>2, <1>3, <1>4, <1>5, Zenon

\* a new block starts at the old break and ends below the new one
LEMMA GrowPlaces ==
  ASSUME HeapInv, NEW n \in Requests, Sbrk(n + MetaSize)
  PROVE  /\ brk' \in Nat /\ vm_end' \in Nat
         /\ brk <= brk'
         /\ Mapped(brk) => brk + MetaSize + n <= brk'
         /\ vm_end' <= StackEnd
         /\ brk' < StackEnd => brk' <= vm_end'
<1> DEFINE x == (brk + (n + MetaSize)) % AddrMod
<1>1. /\ brk \in Nat /\ n \in Nat /\ MetaSize \in Nat /\ AddrMod \in Nat /\ AddrMod > 0
      /\ StackEnd \in Nat /\ StackTop \in Nat /\ Malign \in Nat /\ StackEnd < StackTop
      /\ StackTop + n + MetaSize + Malign < AddrMod
  BY MallocAssumption DEF HeapInv, HeapTypeOK
<1>2. x \in Nat
  BY <1>1
<1>3. SysBrk(MalignUp(x))
  BY Zenon DEF Sbrk
<1>4. MalignUp(x) \in Nat /\ x < MalignUp(x)
  BY <1>2, MalignUpAbove, Zenon
<1>5. /\ brk' \in Nat /\ vm_end' \in Nat
      /\ brk <= brk' /\ (MalignUp(x) > brk => brk' = MalignUp(x))
      /\ vm_end' <= StackEnd
      /\ brk' < StackEnd => brk' <= vm_end'
  BY <1>3, <1>4, SysBrkKeeps, Zenon
<1>6. ASSUME Mapped(brk) PROVE brk + MetaSize + n <= brk'
  <2>1. brk < StackTop
    BY <1>1, <1>5, <1>6 DEF Mapped
  <2>2. x = brk + (n + MetaSize)
    BY <1>1, <2>1
  <2> HIDE DEF x
  <2> QED  BY <1>1, <1>4, <1>5, <2>2
<1> QED  BY <1>5, <1>6, Zenon

\* malloc, free and the growth of the heap keep the invariant of the block list
LEMMA HeapInductive == HeapInv /\ [HeapNext]_heapVars => HeapInv'
<1> SUFFICES ASSUME HeapInv, [HeapNext]_heapVars PROVE HeapInv'
  BY Zenon
<1> DEFINE B == [addr : Nat, size : Nat, free : BOOLEAN]
<1>1. /\ blocks \in Seq(B) /\ Len(blocks) <= MaxBlocks
      /\ brk \in Nat /\ vm_end \in Nat /\ running \in BOOLEAN /\ asked \in Nat
      /\ HeapStart \in Nat /\ MetaSize \in Nat /\ Requests \subseteq Nat /\ MaxBlocks \in Nat
  BY MallocAssumption, Zenon DEF HeapInv, HeapTypeOK
<1>2. ASSUME NEW n \in Requests, MallocReuse(n) PROVE HeapInv'
  <2>1. PICK i \in DOMAIN blocks : blocks' = [blocks EXCEPT ![i].free = FALSE]
    BY <1>2, Zenon DEF MallocReuse
  <2>2. /\ blocks' \in Seq(B) /\ Len(blocks') = Len(blocks) /\ DOMAIN blocks' = DOMAIN blocks
        /\ \A k \in DOMAIN blocks : blocks'[k].addr = blocks[k].addr /\ blocks'[k].size = blocks[k].size
    BY <2>1, MarkKeeps, Zenon DEF HeapInv
  <2>3. UNCHANGED <<brk, vm_end, running>> /\ asked' \in Nat
    BY <1>1, <1>2, Zenon DEF MallocReuse
  <2> QED  BY <1>1, <2>2, <2>3, Zenon DEF HeapInv, HeapTypeOK, BlocksDisjoint, End
<1>3. ASSUME NEW n \in Requests, MallocGrow(n) PROVE HeapInv'
  <2>1. /\ Sbrk(n + MetaSize) /\ Len(blocks) < MaxBlocks
        /\ running' = Mapped(brk) /\ asked' = n
        /\ blocks' = IF running' THEN Append(blocks, [addr |-> brk, size |-> n, free |-> FALSE])
                     ELSE blocks
    BY <1>3, Zenon DEF MallocGrow
  <2>2. /\ brk' \in Nat /\ vm_end' \in Nat
        /\ brk <= brk'
        /\ Mapped(brk) => brk + MetaSize + n <= brk'
        /\ vm_end' <= StackEnd
        /\ brk' < StackEnd => brk' <= vm_end'
    BY <2>1, GrowPlaces, Zenon
  <2>3. running' \in BOOLEAN /\ asked' \in Nat
    BY <1>1, <2>1, Zenon DEF Mapped
  <2>4. CASE running'
    <3> DEFINE b == [addr |-> brk, size |-> n, free |-> FALSE]
    <3>1. /\ b \in B /\ b.addr = brk /\ b.size = n
          /\ blocks' = Append(blocks, b) /\ Mapped(brk)
      BY <1>1, <2>1, <2>4, Zenon
    <3>2. /\ blocks' \in Seq(B) /\ Len(blocks') = Len(blocks) + 1
          /\ DOMAIN blocks = 1..Len(blocks) /\ DOMAIN blocks' = 1..(Len(blocks) + 1)
          /\ \A k \in DOMAIN blocks : blocks'[k] = blocks[k]
          /\ blocks'[Len(blocks) + 1] = b
      BY <1>1, <3>1
    <3>3. \A k \in DOMAIN blocks : /\ blocks[k].addr \in Nat /\ blocks[k].size \in Nat
                                  /\ HeapStart <= blocks[k].addr /\ End(blocks[k]) <= brk
                                  /\ End(blocks[k]) \in Nat
      BY BlockTypes, Zenon DEF HeapInv
    <3>4. End(b) <= brk' /\ End(b) \in Nat /\ HeapStart <= b.addr
      BY <1>1, <2>2, <3>1 DEF End, HeapInv
    <3> HIDE DEF b
    <3>5. BlocksDisjoint'
      <4> SUFFICES ASSUME NEW i \in DOMAIN blocks', NEW k \in DOMAIN blocks', i < k
                   PROVE  End(blocks'[i]) <= blocks'[k].addr
        BY Zenon DEF BlocksDisjoint, End
      <4>1. Len(blocks) \in Nat
        BY <1>1
      <4> HIDE DEF B
      <4>2. i \in DOMAIN blocks /\ blocks'[i] = blocks[i] /\ (k \in DOMAIN blocks \/ k = Len(blocks) + 1)
        BY <3>2, <4>1
      <4>3. CASE k \in DOMAIN blocks
        <5>1. End(blocks[i]) <= blocks[k].addr
          BY <4>2, <4>3, Zenon DEF HeapInv, BlocksDisjoint
        <5> QED  BY <3>2, <4>2, <4>3, <5>1, Zenon
      <4>4. CASE k = Len(blocks) + 1
        BY <3>1, <3>2, <3>3, <4>2, <4>4, Zenon
      <4> QED  BY <4>2, <4>3, <4>4, Zenon
    <3>6. \A k \in DOMAIN blocks' : HeapStart <= blocks'[k].addr /\ End(blocks'[k]) <= brk'
      <4> SUFFICES ASSUME NEW k \in DOMAIN blocks'
                   PROVE HeapStart <= blocks'[k].addr /\ End(blocks'[k]) <= brk'
        BY Zenon
      <4>1. CASE k \in DOMAIN blocks
        <5>1. HeapStart <= blocks[k].addr /\ End(blocks[k]) <= brk /\ End(blocks[k]) \in Nat
          BY <3>3, <4>1, Zenon
        <5>2. blocks'[k] = blocks[k]
          BY <3>2, <4>1, Zenon
        <5> QED  BY <1>1, <2>2, <5>1, <5>2
      <4>2. CASE k = Len(blocks) + 1
        BY <3>2, <3>4, <4>2, Zenon
      <4> QED  BY <1>1, <3>2, <4>1, <4>2
    <3>7. Len(blocks') <= MaxBlocks /\ HeapStart <= brk'
      BY <1>1, <2>1, <2>2, <3>2 DEF HeapInv
    <3>8. HeapTypeOK'
      BY <2>2, <2>3, <3>2, <3>7, Zenon DEF HeapTypeOK
    <3> QED  BY <2>2, <3>5, <3>6, <3>7, <3>8, Zenon DEF HeapInv, End
  <2>5. CASE ~running'
    <3>1. blocks' = blocks
      BY <2>1, <2>5, Zenon
    <3>2. \A k \in DOMAIN blocks : HeapStart <= blocks[k].addr /\ End(blocks[k]) <= brk'
      BY <1>1, <2>2, BlockTypes DEF HeapInv
    <3>3. HeapStart <= brk'
      BY <1>1, <2>2 DEF HeapInv
    <3> QED  BY <1>1, <2>2, <2>3, <3>1, <3>2, <3>3, Zenon DEF HeapInv, HeapTypeOK, BlocksDisjoint, End
  <2> QED  BY <2>4, <2>5, Zenon
<1>4. ASSUME NEW i \in DOMAIN blocks, FreeBlock(i) PROVE HeapInv'
  <2>1. /\ blocks' = [blocks EXCEPT ![i].free = TRUE]
        /\ running' = ~blocks[i].free /\ UNCHANGED <<brk, vm_end, asked>>
    BY <1>4, Zenon DEF FreeBlock
  <2>2. /\ blocks' \in Seq(B) /\ Len(blocks') = Len(blocks) /\ DOMAIN blocks' = DOMAIN blocks
        /\ \A k \in DOMAIN blocks : blocks'[k].addr = blocks[k].addr /\ blocks'[k].size = blocks[k].size
    BY <2>1, MarkKeeps, Zenon DEF HeapInv
  <2>3. running' \in BOOLEAN
    BY <2>1, BlockTypes, Zenon DEF HeapInv
  <2>4. \A k \in DOMAIN blocks : End(blocks'[k]) = End(blocks[k]) /\ blocks'[k].addr = blocks[k].addr
    BY <2>2, Zenon DEF End
  <2>5. BlocksDisjoint'
    <3> SUFFICES ASSUME NEW m \in DOMAIN blocks, NEW k \in DOMAIN blocks, m < k
                 PROVE  End(blocks'[m]) <= blocks'[k].addr
      BY <2>2, Zenon DEF BlocksDisjoint, End
    <3>1. End(blocks[m]) <= blocks[k].addr
      BY Zenon DEF HeapInv, BlocksDisjoint
    <3> QED  BY <2>4, <3>1, Zenon
  <2>6. \A k \in DOMAIN blocks' : HeapStart <= blocks'[k].addr /\ End(blocks'[k]) <= brk
    BY <2>2, <2>4, Zenon DEF HeapInv
  <2>7. HeapTypeOK'
    <3>1. /\ blocks' \in Seq(B) /\ Len(blocks') <= MaxBlocks
          /\ brk' \in Nat /\ vm_end' \in Nat /\ asked' \in Nat
      <4> HIDE DEF B
      <4> QED  BY <1>1, <2>1, <2>2, Zenon
    <3> QED  BY <2>3, <3>1, Zenon DEF HeapTypeOK
  <2> HIDE DEF B
  <2> QED  BY <2>1, <2>5, <2>6, <2>7, Zenon DEF HeapInv, End
<1>5. CASE UNCHANGED heapVars
  BY <1>5, Zenon DEF heapVars, HeapInv, HeapTypeOK, BlocksDisjoint, End
<1> QED  BY <1>2, <1>3, <1>4, <1>5, Zenon DEF HeapNext

\* malloc never gives out overlapping blocks, also after a break that sys_brk refused
THEOREM Disjoint == HeapSpec => []BlocksDisjoint
<1>1. HeapInv => BlocksDisjoint
  BY Zenon DEF HeapInv
<1> QED  BY <1>1, InitHeap, HeapInductive, PTL DEF HeapSpec

\* the heap's vma stays below the stack's and, until sys_brk refuses, holds all blocks
THEOREM InHeap == HeapSpec => []BlocksInHeap
<1>1. HeapInv => BlocksInHeap
  <2> SUFFICES ASSUME HeapInv PROVE BlocksInHeap
    BY Zenon
  <2>1. /\ brk \in Nat /\ vm_end \in Nat
        /\ \A i \in DOMAIN blocks : End(blocks[i]) \in Nat
    BY BlockTypes, Zenon DEF HeapInv, HeapTypeOK
  <2> QED  BY <2>1, MallocAssumption DEF HeapInv, BlocksInHeap
<1> QED  BY <1>1, InitHeap, HeapInductive, PTL DEF HeapSpec

-----------------------------------------------------------------------------
(* The refinement of Allocator *)

\* what the program holds of block k
Held(k) == [from |-> blocks[k].addr + MetaSize, size |-> blocks[k].size]

\* What the program holds of a block: its bytes behind the metadata
LEMMA HeldFields ==
  ASSUME HeapTypeOK
  PROVE  \A k \in DOMAIN blocks :
           /\ Held(k).from = blocks[k].addr + MetaSize /\ Held(k).size = blocks[k].size
           /\ Held(k).from \in Nat /\ Held(k).size \in Nat
  BY BlockTypes, MallocAssumption DEF Held

\* distinct blocks give the program distinct and disjoint memory
LEMMA HeldApart ==
  ASSUME HeapInv, NEW i \in DOMAIN blocks, NEW k \in DOMAIN blocks, i # k
  PROVE  Held(i).from # Held(k).from /\ A!Apart(Held(i), Held(k))
<1>1. /\ blocks[i].addr \in Nat /\ blocks[i].size \in Nat
      /\ blocks[k].addr \in Nat /\ blocks[k].size \in Nat
  BY BlockTypes, Zenon DEF HeapInv
<1>2. MetaSize \in Nat /\ MetaSize > 0
  BY MallocAssumption
<1>3. i < k \/ k < i
  BY DEF HeapInv, HeapTypeOK
<1>4. \/ blocks[i].addr + MetaSize + blocks[i].size <= blocks[k].addr
      \/ blocks[k].addr + MetaSize + blocks[k].size <= blocks[i].addr
  BY <1>3, Zenon DEF HeapInv, BlocksDisjoint, End
<1>5. /\ Held(i).from = blocks[i].addr + MetaSize /\ Held(i).size = blocks[i].size
      /\ Held(k).from = blocks[k].addr + MetaSize /\ Held(k).size = blocks[k].size
  BY HeldFields, Zenon DEF HeapInv
<1> QED  BY <1>1, <1>2, <1>4, <1>5 DEF A!Apart

\* The memory in use is that of the blocks that are not free
LEMMA InUseHeld ==
  /\ \A k \in DOMAIN blocks : ~blocks[k].free => Held(k) \in InUse
  /\ \A d \in InUse : \E k \in DOMAIN blocks : ~blocks[k].free /\ d = Held(k)
  BY Zenon DEF InUse, Held

\* Reusing a free block is an allocation of bytes nobody has
LEMMA ReuseRefines ==
  ASSUME HeapInv, NEW n \in Requests, MallocReuse(n)
  PROVE  A!Malloc(n)
<1>1. PICK i \in DOMAIN blocks : Fits(i, n) /\ blocks' = [blocks EXCEPT ![i].free = FALSE]
  BY Zenon DEF MallocReuse
<1>2. /\ DOMAIN blocks' = DOMAIN blocks
      /\ \A k \in DOMAIN blocks : /\ blocks'[k].addr = blocks[k].addr
                                  /\ blocks'[k].size = blocks[k].size
                                  /\ blocks'[k].free = IF k = i THEN FALSE ELSE blocks[k].free
  BY <1>1, MarkKeeps, Zenon DEF HeapInv
<1>3. \A d \in InUse : d.from # Held(i).from /\ A!Apart(Held(i), d)
  <2> SUFFICES ASSUME NEW d \in InUse PROVE d.from # Held(i).from /\ A!Apart(Held(i), d)
    BY Zenon
  <2>1. PICK k \in DOMAIN blocks : ~blocks[k].free /\ d = Held(k)
    BY InUseHeld, Zenon
  <2>2. i # k
    BY <1>1, <2>1, Zenon DEF Fits
  <2> QED  BY <2>1, <2>2, HeldApart, Zenon
<1>4. InUse' = InUse \cup {Held(i)}
  BY <1>1, <1>2 DEF InUse, Held, Fits
<1>5. Held(i) \in InUse' /\ Held(i) \notin InUse
  BY <1>3, <1>4, Zenon
<1>6. Held(i).size >= n
  BY <1>1, HeldFields, Zenon DEF HeapInv, Fits
<1>7. asked' = n /\ running /\ running' = TRUE
  BY Zenon DEF MallocReuse, HeapInv, HeapTypeOK
<1> QED  BY <1>3, <1>4, <1>5, <1>6, <1>7, Zenon DEF A!Malloc

\* A block behind the old break is an allocation of bytes nobody has
LEMMA GrowRefines ==
  ASSUME HeapInv, HeapInv', NEW n \in Requests, MallocGrow(n)
  PROVE  A!Malloc(n) \/ A!Fail(n)
<1> DEFINE b == [addr |-> brk, size |-> n, free |-> FALSE]
           last == Len(blocks) + 1
<1>1. running /\ asked' = n /\ blocks' = IF running' THEN Append(blocks, b) ELSE blocks
  BY Zenon DEF MallocGrow
<1>2. CASE ~running'
  <2>1. InUse' = InUse
    BY <1>1, <1>2, Zenon DEF InUse
  <2>2. running' = FALSE
    BY <1>2, Zenon DEF HeapInv, HeapTypeOK
  <2> QED  BY <1>1, <2>1, <2>2, Zenon DEF A!Fail
<1>3. CASE running'
  <2>1. blocks' = Append(blocks, b) /\ b.addr = brk /\ b.size = n /\ b.free = FALSE
    BY <1>1, <1>3, Zenon
  <2>2. /\ DOMAIN blocks = 1..Len(blocks) /\ DOMAIN blocks' = 1..last
        /\ Len(blocks) \in Nat
        /\ \A k \in DOMAIN blocks : blocks'[k] = blocks[k]
        /\ blocks'[last] = b /\ last \in DOMAIN blocks' /\ last \notin DOMAIN blocks
        /\ \A k \in DOMAIN blocks' : k \in DOMAIN blocks \/ k = last
    BY <2>1 DEF HeapInv, HeapTypeOK
  <2> HIDE DEF b, last
  <2> DEFINE h == [from |-> blocks'[last].addr + MetaSize, size |-> blocks'[last].size]
  <2>3. InUse' = InUse \cup {h}
    BY <2>1, <2>2 DEF InUse
  <2>4. \A d \in InUse : d.from # h.from /\ A!Apart(h, d)
    <3> SUFFICES ASSUME NEW d \in InUse PROVE d.from # h.from /\ A!Apart(h, d)
      BY Zenon
    <3>1. PICK k \in DOMAIN blocks : ~blocks[k].free /\ d = Held(k)
      BY InUseHeld, Zenon
    <3>2. End(blocks[k]) <= blocks'[last].addr
      BY <2>2, <3>1 DEF HeapInv, BlocksDisjoint, End
    <3>3. blocks[k].addr \in Nat /\ blocks[k].size \in Nat /\ MetaSize \in Nat /\ MetaSize > 0
      BY BlockTypes, MallocAssumption DEF HeapInv
    <3>4. blocks'[last].addr \in Nat
      BY <2>1, <2>2, Zenon DEF HeapInv, HeapTypeOK
    <3>5. d.from = blocks[k].addr + MetaSize /\ d.size = blocks[k].size
      BY <3>1, Zenon DEF Held
    <3>6. h.from = blocks'[last].addr + MetaSize
      BY Zenon
    <3> HIDE DEF h
    <3> QED  BY <3>2, <3>3, <3>4, <3>5, <3>6 DEF A!Apart, End
  <2>5. h.size = n
    BY <2>1, <2>2, Zenon
  <2> HIDE DEF h
  <2>6. h \in InUse' /\ h \notin InUse
    BY <2>3, <2>4, Zenon
  <2>7. h.size >= n
    BY <2>5, MallocAssumption
  <2>8. running' = TRUE
    BY <1>3, Zenon DEF HeapInv, HeapTypeOK
  <2> QED  BY <1>1, <2>3, <2>4, <2>6, <2>7, <2>8, Zenon DEF A!Malloc
<1> QED  BY <1>2, <1>3, Zenon

\* free is the release of the block's bytes
LEMMA FreeRefines ==
  ASSUME HeapInv, NEW i \in DOMAIN blocks, FreeBlock(i)
  PROVE  A!Free \/ A!DoubleFree
<1>1. /\ blocks' = [blocks EXCEPT ![i].free = TRUE] /\ UNCHANGED asked
      /\ running /\ running' = ~blocks[i].free
  BY Zenon DEF FreeBlock
<1>2. /\ DOMAIN blocks' = DOMAIN blocks
      /\ \A k \in DOMAIN blocks : /\ blocks'[k].addr = blocks[k].addr
                                  /\ blocks'[k].size = blocks[k].size
                                  /\ blocks'[k].free = IF k = i THEN TRUE ELSE blocks[k].free
  BY <1>1, MarkKeeps, Zenon DEF HeapInv
<1>3. CASE blocks[i].free
  <2>1. InUse' = InUse
    BY <1>2, <1>3, Zenon DEF InUse
  <2>2. running' = FALSE
    BY <1>1, <1>3, Zenon
  <2> QED  BY <1>1, <2>1, <2>2, Zenon DEF A!DoubleFree
<1>4. CASE ~blocks[i].free
  <2>1. \A k \in DOMAIN blocks : k # i => Held(k) # Held(i)
    BY HeldApart, Zenon
  <2>2. \A d : d \in InUse' <=> \E k \in DOMAIN blocks : k # i /\ ~blocks[k].free /\ d = Held(k)
    BY <1>2, Zenon DEF InUse, Held
  <2>3. \A d : d \in InUse <=> \E k \in DOMAIN blocks : ~blocks[k].free /\ d = Held(k)
    BY Zenon DEF InUse, Held
  <2>4. InUse' = InUse \ {Held(i)}
    BY <2>1, <2>2, <2>3, Zenon
  <2>5. Held(i) \in InUse
    BY <1>4, InUseHeld, Zenon
  <2>6. running' = TRUE
    BY <1>1, <1>4, Zenon
  <2> QED  BY <1>1, <2>4, <2>5, <2>6, Zenon DEF A!Free
<1> QED  BY <1>3, <1>4, Zenon

\* malloc and free implement Allocator: memory handed out is large enough and shares
\* no byte with memory in use
THEOREM RefinesAllocator == HeapSpec => ImplementsAllocator
<1>1. HeapInit => A!Init
  BY DEF HeapInit, BrkInit, A!Init, InUse
<1>2. HeapInv /\ HeapInv' /\ [HeapNext]_heapVars => [A!Next]_(A!vars)
  <2> SUFFICES ASSUME HeapInv, HeapInv', [HeapNext]_heapVars PROVE [A!Next]_(A!vars)
    BY Zenon
  <2>1. CASE UNCHANGED heapVars
    BY <2>1, Zenon DEF heapVars, A!vars, InUse
  <2>2. ASSUME NEW n \in Requests, MallocReuse(n) PROVE A!Next
    BY <2>2, ReuseRefines, Zenon DEF A!Next
  <2>3. ASSUME NEW n \in Requests, MallocGrow(n) PROVE A!Next
    BY <2>3, GrowRefines, Zenon DEF A!Next
  <2>4. ASSUME NEW i \in DOMAIN blocks, FreeBlock(i) PROVE [A!Next]_(A!vars)
    BY <2>4, FreeRefines, Zenon DEF A!Next
  <2> QED  BY <2>1, <2>2, <2>3, <2>4, Zenon DEF HeapNext
<1> QED  BY <1>1, <1>2, InitHeap, HeapInductive, PTL DEF HeapSpec, ImplementsAllocator, A!Spec
==============================================================================
