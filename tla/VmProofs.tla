------------------------------- MODULE VmProofs ------------------------------
(***************************************************************************)
(* Copy-on-write, for any number of processes and pages, every layout of   *)
(* programs, and every order of fork, execve, faults, stores and brk: the  *)
(* inductive invariant of the page tables, the theorems, and the           *)
(* refinement of PrivateMemory.                                            *)
(* What a step does to the page tables is one or two of three changes:     *)
(* free pages are mapped (Fresh), entries are shared with a child (Share), *)
(* and one entry gets a copy (Copy).                                       *)
(***************************************************************************)
EXTENDS Vm, FiniteSetTheorems, WellFoundedInduction, TLAPS

Entries == [page : Page \cup {None}, rw : BOOLEAN, cow : BOOLEAN]
Tables == [Proc -> [VPage -> Entries]]

\* who maps page q in the tables pt
Maps(pt, q) == {m \in Proc \X VPage : pt[m[1]][m[2]].page = q}

\* the counts ct cover the mappings in pt
Counted(ct, pt) ==
  /\ ct \in [Page -> Nat] /\ pt \in Tables
  /\ \A q \in Page : Cardinality(Maps(pt, q)) <= ct[q]

\* a writable entry maps a page that no other entry maps
Private(pt) ==
  \A p \in Proc, v \in VPage : pt[p][v].rw =>
    /\ pt[p][v].page # None
    /\ \A r \in Proc, w \in VPage : pt[r][w].page = pt[p][v].page => r = p /\ w = v

-----------------------------------------------------------------------------

\* There are finitely many virtual pages
LEMMA VPageFinite == IsFiniteSet(VPage)
  BY VmAssumption, FS_Interval DEF VPage

\* Finitely many entries map a page
LEMMA MapsFinite == ASSUME NEW pt, NEW q PROVE IsFiniteSet(Maps(pt, q)) /\ Cardinality(Maps(pt, q)) \in Nat
<1>1. IsFiniteSet(Proc) /\ IsFiniteSet(VPage)
  BY VmAssumption, VPageFinite, Zenon
<1>2. IsFiniteSet(Proc \X VPage)
  BY <1>1, FS_Product, Zenon
<1>3. Maps(pt, q) \in SUBSET (Proc \X VPage)
  BY Zenon DEF Maps
<1> HIDE DEF Maps
<1>4. IsFiniteSet(Maps(pt, q))
  BY <1>2, <1>3, FS_Subset, Zenon
<1> QED  BY <1>4, FS_CardinalityType, Zenon

\* Which entries map a page
LEMMA MapsMember ==
  ASSUME NEW pt, NEW q
  PROVE  \A p \in Proc, v \in VPage : <<p, v>> \in Maps(pt, q) <=> pt[p][v].page = q
  BY Zenon DEF Maps

\* equal if they have the same pairs
LEMMA MapsEqual ==
  ASSUME NEW pt, NEW q, NEW ps, NEW qs,
         \A p \in Proc, v \in VPage : pt[p][v].page = q <=> ps[p][v].page = qs
  PROVE  Maps(pt, q) = Maps(ps, qs)
  BY Zenon DEF Maps

\* a free page is mapped nowhere
LEMMA FreeUnmapped ==
  ASSUME NEW ct, NEW pt, Counted(ct, pt), NEW q \in Page, ct[q] = 0
  PROVE  \A p \in Proc, v \in VPage : pt[p][v].page # q
<1>1. Cardinality(Maps(pt, q)) = 0 /\ IsFiniteSet(Maps(pt, q))
  BY MapsFinite DEF Counted
<1>2. Maps(pt, q) = {}
  BY <1>1, FS_EmptySet, Zenon
<1> QED  BY <1>2, MapsMember, Zenon

\* the pages S of process p, which were absent, get free pages of their own
Fresh(p, S, f, ct, pt, cs, ps) ==
  /\ p \in Proc /\ S \subseteq VPage /\ f \in [S -> Page]
  /\ \A v \in S : pt[p][v].page = None /\ ct[f[v]] = 0
  /\ \A u, v \in S : f[u] = f[v] => u = v
  /\ cs \in [Page -> Nat] /\ ps \in Tables
  /\ \A q \in Page : cs[q] >= ct[q] /\ ((\E v \in S : f[v] = q) => cs[q] >= 1)
  /\ \A r \in Proc, v \in VPage :
       IF r = p /\ v \in S THEN ps[r][v].page = f[v]
       ELSE ps[r][v].page = pt[r][v].page /\ ps[r][v].rw = pt[r][v].rw

\* Entries for free pages keep counts and privacy
LEMMA FreshKeeps ==
  ASSUME NEW ct, NEW pt, NEW cs, NEW ps, NEW p, NEW S, NEW f,
         Counted(ct, pt), Private(pt), Fresh(p, S, f, ct, pt, cs, ps)
  PROVE  Counted(cs, ps) /\ Private(ps)
<1> USE DEF Fresh
<1>1. ASSUME NEW v \in S, NEW r \in Proc, NEW w \in VPage PROVE pt[r][w].page # f[v]
  BY FreeUnmapped
<1>2. None \notin Page
  BY VmAssumption, Zenon
<1>3. ASSUME NEW q \in Page PROVE Cardinality(Maps(ps, q)) <= cs[q]
  <2>1. CASE \E v \in S : f[v] = q
    <3>1. PICK v \in S : f[v] = q
      BY <2>1, Zenon
    <3>2. \A r \in Proc, w \in VPage : ps[r][w].page = q <=> r = p /\ w = v
      BY <1>1, <3>1
    <3>3. Maps(ps, q) = {<<p, v>>}
      <4>1. \A x \in Maps(ps, q) : \E r \in Proc, w \in VPage : x = <<r, w>> /\ ps[r][w].page = q
        BY DEF Maps
      <4>2. <<p, v>> \in Maps(ps, q)
        BY <3>2, MapsMember, Zenon
      <4> QED  BY <3>2, <4>1, <4>2
    <3>4. Cardinality(Maps(ps, q)) = 1
      BY <3>3, FS_Singleton, Zenon
    <3> QED  BY <3>4, <2>1, Zenon
  <2>2. CASE ~ \E v \in S : f[v] = q
    <3>1. \A r \in Proc, w \in VPage : ps[r][w].page = q <=> pt[r][w].page = q
      BY <1>2, <2>2
    <3>2. Maps(ps, q) = Maps(pt, q)
      BY <3>1, MapsEqual
    <3>3. Cardinality(Maps(pt, q)) <= ct[q] /\ ct[q] \in Nat /\ cs[q] \in Nat /\ ct[q] <= cs[q]
      BY Zenon DEF Counted
    <3>4. Cardinality(Maps(pt, q)) \in Nat
      BY MapsFinite, Zenon
    <3> QED  BY <3>2, <3>3, <3>4
  <2> QED  BY <2>1, <2>2, Zenon
<1>4. Private(ps)
  <2> SUFFICES ASSUME NEW r \in Proc, NEW v \in VPage, ps[r][v].rw
               PROVE  /\ ps[r][v].page # None
                      /\ \A s \in Proc, w \in VPage : ps[s][w].page = ps[r][v].page => s = r /\ w = v
    BY Zenon DEF Private
  <2>1. CASE r = p /\ v \in S
    <3>1. ps[r][v].page = f[v] /\ f[v] \in Page
      BY <2>1, Zenon
    <3>2. ASSUME NEW s \in Proc, NEW w \in VPage, ps[s][w].page = f[v] PROVE s = r /\ w = v
      <4>1. CASE s = p /\ w \in S
        BY <2>1, <3>2, <4>1
      <4>2. CASE ~ (s = p /\ w \in S)
        BY <1>1, <2>1, <3>2, <4>2
      <4> QED  BY <4>1, <4>2, Zenon
    <3> QED  BY <1>2, <3>1, <3>2
  <2>2. CASE ~ (r = p /\ v \in S)
    <3>1. ps[r][v].page = pt[r][v].page /\ pt[r][v].rw
      BY <2>2, Zenon
    <3>2. pt[r][v].page # None /\ \A s \in Proc, w \in VPage : pt[s][w].page = pt[r][v].page => s = r /\ w = v
      BY <3>1, Zenon DEF Private
    <3>3. ASSUME NEW s \in Proc, NEW w \in VPage, ps[s][w].page = ps[r][v].page PROVE s = r /\ w = v
      <4>1. CASE s = p /\ w \in S
        <5>1. pt[r][v].page = f[w]
          BY <3>1, <3>3, <4>1, Zenon
        <5> QED  BY <1>1, <4>1, <5>1, Zenon
      <4>2. CASE ~ (s = p /\ w \in S)
        BY <3>1, <3>2, <3>3, <4>2, Zenon
      <4> QED  BY <4>1, <4>2, Zenon
    <3> QED  BY <3>1, <3>2, <3>3, Zenon
  <2> QED  BY <2>1, <2>2, Zenon
<1> QED  BY <1>3, <1>4, Zenon DEF Counted

\* process c, which had no page, gets the entries V of p, which are read-only in both
Share(p, c, V, ct, pt, cs, ps) ==
  /\ p \in Proc /\ c \in Proc /\ p # c /\ V \subseteq VPage
  /\ \A v \in VPage : pt[c][v].page = None
  /\ cs \in [Page -> Nat] /\ ps \in Tables
  /\ \A v \in VPage : /\ ps[p][v].page = pt[p][v].page
                      /\ ps[p][v].rw => pt[p][v].rw /\ v \notin V
                      /\ ps[c][v].page = IF v \in V THEN pt[p][v].page ELSE None
                      /\ ~ ps[c][v].rw
  /\ \A r \in Proc \ {p, c}, v \in VPage :
       ps[r][v].page = pt[r][v].page /\ ps[r][v].rw = pt[r][v].rw
  /\ \A q \in Page : cs[q] >= ct[q] + Cardinality({v \in V : pt[p][v].page = q})

\* Second entries for pages, both without the write bit, keep counts and privacy
LEMMA ShareKeeps ==
  ASSUME NEW ct, NEW pt, NEW cs, NEW ps, NEW p, NEW c, NEW V,
         Counted(ct, pt), Private(pt), Share(p, c, V, ct, pt, cs, ps)
  PROVE  Counted(cs, ps) /\ Private(ps)
<1> USE DEF Share
<1>1. None \notin Page
  BY VmAssumption, Zenon
<1>2. ASSUME NEW q \in Page PROVE Cardinality(Maps(ps, q)) <= cs[q]
  <2> DEFINE Vq == {v \in V : pt[p][v].page = q}
  <2> DEFINE W == {c} \X Vq
  <2>1. IsFiniteSet(Vq) /\ Cardinality(Vq) \in Nat
    <3>1. IsFiniteSet(VPage)
      BY VPageFinite, Zenon
    <3>2. Vq \in SUBSET VPage
      BY Zenon
    <3> HIDE DEF Vq
    <3>3. IsFiniteSet(Vq)
      BY <3>1, <3>2, FS_Subset, Zenon
    <3> QED  BY <3>3, FS_CardinalityType, Zenon
  <2>2. IsFiniteSet(W) /\ Cardinality(W) = Cardinality(Vq)
    <3>1. IsFiniteSet({c}) /\ Cardinality({c}) = 1
      BY FS_Singleton, Zenon
    <3> HIDE DEF Vq
    <3>2. IsFiniteSet(W) /\ Cardinality(W) = Cardinality({c}) * Cardinality(Vq)
      BY <2>1, <3>1, FS_Product
    <3> QED  BY <2>1, <3>1, <3>2
  <2>3. Maps(ps, q) = Maps(pt, q) \cup W
    <3>1. ASSUME NEW r \in Proc, NEW v \in VPage
          PROVE  ps[r][v].page = q <=> pt[r][v].page = q \/ (r = c /\ v \in Vq)
      <4>1. CASE r = c
        BY <1>1, <4>1, Zenon
      <4>2. CASE r = p
        BY <4>2, Zenon
      <4>3. CASE r \in Proc \ {p, c}
        BY <4>3, Zenon
      <4> QED  BY <4>1, <4>2, <4>3, Zenon
    <3>2. \A r \in Proc, v \in VPage : <<r, v>> \in W <=> r = c /\ v \in Vq
      BY Zenon
    <3>3. \A x \in W : \E r \in Proc, v \in VPage : x = <<r, v>>
      OBVIOUS
    <3>4. \A x \in Maps(ps, q) \cup Maps(pt, q) : \E r \in Proc, v \in VPage : x = <<r, v>>
      BY DEF Maps
    <3> HIDE DEF W
    <3>5. \A r \in Proc, v \in VPage : <<r, v>> \in Maps(ps, q) <=> <<r, v>> \in Maps(pt, q) \cup W
      <4>1. \A r \in Proc, v \in VPage : <<r, v>> \in Maps(ps, q) <=> ps[r][v].page = q
        BY Zenon DEF Maps
      <4>2. \A r \in Proc, v \in VPage : <<r, v>> \in Maps(pt, q) <=> pt[r][v].page = q
        BY Zenon DEF Maps
      <4> HIDE DEF Vq
      <4>3. ASSUME NEW r \in Proc, NEW v \in VPage
            PROVE  <<r, v>> \in Maps(ps, q) <=> <<r, v>> \in Maps(pt, q) \cup W
        <5>1. <<r, v>> \in Maps(ps, q) <=> pt[r][v].page = q \/ (r = c /\ v \in Vq)
          BY <3>1, <4>1, Zenon
        <5>2. <<r, v>> \in Maps(pt, q) <=> pt[r][v].page = q
          BY <4>2, Zenon
        <5>3. <<r, v>> \in W <=> r = c /\ v \in Vq
          BY <3>2, Zenon
        <5> QED  BY <5>1, <5>2, <5>3, Zenon
      <4> QED  BY <4>3, Zenon
    <3> QED  BY <3>3, <3>4, <3>5
  <2>4. IsFiniteSet(Maps(pt, q)) /\ Cardinality(Maps(pt, q)) \in Nat
    BY MapsFinite, Zenon
  <2> HIDE DEF W
  <2>5. /\ IsFiniteSet(Maps(pt, q) \cap W)
        /\ Cardinality(Maps(pt, q) \cup W) =
             Cardinality(Maps(pt, q)) + Cardinality(W) - Cardinality(Maps(pt, q) \cap W)
    <3>1. Maps(pt, q) \cap W \in SUBSET W
      BY Zenon
    <3>2. IsFiniteSet(Maps(pt, q) \cap W)
      BY <2>2, <3>1, FS_Subset, Zenon
    <3> QED  BY <2>2, <2>4, <3>2, FS_Union
  <2>6. Cardinality(Maps(pt, q) \cap W) \in Nat
    BY <2>5, FS_CardinalityType, Zenon
  <2>7. Cardinality(Maps(pt, q)) <= ct[q] /\ ct[q] \in Nat
    BY Zenon DEF Counted
  <2>8. cs[q] >= ct[q] + Cardinality(Vq) /\ cs[q] \in Nat
    BY Zenon
  <2> HIDE DEF Vq
  <2> QED  BY <2>1, <2>2, <2>3, <2>4, <2>5, <2>6, <2>7, <2>8
<1>3. Private(ps)
  <2> SUFFICES ASSUME NEW r \in Proc, NEW v \in VPage, ps[r][v].rw
               PROVE  /\ ps[r][v].page # None
                      /\ \A s \in Proc, w \in VPage : ps[s][w].page = ps[r][v].page => s = r /\ w = v
    BY Zenon DEF Private
  <2>1. r # c /\ pt[r][v].rw /\ ps[r][v].page = pt[r][v].page
    BY Zenon
  <2>2. pt[r][v].page # None /\ \A s \in Proc, w \in VPage : pt[s][w].page = pt[r][v].page => s = r /\ w = v
    BY <2>1, Zenon DEF Private
  <2>3. ASSUME NEW s \in Proc, NEW w \in VPage, ps[s][w].page = ps[r][v].page PROVE s = r /\ w = v
    <3>1. CASE s # c
      <4>1. pt[s][w].page = ps[s][w].page
        BY <3>1, Zenon
      <4> QED  BY <2>1, <2>2, <2>3, <4>1
    <3>2. CASE s = c
      <4>1. w \in V /\ pt[p][w].page = pt[r][v].page
        BY <2>1, <2>2, <2>3, <3>2, Zenon
      <4>2. r = p /\ v \in V
        BY <2>2, <4>1, Zenon
      <4> QED  BY <4>2, Zenon
    <3> QED  BY <3>1, <3>2, Zenon
  <2> QED  BY <2>1, <2>2, <2>3, Zenon
<1> QED  BY <1>2, <1>3, Zenon DEF Counted

\* the entry of page v of p gets the free page q in place of the one it had
Copy(p, v, old, q, ct, pt, cs, ps) ==
  /\ p \in Proc /\ v \in VPage /\ old \in Page /\ pt[p][v].page = old
  /\ q \in Page /\ ct[q] = 0
  /\ cs \in [Page -> Nat] /\ ps \in Tables
  /\ ps[p][v].page = q
  /\ \A r \in Proc, w \in VPage : r # p \/ w # v =>
       ps[r][w].page = pt[r][w].page /\ ps[r][w].rw = pt[r][w].rw
  /\ cs[q] >= 1 /\ cs[old] >= ct[old] - 1
  /\ \A x \in Page \ {q, old} : cs[x] >= ct[x]

\* Moving an entry to a copy of its page keeps counts and privacy
LEMMA CopyKeeps ==
  ASSUME NEW ct, NEW pt, NEW cs, NEW ps, NEW p, NEW v, NEW old, NEW q,
         Counted(ct, pt), Private(pt), Copy(p, v, old, q, ct, pt, cs, ps)
  PROVE  Counted(cs, ps) /\ Private(ps)
<1> USE DEF Copy
<1>1. \A r \in Proc, w \in VPage : pt[r][w].page # q
  BY FreeUnmapped
<1>2. None \notin Page /\ q # old
  BY <1>1, VmAssumption, Zenon
<1>3. ASSUME NEW x \in Page PROVE Cardinality(Maps(ps, x)) <= cs[x]
  <2>0. \A y \in Maps(ps, x) \cup Maps(pt, x) : \E r \in Proc, w \in VPage : y = <<r, w>>
    BY DEF Maps
  <2>a. \A r \in Proc, w \in VPage : <<r, w>> \in Maps(ps, x) <=> ps[r][w].page = x
    BY Zenon DEF Maps
  <2>b. \A r \in Proc, w \in VPage : <<r, w>> \in Maps(pt, x) <=> pt[r][w].page = x
    BY Zenon DEF Maps
  <2>1. CASE x = q
    <3>1. \A r \in Proc, w \in VPage : ps[r][w].page = q <=> r = p /\ w = v
      BY <1>1
    <3>2. \A r \in Proc, w \in VPage : <<r, w>> \in Maps(ps, x) <=> r = p /\ w = v
      BY <2>1, <2>a, <3>1, Zenon
    <3>3. Maps(ps, x) = {<<p, v>>}
      BY <2>0, <3>2
    <3>4. Cardinality(Maps(ps, x)) = 1
      BY <3>3, FS_Singleton, Zenon
    <3> QED  BY <2>1, <3>4, Zenon
  <2>2. CASE x = old
    <3>1. \A r \in Proc, w \in VPage :
            <<r, w>> \in Maps(ps, x) <=> <<r, w>> \in Maps(pt, x) /\ ~ (r = p /\ w = v)
      <4>1. ASSUME NEW r \in Proc, NEW w \in VPage
            PROVE  ps[r][w].page = old <=> pt[r][w].page = old /\ ~ (r = p /\ w = v)
        BY <1>2, Zenon
      <4> QED  BY <2>2, <2>a, <2>b, <4>1, Zenon
    <3>2. Maps(ps, x) = Maps(pt, x) \ {<<p, v>>}
      BY <2>0, <3>1
    <3>3. <<p, v>> \in Maps(pt, x)
      BY <2>2, <2>b, Zenon
    <3>4. IsFiniteSet(Maps(pt, x)) /\ Cardinality(Maps(pt, x)) \in Nat
      BY MapsFinite, Zenon
    <3>5. Cardinality(Maps(ps, x)) = Cardinality(Maps(pt, x)) - 1
      <4>1. Cardinality(Maps(pt, x) \ {<<p, v>>}) =
              IF <<p, v>> \in Maps(pt, x) THEN Cardinality(Maps(pt, x)) - 1 ELSE Cardinality(Maps(pt, x))
        BY <3>4, FS_RemoveElement, Zenon
      <4> QED  BY <3>2, <3>3, <4>1, Zenon
    <3>6. Cardinality(Maps(pt, x)) <= ct[x] /\ ct[x] \in Nat /\ cs[x] \in Nat /\ cs[x] >= ct[x] - 1
      BY <2>2, Zenon DEF Counted
    <3> QED  BY <3>4, <3>5, <3>6
  <2>3. CASE x \notin {q, old}
    <3>1. \A r \in Proc, w \in VPage : ps[r][w].page = x <=> pt[r][w].page = x
      BY <2>3, Zenon
    <3>2. Maps(ps, x) = Maps(pt, x)
      BY <3>1, MapsEqual
    <3>3. Cardinality(Maps(pt, x)) <= ct[x] /\ ct[x] \in Nat /\ cs[x] \in Nat /\ ct[x] <= cs[x]
      BY <2>3, Zenon DEF Counted
    <3>4. Cardinality(Maps(pt, x)) \in Nat
      BY MapsFinite, Zenon
    <3> QED  BY <3>2, <3>3, <3>4
  <2> QED  BY <2>1, <2>2, <2>3, Zenon
<1>4. Private(ps)
  <2> SUFFICES ASSUME NEW r \in Proc, NEW u \in VPage, ps[r][u].rw
               PROVE  /\ ps[r][u].page # None
                      /\ \A s \in Proc, w \in VPage : ps[s][w].page = ps[r][u].page => s = r /\ w = u
    BY Zenon DEF Private
  <2>1. CASE r = p /\ u = v
    BY <1>1, <1>2, <2>1
  <2>2. CASE r # p \/ u # v
    <3>1. ps[r][u].page = pt[r][u].page /\ pt[r][u].rw
      BY <2>2, Zenon
    <3>2. pt[r][u].page # None /\ \A s \in Proc, w \in VPage : pt[s][w].page = pt[r][u].page => s = r /\ w = u
      BY <3>1, Zenon DEF Private
    <3>3. ASSUME NEW s \in Proc, NEW w \in VPage, ps[s][w].page = ps[r][u].page PROVE s = r /\ w = u
      BY <1>1, <3>1, <3>2, <3>3
    <3> QED  BY <3>1, <3>2, <3>3, Zenon
  <2> QED  BY <2>1, <2>2, Zenon
<1> QED  BY <1>3, <1>4, Zenon DEF Counted

-----------------------------------------------------------------------------
(* The areas of a process *)

\* A set of numbers that is not empty has a least one
LEMMA Least ==
  ASSUME NEW S \in SUBSET Nat, S # {} PROVE \E i \in S : \A k \in S : i <= k
<1> DEFINE R == OpToRel(<, Nat)
<1>1. IsWellFoundedOn(R, Nat)
  BY NatLessThanWellFounded, Zenon
<1>2. \A x, y \in Nat : x < y => <<x, y>> \in R
  BY Zenon DEF OpToRel
<1> HIDE DEF R
<1>3. PICK x \in S : \A y \in S : ~ (<<y, x>> \in R)
  BY <1>1, WFMin, Zenon
<1>4. ASSUME NEW k \in S PROVE x <= k
  <2>1. k \in Nat /\ x \in Nat
    BY Zenon
  <2>2. ~ (k < x)
    BY <1>2, <1>3, <2>1, Zenon
  <2> QED  BY <2>1, <2>2
<1> QED  BY <1>4, Zenon

HeapPages(p) == HeapBase..(vm_end[p] - 1)

\* the list: the segments, which end below the heap, then the heap and the stack
LEMMA VmaList ==
  ASSUME TypeOK, NEW p \in Proc
  PROVE  /\ Len(segments) \in Nat
         /\ DOMAIN Vmas(p) = 1..(Len(segments) + 2)
         /\ DOMAIN segments = 1..Len(segments)
         /\ \A i \in DOMAIN segments :
              /\ Vmas(p)[i] = segments[i]
              /\ segments[i].lo \in VPage /\ segments[i].hi \in VPage /\ segments[i].hi < HeapBase
         /\ Vmas(p)[Len(segments) + 1] = [lo |-> HeapBase, hi |-> vm_end[p] - 1]
         /\ Vmas(p)[Len(segments) + 2] = [lo |-> StackBase, hi |-> Top]
<1>1. segments \in Layouts
  BY Zenon DEF TypeOK
<1>2. segments \in Seq([lo : VPage, hi : VPage])
  BY <1>1, VmAssumption, Zenon
<1>3. \A i \in DOMAIN segments : segments[i].hi < HeapBase
  BY <1>1, VmAssumption, Zenon
<1>4. Len(segments) \in Nat /\ DOMAIN segments = 1..Len(segments)
  BY <1>2
<1>5. \A i \in DOMAIN segments : segments[i].lo \in VPage /\ segments[i].hi \in VPage
  <2> DEFINE E == [lo : VPage, hi : VPage]
  <2>1. segments \in Seq(E)
    BY <1>2, Zenon
  <2> HIDE DEF E
  <2>2. \A i \in DOMAIN segments : segments[i] \in E
    BY <1>4, <2>1
  <2> QED  BY <2>2, Zenon DEF E
<1> DEFINE h == [lo |-> HeapBase, hi |-> vm_end[p] - 1]
           k == [lo |-> StackBase, hi |-> Top]
<1>6. Vmas(p) = segments \o <<h, k>>
  BY Zenon DEF Vmas
<1> HIDE DEF h, k
<1>7. /\ DOMAIN Vmas(p) = 1..(Len(segments) + 2)
      /\ \A i \in DOMAIN segments : Vmas(p)[i] = segments[i]
      /\ Vmas(p)[Len(segments) + 1] = h /\ Vmas(p)[Len(segments) + 2] = k
  BY <1>2, <1>4, <1>6
<1> QED  BY <1>3, <1>4, <1>5, <1>7, Zenon DEF h, k

\* what fork shares: the pages of segments and heap that are there
LEMMA SharedArea ==
  ASSUME TypeOK, NEW p \in Proc, NEW v \in VPage
  PROVE  IsShared(p, v) <=> Present(p, v) /\ v \in SegmentPages \cup HeapPages(p)
<1>0. /\ Len(segments) \in Nat /\ DOMAIN segments = 1..Len(segments)
      /\ \A i \in DOMAIN segments : Vmas(p)[i] = segments[i]
      /\ Vmas(p)[Len(segments) + 1] = [lo |-> HeapBase, hi |-> vm_end[p] - 1]
  BY VmaList, Zenon
<1>1. \A i \in 1..(Len(segments) + 1) : i \in DOMAIN segments \/ i = Len(segments) + 1
  BY <1>0
<1>2. \A i \in DOMAIN segments : i \in 1..(Len(segments) + 1)
  BY <1>0
<1>3. Len(segments) + 1 \in 1..(Len(segments) + 1)
  BY <1>0
<1>4. v \in SegmentPages <=> \E i \in DOMAIN segments : InVma(v, Vmas(p)[i])
  BY <1>0, Zenon DEF SegmentPages, PagesOf
<1>5. v \in HeapPages(p) <=> InVma(v, Vmas(p)[Len(segments) + 1])
  <2>1. v \in Int /\ vm_end[p] \in Int /\ HeapBase \in Int
    BY VmAssumption DEF TypeOK, VPage
  <2>2. InVma(v, Vmas(p)[Len(segments) + 1]) <=> HeapBase <= v /\ v <= vm_end[p] - 1
    BY <1>0 DEF InVma
  <2> QED  BY <2>1, <2>2 DEF HeapPages
<1> QED  BY <1>1, <1>2, <1>3, <1>4, <1>5, Zenon DEF IsShared

\* segments and heap lie below the stack
LEMMA BelowStack ==
  ASSUME TypeOK, NEW p \in Proc
  PROVE  \A v \in SegmentPages \cup HeapPages(p) : v \in VPage /\ v < StackBase
<1>0. HeapBase \in Nat \ {0} /\ StackBase \in Nat /\ Top \in Nat /\ HeapBase < StackBase /\ StackBase <= Top
  BY VmAssumption, Zenon
<1>1. \A v \in HeapPages(p) : v \in VPage /\ v < StackBase
  BY <1>0 DEF HeapPages, TypeOK, VPage
<1>2. ASSUME NEW v \in SegmentPages PROVE v \in VPage /\ v < StackBase
  <2>1. v \in VPage
    BY Zenon DEF SegmentPages, PagesOf
  <2>2. PICK i \in DOMAIN segments : InVma(v, segments[i])
    BY Zenon DEF SegmentPages, PagesOf
  <2>3. segments[i].hi \in VPage /\ segments[i].hi < HeapBase
    BY VmaList, Zenon
  <2>4. v <= segments[i].hi
    BY <2>2, Zenon DEF InVma
  <2> QED  BY <1>0, <2>1, <2>3, <2>4 DEF VPage
<1> QED  BY <1>1, <1>2, Zenon

\* the vma of a fault is a segment, the heap or the whole stack
LEMMA VmaOfPages ==
  ASSUME TypeOK, NEW p \in Proc, NEW v \in VPage, Holds(p, v) # {}
  PROVE  LET a == VmaOf(p, v) IN
         /\ a.lo \in Int /\ a.hi \in Int
         /\ a.lo..a.hi \subseteq VPage
         /\ \/ a.lo..a.hi \subseteq SegmentPages \cup HeapPages(p)
            \/ a.lo..a.hi = StackBase..Top
<1>0. HeapBase \in Nat \ {0} /\ StackBase \in Nat /\ Top \in Nat /\ HeapBase < StackBase /\ StackBase <= Top
  BY VmAssumption, Zenon
<1>1. Holds(p, v) \in SUBSET Nat
  BY VmaList DEF Holds
<1>2. \E i \in Holds(p, v) : \A k \in Holds(p, v) : i <= k
  BY <1>1, Least, Zenon
<1> DEFINE i == CHOOSE i \in Holds(p, v) : \A k \in Holds(p, v) : i <= k
<1>3. i \in Holds(p, v)
  BY <1>2, Zenon
<1>4. VmaOf(p, v) = Vmas(p)[i]
  BY Zenon DEF VmaOf
<1> HIDE DEF i
<1>5. i \in 1..(Len(segments) + 2)
  BY <1>3, VmaList, Zenon DEF Holds
<1>6. CASE i \in DOMAIN segments
  <2>1. Vmas(p)[i] = segments[i] /\ segments[i].lo \in VPage /\ segments[i].hi \in VPage
    BY <1>6, VmaList, Zenon
  <2>2. ASSUME NEW u \in segments[i].lo..segments[i].hi PROVE u \in SegmentPages
    <3>0. segments[i].lo \in Int /\ segments[i].hi \in Int /\ 1 <= segments[i].lo /\ segments[i].hi <= Top
      BY <1>0, <2>1 DEF VPage
    <3>1. u \in VPage /\ InVma(u, segments[i])
      BY <1>0, <3>0 DEF VPage, InVma
    <3> QED  BY <1>6, <3>1, Zenon DEF SegmentPages, PagesOf
  <2>3. SegmentPages \subseteq VPage
    BY Zenon DEF SegmentPages, PagesOf
  <2>4. segments[i].lo \in Int /\ segments[i].hi \in Int
    BY <2>1 DEF VPage
  <2> QED  BY <1>4, <2>1, <2>2, <2>3, <2>4, Zenon
<1>7. CASE i = Len(segments) + 1
  <2>1. VmaOf(p, v) = [lo |-> HeapBase, hi |-> vm_end[p] - 1]
    BY <1>4, <1>7, VmaList, Zenon
  <2>2. HeapPages(p) \subseteq VPage
    BY BelowStack, Zenon
  <2>3. vm_end[p] \in Int
    BY <1>0 DEF TypeOK
  <2> QED  BY <1>0, <2>1, <2>2, <2>3 DEF HeapPages
<1>8. CASE i = Len(segments) + 2
  <2>1. VmaOf(p, v) = [lo |-> StackBase, hi |-> Top]
    BY <1>4, <1>8, VmaList, Zenon
  <2> QED  BY <1>0, <2>1 DEF VPage
<1>9. i \in DOMAIN segments \/ i = Len(segments) + 1 \/ i = Len(segments) + 2
  BY <1>5, VmaList
<1> QED  BY <1>6, <1>7, <1>8, <1>9, Zenon

-----------------------------------------------------------------------------
(* The inductive invariant *)

\* load_elf maps the top of the stack, and the stack is never shared
StackIsOwn ==
  /\ \A p \in live : Present(p, Top)
  /\ \A p \in Proc, v \in StackBase..Top : Present(p, v) => pte[p][v].rw

\* what is mapped is what fork visits: segments, heap, and the stack without a hole
InAreas ==
  \A p \in Proc, v \in VPage :
    Present(p, v) => v \in SegmentPages \cup HeapPages(p) \cup StackCopied(p)

IInv == TypeOK /\ Counted(count, pte) /\ Private(pte) /\ StackIsOwn /\ InAreas

\* Segments, heap and stack lie in this order, with the stack's top at the end
LEMMA Bounds ==
  /\ HeapBase \in Nat \ {0} /\ StackBase \in Nat /\ Top \in Nat
  /\ HeapBase < StackBase /\ StackBase <= Top
  /\ Top \in VPage /\ StackBase..Top \subseteq VPage
  /\ None \notin Page /\ None \notin Value /\ 0 \in Value /\ 1 \in Value
  BY VmAssumption DEF VPage

\* The invariant holds before the first process
LEMMA InvInit == Init => IInv
<1> SUFFICES ASSUME Init PROVE IInv
  BY Zenon
<1>1. \A p \in Proc, v \in VPage : pte[p][v].page = None /\ ~ pte[p][v].rw
  BY Zenon DEF Init, NoPte
<1>2. TypeOK
  <2>1. NoPte \in Entries
    BY Zenon DEF NoPte, Entries
  <2>2. pte \in Tables
    BY <2>1, Zenon DEF Init, Tables
  <2>3. count \in [Page -> Nat] /\ mem \in [Page -> Value]
    BY Bounds, Zenon DEF Init
  <2>4. vm_end \in [Proc -> HeapBase..StackBase]
    BY Bounds DEF Init
  <2>5. brk \in [Proc -> Nat]
    <3>1. HeapBase * PageSize \in Nat
      BY VmAssumption
    <3> QED  BY <3>1, Zenon DEF Init
  <2>6. segments \in Layouts /\ live \subseteq Proc /\ halted \in BOOLEAN
    BY Zenon DEF Init
  <2> QED  BY <2>2, <2>3, <2>4, <2>5, <2>6, Zenon DEF TypeOK, Tables, Entries
<1>3. Counted(count, pte)
  <2>1. ASSUME NEW q \in Page PROVE Cardinality(Maps(pte, q)) <= count[q]
    <3>1. \A x \in Maps(pte, q) : \E p \in Proc, v \in VPage : pte[p][v].page = q
      BY Zenon DEF Maps
    <3>2. Maps(pte, q) = {}
      BY <1>1, <3>1, Bounds, Zenon
    <3>3. Cardinality(Maps(pte, q)) = 0
      BY <3>2, FS_EmptySet, Zenon
    <3> QED  BY <3>3 DEF Init
  <2> QED  BY <1>2, <2>1, Zenon DEF Counted, TypeOK, Tables, Entries
<1>4. Private(pte)
  BY <1>1, Zenon DEF Private
<1>5. StackIsOwn /\ InAreas
  BY <1>1, Bounds, Zenon DEF Init, StackIsOwn, InAreas, Present
<1> QED  BY <1>2, <1>3, <1>4, <1>5, Zenon DEF IInv

\* a step that changes neither page tables nor areas
LEMMA SameTables ==
  ASSUME IInv, TypeOK', UNCHANGED <<segments, count, pte, vm_end>>, live' \subseteq live
  PROVE  IInv'
<1>1. Counted(count, pte)' /\ Private(pte)'
  BY DEF IInv, Counted, Private, Maps
<1>2. StackIsOwn'
  BY Zenon DEF IInv, StackIsOwn, Present
<1>3. InAreas'
  BY Zenon DEF IInv, InAreas, Present, SegmentPages, PagesOf, HeapPages, StackCopied
<1> QED  BY <1>1, <1>2, <1>3, Zenon DEF IInv

\* A kernel that has stopped keeps the invariant
LEMMA HaltStep ==
  ASSUME IInv, Halt, segments' = segments
  PROVE  IInv'
<1>1. TypeOK'
  BY Zenon DEF IInv, TypeOK, Halt
<1> QED  BY <1>1, SameTables, Zenon DEF Halt

\* fresh pages for S in the table of p
NewPages(p, S, f, e) ==
  /\ p \in Proc /\ S \subseteq VPage /\ f \in Allocations(S) /\ e \in [VPage -> Entries]
  /\ pte' = [pte EXCEPT ![p] = [v \in VPage |-> IF v \in S THEN RwUser(f[v]) ELSE e[v]]]
  /\ \A v \in VPage : e[v].page = pte[p][v].page /\ e[v].rw = pte[p][v].rw
  /\ \A v \in S : ~ Present(p, v)
  /\ count' \in [Page -> Nat]
  /\ \A q \in Page : count'[q] >= count[q] /\ ((\E v \in S : f[v] = q) => count'[q] >= 1)

\* Entries for free pages, as load_elf and the demand fault make them, keep tables right
LEMMA FreshTable ==
  ASSUME IInv, NEW p, NEW S, NEW f, NEW e, NewPages(p, S, f, e)
  PROVE  /\ pte' \in Tables
         /\ Counted(count, pte)' /\ Private(pte)'
         /\ \A r \in Proc, v \in VPage :
              IF r = p /\ v \in S THEN pte'[r][v].page = f[v] /\ pte'[r][v].rw
              ELSE pte'[r][v].page = pte[r][v].page /\ pte'[r][v].rw = pte[r][v].rw
<1> USE DEF NewPages
<1>1. pte \in Tables
  BY Zenon DEF IInv, TypeOK, Tables, Entries
<1>2. f \in [S -> Page] /\ \A v \in S : f[v] \in Page /\ count[f[v]] = 0
  BY Zenon DEF Allocations, Free
<1>3. \A u, v \in S : f[u] = f[v] => u = v
  BY Zenon DEF Allocations
<1>4. \A v \in S : RwUser(f[v]) \in Entries
  BY <1>2, Zenon DEF RwUser, Entries
<1> DEFINE g == [v \in VPage |-> IF v \in S THEN RwUser(f[v]) ELSE e[v]]
<1>5. g \in [VPage -> Entries]
  BY <1>4, Zenon
<1>6. pte' \in Tables
  <2>1. pte' = [pte EXCEPT ![p] = g]
    BY Zenon
  <2> HIDE DEF g
  <2> QED  BY <1>1, <1>5, <2>1, Zenon DEF Tables
<1>7. ASSUME NEW r \in Proc, NEW v \in VPage
      PROVE IF r = p /\ v \in S THEN pte'[r][v].page = f[v] /\ pte'[r][v].rw
            ELSE pte'[r][v].page = pte[r][v].page /\ pte'[r][v].rw = pte[r][v].rw
  <2>1. CASE r # p
    BY <1>1, <2>1, Zenon DEF Tables
  <2>2. CASE r = p
    <3>1. pte'[r][v] = IF v \in S THEN RwUser(f[v]) ELSE e[v]
      BY <1>1, <2>2, Zenon DEF Tables
    <3> QED  BY <2>2, <3>1 DEF RwUser
  <2> QED  BY <2>1, <2>2, Zenon
<1>8. Fresh(p, S, f, count, pte, count', pte')
  BY <1>2, <1>3, <1>6, <1>7, Zenon DEF Fresh, Present
<1>9. Counted(count, pte) /\ Private(pte)
  BY Zenon DEF IInv
<1>10. Counted(count', pte') /\ Private(pte')
  BY <1>8, <1>9, FreshKeeps
<1> QED  BY <1>6, <1>7, <1>10, Zenon

\* pages that stay keep the stack together
LEMMA StackKept ==
  ASSUME NEW p, NEW r, \A u \in VPage : Present(p, u) => Present(r, u)'
  PROVE  StackCopied(p) \subseteq StackCopied(r)'
<1> SUFFICES ASSUME NEW v \in StackCopied(p) PROVE v \in StackCopied(r)'
  BY Zenon
<1>1. v \in StackBase..Top /\ \A u \in v..Top : Present(p, u)
  BY Zenon DEF StackCopied
<1>2. \A u \in v..Top : u \in VPage
  BY <1>1, Bounds DEF VPage
<1> QED  BY <1>1, <1>2, Zenon DEF StackCopied

\* what a step does that gives the pages S of p free pages, which hold x
Filled(p, S, f, x) ==
  /\ S \subseteq VPage /\ f \in [S -> Page]
  /\ \A v \in S : count[f[v]] = 0 /\ ~ Present(p, v)
  /\ \A u, v \in S : f[u] = f[v] => u = v
  /\ mem' = [q \in Page |-> IF \E v \in S : f[v] = q THEN x ELSE mem[q]]
  /\ count' \in [Page -> Nat]
  /\ pte' \in Tables
  /\ Counted(count, pte)' /\ Private(pte)'
  /\ \A r \in Proc, v \in VPage :
       IF r = p /\ v \in S THEN pte'[r][v].page = f[v] /\ pte'[r][v].rw
       ELSE pte'[r][v].page = pte[r][v].page /\ pte'[r][v].rw = pte[r][v].rw

\* Filling pages of a process with free ones keeps the invariant
LEMMA FilledStep ==
  ASSUME IInv, NEW p \in Proc, NEW S, NEW f, NEW x \in Value, Filled(p, S, f, x),
         UNCHANGED <<segments, vm_end, brk, halted>>,
         live' \subseteq live \cup {p}, Present(p, Top)',
         \A v \in S : v \in SegmentPages \cup HeapPages(p) \cup StackCopied(p)'
  PROVE  IInv'
<1>1. /\ S \subseteq VPage /\ f \in [S -> Page] /\ count' \in [Page -> Nat] /\ pte' \in Tables
      /\ \A r \in Proc, v \in VPage :
           IF r = p /\ v \in S THEN pte'[r][v].page = f[v] /\ pte'[r][v].rw
           ELSE pte'[r][v].page = pte[r][v].page /\ pte'[r][v].rw = pte[r][v].rw
  BY Zenon DEF Filled
<1>2. \A v \in S : f[v] # None
  BY <1>1, Bounds
<1>3. TypeOK'
  <2>1. mem' \in [Page -> Value]
    BY Zenon DEF Filled, IInv, TypeOK
  <2>2. live' \subseteq Proc
    BY Zenon DEF IInv, TypeOK
  <2> QED  BY <1>1, <2>1, <2>2, Zenon DEF IInv, TypeOK, Tables, Entries
<1>4. \A r \in Proc, v \in VPage : Present(r, v) => Present(r, v)'
  BY <1>1, <1>2 DEF Present
<1>5. StackIsOwn'
  <2>1. ASSUME NEW r \in live' PROVE Present(r, Top)'
    <3>1. CASE r # p
      <4>1. r \in Proc /\ Present(r, Top)
        BY <3>1, Zenon DEF IInv, TypeOK, StackIsOwn
      <4> QED  BY <1>4, <4>1, Bounds, Zenon
    <3> QED  BY <3>1, Zenon
  <2>2. ASSUME NEW r \in Proc, NEW v \in StackBase..Top, Present(r, v)' PROVE pte'[r][v].rw
    <3>1. v \in VPage
      BY Bounds, Zenon
    <3>2. Present(r, v) => pte[r][v].rw
      BY Zenon DEF IInv, StackIsOwn
    <3> QED  BY <1>1, <2>2, <3>1, <3>2, Zenon DEF Present
  <2> QED  BY <2>1, <2>2, Zenon DEF StackIsOwn
<1>6. InAreas'
  <2> SUFFICES ASSUME NEW r \in Proc, NEW v \in VPage, Present(r, v)'
               PROVE  v \in SegmentPages \cup HeapPages(r) \cup StackCopied(r)'
    BY Zenon DEF InAreas, SegmentPages, PagesOf, HeapPages
  <2>1. CASE Present(r, v)
    <3>1. v \in SegmentPages \cup HeapPages(r) \cup StackCopied(r)
      BY <2>1, Zenon DEF IInv, InAreas
    <3>2. StackCopied(r) \subseteq StackCopied(r)'
      BY <1>4, StackKept, Zenon
    <3> QED  BY <3>1, <3>2, Zenon
  <2>2. CASE ~ Present(r, v)
    BY <1>1, <2>2, Zenon DEF Present
  <2> QED  BY <2>1, <2>2, Zenon
<1> QED  BY <1>3, <1>5, <1>6, Zenon DEF IInv, Filled

\* sys_execve and the first program
LEMMA LoadFills ==
  ASSUME IInv, NEW c \in Proc, NEW retired, Load(c, retired), ~ Halt
  PROVE  /\ \E f : Filled(c, SegmentPages \cup {Top}, f, 1)
         /\ live' = (live \ retired) \cup {c}
         /\ UNCHANGED <<vm_end, brk, halted>>
<1> DEFINE S == SegmentPages \cup {Top}
<1>1. PICK f \in Allocations(S) : \E T \in Taken(TablePages, {f[v] : v \in S}) :
        /\ count' = [q \in Page |-> IF q \in T \cup {f[v] : v \in S} THEN 1 ELSE count[q]]
        /\ mem' = [q \in Page |-> IF \E v \in S : f[v] = q THEN 1 ELSE mem[q]]
        /\ pte' = [pte EXCEPT ![c] = [v \in VPage |-> IF v \in S THEN RwUser(f[v]) ELSE NoPte]]
        /\ live' = (live \ retired) \cup {c}
        /\ UNCHANGED <<vm_end, brk, halted>>
  BY Zenon DEF Load
<1>2. PICK T \in Taken(TablePages, {f[v] : v \in S}) :
        count' = [q \in Page |-> IF q \in T \cup {f[v] : v \in S} THEN 1 ELSE count[q]]
  BY <1>1, Zenon
<1>3. S \subseteq VPage
  BY Bounds, Zenon DEF SegmentPages, PagesOf
<1> HIDE DEF S
<1>4. \A v \in VPage : pte[c][v].page = None /\ ~ pte[c][v].rw
  <2>1. \A v \in VPage : pte[c][v].page = None
    BY Zenon DEF Load, New, Present
  <2> QED  BY <2>1, Zenon DEF IInv, Private
<1>5. /\ count' \in [Page -> Nat]
      /\ \A q \in Page : count'[q] >= count[q] /\ ((\E v \in S : f[v] = q) => count'[q] >= 1)
  <2>1. count \in [Page -> Nat]
    BY Zenon DEF IInv, TypeOK
  <2>2. \A q \in T \cup {f[v] : v \in S} : count[q] = 0
    BY Zenon DEF Taken, Free, Allocations
  <2> QED  BY <1>2, <2>1, <2>2
<1> DEFINE e == [v \in VPage |-> NoPte]
<1>6. e \in [VPage -> Entries]
  BY Zenon DEF NoPte, Entries
<1>7. \A v \in VPage : e[v].page = pte[c][v].page /\ e[v].rw = pte[c][v].rw
  <2>1. \A v \in VPage : pte[c][v].rw \in BOOLEAN
    BY Zenon DEF IInv, TypeOK
  <2> QED  BY <1>4, <2>1, Zenon DEF NoPte
<1>8. pte' = [pte EXCEPT ![c] = [v \in VPage |-> IF v \in S THEN RwUser(f[v]) ELSE e[v]]]
  BY <1>1, Zenon
<1> HIDE DEF e
<1>9. /\ pte' \in Tables
      /\ Counted(count, pte)' /\ Private(pte)'
      /\ \A r \in Proc, v \in VPage :
           IF r = c /\ v \in S THEN pte'[r][v].page = f[v] /\ pte'[r][v].rw
           ELSE pte'[r][v].page = pte[r][v].page /\ pte'[r][v].rw = pte[r][v].rw
  <2>1. \A v \in S : ~ Present(c, v)
    BY <1>3, <1>4, Zenon DEF Present
  <2>2. NewPages(c, S, f, e)
    BY <1>3, <1>5, <1>6, <1>7, <1>8, <2>1, Zenon DEF NewPages
  <2> QED  BY <2>2, FreshTable
<1>10. f \in [S -> Page] /\ (\A v \in S : count[f[v]] = 0) /\ \A u, v \in S : f[u] = f[v] => u = v
  BY Zenon DEF Allocations, Free
<1>11. \A v \in S : ~ Present(c, v)
  BY <1>3, <1>4, Zenon DEF Present
<1>12. Filled(c, S, f, 1)
  BY <1>1, <1>3, <1>5, <1>9, <1>10, <1>11, Zenon DEF Filled
<1> QED  BY <1>1, <1>12, Zenon DEF S

\* load_elf keeps the invariant
LEMMA LoadStep ==
  ASSUME IInv, NEW c \in Proc, NEW retired, Load(c, retired), segments' = segments
  PROVE  IInv'
<1>1. CASE Halt
  BY <1>1, HaltStep, Zenon
<1>2. CASE ~ Halt
  <2> DEFINE S == SegmentPages \cup {Top}
  <2>1. PICK f : Filled(c, S, f, 1)
    BY <1>2, LoadFills, Zenon
  <2>2. live' \subseteq live \cup {c} /\ UNCHANGED <<vm_end, brk, halted>>
    BY <1>2, LoadFills, Zenon
  <2>3. Top \in S /\ \A v \in S : v = Top \/ v \in SegmentPages
    BY Zenon
  <2> HIDE DEF S
  <2>4. Present(c, Top)'
    <3>1. f[Top] \in Page /\ pte'[c][Top].page = f[Top]
      BY <2>1, <2>3, Bounds, Zenon DEF Filled
    <3> QED  BY <3>1, Bounds, Zenon DEF Present
  <2>5. Top \in StackCopied(c)'
    BY <2>4, Bounds DEF StackCopied
  <2> QED  BY <2>1, <2>2, <2>3, <2>4, <2>5, FilledStep, Bounds, Zenon
<1> QED  BY <1>1, <1>2, Zenon

\* kmmap of a whole vma
Absent(p, w) == {u \in VmaOf(p, w).lo..VmaOf(p, w).hi : ~ Present(p, u)}

\* A demand fault of handle_pg_fault fills all pages of the area that are absent
LEMMA DemandFills ==
  ASSUME IInv, NEW p \in Proc, NEW w \in VPage, DemandFault(p, w), ~ Halt
  PROVE  /\ \E f : Filled(p, Absent(p, w), f, 0)
         /\ UNCHANGED <<live, vm_end, brk, halted>>
<1> DEFINE a == VmaOf(p, w)
           S == {u \in a.lo..a.hi : ~Present(p, u)}
<1>1. PICK f \in Allocations(S) :
        /\ count' = [q \in Page |-> IF \E u \in S : f[u] = q THEN 1 ELSE count[q]]
        /\ mem' = [q \in Page |-> IF \E u \in S : f[u] = q THEN 0 ELSE mem[q]]
        /\ pte' = [pte EXCEPT ![p] = [u \in VPage |-> IF u \in S THEN RwUser(f[u]) ELSE pte[p][u]]]
        /\ UNCHANGED <<vm_end, brk, live, halted>>
  BY Zenon DEF DemandFault
<1>2. a.lo..a.hi \subseteq VPage
  BY VmaOfPages, Zenon DEF IInv, DemandFault
<1>3. S \subseteq VPage /\ \A u \in S : ~ Present(p, u)
  BY <1>2, Zenon
<1>4. S = Absent(p, w)
  BY Zenon DEF Absent
<1> HIDE DEF S, a
<1>5. f \in [S -> Page] /\ (\A v \in S : count[f[v]] = 0) /\ \A u, v \in S : f[u] = f[v] => u = v
  BY Zenon DEF Allocations, Free
<1>6. /\ count' \in [Page -> Nat]
      /\ \A q \in Page : count'[q] >= count[q] /\ ((\E v \in S : f[v] = q) => count'[q] >= 1)
  <2>1. count \in [Page -> Nat]
    BY Zenon DEF IInv, TypeOK
  <2> QED  BY <1>1, <1>5, <2>1
<1>7. pte[p] \in [VPage -> Entries]
  BY Zenon DEF IInv, TypeOK, Entries
<1>8. /\ pte' \in Tables
      /\ Counted(count, pte)' /\ Private(pte)'
      /\ \A r \in Proc, v \in VPage :
           IF r = p /\ v \in S THEN pte'[r][v].page = f[v] /\ pte'[r][v].rw
           ELSE pte'[r][v].page = pte[r][v].page /\ pte'[r][v].rw = pte[r][v].rw
  <2>1. NewPages(p, S, f, pte[p])
    BY <1>1, <1>3, <1>6, <1>7, Zenon DEF NewPages
  <2> QED  BY <2>1, FreshTable
<1>9. Filled(p, S, f, 0)
  BY <1>1, <1>3, <1>5, <1>6, <1>8, Zenon DEF Filled
<1> QED  BY <1>1, <1>4, <1>9, Zenon

\* A demand fault keeps the invariant
LEMMA DemandStep ==
  ASSUME IInv, NEW p \in Proc, NEW w \in VPage, DemandFault(p, w), segments' = segments
  PROVE  IInv'
<1>1. CASE Halt
  BY <1>1, HaltStep, Zenon
<1>2. CASE ~ Halt
  <2> DEFINE S == Absent(p, w)
             I == VmaOf(p, w).lo..VmaOf(p, w).hi
  <2>1. PICK f : Filled(p, S, f, 0)
    BY <1>2, DemandFills, Zenon
  <2>2. UNCHANGED <<live, vm_end, brk, halted>>
    BY <1>2, DemandFills, Zenon
  <2>3. I \subseteq VPage /\ (I \subseteq SegmentPages \cup HeapPages(p) \/ I = StackBase..Top)
    BY VmaOfPages, Zenon DEF IInv, DemandFault
  <2>4. S \subseteq I /\ \A u \in I : u \in S \/ Present(p, u)
    BY Zenon DEF Absent
  <2> HIDE DEF S, I
  <2>5. \A u \in I : Present(p, u)'
    <3>1. ASSUME NEW u \in S PROVE Present(p, u)'
      <4>1. f[u] \in Page /\ pte'[p][u].page = f[u]
        BY <2>1, Zenon DEF Filled
      <4> QED  BY <4>1, Bounds, Zenon DEF Present
    <3>2. ASSUME NEW u \in I, u \notin S PROVE Present(p, u)'
      BY <2>1, <2>3, <2>4, <3>2, Zenon DEF Filled, Present
    <3> QED  BY <3>1, <3>2, Zenon
  <2>6. Present(p, Top)'
    <3>1. Present(p, Top)
      BY Zenon DEF IInv, StackIsOwn, DemandFault
    <3>2. Top \notin S
      BY <2>1, <3>1, Zenon DEF Filled
    <3> QED  BY <2>1, <3>1, <3>2, Bounds, Zenon DEF Filled, Present
  <2>7. ASSUME NEW v \in S PROVE v \in SegmentPages \cup HeapPages(p) \cup StackCopied(p)'
    <3>1. CASE I = StackBase..Top
      <4>1. v \in StackBase..Top
        BY <2>4, <3>1, Zenon
      <4>2. \A u \in v..Top : u \in I
        BY <3>1, <4>1, Bounds
      <4> QED  BY <2>5, <4>1, <4>2, Zenon DEF StackCopied
    <3> QED  BY <2>3, <2>4, <3>1, Zenon
  <2> QED  BY <2>1, <2>2, <2>6, <2>7, FilledStep, Bounds, Zenon
<1> QED  BY <1>1, <1>2, Zenon

\* handle_pg_fault on a copy-on-write page
LEMMA CowStep ==
  ASSUME IInv, NEW p \in Proc, NEW v \in VPage, CowFault(p, v), segments' = segments
  PROVE  IInv'
<1> DEFINE old == pte[p][v].page
<1>1. CASE Halt
  BY <1>1, HaltStep, Zenon
<1>2. CASE ~ Halt
  <2>1. PICK q \in Free :
          /\ count' = [count EXCEPT ![q] = 1, ![old] = @ - 1]
          /\ mem' = [mem EXCEPT ![q] = mem[old]]
          /\ pte' = [pte EXCEPT ![p][v] = RwUser(q)]
          /\ UNCHANGED <<vm_end, brk, live, halted>>
    BY <1>2, Zenon DEF CowFault
  <2>2. pte \in Tables /\ count \in [Page -> Nat] /\ mem \in [Page -> Value]
    BY Zenon DEF IInv, TypeOK, Tables, Entries
  <2>3. old \in Page /\ q \in Page /\ count[q] = 0
    <3>1. old \in Page \cup {None} /\ old # None
      BY <2>2 DEF CowFault, Present, Tables, Entries
    <3> QED  BY <3>1, Zenon DEF Free
  <2>4. q # old /\ count[old] >= 1
    <3>1. \A r \in Proc, w \in VPage : count[pte[r][w].page] # 0 \/ pte[r][w].page \notin Page
      BY FreeUnmapped, <2>2, Zenon DEF IInv
    <3> QED  BY <2>2, <2>3, <3>1
  <2> HIDE DEF old
  <2>5. /\ count' \in [Page -> Nat]
        /\ count'[q] = 1 /\ count'[old] = count[old] - 1
        /\ \A x \in Page \ {q, old} : count'[x] = count[x]
    BY <2>1, <2>2, <2>3, <2>4
  <2>6. RwUser(q) \in Entries
    BY <2>3, Zenon DEF RwUser, Entries
  <2>7. pte' \in Tables
    BY <2>1, <2>2, <2>6, Zenon DEF Tables
  <2>8. /\ pte'[p][v] = RwUser(q)
        /\ \A r \in Proc, w \in VPage : r # p \/ w # v => pte'[r][w] = pte[r][w]
    BY <2>1, <2>2, Zenon DEF Tables
  <2>9. Counted(count, pte)' /\ Private(pte)'
    <3>1. pte'[p][v].page = q
      BY <2>8 DEF RwUser
    <3>2. pte[p][v].page = old
      BY Zenon DEF old
    <3>3. count'[q] >= 1 /\ count'[old] >= count[old] - 1 /\ \A x \in Page \ {q, old} : count'[x] >= count[x]
      BY <2>2, <2>3, <2>4, <2>5
    <3>4. Copy(p, v, old, q, count, pte, count', pte')
      BY <2>3, <2>5, <2>7, <2>8, <3>1, <3>2, <3>3, Zenon DEF Copy
    <3>5. Counted(count, pte) /\ Private(pte)
      BY Zenon DEF IInv
    <3> QED  BY <3>4, <3>5, CopyKeeps, Zenon
  <2>10. TypeOK'
    <3>1. mem' \in [Page -> Value]
      BY <2>1, <2>2, <2>3, Zenon
    <3> QED  BY <2>1, <2>5, <2>7, <3>1, Zenon DEF IInv, TypeOK, Tables, Entries
  <2>11. \A r \in Proc, w \in VPage : Present(r, w)' <=> Present(r, w)
    BY <2>3, <2>8, Bounds DEF Present, RwUser, CowFault
  <2>12. StackIsOwn'
    <3>1. ASSUME NEW r \in live' PROVE Present(r, Top)'
      <4>1. r \in Proc /\ Present(r, Top)
        BY <2>1, Zenon DEF IInv, TypeOK, StackIsOwn
      <4> QED  BY <2>11, <4>1, Bounds, Zenon
    <3>2. ASSUME NEW r \in Proc, NEW w \in StackBase..Top, Present(r, w)' PROVE pte'[r][w].rw
      <4>1. w \in VPage
        BY Bounds, Zenon
      <4>2. pte[r][w].rw
        BY <2>11, <3>2, <4>1, Zenon DEF IInv, StackIsOwn
      <4> QED  BY <2>8, <4>1, <4>2 DEF RwUser
    <3> QED  BY <3>1, <3>2, Zenon DEF StackIsOwn
  <2>13. InAreas'
    <3> SUFFICES ASSUME NEW r \in Proc, NEW w \in VPage, Present(r, w)'
                 PROVE  w \in SegmentPages \cup HeapPages(r) \cup StackCopied(r)'
      BY <2>1, Zenon DEF InAreas, SegmentPages, PagesOf, HeapPages
    <3>1. w \in SegmentPages \cup HeapPages(r) \cup StackCopied(r)
      BY <2>11, Zenon DEF IInv, InAreas
    <3>2. StackCopied(r) \subseteq StackCopied(r)'
      BY <2>11, StackKept, Zenon
    <3> QED  BY <3>1, <3>2, Zenon
  <2> QED  BY <2>9, <2>10, <2>12, <2>13, Zenon DEF IInv
<1> QED  BY <1>1, <1>2, Zenon

\* a product grows with its second factor
LEMMA Multiples ==
  ASSUME NEW P \in Nat, NEW x \in Int, NEW y \in Int, x <= y
  PROVE  P * x \in Int /\ P * y \in Int /\ P * x <= P * y
<1>1. y - x \in Nat /\ P * (y - x) \in Nat /\ P * x \in Int
  BY Z3
<1>2. P * y = P * x + P * (y - x)
  BY Z3
<1> QED  BY ONLY <1>1, <1>2

\* ALIGN_UP of a break above the heap and below the stack: past the end of the heap, and
\* at most the start of the stack
LEMMA AlignUpPage ==
  ASSUME NEW a \in Nat, NEW e \in Nat, a > e * PageSize, a < StackBase * PageSize
  PROVE  AlignUp(a) \in Int /\ e < AlignUp(a) /\ AlignUp(a) <= StackBase
<1> DEFINE P == PageSize
           q == (a - 1) \div P
           r == (a - 1) % P
<1>1. P \in Nat /\ P > 0 /\ StackBase \in Nat
  BY VmAssumption
<1> HIDE DEF P
<1>2. P * e \in Nat /\ P * StackBase \in Nat /\ P * e < a /\ a < P * StackBase
  <2>1. e * PageSize = P * e /\ StackBase * PageSize = P * StackBase /\ P * e \in Nat /\ P * StackBase \in Nat
    BY <1>1, Z3 DEF P
  <2> QED  BY <2>1, Zenon
<1>3. a - 1 \in Nat
  BY <1>2
<1>4. q \in Int /\ r \in 0..(P - 1) /\ a - 1 = P * q + r
  BY <1>1, <1>3, Z3
<1>5. AlignUp(a) = q + 1
  BY Zenon DEF AlignUp, P
<1> HIDE DEF q, r
<1>6. q < StackBase
  <2> SUFFICES ASSUME StackBase <= q PROVE FALSE
    BY <1>1, <1>4
  <2>0. StackBase \in Int
    BY <1>1
  <2>1. P * StackBase <= P * q /\ P * q \in Int
    BY <1>1, <1>4, <2>0, Multiples, Zenon
  <2> QED  BY ONLY <1>1, <1>2, <1>4, <2>1, a \in Nat
<1>7. e <= q
  <2> SUFFICES ASSUME q + 1 <= e PROVE FALSE
    BY <1>4
  <2>1. q + 1 \in Int /\ e \in Int
    BY <1>4
  <2>2. P * (q + 1) <= P * e /\ P * (q + 1) \in Int
    BY <1>1, <2>1, Multiples, Zenon
  <2>3. P * (q + 1) = P * q + P /\ P * q \in Int
    BY <1>1, <1>4, Z3
  <2> QED  BY ONLY <1>1, <1>2, <1>4, <2>2, <2>3, a \in Nat
<1> QED  BY <1>1, <1>4, <1>5, <1>6, <1>7

\* sys_brk moves the end of the heap up
LEMMA BrkStep ==
  ASSUME IInv, NEW p \in Proc, NEW b \in Brks, Brk(p, b), segments' = segments
  PROVE  IInv'
<1>1. b \in Nat
  BY VmAssumption, Zenon
<1>2. /\ vm_end' \in [Proc -> HeapBase..StackBase]
      /\ \A r \in Proc : vm_end'[r] >= vm_end[r]
  <2>1. vm_end \in [Proc -> HeapBase..StackBase]
    BY Zenon DEF IInv, TypeOK
  <2>2. vm_end[p] \in Nat /\ vm_end[p] \in HeapBase..StackBase
    BY <2>1, Bounds
  <2>3. CASE b > vm_end[p] * PageSize /\ b < StackBase * PageSize
    <3>1. AlignUp(b) \in Int /\ vm_end[p] < AlignUp(b) /\ AlignUp(b) <= StackBase
      BY <1>1, <2>2, <2>3, AlignUpPage, Zenon
    <3>2. AlignUp(b) \in HeapBase..StackBase
      BY ONLY <2>2, <3>1, Bounds
    <3>3. vm_end' = [vm_end EXCEPT ![p] = AlignUp(b)]
      BY <2>3, Zenon DEF Brk
    <3> QED  BY ONLY <2>1, <2>2, <3>1, <3>2, <3>3, Bounds
  <2>4. CASE ~ (b > vm_end[p] * PageSize /\ b < StackBase * PageSize)
    <3>1. vm_end' = vm_end
      BY <2>4, Zenon DEF Brk
    <3> QED  BY ONLY <2>1, <3>1, Bounds
  <2> QED  BY <2>3, <2>4, Zenon
<1>3. brk' \in [Proc -> Nat]
  BY <1>1, Zenon DEF Brk, IInv, TypeOK
<1>4. TypeOK'
  BY <1>2, <1>3, Zenon DEF IInv, TypeOK, Brk
<1>5. Counted(count, pte)' /\ Private(pte)'
  BY DEF IInv, Counted, Private, Maps, Brk
<1>6. StackIsOwn'
  BY Zenon DEF IInv, StackIsOwn, Present, Brk
<1>7. InAreas'
  <2>1. \A r \in Proc : HeapPages(r) \subseteq HeapPages(r)'
    <3>1. \A r \in Proc : vm_end[r] \in Int /\ vm_end'[r] \in Int /\ vm_end'[r] >= vm_end[r]
      BY <1>2, Bounds DEF IInv, TypeOK
    <3> QED  BY <3>1, Bounds DEF HeapPages
  <2>2. \A r \in Proc, v \in VPage : Present(r, v)' <=> Present(r, v)
    BY Zenon DEF Present, Brk
  <2>3. \A r \in Proc : StackCopied(r) \subseteq StackCopied(r)'
    BY <2>2, StackKept, Zenon
  <2>4. SegmentPages' = SegmentPages
    BY Zenon DEF SegmentPages, PagesOf
  <2> QED  BY <2>1, <2>2, <2>3, <2>4, Zenon DEF IInv, InAreas
<1> QED  BY <1>4, <1>5, <1>6, <1>7, Zenon DEF IInv

-----------------------------------------------------------------------------
(* Fork *)

\* fork raises the count of a page at least once for every entry it shares
LEMMA VisitsCover ==
  ASSUME TypeOK, NEW p \in Proc, NEW q \in Page
  PROVE  /\ Cardinality(Visits(p, q)) \in Nat
         /\ LET V == {v \in VPage : IsShared(p, v)} IN
              /\ Cardinality({v \in V : pte[p][v].page = q}) \in Nat
              /\ Cardinality({v \in V : pte[p][v].page = q}) <= Cardinality(Visits(p, q))
<1> DEFINE N == 1..(Len(segments) + 1)
           V == {v \in VPage : IsShared(p, v)}
           W == {v \in V : pte[p][v].page = q}
<1>1. IsFiniteSet(N \X VPage)
  <2>1. Len(segments) \in Nat
    BY VmaList, Zenon
  <2>2. IsFiniteSet(N) /\ IsFiniteSet(VPage)
    BY <2>1, FS_Interval, VPageFinite
  <2> HIDE DEF N
  <2> QED  BY <2>2, FS_Product, Zenon
<1>2. Visits(p, q) \in SUBSET (N \X VPage)
  BY Zenon DEF Visits
<1>3. \A m \in Visits(p, q) : m[1] \in N /\ m[2] \in VPage /\ InVma(m[2], Vmas(p)[m[1]]) /\ pte[p][m[2]].page = q
  BY Zenon DEF Visits
<1>4. \A i \in N, v \in VPage : InVma(v, Vmas(p)[i]) /\ pte[p][v].page = q => <<i, v>> \in Visits(p, q)
  BY Zenon DEF Visits
<1>5. \A v \in VPage : IsShared(p, v) <=> \E i \in N : InVma(v, Vmas(p)[i]) /\ Present(p, v)
  BY Zenon DEF IsShared
<1>6. \A v \in W : \E i \in N : InVma(v, Vmas(p)[i]) /\ v \in VPage /\ pte[p][v].page = q
  BY <1>5, Zenon
<1>7. \A m \in Visits(p, q) : m[2] \in W
  <2> SUFFICES ASSUME NEW m \in Visits(p, q) PROVE m[2] \in W
    BY Zenon
  <2>1. Present(p, m[2])
    BY <1>3, Bounds, Zenon DEF Present
  <2> QED  BY <1>3, <1>5, <2>1, Zenon
<1> HIDE DEF N, W
<1>8. IsFiniteSet(Visits(p, q))
  BY <1>1, <1>2, FS_Subset, Zenon
<1> DEFINE g == [m \in Visits(p, q) |-> m[2]]
<1>9. g \in Surjection(Visits(p, q), W)
  <2>1. g \in [Visits(p, q) -> W]
    BY <1>7, Zenon
  <2>2. ASSUME NEW v \in W PROVE \E m \in Visits(p, q) : g[m] = v
    <3>1. PICK i \in N : InVma(v, Vmas(p)[i]) /\ v \in VPage /\ pte[p][v].page = q
      BY <1>6, Zenon
    <3>2. <<i, v>> \in Visits(p, q)
      BY <1>4, <3>1, Zenon
    <3>3. g[<<i, v>>] = v
      BY <3>2, Zenon
    <3> QED  BY <3>2, <3>3, Zenon
  <2> QED  BY <2>1, <2>2, Zenon DEF Surjection
<1>10. IsFiniteSet(W) /\ Cardinality(W) <= Cardinality(Visits(p, q))
  BY <1>8, <1>9, FS_Surjection, Zenon
<1>11. Cardinality(W) \in Nat /\ Cardinality(Visits(p, q)) \in Nat
  BY <1>8, <1>10, FS_CardinalityType, Zenon
<1> QED  BY <1>10, <1>11, Zenon DEF W

\* the tables of fork: entries V shared, S copied to free pages
ForkTables(p, c, V, S, f) ==
  /\ p \in Proc /\ c \in Proc /\ p # c
  /\ V \subseteq VPage /\ S \subseteq VPage /\ V \cap S = {} /\ f \in [S -> Page]
  /\ \A v \in S : count[f[v]] = 0
  /\ \A u, v \in S : f[u] = f[v] => u = v
  /\ \A v \in VPage : ~ Present(c, v)
  /\ count' \in [Page -> Nat]
  /\ \A q \in Page : IF \E v \in S : f[v] = q THEN count'[q] >= 1
                     ELSE count'[q] >= count[q] + Cardinality({v \in V : pte[p][v].page = q})
  /\ pte' = [pte EXCEPT
       ![p] = [v \in VPage |-> IF v \in V THEN Shared(@[v]) ELSE @[v]],
       ![c] = [v \in VPage |-> IF v \in S THEN RwUser(f[v])
                               ELSE IF v \in V THEN Shared(pte[p][v]) ELSE NoPte]]

\* what becomes of an entry that is shared
LEMMA SharedEntry ==
  ASSUME NEW e \in Entries
  PROVE  /\ Shared(e) \in Entries
         /\ Shared(e).page = e.page /\ ~ Shared(e).rw
  BY Zenon DEF Shared, Entries

\* entry by entry
LEMMA ForkEntries ==
  ASSUME pte \in Tables, NEW p, NEW c, NEW V, NEW S, NEW f, ForkTables(p, c, V, S, f)
  PROVE  /\ pte' \in Tables
         /\ \A v \in VPage :
              /\ pte'[p][v] = IF v \in V THEN Shared(pte[p][v]) ELSE pte[p][v]
              /\ pte'[c][v] = IF v \in S THEN RwUser(f[v])
                              ELSE IF v \in V THEN Shared(pte[p][v]) ELSE NoPte
         /\ \A r \in Proc \ {p, c} : pte'[r] = pte[r]
<1> DEFINE gp == [v \in VPage |-> IF v \in V THEN Shared(pte[p][v]) ELSE pte[p][v]]
           gc == [v \in VPage |-> IF v \in S THEN RwUser(f[v])
                                  ELSE IF v \in V THEN Shared(pte[p][v]) ELSE NoPte]
<1>1. p \in Proc /\ c \in Proc /\ p # c /\ pte' = [pte EXCEPT ![p] = gp, ![c] = gc]
  BY Zenon DEF ForkTables
<1>2. \A v \in VPage : pte[p][v] \in Entries /\ Shared(pte[p][v]) \in Entries
  BY <1>1, SharedEntry, Zenon DEF Tables
<1>3. \A v \in S : RwUser(f[v]) \in Entries
  BY Zenon DEF ForkTables, RwUser, Entries
<1>4. NoPte \in Entries
  BY Zenon DEF NoPte, Entries
<1>5. gp \in [VPage -> Entries] /\ gc \in [VPage -> Entries]
  BY <1>2, <1>3, <1>4, Zenon
<1>6. /\ \A v \in VPage : gp[v] = IF v \in V THEN Shared(pte[p][v]) ELSE pte[p][v]
      /\ \A v \in VPage : gc[v] = IF v \in S THEN RwUser(f[v])
                                  ELSE IF v \in V THEN Shared(pte[p][v]) ELSE NoPte
  BY Zenon
<1> HIDE DEF gp, gc
<1>7. pte' \in Tables /\ pte'[p] = gp /\ pte'[c] = gc /\ \A r \in Proc \ {p, c} : pte'[r] = pte[r]
  BY <1>1, <1>5, Zenon DEF Tables
<1> QED  BY <1>6, <1>7, Zenon

\* the entries are shared first, then the stack is copied
LEMMA ForkKeeps ==
  ASSUME IInv, NEW p, NEW c, NEW V, NEW S, NEW f, ForkTables(p, c, V, S, f)
  PROVE  Counted(count, pte)' /\ Private(pte)'
<1>0. /\ p \in Proc /\ c \in Proc /\ p # c
      /\ V \subseteq VPage /\ S \subseteq VPage /\ V \cap S = {} /\ f \in [S -> Page]
      /\ \A v \in S : count[f[v]] = 0
      /\ \A u, v \in S : f[u] = f[v] => u = v
      /\ \A v \in VPage : pte[c][v].page = None
      /\ count' \in [Page -> Nat]
  BY Zenon DEF ForkTables, Present
<1>1. /\ pte \in Tables /\ count \in [Page -> Nat]
      /\ Counted(count, pte) /\ Private(pte)
  BY Zenon DEF IInv, TypeOK, Tables, Entries
<1> DEFINE W(q) == {v \in V : pte[p][v].page = q}
           mid == [q \in Page |-> count[q] + Cardinality(W(q))]
           share == [v \in VPage |-> IF v \in V THEN Shared(pte[p][v]) ELSE pte[p][v]]
           child == [v \in VPage |-> IF v \in V THEN Shared(pte[p][v]) ELSE NoPte]
           tables == [pte EXCEPT ![p] = share, ![c] = child]
<1>2. \A q \in Page : Cardinality(W(q)) \in Nat
  <2> SUFFICES ASSUME NEW q \in Page PROVE Cardinality(W(q)) \in Nat
    BY Zenon
  <2>1. W(q) \in SUBSET VPage
    BY <1>0, Zenon
  <2> HIDE DEF W
  <2>2. IsFiniteSet(W(q))
    BY <2>1, VPageFinite, FS_Subset, Zenon
  <2> QED  BY <2>2, FS_CardinalityType, Zenon
<1>3. \A v \in S : Cardinality(W(f[v])) = 0
  <2> SUFFICES ASSUME NEW v \in S PROVE Cardinality(W(f[v])) = 0
    BY Zenon
  <2>1. f[v] \in Page /\ count[f[v]] = 0
    BY <1>0, Zenon
  <2>2. \A u \in VPage : pte[p][u].page # f[v]
    BY <1>0, <1>1, <2>1, FreeUnmapped
  <2>3. W(f[v]) = {}
    BY <1>0, <2>2, Zenon
  <2> QED  BY <2>3, FS_EmptySet, Zenon
<1>4. \A v \in VPage : pte[p][v] \in Entries
  BY <1>0, <1>1 DEF Tables
<1>5. \A v \in VPage : /\ Shared(pte[p][v]) \in Entries
                       /\ Shared(pte[p][v]).page = pte[p][v].page /\ ~ Shared(pte[p][v]).rw
  BY <1>4, SharedEntry, Zenon
<1>6. NoPte \in Entries /\ NoPte.page = None /\ ~ NoPte.rw
  BY Zenon DEF NoPte, Entries
<1>7. share \in [VPage -> Entries] /\ child \in [VPage -> Entries]
  BY <1>4, <1>5, <1>6, Zenon
<1>8. /\ \A v \in VPage : share[v] = IF v \in V THEN Shared(pte[p][v]) ELSE pte[p][v]
      /\ \A v \in VPage : child[v] = IF v \in V THEN Shared(pte[p][v]) ELSE NoPte
  BY Zenon
<1>9. /\ tables \in Tables /\ tables[p] = share /\ tables[c] = child
      /\ \A r \in Proc \ {p, c} : tables[r] = pte[r]
  <2> HIDE DEF share, child
  <2> QED  BY <1>0, <1>1, <1>7, Zenon DEF Tables
<1>10. mid \in [Page -> Nat] /\ \A q \in Page : mid[q] = count[q] + Cardinality(W(q))
  <2> HIDE DEF W
  <2> QED  BY <1>1, <1>2
<1> HIDE DEF share, child, tables, mid
<1>11. Share(p, c, V, count, pte, mid, tables)
  <2>1. \A v \in VPage : /\ tables[p][v].page = pte[p][v].page
                         /\ tables[p][v].rw => pte[p][v].rw /\ v \notin V
    BY <1>5, <1>8, <1>9, Zenon
  <2>2. \A v \in VPage : /\ tables[c][v].page = IF v \in V THEN pte[p][v].page ELSE None
                         /\ ~ tables[c][v].rw
    BY <1>5, <1>6, <1>8, <1>9, Zenon
  <2>3. \A q \in Page : mid[q] >= count[q] + Cardinality({v \in V : pte[p][v].page = q})
    <3>1. \A q \in Page : mid[q] = count[q] + Cardinality({v \in V : pte[p][v].page = q}) /\ mid[q] \in Nat
      BY <1>10, Zenon
    <3> QED  BY <3>1
  <2>4. \A r \in Proc \ {p, c}, v \in VPage :
          tables[r][v].page = pte[r][v].page /\ tables[r][v].rw = pte[r][v].rw
    BY <1>9, Zenon
  <2> QED  BY <1>0, <1>9, <1>10, <2>1, <2>2, <2>3, <2>4, Zenon DEF Share
<1>12. Counted(mid, tables) /\ Private(tables)
  BY <1>1, <1>11, ShareKeeps, Zenon
<1>13. /\ pte' \in Tables
       /\ \A v \in VPage :
            /\ pte'[p][v] = IF v \in V THEN Shared(pte[p][v]) ELSE pte[p][v]
            /\ pte'[c][v] = IF v \in S THEN RwUser(f[v])
                            ELSE IF v \in V THEN Shared(pte[p][v]) ELSE NoPte
       /\ \A r \in Proc \ {p, c} : pte'[r] = pte[r]
  BY <1>1, ForkEntries
<1>14. Fresh(c, S, f, mid, tables, count', pte')
  <2>1. \A v \in S : tables[c][v].page = None
    BY <1>0, <1>6, <1>8, <1>9, Zenon
  <2>2. \A v \in S : mid[f[v]] = 0
    <3>1. \A v \in S : f[v] \in Page /\ count[f[v]] = 0
      BY <1>0, Zenon
    <3> HIDE DEF W
    <3> QED  BY <1>3, <1>10, <3>1
  <2>3. \A q \in Page : count'[q] >= mid[q] /\ ((\E v \in S : f[v] = q) => count'[q] >= 1)
    <3> SUFFICES ASSUME NEW q \in Page
                 PROVE  count'[q] >= mid[q] /\ ((\E v \in S : f[v] = q) => count'[q] >= 1)
      BY Zenon
    <3>1. mid[q] = count[q] + Cardinality(W(q)) /\ count'[q] \in Nat /\ mid[q] \in Nat
      BY <1>0, <1>10, Zenon
    <3>2. CASE \E v \in S : f[v] = q
      <4>1. count'[q] >= 1 /\ mid[q] = 0
        BY <2>2, <3>2, Zenon DEF ForkTables
      <4> QED  BY <3>1, <4>1
    <3>3. CASE ~ \E v \in S : f[v] = q
      <4>1. count'[q] >= count[q] + Cardinality(W(q))
        BY <3>3, Zenon DEF ForkTables
      <4> QED  BY <3>1, <3>3, <4>1, Zenon
    <3> QED  BY <3>2, <3>3, Zenon
  <2>4. \A r \in Proc, v \in VPage :
          IF r = c /\ v \in S THEN pte'[r][v].page = f[v]
          ELSE pte'[r][v].page = tables[r][v].page /\ pte'[r][v].rw = tables[r][v].rw
    <3> SUFFICES ASSUME NEW r \in Proc, NEW v \in VPage
                 PROVE  IF r = c /\ v \in S THEN pte'[r][v].page = f[v]
                        ELSE pte'[r][v].page = tables[r][v].page /\ pte'[r][v].rw = tables[r][v].rw
      BY Zenon
    <3>1. CASE r = c
      <4>1. CASE v \in S
        <5>1. pte'[r][v] = RwUser(f[v])
          BY <1>13, <3>1, <4>1, Zenon
        <5> QED  BY <3>1, <4>1, <5>1 DEF RwUser
      <4>2. CASE v \notin S
        <5>1. pte'[r][v] = tables[r][v]
          BY <1>8, <1>9, <1>13, <3>1, <4>2, Zenon
        <5> QED  BY <4>2, <5>1, Zenon
      <4> QED  BY <4>1, <4>2, Zenon
    <3>2. CASE r = p
      <4>1. pte'[r][v] = tables[r][v]
        BY <1>8, <1>9, <1>13, <3>2, Zenon
      <4> QED  BY <1>0, <3>2, <4>1, Zenon
    <3>3. CASE r \notin {p, c}
      BY <1>9, <1>13, <3>3, Zenon
    <3> QED  BY <3>1, <3>2, <3>3, Zenon
  <2> QED  BY <1>0, <1>13, <2>1, <2>2, <2>3, <2>4, Zenon DEF Fresh
<1>15. Counted(count', pte') /\ Private(pte')
  BY <1>12, <1>14, FreshKeeps, Zenon
<1> QED  BY <1>15, Zenon

\* fork_process: the copied pages hold what the parent's hold
Copied(p, S, f) ==
  /\ mem' \in [Page -> Value]
  /\ \A v \in S : mem'[f[v]] = mem[pte[p][v].page]
  /\ \A q \in Page : (\A v \in S : f[v] # q) => mem'[q] = mem[q]

\* What fork_process does: it shares the pages outside the stack and copies the stack
LEMMA ForkCopies ==
  ASSUME IInv, NEW p \in Proc, NEW c \in Proc, Fork(p, c), ~ Halt
  PROVE  /\ \E f : /\ ForkTables(p, c, {v \in VPage : IsShared(p, v)}, StackCopied(p), f)
                   /\ Copied(p, StackCopied(p), f)
         /\ vm_end' = [vm_end EXCEPT ![c] = vm_end[p]]
         /\ brk' = [brk EXCEPT ![c] = brk[p]]
         /\ live' = live \cup {c}
         /\ UNCHANGED halted
<1> DEFINE S == StackCopied(p)
           V == {v \in VPage : IsShared(p, v)}
<1>1. PICK f \in Allocations(S) : \E T \in Taken(TablePages, {f[v] : v \in S}) :
        /\ count' = [q \in Page |-> IF q \in T \cup {f[v] : v \in S} THEN 1
                                    ELSE count[q] + Cardinality(Visits(p, q))]
        /\ mem' = [q \in Page |-> IF \E v \in S : f[v] = q
                                  THEN mem[pte[p][CHOOSE v \in S : f[v] = q].page]
                                  ELSE mem[q]]
        /\ pte' = [pte EXCEPT
             ![p] = [v \in VPage |-> IF IsShared(p, v) THEN Shared(@[v]) ELSE @[v]],
             ![c] = [v \in VPage |-> IF v \in S THEN RwUser(f[v])
                                     ELSE IF IsShared(p, v) THEN Shared(pte[p][v]) ELSE NoPte]]
        /\ vm_end' = [vm_end EXCEPT ![c] = vm_end[p]]
        /\ brk' = [brk EXCEPT ![c] = brk[p]]
        /\ live' = live \cup {c}
        /\ UNCHANGED halted
  BY Zenon DEF Fork
<1>2. PICK T \in Taken(TablePages, {f[v] : v \in S}) :
        count' = [q \in Page |-> IF q \in T \cup {f[v] : v \in S} THEN 1
                                 ELSE count[q] + Cardinality(Visits(p, q))]
  BY <1>1, Zenon
<1>3. ForkTables(p, c, V, S, f)
  <2>1. p # c /\ \A v \in VPage : ~ Present(c, v)
    BY Bounds, Zenon DEF IInv, StackIsOwn, Fork, New
  <2>2. V \subseteq VPage /\ S \subseteq VPage /\ V \cap S = {}
    <3>1. S \subseteq StackBase..Top
      BY Zenon DEF StackCopied
    <3>2. \A v \in V : v < StackBase
      BY SharedArea, BelowStack, Zenon DEF IInv
    <3>3. \A v \in S : v >= StackBase
      BY <3>1, Bounds
    <3>4. \A v \in S : v \in Int
      BY <3>1
    <3> HIDE DEF S
    <3> QED  BY <3>1, <3>2, <3>3, <3>4, Bounds DEF VPage
  <2>3. f \in [S -> Page] /\ (\A v \in S : count[f[v]] = 0) /\ \A u, v \in S : f[u] = f[v] => u = v
    BY Zenon DEF Allocations, Free
  <2>4. \A q \in Page : /\ Cardinality(Visits(p, q)) \in Nat
                        /\ Cardinality({v \in V : pte[p][v].page = q}) \in Nat
                        /\ Cardinality({v \in V : pte[p][v].page = q}) <= Cardinality(Visits(p, q))
    BY VisitsCover, Zenon DEF IInv
  <2>5. count \in [Page -> Nat]
    BY Zenon DEF IInv, TypeOK
  <2>6. count' \in [Page -> Nat]
    <3>1. \A q \in Page : count[q] + Cardinality(Visits(p, q)) \in Nat
      <4>1. \A q \in Page : Cardinality(Visits(p, q)) \in Nat
        BY <2>4, Zenon
      <4> QED  BY <2>5, <4>1
    <3> HIDE DEF S
    <3> QED  BY <1>2, <3>1, Zenon
  <2>7. ASSUME NEW q \in Page
        PROVE  IF \E v \in S : f[v] = q THEN count'[q] >= 1
               ELSE count'[q] >= count[q] + Cardinality({v \in V : pte[p][v].page = q})
    <3>1. CASE \E v \in S : f[v] = q
      BY <1>2, <3>1
    <3>2. CASE ~ \E v \in S : f[v] = q
      <4> DEFINE W == {v \in V : pte[p][v].page = q}
      <4>1. Cardinality(Visits(p, q)) \in Nat /\ Cardinality(W) \in Nat
            /\ Cardinality(W) <= Cardinality(Visits(p, q))
        BY <2>4, Zenon
      <4>2. CASE q \in T
        <5>1. count[q] = 0
          BY <4>2, Zenon DEF Taken, Free
        <5>2. \A v \in VPage : pte[p][v].page # q
          BY <5>1, FreeUnmapped, Zenon DEF IInv
        <5>3. W = {}
          BY <5>2, Zenon
        <5>4. Cardinality(W) = 0
          BY <5>3, FS_EmptySet, Zenon
        <5> HIDE DEF W
        <5>5. count'[q] = 1
          BY <1>2, <4>2, Zenon
        <5>6. count'[q] >= count[q] + Cardinality(W)
          BY <5>1, <5>4, <5>5
        <5> QED  BY <3>2, <5>6, Zenon DEF W
      <4>3. CASE q \notin T
        <5>1. count'[q] = count[q] + Cardinality(Visits(p, q))
          BY <1>2, <3>2, <4>3, Zenon
        <5> HIDE DEF W
        <5>2. count'[q] >= count[q] + Cardinality(W)
          BY <2>5, <4>1, <5>1
        <5> QED  BY <3>2, <5>2, Zenon DEF W
      <4> QED  BY <4>2, <4>3, Zenon
    <3> QED  BY <3>1, <3>2, Zenon
  <2>8. pte' = [pte EXCEPT
          ![p] = [v \in VPage |-> IF v \in V THEN Shared(@[v]) ELSE @[v]],
          ![c] = [v \in VPage |-> IF v \in S THEN RwUser(f[v])
                                  ELSE IF v \in V THEN Shared(pte[p][v]) ELSE NoPte]]
    BY <1>1, Zenon
  <2> HIDE DEF S, V
  <2> QED  BY <2>1, <2>2, <2>3, <2>6, <2>7, <2>8, Zenon DEF ForkTables
<1>4. Copied(p, S, f)
  <2>1. /\ S \subseteq VPage /\ f \in [S -> Page]
        /\ \A u, v \in S : f[u] = f[v] => u = v
    <3> HIDE DEF S, V
    <3> QED  BY <1>3, Zenon DEF ForkTables
  <2>2. \A v \in S : pte[p][v].page # None
    <3>1. \A v \in S : v \in StackBase..Top /\ \A u \in v..Top : Present(p, u)
      BY Zenon DEF StackCopied
    <3>2. \A v \in S : v \in v..Top
      BY <3>1, Bounds
    <3> QED  BY <3>1, <3>2, Zenon DEF Present
  <2>3. \A v \in S : pte[p][v].page \in Page
    BY <2>1, <2>2 DEF IInv, TypeOK
  <2> DEFINE g(q) == CHOOSE v \in S : f[v] = q
  <2>4. \A q \in Page : (\E v \in S : f[v] = q) => g(q) \in S /\ f[g(q)] = q
    BY Zenon
  <2>5. mem' = [q \in Page |-> IF \E v \in S : f[v] = q THEN mem[pte[p][g(q)].page] ELSE mem[q]]
    BY <1>1, Zenon
  <2> HIDE DEF g, S
  <2>6. mem \in [Page -> Value]
    BY Zenon DEF IInv, TypeOK
  <2>7. mem' \in [Page -> Value]
    BY <2>3, <2>4, <2>5, <2>6, Zenon
  <2>8. ASSUME NEW v \in S PROVE mem'[f[v]] = mem[pte[p][v].page]
    <3>1. f[v] \in Page /\ g(f[v]) = v
      BY <2>1, <2>4, Zenon
    <3> QED  BY <2>5, <3>1, Zenon
  <2>9. \A q \in Page : (\A v \in S : f[v] # q) => mem'[q] = mem[q]
    BY <2>5, Zenon
  <2> QED  BY <2>7, <2>8, <2>9, Zenon DEF Copied
<1> QED  BY <1>1, <1>3, <1>4, Zenon

\* fork_process keeps the invariant
LEMMA ForkStep ==
  ASSUME IInv, NEW p \in Proc, NEW c \in Proc, Fork(p, c), segments' = segments
  PROVE  IInv'
<1>1. CASE Halt
  BY <1>1, HaltStep, Zenon
<1>2. CASE ~ Halt
  <2> DEFINE S == StackCopied(p)
             V == {v \in VPage : IsShared(p, v)}
  <2>1. PICK f : ForkTables(p, c, V, S, f) /\ Copied(p, S, f)
    BY <1>2, ForkCopies, Zenon
  <2>2. /\ vm_end' = [vm_end EXCEPT ![c] = vm_end[p]]
        /\ brk' = [brk EXCEPT ![c] = brk[p]]
        /\ live' = live \cup {c}
        /\ UNCHANGED halted
    BY <1>2, ForkCopies, Zenon
  <2>3. \A v \in V : v \in SegmentPages \cup HeapPages(p) /\ v < StackBase
    BY SharedArea, BelowStack, Zenon DEF IInv
  <2>4. \A v \in S : v \in StackBase..Top /\ \A u \in v..Top : u \in S
    <3>1. ASSUME NEW v \in S, NEW u \in v..Top PROVE u \in S
      <4>1. v \in StackBase..Top /\ \A x \in v..Top : Present(p, x)
        BY Zenon DEF StackCopied
      <4>2. u \in StackBase..Top /\ \A x \in u..Top : x \in v..Top
        BY <4>1, Bounds
      <4> QED  BY <4>1, <4>2, Zenon DEF StackCopied
    <3> QED  BY <3>1, Zenon DEF StackCopied
  <2>5. Top \in S
    <3>1. Present(p, Top)
      BY Zenon DEF IInv, StackIsOwn, Fork
    <3> QED  BY <3>1, Bounds DEF StackCopied
  <2> HIDE DEF S, V
  <2>6. p # c /\ f \in [S -> Page] /\ count' \in [Page -> Nat] /\ V \subseteq VPage /\ S \subseteq VPage
    BY <2>1, Zenon DEF ForkTables
  <2>7. pte \in Tables
    BY Zenon DEF IInv, TypeOK, Tables, Entries
  <2>8. /\ pte' \in Tables
        /\ \A v \in VPage :
             /\ pte'[p][v] = IF v \in V THEN Shared(pte[p][v]) ELSE pte[p][v]
             /\ pte'[c][v] = IF v \in S THEN RwUser(f[v])
                             ELSE IF v \in V THEN Shared(pte[p][v]) ELSE NoPte
        /\ \A r \in Proc \ {p, c} : pte'[r] = pte[r]
    BY <2>1, <2>7, ForkEntries
  <2>9. \A v \in VPage : pte[p][v] \in Entries /\ Shared(pte[p][v]).page = pte[p][v].page
    BY <2>7, SharedEntry, Zenon DEF Tables
  <2>10. Counted(count, pte)' /\ Private(pte)'
    BY <2>1, ForkKeeps, Zenon
  <2>11. TypeOK'
    <3>1. mem' \in [Page -> Value]
      BY <2>1, Zenon DEF Copied
    <3>2. vm_end' \in [Proc -> HeapBase..StackBase] /\ brk' \in [Proc -> Nat]
      BY <2>2, Zenon DEF IInv, TypeOK
    <3> QED  BY <2>2, <2>6, <2>8, <3>1, <3>2, Zenon DEF IInv, TypeOK, Tables, Entries
  <2>12. \A v \in VPage : Present(p, v)' <=> Present(p, v)
    BY <2>8, <2>9, Zenon DEF Present
  <2>13. ASSUME NEW v \in S PROVE pte'[c][v] = RwUser(f[v]) /\ Present(c, v)'
    <3>1. v \in VPage /\ f[v] \in Page
      BY <2>6, Zenon
    <3>2. pte'[c][v] = RwUser(f[v])
      BY <2>8, <3>1, Zenon
    <3>3. pte'[c][v].page = f[v]
      BY <3>2 DEF RwUser
    <3> QED  BY <3>1, <3>2, <3>3, Bounds, Zenon DEF Present
  <2>14. \A v \in VPage : Present(c, v)' => v \in S \/ v \in V
    BY <2>8 DEF Present, NoPte
  <2>15. \A r \in Proc \ {c}, v \in VPage : Present(r, v)' <=> Present(r, v)
    BY <2>8, <2>12, Zenon DEF Present
  <2>16. StackIsOwn'
    <3>1. ASSUME NEW r \in live' PROVE Present(r, Top)'
      <4>1. CASE r = c
        BY <2>5, <2>13, <4>1, Zenon
      <4>2. CASE r # c
        <5>1. r \in Proc /\ Present(r, Top)
          BY <2>2, <4>2, Zenon DEF IInv, TypeOK, StackIsOwn
        <5> QED  BY <2>15, <4>2, <5>1, Bounds, Zenon
      <4> QED  BY <4>1, <4>2, Zenon
    <3>2. ASSUME NEW r \in Proc, NEW v \in StackBase..Top, Present(r, v)' PROVE pte'[r][v].rw
      <4>1. v \in VPage /\ v \notin V
        BY <2>3, Bounds
      <4>2. CASE r = c
        <5>1. v \in S
          BY <2>14, <3>2, <4>1, <4>2, Zenon
        <5>2. pte'[r][v] = RwUser(f[v])
          BY <2>13, <4>2, <5>1, Zenon
        <5> QED  BY <5>2 DEF RwUser
      <4>3. CASE r # c
        <5>1. pte[r][v].rw
          BY <2>15, <3>2, <4>1, <4>3, Zenon DEF IInv, StackIsOwn
        <5>2. pte'[r][v] = pte[r][v]
          BY <2>8, <4>1, <4>3, Zenon
        <5> QED  BY <5>1, <5>2, Zenon
      <4> QED  BY <4>2, <4>3, Zenon
    <3> QED  BY <3>1, <3>2, Zenon DEF StackIsOwn
  <2>17. InAreas'
    <3>1. SegmentPages' = SegmentPages
      BY Zenon DEF SegmentPages, PagesOf
    <3>2. \A r \in Proc \ {c} : HeapPages(r)' = HeapPages(r)
      BY <2>2, Zenon DEF HeapPages, IInv, TypeOK
    <3>3. HeapPages(c)' = HeapPages(p)
      BY <2>2, Zenon DEF HeapPages, IInv, TypeOK
    <3>4. ASSUME NEW v \in VPage, Present(c, v)'
          PROVE  v \in SegmentPages \cup HeapPages(p) \cup StackCopied(c)'
      <4>1. CASE v \in S
        BY <2>4, <2>13, <4>1, Zenon DEF StackCopied
      <4> QED  BY <2>3, <2>14, <3>4, <4>1, Zenon
    <3>5. ASSUME NEW r \in Proc \ {c}, NEW v \in VPage, Present(r, v)'
          PROVE  v \in SegmentPages \cup HeapPages(r) \cup StackCopied(r)'
      <4>1. v \in SegmentPages \cup HeapPages(r) \cup StackCopied(r)
        BY <2>15, <3>5, Zenon DEF IInv, InAreas
      <4>2. StackCopied(r) \subseteq StackCopied(r)'
        BY <2>15, StackKept, Zenon
      <4> QED  BY <4>1, <4>2, Zenon
    <3> QED  BY <3>1, <3>2, <3>3, <3>4, <3>5, Zenon DEF InAreas
  <2> QED  BY <2>10, <2>11, <2>16, <2>17, Zenon DEF IInv
<1> QED  BY <1>1, <1>2, Zenon

-----------------------------------------------------------------------------
(* Safety *)

\* a program's store, a system call's store, exit and the fault that stops the machine
LEMMA OtherSteps ==
  ASSUME IInv, NEW p \in Proc, NEW v \in VPage, NEW x \in Value, segments' = segments,
         Write(p, v, x) \/ KernelWrite(p, v, x) \/ SegFault(p, v) \/ Exit(p)
  PROVE  IInv'
<1>1. CASE SegFault(p, v)
  BY <1>1, HaltStep, Zenon DEF SegFault
<1>2. CASE Exit(p)
  <2>1. TypeOK'
    BY <1>2, Zenon DEF IInv, TypeOK, Exit
  <2> QED  BY <1>2, <2>1, SameTables, Zenon DEF Exit
<1>3. CASE Write(p, v, x) \/ KernelWrite(p, v, x)
  <2>1. /\ mem' = [mem EXCEPT ![pte[p][v].page] = x]
        /\ UNCHANGED <<count, pte, vm_end, brk, live, halted>>
    BY <1>3, Zenon DEF Write, KernelWrite
  <2>2. TypeOK'
    BY <2>1, Zenon DEF IInv, TypeOK
  <2> QED  BY <2>1, <2>2, SameTables, Zenon
<1> QED  BY <1>1, <1>2, <1>3, Zenon

\* Every step of a process or of a page fault keeps the invariant
LEMMA InvNext == IInv /\ [Next]_vars => IInv'
<1> SUFFICES ASSUME IInv, [Next]_vars PROVE IInv'
  BY Zenon
<1>1. CASE UNCHANGED vars
  <2>1. TypeOK'
    BY <1>1, Zenon DEF IInv, TypeOK, vars
  <2> QED  BY <1>1, <2>1, SameTables, Zenon DEF vars
<1>2. CASE Next
  <2>0. segments' = segments
    BY <1>2, Zenon DEF Next
  <2>1. ASSUME NEW c \in Proc, Load(c, {}) PROVE IInv'
    BY <2>0, <2>1, LoadStep, Zenon
  <2>2. ASSUME NEW p \in Proc, NEW c \in Proc, Load(c, {p}) PROVE IInv'
    BY <2>0, <2>2, LoadStep, Zenon
  <2>3. ASSUME NEW p \in Proc, NEW c \in Proc, Fork(p, c) PROVE IInv'
    BY <2>0, <2>3, ForkStep, Zenon
  <2>4. ASSUME NEW p \in Proc, NEW v \in VPage, CowFault(p, v) PROVE IInv'
    BY <2>0, <2>4, CowStep, Zenon
  <2>5. ASSUME NEW p \in Proc, NEW v \in VPage, DemandFault(p, v) PROVE IInv'
    BY <2>0, <2>5, DemandStep, Zenon
  <2>6. ASSUME NEW p \in Proc, NEW v \in VPage, SegFault(p, v) PROVE IInv'
    BY <2>0, <2>6, OtherSteps, Bounds, Zenon
  <2>7. ASSUME NEW p \in Proc, NEW v \in VPage, NEW x \in Value, Write(p, v, x) \/ KernelWrite(p, v, x)
        PROVE  IInv'
    BY <2>0, <2>7, OtherSteps, Zenon
  <2>8. ASSUME NEW p \in Proc, NEW b \in Brks, Brk(p, b) PROVE IInv'
    BY <2>0, <2>8, BrkStep, Zenon
  <2>9. ASSUME NEW p \in Proc, Exit(p) PROVE IInv'
    BY <2>0, <2>9, OtherSteps, Bounds, Zenon
  <2> QED  BY <1>2, <2>1, <2>2, <2>3, <2>4, <2>5, <2>6, <2>7, <2>8, <2>9, Zenon DEF Next
<1> QED  BY <1>1, <1>2, Zenon

\* The invariant implies that counts and write bits are right
LEMMA InvImplies == IInv => MappedIsCounted /\ WritableIsPrivate
<1> SUFFICES ASSUME IInv PROVE MappedIsCounted /\ WritableIsPrivate
  BY Zenon
<1>1. \A q : Mappings(q) = Maps(pte, q)
  BY Zenon DEF Mappings, Maps
<1>2. MappedIsCounted
  <2>1. \A q \in Page : Cardinality(Maps(pte, q)) <= count[q] /\ count[q] \in Nat
    BY Zenon DEF IInv, Counted
  <2>2. \A q \in Page : Cardinality(Maps(pte, q)) \in Nat
    BY MapsFinite, Zenon
  <2> QED  BY <1>1, <2>1, <2>2, Zenon DEF MappedIsCounted
<1>3. ASSUME NEW p \in Proc, NEW v \in VPage, pte[p][v].rw
      PROVE  Mappings(pte[p][v].page) = {<<p, v>>}
  <2>1. \A r \in Proc, w \in VPage : pte[r][w].page = pte[p][v].page => r = p /\ w = v
    BY <1>3, Zenon DEF IInv, Private
  <2>2. \A x \in Mappings(pte[p][v].page) :
          \E r \in Proc, w \in VPage : x = <<r, w>> /\ pte[r][w].page = pte[p][v].page
    BY DEF Mappings
  <2>3. <<p, v>> \in Mappings(pte[p][v].page)
    BY Zenon DEF Mappings
  <2> QED  BY <2>1, <2>2, <2>3, Zenon
<1> QED  BY <1>2, <1>3, Zenon DEF WritableIsPrivate

\* Page tables, counts and areas satisfy the inductive invariant, whatever order of
\* load_elf, fork_process, page faults, stores, brk and exit
THEOREM VmInvariant == Spec => []IInv
  BY InvInit, InvNext, PTL DEF Spec

\* Page tables and page counts stay well formed
THEOREM VmTyped == Spec => []TypeOK
<1>1. IInv => TypeOK
  BY Zenon DEF IInv
<1> QED  BY <1>1, VmInvariant, PTL

\* No page is given out again while a page table maps it: each release_page of the
\* copy-on-write fault takes away a count that load_elf, kmmap or fork_process added,
\* for every tree of forks and when segments share a page
THEOREM MappedPagesCounted == Spec => []MappedIsCounted
  BY InvImplies, VmInvariant, PTL

\* A page that some entry can write has no other entry: fork_process makes both sides
\* read-only, and handle_pg_fault copies before it grants the write
THEOREM WritablePagesPrivate == Spec => []WritableIsPrivate
  BY InvImplies, VmInvariant, PTL

-----------------------------------------------------------------------------
(* Refinement: one private memory per process *)

\* the memory programs see, which is the one PM is instantiated with
Memory == [p \in Proc |-> [v \in VPage |-> IF Present(p, v) THEN mem[pte[p][v].page] ELSE None]]

\* system calls store into the stack only
StackBuffers == Buffers \subseteq StackBase..Top

\* What the memory of a process is at a page
LEMMA MemoryAt ==
  /\ \A p \in Proc, v \in VPage : Memory[p][v] = IF Present(p, v) THEN mem[pte[p][v].page] ELSE None
  /\ \A p \in Proc : DOMAIN Memory[p] = VPage /\ Memory[p] = [v \in VPage |-> Memory[p][v]]
  /\ Memory = [p \in Proc |-> Memory[p]]
  BY Zenon DEF Memory

\* At a mapped page it is the content of the physical page
LEMMA MappedValue ==
  ASSUME IInv, NEW p \in Proc, NEW v \in VPage
  PROVE  /\ Present(p, v) => pte[p][v].page \in Page /\ mem[pte[p][v].page] \in Value
         /\ Memory[p][v] = None <=> ~ Present(p, v)
<1>1. Present(p, v) => pte[p][v].page \in Page /\ mem[pte[p][v].page] \in Value
  BY DEF IInv, TypeOK, Present
<1> QED  BY <1>1, MemoryAt, Bounds, Zenon

\* two memories with the same contents
LEMMA SameMemory ==
  ASSUME \A p \in Proc, v \in VPage : Memory'[p][v] = Memory[p][v]
  PROVE  Memory' = Memory
  BY Zenon DEF Memory

\* pages filled with x appear in the memory of p, and nothing else changes
LEMMA FilledMemory ==
  ASSUME IInv, NEW p \in Proc, NEW S, NEW f, NEW x, Filled(p, S, f, x)
  PROVE  /\ \A v \in VPage : Memory'[p][v] = IF v \in S THEN x ELSE Memory[p][v]
         /\ \A v \in S : Memory[p][v] = None
         /\ \A r \in Proc \ {p} : Memory'[r] = Memory[r]
<1>1. /\ S \subseteq VPage /\ f \in [S -> Page]
      /\ \A v \in S : count[f[v]] = 0 /\ ~ Present(p, v)
      /\ mem' = [q \in Page |-> IF \E v \in S : f[v] = q THEN x ELSE mem[q]]
      /\ \A r \in Proc, v \in VPage :
           IF r = p /\ v \in S THEN pte'[r][v].page = f[v] ELSE pte'[r][v].page = pte[r][v].page
  BY Zenon DEF Filled
<1>2. ASSUME NEW r \in Proc, NEW v \in VPage, ~ (r = p /\ v \in S) PROVE Memory'[r][v] = Memory[r][v]
  <2>1. pte'[r][v].page = pte[r][v].page
    BY <1>1, <1>2, Zenon
  <2>2. CASE Present(r, v)
    <3>1. pte[r][v].page \in Page
      BY <2>2, MappedValue, Zenon
    <3>2. \A u \in S : f[u] # pte[r][v].page
      BY <1>1, FreeUnmapped DEF IInv
    <3>3. mem'[pte[r][v].page] = mem[pte[r][v].page]
      BY <1>1, <3>1, <3>2, Zenon
    <3> QED  BY <2>1, <2>2, <3>3, Zenon DEF Memory, Present
  <2>3. CASE ~ Present(r, v)
    BY <2>1, <2>3, Zenon DEF Memory, Present
  <2> QED  BY <2>2, <2>3, Zenon
<1>3. ASSUME NEW v \in S PROVE Memory'[p][v] = x
  <2>1. v \in VPage /\ f[v] \in Page /\ pte'[p][v].page = f[v]
    BY <1>1, Zenon
  <2>2. mem'[f[v]] = x
    BY <1>1, <2>1, Zenon
  <2>3. f[v] # None
    BY <2>1, Bounds, Zenon
  <2> QED  BY <2>1, <2>2, <2>3, Zenon DEF Memory, Present
<1>4. \A v \in S : Memory[p][v] = None
  BY <1>1, Zenon DEF Memory
<1>5. ASSUME NEW r \in Proc \ {p} PROVE Memory'[r] = Memory[r]
  <2>1. \A v \in VPage : Memory'[r][v] = Memory[r][v]
    BY <1>2, Zenon
  <2> QED  BY <2>1, Zenon DEF Memory
<1> QED  BY <1>1, <1>2, <1>3, <1>4, <1>5, Zenon

\* a change to the memory of p alone
LEMMA OnlyOne ==
  ASSUME NEW p \in Proc, \A r \in Proc \ {p} : Memory'[r] = Memory[r]
  PROVE  Memory' = [Memory EXCEPT ![p] = Memory'[p]]
<1>1. Memory' = [r \in Proc |-> Memory'[r]]
  BY Zenon DEF Memory
<1>2. Memory = [r \in Proc |-> Memory[r]]
  BY Zenon DEF Memory
<1> QED  BY <1>1, <1>2, Zenon

\* A process that does not exist yet has no memory
LEMMA NewIsFresh ==
  ASSUME NEW c \in Proc, New(c)
  PROVE  PM!Fresh(c)
  BY Zenon DEF New, PM!Fresh

\* A process that is alive does not start again
LEMMA LiveIsNotNew ==
  ASSUME IInv, NEW p \in live
  PROVE  p \in Proc /\ ~ New(p)
  BY Bounds, Zenon DEF IInv, TypeOK, StackIsOwn, New

\* load_elf gives the process a fresh image
LEMMA LoadRefines ==
  ASSUME IInv, NEW c \in Proc, NEW retired, Load(c, retired), ~ Halt
  PROVE  PM!Image(c) /\ live' = (live \ retired) \cup {c}
<1> DEFINE S == SegmentPages \cup {Top}
<1>1. PICK f : Filled(c, S, f, 1)
  BY LoadFills, Zenon
<1>2. /\ \A v \in VPage : Memory'[c][v] = IF v \in S THEN 1 ELSE Memory[c][v]
      /\ \A r \in Proc \ {c} : Memory'[r] = Memory[r]
  <2> HIDE DEF S
  <2> QED  BY <1>1, FilledMemory
<1>3. \A v \in VPage : Memory[c][v] = None
  BY Zenon DEF Load, New, Memory
<1>4. Memory'[c] = [v \in VPage |-> IF v \in PagesOf(segments) \cup {Top} THEN 1 ELSE None]
  <2>1. \A v \in VPage : Memory'[c][v] = IF v \in PagesOf(segments) \cup {Top} THEN 1 ELSE None
    BY <1>2, <1>3, Zenon DEF SegmentPages
  <2>2. Memory'[c] = [v \in VPage |-> Memory'[c][v]]
    BY Zenon DEF Memory
  <2> QED  BY <2>1, <2>2, Zenon
<1>5. segments \in Layouts
  BY Zenon DEF IInv, TypeOK
<1>6. Memory'[c] \in Images
  BY <1>4, <1>5, Zenon DEF Images
<1>7. Memory' = [Memory EXCEPT ![c] = Memory'[c]]
  BY <1>2, OnlyOne, Zenon
<1>8. PM!Fresh(c)
  BY NewIsFresh, Zenon DEF Load
<1>9. PM!Image(c)
  BY <1>6, <1>7, <1>8, Zenon DEF PM!Image, PM!Only, Memory
<1> QED  BY <1>9, LoadFills, Zenon

\* fork_process gives the child the parent's memory
LEMMA ForkRefines ==
  ASSUME IInv, NEW p \in Proc, NEW c \in Proc, Fork(p, c), ~ Halt
  PROVE  c # p /\ PM!Fork(p, c)
<1> DEFINE S == StackCopied(p)
           V == {v \in VPage : IsShared(p, v)}
<1>1. PICK f : ForkTables(p, c, V, S, f) /\ Copied(p, S, f)
  BY ForkCopies, Zenon
<1>2. \A v \in VPage : Present(p, v) => v \in V \/ v \in S
  BY SharedArea, Zenon DEF IInv, InAreas
<1>3. \A v \in V : Present(p, v)
  BY Zenon DEF IsShared
<1>4. \A v \in S : Present(p, v)
  <2>1. \A v \in S : v \in StackBase..Top /\ \A u \in v..Top : Present(p, u)
    BY Zenon DEF StackCopied
  <2>2. \A v \in S : v \in v..Top
    BY <2>1, Bounds
  <2> QED  BY <2>1, <2>2, Zenon
<1> HIDE DEF S, V
<1>5. /\ p # c /\ V \subseteq VPage /\ S \subseteq VPage /\ V \cap S = {} /\ f \in [S -> Page]
      /\ \A v \in S : count[f[v]] = 0
  BY <1>1, Zenon DEF ForkTables
<1>6. pte \in Tables
  BY Zenon DEF IInv, TypeOK, Tables, Entries
<1>7. /\ \A v \in VPage :
           /\ pte'[p][v] = IF v \in V THEN Shared(pte[p][v]) ELSE pte[p][v]
           /\ pte'[c][v] = IF v \in S THEN RwUser(f[v])
                           ELSE IF v \in V THEN Shared(pte[p][v]) ELSE NoPte
      /\ \A r \in Proc \ {p, c} : pte'[r] = pte[r]
  BY <1>1, <1>6, ForkEntries
<1>8. \A v \in VPage : pte[p][v] \in Entries /\ Shared(pte[p][v]).page = pte[p][v].page
  BY <1>6, SharedEntry, Zenon DEF Tables
<1>9. ASSUME NEW r \in Proc, NEW v \in VPage, Present(r, v)
      PROVE  mem'[pte[r][v].page] = mem[pte[r][v].page]
  <2>1. pte[r][v].page \in Page
    BY <1>9, MappedValue, Zenon
  <2>2. \A u \in S : f[u] # pte[r][v].page
    BY <1>5, FreeUnmapped DEF IInv
  <2> QED  BY <1>1, <2>1, <2>2, Zenon DEF Copied
<1>10. ASSUME NEW r \in Proc \ {c} PROVE Memory'[r] = Memory[r]
  <2>1. \A v \in VPage : pte'[r][v].page = pte[r][v].page
    BY <1>7, <1>8, Zenon
  <2>2. \A v \in VPage : Memory'[r][v] = Memory[r][v]
    BY <1>9, <2>1 DEF Memory, Present
  <2> QED  BY <2>2, Zenon DEF Memory
<1>11. ASSUME NEW v \in VPage PROVE Memory'[c][v] = Memory[p][v]
  <2>1. CASE v \in S
    <3>1. pte'[c][v].page = f[v] /\ f[v] \in Page
      <4>1. pte'[c][v] = RwUser(f[v])
        BY <1>7, <2>1, Zenon
      <4> QED  BY <1>5, <2>1, <4>1 DEF RwUser
    <3>2. mem'[f[v]] = mem[pte[p][v].page]
      BY <1>1, <2>1, Zenon DEF Copied
    <3>3. f[v] # None
      BY <3>1, Bounds, Zenon
    <3> QED  BY <1>4, <2>1, <3>1, <3>2, <3>3, Zenon DEF Memory, Present
  <2>2. CASE v \in V
    <3>1. pte'[c][v].page = pte[p][v].page
      BY <1>5, <1>7, <1>8, <2>2, Zenon
    <3> QED  BY <1>3, <1>9, <2>2, <3>1, Zenon DEF Memory, Present
  <2>3. CASE v \notin S /\ v \notin V
    <3>1. pte'[c][v].page = None
      BY <1>7, <2>3 DEF NoPte
    <3>2. ~ Present(p, v)
      BY <1>2, <2>3, Zenon
    <3> QED  BY <3>1, <3>2, Zenon DEF Memory, Present
  <2> QED  BY <2>1, <2>2, <2>3, Zenon
<1>12. Memory'[c] = Memory[p]
  BY <1>11, Zenon DEF Memory
<1>13. Memory' = [Memory EXCEPT ![c] = Memory[p]]
  BY <1>10, <1>12, OnlyOne, Zenon
<1>14. PM!Fresh(c)
  BY NewIsFresh, Zenon DEF Fork
<1>15. live' = live \cup {c}
  BY ForkCopies, Zenon
<1> QED  BY <1>5, <1>13, <1>14, <1>15, Zenon DEF PM!Fork, Memory

\* A page that a fault fills shows no process anything new
LEMMA DemandRefines ==
  ASSUME IInv, NEW p \in Proc, NEW w \in VPage, DemandFault(p, w), ~ Halt
  PROVE  PM!Map(p)
<1>1. PICK f : Filled(p, Absent(p, w), f, 0)
  BY DemandFills, Zenon
<1>2. /\ \A v \in VPage : Memory'[p][v] = IF v \in Absent(p, w) THEN 0 ELSE Memory[p][v]
      /\ \A v \in Absent(p, w) : Memory[p][v] = None
      /\ \A r \in Proc \ {p} : Memory'[r] = Memory[r]
  BY <1>1, FilledMemory, Zenon
<1>3. \A v \in VPage : Memory'[p][v] = Memory[p][v] \/ (Memory[p][v] = None /\ Memory'[p][v] = 0)
  BY <1>2, Zenon
<1>4. Memory' = [Memory EXCEPT ![p] = Memory'[p]]
  BY <1>2, OnlyOne, Zenon
<1>5. live' = live
  BY DemandFills, Zenon
<1> QED  BY <1>3, <1>4, <1>5, Zenon DEF PM!Map, PM!Only, Memory

\* the copy holds what the shared page holds
LEMMA CowRefines ==
  ASSUME IInv, NEW p \in Proc, NEW v \in VPage, CowFault(p, v)
  PROVE  Memory' = Memory /\ live' = live
<1>1. CASE Halt
  BY <1>1, Zenon DEF Halt, Memory, Present
<1>2. CASE ~ Halt
  <2> DEFINE old == pte[p][v].page
  <2>1. PICK q \in Free :
          /\ mem' = [mem EXCEPT ![q] = mem[old]]
          /\ pte' = [pte EXCEPT ![p][v] = RwUser(q)]
          /\ UNCHANGED live
    BY <1>2, Zenon DEF CowFault
  <2>2. old # None /\ old \in Page /\ mem \in [Page -> Value] /\ pte \in Tables
    BY DEF CowFault, Present, IInv, TypeOK, Tables, Entries
  <2>3. q \in Page /\ count[q] = 0 /\ q # None
    BY Bounds, Zenon DEF Free
  <2>4. \A r \in Proc, w \in VPage : pte[r][w].page # q
    BY <2>3, FreeUnmapped, Zenon DEF IInv
  <2>5. /\ pte'[p][v].page = q
        /\ \A r \in Proc, w \in VPage : r # p \/ w # v => pte'[r][w] = pte[r][w]
    BY <2>1, <2>2, Zenon DEF Tables, RwUser
  <2>6. mem'[q] = mem[old] /\ \A x \in Page \ {q} : mem'[x] = mem[x]
    BY <2>1, <2>2, <2>3, Zenon
  <2>7. ASSUME NEW r \in Proc, NEW w \in VPage PROVE Memory'[r][w] = Memory[r][w]
    <3>1. CASE r = p /\ w = v
      BY <2>2, <2>3, <2>5, <2>6, <3>1, Zenon DEF Memory, Present
    <3>2. CASE r # p \/ w # v
      <4>1. pte'[r][w] = pte[r][w]
        BY <2>5, <3>2, Zenon
      <4>2. CASE Present(r, w)
        <5>1. pte[r][w].page \in Page \ {q}
          BY <2>4, <4>2, MappedValue, Zenon
        <5> QED  BY <2>6, <4>1, <4>2, <5>1, Zenon DEF Memory, Present
      <4>3. CASE ~ Present(r, w)
        BY <4>1, <4>3, Zenon DEF Memory, Present
      <4> QED  BY <4>2, <4>3, Zenon
    <3> QED  BY <3>1, <3>2, Zenon
  <2>8. Memory' = Memory
    BY <2>7, SameMemory, Zenon
  <2> QED  BY <2>1, <2>8, Zenon
<1> QED  BY <1>1, <1>2, Zenon

\* a store reaches no other memory: the page is writable, or it is in the stack
LEMMA WriteRefines ==
  ASSUME IInv, StackBuffers, NEW p \in Proc, NEW v \in VPage, NEW x \in Value,
         Write(p, v, x) \/ KernelWrite(p, v, x)
  PROVE  PM!Write(p, v, x)
<1>1. /\ Present(p, v)
      /\ mem' = [mem EXCEPT ![pte[p][v].page] = x]
      /\ UNCHANGED <<pte, live>>
  BY Zenon DEF Write, KernelWrite
<1>2. pte[p][v].rw
  <2>1. CASE Write(p, v, x)
    BY <2>1, Zenon DEF Write
  <2>2. CASE KernelWrite(p, v, x)
    <3>1. v \in StackBase..Top
      BY <2>2, Zenon DEF KernelWrite, StackBuffers
    <3> QED  BY <1>1, <3>1, Zenon DEF IInv, StackIsOwn
  <2> QED  BY <2>1, <2>2, Zenon
<1>3. \A r \in Proc, w \in VPage : pte[r][w].page = pte[p][v].page => r = p /\ w = v
  BY <1>2, Zenon DEF IInv, Private
<1>4. pte[p][v].page \in Page /\ mem \in [Page -> Value]
  BY <1>1, MappedValue, Zenon DEF IInv, TypeOK
<1>5. mem'[pte[p][v].page] = x /\ \A q \in Page : q # pte[p][v].page => mem'[q] = mem[q]
  BY <1>1, <1>4, Zenon
<1>6. Memory'[p][v] = x
  BY <1>1, <1>5, Zenon DEF Memory, Present
<1>7. ASSUME NEW r \in Proc, NEW w \in VPage, r # p \/ w # v PROVE Memory'[r][w] = Memory[r][w]
  <2>1. CASE Present(r, w)
    <3>1. pte[r][w].page \in Page /\ pte[r][w].page # pte[p][v].page
      BY <1>3, <1>7, <2>1, MappedValue, Zenon
    <3> QED  BY <1>1, <1>5, <2>1, <3>1, Zenon DEF Memory, Present
  <2>2. CASE ~ Present(r, w)
    BY <1>1, <2>2, Zenon DEF Memory, Present
  <2> QED  BY <2>1, <2>2, Zenon
<1>8. Memory' = [Memory EXCEPT ![p][v] = x]
  <2>1. Memory'[p] = [Memory[p] EXCEPT ![v] = x]
    <3>1. Memory'[p] = [w \in VPage |-> Memory'[p][w]]
      BY Zenon DEF Memory
    <3>2. Memory[p] = [w \in VPage |-> Memory[p][w]]
      BY Zenon DEF Memory
    <3>3. \A w \in VPage : Memory'[p][w] = IF w = v THEN x ELSE Memory[p][w]
      BY <1>6, <1>7, Zenon
    <3> QED  BY <3>1, <3>2, <3>3, Zenon
  <2>2. \A r \in Proc \ {p} : Memory'[r] = Memory[r]
    BY <1>7, Zenon DEF Memory
  <2>3. Memory' = [Memory EXCEPT ![p] = Memory'[p]]
    BY <2>2, OnlyOne, Zenon
  <2> QED  BY <2>1, <2>3, Zenon
<1>9. Memory[p][v] # None
  BY <1>1, MappedValue, Zenon
<1> QED  BY <1>1, <1>8, <1>9, Zenon DEF PM!Write, Memory

\* Every step is a step of private memories or changes none of them
LEMMA NextRefines ==
  ASSUME IInv, StackBuffers, [Next]_vars
  PROVE  [PM!Next]_(PM!vars)
<1>0. Memory' = Memory /\ live' = live => UNCHANGED PM!vars
  BY Zenon DEF PM!vars, Memory
<1>1. Halt => UNCHANGED PM!vars
  <2>1. Halt => Memory' = Memory /\ live' = live
    BY Zenon DEF Halt, Memory, Present
  <2> QED  BY <1>0, <2>1, Zenon
<1>2. CASE UNCHANGED vars
  <2>1. Memory' = Memory /\ live' = live
    BY <1>2, Zenon DEF vars, Memory, Present
  <2> QED  BY <1>0, <2>1, Zenon
<1>3. CASE Next
  <2>1. ASSUME NEW c \in Proc, \A p \in Proc : New(p), Load(c, {}) PROVE [PM!Next]_(PM!vars)
    <3>1. live = {}
      BY <2>1, LiveIsNotNew, Zenon
    <3>2. \A q \in Proc : PM!Fresh(q)
      BY <2>1, NewIsFresh, Zenon
    <3>3. CASE ~ Halt
      <4>1. PM!Image(c) /\ live' = {c}
        BY <2>1, <3>1, <3>3, LoadRefines, Zenon
      <4> QED  BY <3>2, <4>1, Zenon DEF PM!Next, PM!Boot
    <3> QED  BY <1>1, <3>3, Zenon
  <2>2. ASSUME NEW p \in Proc, NEW c \in Proc, p \in live, Load(c, {p}) PROVE [PM!Next]_(PM!vars)
    <3>1. c # p
      BY <2>2, LiveIsNotNew, Zenon DEF Load
    <3>2. CASE ~ Halt
      <4>1. PM!Image(c) /\ live' = (live \ {p}) \cup {c}
        BY <2>2, <3>2, LoadRefines, Zenon
      <4>2. PM!Exec(p, c)
        BY <4>1, Zenon DEF PM!Exec
      <4> QED  BY <2>2, <3>1, <4>2, Zenon DEF PM!Next
    <3> QED  BY <1>1, <3>2, Zenon
  <2>3. ASSUME NEW p \in Proc, NEW c \in Proc, Fork(p, c) PROVE [PM!Next]_(PM!vars)
    <3>1. CASE ~ Halt
      <4>1. c # p /\ PM!Fork(p, c)
        BY <2>3, <3>1, ForkRefines, Zenon
      <4>2. p \in live
        BY <2>3, Zenon DEF Fork
      <4> QED  BY <4>1, <4>2, Zenon DEF PM!Next
    <3> QED  BY <1>1, <3>1, Zenon
  <2>4. ASSUME NEW p \in Proc, NEW v \in VPage, CowFault(p, v) PROVE [PM!Next]_(PM!vars)
    BY <1>0, <2>4, CowRefines, Zenon
  <2>5. ASSUME NEW p \in Proc, NEW v \in VPage, DemandFault(p, v) PROVE [PM!Next]_(PM!vars)
    <3>1. CASE ~ Halt
      <4>1. PM!Map(p)
        BY <2>5, <3>1, DemandRefines, Zenon
      <4>2. p \in live
        BY <2>5, Zenon DEF DemandFault
      <4> QED  BY <4>1, <4>2, Zenon DEF PM!Next
    <3> QED  BY <1>1, <3>1, Zenon
  <2>6. ASSUME NEW p \in Proc, NEW v \in VPage, SegFault(p, v) PROVE [PM!Next]_(PM!vars)
    BY <1>1, <2>6, Zenon DEF SegFault
  <2>7. ASSUME NEW p \in Proc, NEW v \in VPage, NEW x \in Value, Write(p, v, x) \/ KernelWrite(p, v, x)
        PROVE  [PM!Next]_(PM!vars)
    <3>1. PM!Write(p, v, x)
      BY <2>7, WriteRefines, Zenon
    <3>2. p \in live
      BY <2>7, Zenon DEF Write, KernelWrite
    <3> QED  BY <3>1, <3>2, Zenon DEF PM!Next
  <2>8. ASSUME NEW p \in Proc, NEW b \in Brks, Brk(p, b) PROVE [PM!Next]_(PM!vars)
    <3>1. Memory' = Memory /\ live' = live
      BY <2>8, Zenon DEF Brk, Memory, Present
    <3> QED  BY <1>0, <3>1, Zenon
  <2>9. ASSUME NEW p \in Proc, Exit(p) PROVE [PM!Next]_(PM!vars)
    <3>1. Memory' = Memory /\ p \in live /\ live' = live \ {p}
      BY <2>9, Zenon DEF Exit, Memory, Present
    <3>2. PM!Exit(p)
      BY <3>1, Zenon DEF PM!Exit, Memory
    <3> QED  BY <3>1, <3>2, Zenon DEF PM!Next
  <2> QED  BY <1>3, <2>1, <2>2, <2>3, <2>4, <2>5, <2>6, <2>7, <2>8, <2>9, Zenon DEF Next
<1> QED  BY <1>2, <1>3, Zenon

\* Sharing pages cannot be observed: when system calls store into the stack only, the
\* page tables of any number of processes behave like one private memory per process,
\* whatever the order of fork, execve, copy-on-write and demand faults
THEOREM VmRefines == ASSUME StackBuffers PROVE Spec => ImplementsPrivateMemory
<1>1. Init => PM!Init
  BY DEF Init, PM!Init, Present, NoPte
<1>2. IInv /\ [Next]_vars => [PM!Next]_(PM!vars)
  BY NextRefines, Zenon
<1> QED  BY <1>1, <1>2, VmInvariant, PTL DEF Spec, ImplementsPrivateMemory, PM!Spec
==============================================================================
