----------------------------- MODULE PoolProofs ------------------------------
(***************************************************************************)
(* Proofs about the pools of TaskPool and the lists of vmas, for any       *)
(* number of structures and of structures in a page, in whatever order     *)
(* processes fork, execute a program and exit.                             *)
(***************************************************************************)
EXTENDS Process, FiniteSetTheorems, WellFoundedInduction, TLAPS
-----------------------------------------------------------------------------
(* Pools and lists.  Structures come back to the pool of vmas only, and    *)
(* then one of them with nothing behind it, so that the free list of every *)
(* pool is an interval.                                                    *)

\* the free list of the pool p when it ends at l
Left(p, l) == IF p.head = 0 THEN {} ELSE p.head..l

\* the pool p has the free list Left(p, l), and the structures U are in use
Sound(p, l, U) ==
  /\ p \in Pools /\ l \in 0..p.made /\ (p.head # 0 => p.head <= l /\ p.free[l] = 0)
  /\ p.head # 0 => \A i \in Struct : p.head <= i /\ i < l => p.free[i] = i + 1
  /\ \A i \in Struct : p.made < i => p.free[i] = 0
  /\ \A u \in U : u \in Struct /\ u <= p.made /\ p.free[u] = 0 /\ u \notin Left(p, l)

\* i calls of get_* have made no more structures than Within allows for
Spare(p, l, m, i, c) ==
  \/ p.made = m
  \/ p.head = 0 /\ p.made <= m + i
  \/ p.head # 0 /\ l = p.made /\ p.head <= m + i + 1 /\ p.made < p.head + c

\* What every sequence is
LEMMA SeqIs ==
  ASSUME NEW S, NEW s \in Seq(S)
  PROVE  Len(s) \in Nat /\ DOMAIN s = 1..Len(s) /\ (s = <<>> <=> Len(s) = 0)
  OBVIOUS

\* A set of numbers that is not empty has a least one
LEMMA Least ==
  ASSUME NEW S \in SUBSET Nat, S # {} PROVE \E i \in S : \A k \in S : i <= k
<1> DEFINE R == OpToRel(<, Nat)
<1>1. IsWellFoundedOn(R, Nat)
  BY NatLessThanWellFounded, Zenon
<1>2. \A x, y \in Nat : x < y => <<x, y>> \in R
  BY Zenon DEF OpToRel
<1> HIDE DEF R
<1>3. PICK x \in S : \A y \in S : ~ (<<y, x>> \in R)
  BY <1>1, WFMin, Zenon
<1>4. ASSUME NEW k \in S PROVE x <= k
  <2>1. k \in Nat /\ x \in Nat
    BY Zenon
  <2>2. ~ (k < x)
    BY <1>2, <1>3, <2>1, Zenon
  <2> QED  BY <2>1, <2>2
<1> QED  BY <1>4, Zenon

\* the pool p without its first structure
Taken(p) == [p EXCEPT !.head = p.free[p.head], !.free = [p.free EXCEPT ![p.head] = 0]]

\* get_* on a pool that is not empty
LEMMA GetFirst ==
  ASSUME NEW p, NEW l, NEW U, Sound(p, l, U), p.head # 0, NEW q, q = Taken(p)
  PROVE  /\ p.head \in Struct /\ p.head \notin U /\ Sound(q, l, U \cup {p.head})
         /\ q.made = p.made /\ q.head = IF p.head = l THEN 0 ELSE p.head + 1
<1>1. MaxStruct \in Nat /\ Struct = 1..MaxStruct
  BY TaskPoolAssumption, Zenon DEF Struct
<1>2. /\ p.head \in 0..MaxStruct /\ p.made \in 0..MaxStruct /\ p.free \in [Struct -> 0..MaxStruct]
      /\ l \in 0..p.made /\ p.head <= l /\ p.free[l] = 0 /\ p \in Pools
  BY Zenon DEF Sound, Pools
<1>3. p.head \in Struct /\ l \in Struct
  BY <1>1, <1>2
<1>4. p.head \notin U
  <2>1. p.head \in Left(p, l)
    BY <1>2 DEF Left
  <2> QED  BY <2>1, Zenon DEF Sound
<1> DEFINE h == p.free[p.head]
           f == [p.free EXCEPT ![p.head] = 0]
<1>5. h = IF p.head = l THEN 0 ELSE p.head + 1
  <2>1. CASE p.head = l
    BY <1>2, <2>1, Zenon
  <2>2. CASE p.head # l
    <3>1. p.head < l
      BY <1>1, <1>2, <2>2
    <3> QED  BY <1>2, <1>3, <2>2, <3>1 DEF Sound
  <2> QED  BY <2>1, <2>2, Zenon
<1>6. /\ h \in 0..MaxStruct /\ f \in [Struct -> 0..MaxStruct]
      /\ \A i \in Struct : f[i] = IF i = p.head THEN 0 ELSE p.free[i]
  BY <1>1, <1>2, <1>3, Zenon
<1>7. q = [p EXCEPT !.head = h, !.free = f]
  BY Zenon DEF Taken
<1> HIDE DEF h, f
<1>8. q.head = h /\ q.made = p.made /\ q.free = f /\ q \in Pools
  BY <1>2, <1>6, <1>7, Zenon DEF Pools
<1>9. q.head # 0 => q.head <= l /\ q.free[l] = 0
  <2>1. q.free[l] = 0
    BY <1>2, <1>3, <1>6, <1>8, Zenon
  <2>2. q.head # 0 => q.head <= l
    BY <1>1, <1>2, <1>5, <1>8
  <2> QED  BY <2>1, <2>2, Zenon
<1>10. ASSUME q.head # 0, NEW i \in Struct, q.head <= i, i < l PROVE q.free[i] = i + 1
  <2>1. i # p.head /\ p.head <= i
    BY <1>1, <1>2, <1>5, <1>8, <1>10
  <2>2. p.free[i] = i + 1
    BY <1>2, <1>10, <2>1, Zenon DEF Sound
  <2> QED  BY <1>6, <1>8, <1>10, <2>1, <2>2, Zenon
<1>11. ASSUME NEW i \in Struct, q.made < i PROVE q.free[i] = 0
  BY <1>6, <1>8, <1>11, Zenon DEF Sound
<1>12. ASSUME NEW u \in U \cup {p.head}
       PROVE  u \in Struct /\ u <= q.made /\ q.free[u] = 0 /\ u \notin Left(q, l)
  <2>1. CASE u = p.head
    <3>1. u \in Struct /\ u <= q.made /\ q.free[u] = 0
      BY <1>1, <1>2, <1>3, <1>6, <1>8, <2>1
    <3>2. u \notin Left(q, l)
      BY <1>1, <1>2, <1>5, <1>8, <2>1 DEF Left
    <3> QED  BY <3>1, <3>2, Zenon
  <2>2. CASE u \in U
    <3>1. u \in Struct /\ u <= p.made /\ p.free[u] = 0 /\ u \notin p.head..l
      BY <2>2, Zenon DEF Sound, Left
    <3>2. q.free[u] = 0
      BY <1>6, <1>8, <3>1, Zenon
    <3>3. u \notin Left(q, l)
      BY <1>1, <1>2, <1>5, <1>8, <3>1 DEF Left
    <3> QED  BY <1>8, <3>1, <3>2, <3>3, Zenon
  <2> QED  BY <2>1, <2>2, Zenon
<1>13. l \in 0..q.made
  BY <1>2, <1>8, Zenon
<1>14. Sound(q, l, U \cup {p.head})
  BY <1>8, <1>9, <1>10, <1>11, <1>12, <1>13, Zenon DEF Sound
<1> QED  BY <1>3, <1>4, <1>5, <1>8, <1>14, Zenon

\* reload_* on an empty pool
LEMMA ReloadSound ==
  ASSUME NEW d \in Kinds, NEW p, NEW l, NEW U, Sound(p, l, U), p.head = 0, p.made + PerPage[d] <= MaxStruct
  PROVE  LET r == Reload(d, p)
         IN /\ r.head = p.made + 1 /\ r.made = p.made + PerPage[d] /\ Sound(r, r.made, U)
<1> DEFINE c == PerPage[d]
           r == Reload(d, p)
           f == [i \in Struct |-> IF i \in (p.made + 1)..(p.made + c - 1) THEN i + 1 ELSE p.free[i]]
<1>1. MaxStruct \in Nat /\ Struct = 1..MaxStruct /\ c \in Nat /\ c > 0
  BY TaskPoolAssumption DEF Struct
<1>2. /\ p.made \in Nat /\ p.free \in [Struct -> 0..MaxStruct]
      /\ \A i \in Struct : p.made < i => p.free[i] = 0
  BY <1>1 DEF Sound, Pools
<1>3. r = [head |-> p.made + 1, free |-> f, made |-> p.made + c]
  BY Zenon DEF Reload
<1>4. p.made + c <= MaxStruct
  BY Zenon
<1> HIDE DEF c
<1>5. /\ f \in [Struct -> 0..MaxStruct]
      /\ \A i \in Struct : f[i] = IF i \in (p.made + 1)..(p.made + c - 1) THEN i + 1 ELSE p.free[i]
  BY <1>1, <1>2, <1>4
<1> HIDE DEF f, r
<1>6. r.head = p.made + 1 /\ r.made = p.made + c /\ r.free = f
  BY <1>3, Zenon
<1>7. r \in Pools /\ r.made \in 0..r.made /\ r.head <= r.made /\ r.made \in Struct
  <2>1. p.made + 1 \in 0..MaxStruct /\ p.made + c \in 0..MaxStruct
    BY <1>1, <1>2, <1>4
  <2>2. r \in Pools
    BY <1>3, <1>5, <2>1, Zenon DEF Pools
  <2>3. r.made \in 0..r.made /\ r.head <= r.made /\ r.made \in Struct
    BY <1>1, <1>2, <1>4, <1>6
  <2> QED  BY <2>2, <2>3, Zenon
<1>8. r.free[r.made] = 0
  <2>1. p.made + c \in Struct /\ p.made < p.made + c /\ p.made + c \notin (p.made + 1)..(p.made + c - 1)
    BY <1>1, <1>2, <1>4
  <2> QED  BY <1>2, <1>5, <1>6, <2>1, Zenon
<1>9. ASSUME NEW i \in Struct, r.head <= i, i < r.made PROVE r.free[i] = i + 1
  BY <1>1, <1>2, <1>5, <1>6, <1>9
<1>10. ASSUME NEW i \in Struct, r.made < i PROVE r.free[i] = 0
  <2>1. p.made < i /\ i \notin (p.made + 1)..(p.made + c - 1)
    BY <1>1, <1>2, <1>6, <1>10
  <2> QED  BY <1>2, <1>5, <1>6, <2>1, Zenon
<1>11. ASSUME NEW u \in U PROVE u \in Struct /\ u <= r.made /\ r.free[u] = 0 /\ u \notin Left(r, r.made)
  <2>1. u \in Struct /\ u <= p.made /\ p.free[u] = 0
    BY Zenon DEF Sound
  <2>2. u \notin r.head..r.made
    BY <1>1, <1>2, <1>6, <2>1
  <2> QED  BY <1>1, <1>2, <1>5, <1>6, <2>1, <2>2 DEF Left
<1> QED  BY <1>6, <1>7, <1>8, <1>9, <1>10, <1>11, Zenon DEF Sound, r, c

\* one call of get_*
LEMMA GetOnce ==
  ASSUME NEW d \in Kinds, NEW p, NEW l, NEW U, Sound(p, l, U), NEW m \in Nat, NEW i \in Nat,
         Spare(p, l, m, i, PerPage[d]), m + i + 1 + PerPage[d] <= MaxStruct
  PROVE  LET h == Ready(d, p).head
         IN /\ h \in Struct /\ h \notin U
            /\ \E k : Sound(Get(d, p), k, U \cup {h}) /\ Spare(Get(d, p), k, m, i + 1, PerPage[d])
<1> DEFINE c == PerPage[d]
           r == Ready(d, p)
           q == Get(d, p)
<1>1. MaxStruct \in Nat /\ c \in Nat /\ c > 0
  BY TaskPoolAssumption
<1>2. p.made \in Nat /\ p.head \in Nat /\ l \in Nat
  BY <1>1 DEF Sound, Pools
<1>3. PICK k : Sound(r, k, U) /\ r.head # 0 /\ Spare(r, k, m, i, c)
  <2>1. CASE p.head # 0
    BY <2>1, Zenon DEF Ready
  <2>2. CASE p.head = 0
    <3>1. p.made + c <= MaxStruct /\ p.made <= m + i
      BY <1>1, <1>2, <2>2 DEF Spare
    <3>2. r.head = p.made + 1 /\ r.made = p.made + c /\ Sound(r, r.made, U)
      BY <2>2, <3>1, ReloadSound, Zenon DEF Ready
    <3>3. Spare(r, r.made, m, i, c)
      <4> HIDE DEF r, c
      <4> QED  BY <1>1, <1>2, <3>1, <3>2 DEF Spare
    <3>4. r.head # 0
      <4> HIDE DEF r
      <4> QED  BY <1>2, <3>2
    <3> QED  BY <3>2, <3>3, <3>4, Zenon
  <2> QED  BY <2>1, <2>2, Zenon
<1>4. q = Taken(r)
  BY Zenon DEF Get, Taken
<1> HIDE DEF r, q, c
<1>5. /\ r.head \in Struct /\ r.head \notin U /\ Sound(q, k, U \cup {r.head})
      /\ q.made = r.made /\ q.head = IF r.head = k THEN 0 ELSE r.head + 1
  BY <1>3, <1>4, GetFirst, Zenon
<1>6. r.made \in Nat /\ r.head \in Nat /\ k \in Nat
  BY <1>1, <1>3 DEF Sound, Pools
<1>7. Spare(q, k, m, i + 1, c)
  <2>1. CASE r.made = m
    BY <1>5, <2>1, Zenon DEF Spare
  <2>2. CASE r.made # m
    <3>1. k = r.made /\ r.head <= m + i + 1 /\ r.made < r.head + c
      BY <1>3, <2>2, Zenon DEF Spare
    <3>2. CASE r.head = k
      BY <1>5, <1>6, <3>1, <3>2 DEF Spare
    <3>3. CASE r.head # k
      <4>1. q.head # 0 /\ k = q.made /\ q.head <= m + (i + 1) + 1 /\ q.made < q.head + c
        BY <1>1, <1>5, <1>6, <3>1, <3>3
      <4> QED  BY <4>1, Zenon DEF Spare
    <3> QED  BY <3>2, <3>3, Zenon
  <2> QED  BY <2>1, <2>2, Zenon
<1> QED  BY <1>5, <1>7, Zenon DEF r, q, c

\* calls of get_* in a row: s[i] is the pool after i of them
IsGets(s, n, d, p) == s = [i \in 0..n |-> IF i = 0 THEN p ELSE Get(d, s[i - 1])]

\* what the function says of its values, and the other way round
LEMMA GetsValues ==
  ASSUME NEW n \in Nat, NEW d, NEW p, NEW s, IsGets(s, n, d, p)
  PROVE  DOMAIN s = 0..n /\ s[0] = p /\ \A i \in 1..n : s[i] = Get(d, s[i - 1])
<1> DEFINE F == [i \in 0..n |-> IF i = 0 THEN p ELSE Get(d, s[i - 1])]
<1>1. s = F
  BY Zenon DEF IsGets
<1>2. DOMAIN F = 0..n /\ F[0] = p /\ \A i \in 1..n : F[i] = Get(d, s[i - 1])
  OBVIOUS
<1> HIDE DEF F
<1> QED  BY <1>1, <1>2, Zenon

\* Any number of calls can be made
LEMMA GetsExist == ASSUME NEW d, NEW p PROVE \A n \in Nat : \E s : IsGets(s, n, d, p)
<1> DEFINE Bad == {n \in Nat : ~ \E s : IsGets(s, n, d, p)}
<1> SUFFICES ASSUME Bad # {} PROVE FALSE
  BY Zenon
<1>1. PICK n \in Bad : \A k \in Bad : n <= k
  BY Least, Zenon
<1>2. n # 0
  <2> SUFFICES ASSUME n = 0 PROVE FALSE
    BY Zenon
  <2> DEFINE s == [i \in 0..0 |-> p]
             F == [i \in 0..0 |-> IF i = 0 THEN p ELSE Get(d, s[i - 1])]
  <2>1. s = F
    OBVIOUS
  <2> HIDE DEF s
  <2>2. IsGets(s, 0, d, p)
    BY <2>1, Zenon DEF IsGets
  <2> QED  BY <2>2, Zenon
<1>3. n \in Nat /\ n - 1 \in Nat /\ n - 1 \notin Bad
  BY <1>1, <1>2
<1>4. PICK s : IsGets(s, n - 1, d, p)
  BY <1>3, Zenon
<1>5. s[0] = p /\ \A i \in 1..(n - 1) : s[i] = Get(d, s[i - 1])
  BY <1>3, <1>4, GetsValues
<1> DEFINE u == [i \in 0..n |-> IF i = n THEN Get(d, s[n - 1]) ELSE s[i]]
           F == [i \in 0..n |-> IF i = 0 THEN p ELSE Get(d, u[i - 1])]
<1>6. \A i \in 0..n : u[i] = IF i = n THEN Get(d, s[n - 1]) ELSE s[i]
  BY Zenon
<1>7. u = [i \in 0..n |-> u[i]]
  BY Zenon
<1> HIDE DEF u
<1>8. ASSUME NEW i \in 0..n PROVE u[i] = IF i = 0 THEN p ELSE Get(d, u[i - 1])
  <2>1. CASE i = 0
    BY <1>2, <1>5, <1>6, <2>1, Zenon
  <2>2. CASE i # 0
    <3>1. i - 1 \in 0..n /\ i - 1 # n /\ i \in 1..n
      BY <1>3, <2>2
    <3>2. u[i - 1] = s[i - 1]
      BY <1>6, <3>1, Zenon
    <3>3. CASE i = n
      BY <1>6, <2>2, <3>2, <3>3, Zenon
    <3>4. CASE i # n
      <4>1. i \in 1..(n - 1)
        BY <1>3, <3>1, <3>4
      <4> QED  BY <1>5, <1>6, <2>2, <3>2, <3>4, <4>1, Zenon
    <3> QED  BY <3>3, <3>4, Zenon
  <2> QED  BY <2>1, <2>2, Zenon
<1>9. u = F
  BY <1>7, <1>8, Zenon
<1>10. IsGets(u, n, d, p)
  BY <1>9, Zenon DEF IsGets
<1> QED  BY <1>1, <1>10, Zenon

\* the pools between the calls of GetMany are the values of s
Between(s, d, n) ==
  LET g == GetMany(d, n)
  IN /\ s[0] = pool[d] /\ \A i \in 1..n : s[i] = Get(d, s[i - 1])
     /\ g.pool = s[n] /\ g.got = [i \in DOMAIN g.got |-> g.got[i]] /\ DOMAIN g.got = 1..n
     /\ \A i \in 1..n : g.got[i] = Ready(d, s[i - 1]).head

\* GetMany is what it is defined as
LEMMA GetManyIs == ASSUME NEW d, NEW n \in Nat PROVE \E s : Between(s, d, n)
<1> DEFINE s == CHOOSE f : IsGets(f, n, d, pool[d])
<1>1. IsGets(s, n, d, pool[d])
  BY GetsExist, Zenon
<1>2. GetMany(d, n) = [pool |-> s[n], got |-> [i \in 1..n |-> Ready(d, s[i - 1]).head]]
  BY Zenon DEF GetMany, IsGets
<1> HIDE DEF s
<1>3. s[0] = pool[d] /\ \A i \in 1..n : s[i] = Get(d, s[i - 1])
  BY <1>1, GetsValues
<1>4. GetMany(d, n).pool = s[n] /\ GetMany(d, n).got = [i \in 1..n |-> Ready(d, s[i - 1]).head]
  BY <1>2
<1> DEFINE v == GetMany(d, n).got
<1>5. v = [i \in 1..n |-> Ready(d, s[i - 1]).head]
  BY <1>4, Zenon
<1> HIDE DEF v
<1>6. v = [i \in DOMAIN v |-> v[i]] /\ DOMAIN v = 1..n /\ \A i \in 1..n : v[i] = Ready(d, s[i - 1]).head
  BY <1>5, Zenon
<1>7. Between(s, d, n)
  BY <1>3, <1>4, <1>6, Zenon DEF v, Between
<1> QED  BY <1>7, Zenon

\* the structures in use when the first i of g were given out as well
With(U, g, i) == U \cup {g[j] : j \in 1..i}

\* Calls of get_* in a row give out structures that are not in use, each once
LEMMA GetManySound ==
  ASSUME NEW d \in Kinds, NEW n \in Nat, NEW l, NEW U, Sound(pool[d], l, U), Within(d, n)
  PROVE  LET g == GetMany(d, n)
         IN /\ g.got \in [1..n -> Struct]
            /\ \A j \in 1..n : g.got[j] \notin U
            /\ \A j, k \in 1..n : g.got[j] = g.got[k] => j = k
            /\ \E k : Sound(g.pool, k, With(U, g.got, n))
<1> DEFINE c == PerPage[d]
           m == pool[d].made
           v == GetMany(d, n).got
<1>0. PICK s : Between(s, d, n)
  BY GetManyIs, Zenon
<1>1. /\ s[0] = pool[d] /\ \A i \in 1..n : s[i] = Get(d, s[i - 1])
      /\ GetMany(d, n).pool = s[n] /\ v = [i \in DOMAIN v |-> v[i]] /\ DOMAIN v = 1..n
      /\ \A i \in 1..n : v[i] = Ready(d, s[i - 1]).head
  BY <1>0, Zenon DEF Between
<1>2. \A i \in 1..n : v[i] = Ready(d, s[i - 1]).head
  BY <1>1, Zenon
<1>3. MaxStruct \in Nat /\ c \in Nat /\ m \in Nat /\ m + n + c <= MaxStruct
  BY TaskPoolAssumption DEF Sound, Pools, Within
<1> DEFINE P(i) == \E k : Sound(s[i], k, With(U, v, i)) /\ Spare(s[i], k, m, i, c)
           Bad == {i \in 0..n : ~ P(i)}
<1> HIDE DEF v, c, m
<1>4. P(0)
  <2>1. With(U, v, 0) = U
    BY DEF With
  <2>2. Sound(s[0], l, With(U, v, 0)) /\ Spare(s[0], l, m, 0, c)
    BY <1>1, <2>1, Zenon DEF Spare, m
  <2> QED  BY <2>2, Zenon
<1>5. ASSUME NEW i \in 1..n, P(i - 1)
      PROVE  P(i) /\ v[i] \in Struct /\ v[i] \notin With(U, v, i - 1)
  <2>1. i - 1 \in Nat /\ m + (i - 1) + 1 + c <= MaxStruct /\ (i - 1) + 1 = i
    BY <1>3
  <2>2. PICK k : Sound(s[i - 1], k, With(U, v, i - 1)) /\ Spare(s[i - 1], k, m, i - 1, c)
    BY <1>5, Zenon
  <2>3. /\ v[i] \in Struct /\ v[i] \notin With(U, v, i - 1)
        /\ \E k1 : /\ Sound(Get(d, s[i - 1]), k1, With(U, v, i - 1) \cup {v[i]})
                   /\ Spare(Get(d, s[i - 1]), k1, m, i, c)
    <3>1. v[i] = Ready(d, s[i - 1]).head /\ m \in Nat
      BY <1>2, <1>3, Zenon
    <3>2. Spare(s[i - 1], k, m, i - 1, PerPage[d]) /\ m + (i - 1) + 1 + PerPage[d] <= MaxStruct
      BY <2>1, <2>2, Zenon DEF c
    <3>3. LET h == Ready(d, s[i - 1]).head
          IN /\ h \in Struct /\ h \notin With(U, v, i - 1)
             /\ \E k1 : /\ Sound(Get(d, s[i - 1]), k1, With(U, v, i - 1) \cup {h})
                        /\ Spare(Get(d, s[i - 1]), k1, m, (i - 1) + 1, PerPage[d])
      BY <2>1, <2>2, <3>1, <3>2, GetOnce, Zenon
    <3> QED  BY <2>1, <3>1, <3>3, Zenon DEF c
  <2>4. With(U, v, i) = With(U, v, i - 1) \cup {v[i]}
    <3>1. 1..i = 1..(i - 1) \cup {i}
      BY <1>3
    <3> QED  BY <3>1, Zenon DEF With
  <2>5. s[i] = Get(d, s[i - 1])
    BY <1>1, Zenon
  <2> QED  BY <2>3, <2>4, <2>5, Zenon
<1>6. \A i \in 0..n : P(i)
  <2> SUFFICES ASSUME Bad # {} PROVE FALSE
    BY Zenon
  <2> HIDE DEF P
  <2>1. PICK i \in Bad : \A k \in Bad : i <= k
    <3>1. Bad \in SUBSET Nat
      OBVIOUS
    <3> HIDE DEF Bad
    <3> QED  BY <3>1, Least, Zenon
  <2>2. i \in 1..n /\ i - 1 \in 0..n /\ i - 1 \notin Bad
    BY <1>4, <2>1
  <2> QED  BY <1>5, <2>1, <2>2, Zenon
<1>7. \A i \in 1..n : v[i] \in Struct /\ v[i] \notin With(U, v, i - 1)
  <2> HIDE DEF P
  <2>1. \A i \in 1..n : i - 1 \in 0..n
    OBVIOUS
  <2> QED  BY <1>5, <1>6, <2>1, Zenon
<1>8. v \in [1..n -> Struct]
  <2>1. v = [i \in 1..n |-> v[i]]
    BY <1>1, Zenon
  <2> QED  BY <1>7, <2>1, Zenon
<1>9. \A j \in 1..n : v[j] \notin U
  BY <1>7, Zenon DEF With
<1>10. \A j, k \in 1..n : j < k => v[j] # v[k]
  <2> SUFFICES ASSUME NEW j \in 1..n, NEW k \in 1..n, j < k PROVE v[j] # v[k]
    BY Zenon
  <2>1. j \in 1..(k - 1)
    OBVIOUS
  <2> QED  BY <1>7, <2>1, Zenon DEF With
<1>11. \A j, k \in 1..n : v[j] = v[k] => j = k
  BY <1>10
<1>12. \E k : Sound(GetMany(d, n).pool, k, With(U, v, n))
  <2>1. P(n)
    BY <1>6
  <2> QED  BY <1>1, <2>1, Zenon
<1> QED  BY <1>8, <1>9, <1>11, <1>12, Zenon DEF v

-----------------------------------------------------------------------------

\* s is the list from h through f
IsList(s, h, f) ==
  /\ h = IF s = <<>> THEN 0 ELSE s[1]
  /\ \A i \in 1..Len(s) : f[s[i]] = IF i < Len(s) THEN s[i + 1] ELSE 0

\* the walk of ListFrom
IsWalk(a, h, f) ==
  a = [i \in 0..MaxStruct |-> IF i = 0 THEN h ELSE IF a[i - 1] = 0 THEN 0 ELSE f[a[i - 1]]]

\* ListFrom finds a list of structures that ends
LEMMA ListFromIs ==
  ASSUME NEW s \in Seq(Struct), Len(s) <= MaxStruct, NEW h, NEW f, IsList(s, h, f)
  PROVE  ListFrom(h, f) = s
<1> DEFINE w == [i \in 0..MaxStruct |-> IF i < Len(s) THEN s[i + 1] ELSE 0]
           F == [i \in 0..MaxStruct |-> IF i = 0 THEN h ELSE IF w[i - 1] = 0 THEN 0 ELSE f[w[i - 1]]]
           a == CHOOSE g : IsWalk(g, h, f)
           Bad == {i \in 0..MaxStruct : a[i] # w[i]}
           S == {i \in 0..MaxStruct : a[i] # 0}
<1>1. MaxStruct \in Nat /\ Len(s) \in Nat /\ \A i \in 1..Len(s) : s[i] \in Nat /\ s[i] # 0
  BY TaskPoolAssumption DEF Struct
<1>2. \A i \in 0..MaxStruct : w[i] = IF i < Len(s) THEN s[i + 1] ELSE 0
  BY Zenon
<1>3. w = [i \in 0..MaxStruct |-> w[i]]
  BY Zenon
<1> HIDE DEF w
<1>4. ASSUME NEW i \in 0..MaxStruct
      PROVE  w[i] = IF i = 0 THEN h ELSE IF w[i - 1] = 0 THEN 0 ELSE f[w[i - 1]]
  <2>1. CASE i = 0
    <3>1. w[0] = IF 0 < Len(s) THEN s[1] ELSE 0
      BY <1>1, <1>2
    <3>2. (0 < Len(s)) <=> (s # <<>>)
      BY <1>1, SeqIs
    <3> QED  BY <2>1, <3>1, <3>2, Zenon DEF IsList
  <2>2. CASE i # 0
    <3>1. i - 1 \in 0..MaxStruct /\ (i - 1) + 1 = i /\ i \in Nat
      BY <1>1, <2>2
    <3>2. w[i - 1] = IF i - 1 < Len(s) THEN s[i] ELSE 0
      BY <1>2, <3>1, Zenon
    <3>3. CASE i <= Len(s)
      <4>1. i \in 1..Len(s) /\ w[i - 1] = s[i] /\ s[i] # 0
        BY <1>1, <2>2, <3>1, <3>2, <3>3
      <4>2. f[s[i]] = IF i < Len(s) THEN s[i + 1] ELSE 0
        BY <4>1, Zenon DEF IsList
      <4> QED  BY <1>2, <2>2, <4>1, <4>2, Zenon
    <3>4. CASE ~ i <= Len(s)
      <4>1. w[i - 1] = 0 /\ w[i] = 0
        BY <1>1, <1>2, <3>1, <3>2, <3>4
      <4> QED  BY <2>2, <4>1, Zenon
    <3> QED  BY <3>3, <3>4, Zenon
  <2> QED  BY <2>1, <2>2, Zenon
<1>5. IsWalk(w, h, f)
  <2>1. w = F
    BY <1>3, <1>4, Zenon
  <2> QED  BY <2>1, Zenon DEF IsWalk
<1>6. IsWalk(a, h, f)
  BY <1>5, Zenon
<1>7. ListFrom(h, f) = [i \in 1..Cardinality(S) |-> a[i - 1]]
  BY Zenon DEF ListFrom, IsWalk
<1> HIDE DEF a, F
<1>8. \A i \in 0..MaxStruct : a[i] = IF i = 0 THEN h ELSE IF a[i - 1] = 0 THEN 0 ELSE f[a[i - 1]]
  <2> DEFINE G == [i \in 0..MaxStruct |-> IF i = 0 THEN h ELSE IF a[i - 1] = 0 THEN 0 ELSE f[a[i - 1]]]
  <2>1. a = G
    BY <1>6, Zenon DEF IsWalk
  <2>2. \A i \in 0..MaxStruct : G[i] = IF i = 0 THEN h ELSE IF a[i - 1] = 0 THEN 0 ELSE f[a[i - 1]]
    BY Zenon
  <2> HIDE DEF G
  <2> QED  BY <2>1, <2>2, Zenon
<1>9. \A i \in 0..MaxStruct : a[i] = w[i]
  <2> SUFFICES ASSUME Bad # {} PROVE FALSE
    BY Zenon
  <2>1. PICK i \in Bad : \A k \in Bad : i <= k
    <3>1. Bad \in SUBSET Nat
      BY <1>1
    <3> HIDE DEF Bad
    <3> QED  BY <3>1, Least, Zenon
  <2>2. i \in 0..MaxStruct /\ a[i] # w[i]
    BY <2>1, Zenon
  <2>3. i # 0
    BY <1>4, <1>8, <2>2, Zenon
  <2>4. i - 1 \in 0..MaxStruct /\ i - 1 \notin Bad
    BY <1>1, <2>1, <2>2, <2>3
  <2>5. a[i - 1] = w[i - 1]
    BY <2>4, Zenon
  <2> QED  BY <1>4, <1>8, <2>2, <2>3, <2>5, Zenon
<1>10. S = 0..(Len(s) - 1)
  <2>1. \A i \in 0..MaxStruct : a[i] # 0 <=> i < Len(s)
    BY <1>1, <1>2, <1>9
  <2> QED  BY <1>1, <2>1
<1>11. Cardinality(S) = Len(s)
  <2>1. 0 \in Int /\ Len(s) - 1 \in Int
    BY <1>1
  <2>2. Cardinality(0..(Len(s) - 1)) = IF 0 > Len(s) - 1 THEN 0 ELSE (Len(s) - 1) - 0 + 1
    BY <2>1, FS_Interval, Zenon
  <2> HIDE DEF S
  <2> QED  BY <1>1, <1>10, <2>2
<1>12. \A i \in 1..Len(s) : a[i - 1] = s[i]
  <2> SUFFICES ASSUME NEW i \in 1..Len(s) PROVE a[i - 1] = s[i]
    BY Zenon
  <2>1. i - 1 \in 0..MaxStruct /\ i - 1 < Len(s) /\ (i - 1) + 1 = i
    BY <1>1
  <2> QED  BY <1>2, <1>9, <2>1, Zenon
<1>13. s = [i \in 1..Len(s) |-> s[i]]
  OBVIOUS
<1> HIDE DEF S
<1>14. [i \in 1..Len(s) |-> a[i - 1]] = [i \in 1..Len(s) |-> s[i]]
  BY <1>12, Zenon
<1> QED  BY <1>7, <1>11, <1>13, <1>14, Zenon

\* The free list is the interval
LEMMA FreeListIs ==
  ASSUME NEW d \in Kinds, NEW l, NEW U, Sound(pool[d], l, U)
  PROVE  FreeList(d) = Left(pool[d], l)
<1> DEFINE p == pool[d]
           h == p.head
           n == IF h = 0 THEN 0 ELSE l - h + 1
           s == [i \in 1..n |-> h + i - 1]
<1>1. /\ MaxStruct \in Nat /\ Struct = 1..MaxStruct /\ h \in 0..MaxStruct /\ l \in 0..MaxStruct
      /\ h # 0 => h <= l /\ p.free[l] = 0 /\ \A i \in Struct : h <= i /\ i < l => p.free[i] = i + 1
  BY TaskPoolAssumption DEF Sound, Pools, Struct
<1> HIDE DEF p, h
<1>2. n \in Nat /\ n <= MaxStruct /\ (h # 0 => n > 0 /\ h + n - 1 = l)
  BY <1>1
<1> HIDE DEF n
<1>3. \A i \in 1..n : h + i - 1 \in Struct /\ h # 0
  <2>1. n # 0 => h # 0
    BY Zenon DEF n
  <2> QED  BY <1>1, <1>2, <2>1
<1>4. s \in Seq(Struct) /\ Len(s) = n /\ \A i \in 1..n : s[i] = h + i - 1
  <2>1. s \in Seq(Struct)
    BY <1>2, <1>3
  <2>2. DOMAIN s = 1..n /\ \A i \in 1..n : s[i] = h + i - 1
    BY Zenon
  <2> HIDE DEF s
  <2> QED  BY <1>2, <2>1, <2>2, SeqIs
<1> HIDE DEF s
<1>5. h = IF s = <<>> THEN 0 ELSE s[1]
  <2>1. CASE h = 0
    <3>1. n = 0
      BY <2>1, Zenon DEF n
    <3>2. s = <<>>
      BY <1>4, <3>1, SeqIs, Zenon
    <3> QED  BY <2>1, <3>2, Zenon
  <2>2. CASE h # 0
    <3>1. n > 0 /\ s[1] = h
      BY <1>1, <1>2, <1>4, <2>2
    <3>2. s # <<>>
      BY <1>2, <1>4, <3>1, SeqIs
    <3> QED  BY <3>1, <3>2, Zenon
  <2> QED  BY <2>1, <2>2, Zenon
<1>6. ASSUME NEW i \in 1..Len(s) PROVE p.free[s[i]] = IF i < Len(s) THEN s[i + 1] ELSE 0
  <2>1. i \in 1..n /\ s[i] = h + i - 1 /\ s[i] \in Struct /\ h # 0
    BY <1>3, <1>4, Zenon
  <2>2. CASE i < n
    <3>1. i + 1 \in 1..n /\ s[i + 1] = h + i
      BY <1>1, <1>2, <1>4, <2>1, <2>2
    <3>2. h <= s[i] /\ s[i] < l /\ s[i] + 1 = h + i
      BY <1>1, <1>2, <2>1, <2>2
    <3>3. p.free[s[i]] = h + i
      BY <1>1, <2>1, <3>2, Zenon
    <3> QED  BY <1>4, <2>2, <3>1, <3>3, Zenon
  <2>3. CASE ~ i < n
    <3>1. s[i] = l
      BY <1>1, <1>2, <2>1, <2>3
    <3> QED  BY <1>1, <1>4, <2>1, <2>3, <3>1, Zenon
  <2> QED  BY <2>2, <2>3, Zenon
<1>7. ListFrom(h, p.free) = s
  <2>1. IsList(s, h, p.free)
    BY <1>5, <1>6, Zenon DEF IsList
  <2> QED  BY <1>2, <1>4, <2>1, ListFromIs, Zenon
<1>8. Elements(s) = Left(p, l)
  <2>1. Elements(s) = {s[i] : i \in 1..n}
    <3>1. DOMAIN s = 1..n
      BY <1>4, SeqIs, Zenon
    <3> QED  BY <3>1, Zenon DEF Elements
  <2>2. CASE h = 0
    <3>1. n = 0
      BY <2>2, Zenon DEF n
    <3> QED  BY <2>1, <2>2, <3>1 DEF Left, h
  <2>3. CASE h # 0
    <3>1. ASSUME NEW x \in h..l PROVE x \in {s[i] : i \in 1..n}
      <4>1. x - h + 1 \in 1..n /\ h + (x - h + 1) - 1 = x
        BY <1>1, <1>2, <2>3
      <4> QED  BY <1>4, <4>1, Zenon
    <3>2. ASSUME NEW i \in 1..n PROVE s[i] \in h..l
      BY <1>1, <1>2, <1>4, <2>3
    <3>3. {s[i] : i \in 1..n} = h..l
      BY <3>1, <3>2, Zenon
    <3> QED  BY <2>1, <2>3, <3>3, Zenon DEF Left, h
  <2> QED  BY <2>2, <2>3, Zenon
<1> QED  BY <1>7, <1>8, Zenon DEF FreeList, h, p

-----------------------------------------------------------------------------

\* what the tasks T have
MmsOf(T) == {mm_of[t] : t \in T}
VmasIn(T) == UNION {Elements(given[t]) : t \in T}

UsedMms == MmsOf(live)
UsedVmas == VmasIn(live)

\* no vma is twice in s
Distinct(s) == \A i, j \in 1..Len(s) : s[i] = s[j] => i = j

\* the vmas task t was made with are its list
HasList(t) ==
  /\ given[t] # <<>> /\ Len(given[t]) <= MaxStruct /\ Distinct(given[t])
  /\ IsList(given[t], vm[mm_of[t]], next)

\* Pools, and what tasks that run have of them
PoolsOK ==
  /\ pool \in [Kinds -> Pools]
  /\ \E l : Sound(pool["task"], l, live)
  /\ \E l : Sound(pool["mm"], l, UsedMms)
  /\ \E l : Sound(pool["vma"], l, UsedVmas)

\* Tasks have nothing in common
TasksOK ==
  /\ next \in [Struct -> 0..MaxStruct]
  /\ mm_of \in [Struct -> 0..MaxStruct] /\ vm \in [Struct -> 0..MaxStruct]
  /\ live \subseteq Struct /\ given \in [Struct -> Seq(Struct)]
  /\ \A t, u \in live : t # u => mm_of[t] # mm_of[u] /\ Elements(given[t]) \cap Elements(given[u]) = {}
  /\ \A t \in live : HasList(t)

PInv == PoolsOK /\ TasksOK

\* the elements of a sequence
LEMMA ElementsAre ==
  ASSUME NEW s \in Seq(Struct)
  PROVE  Elements(s) = {s[i] : i \in 1..Len(s)} /\ Elements(s) \subseteq Struct
  BY DEF Elements

\* what a task has
LEMMA TaskHas ==
  ASSUME TasksOK, NEW t \in live
  PROVE  /\ t \in Struct /\ given[t] \in Seq(Struct) /\ Len(given[t]) \in Nat /\ Len(given[t]) > 0
         /\ Elements(given[t]) \subseteq UsedVmas /\ mm_of[t] \in UsedMms /\ VmasOf(t) = given[t]
<1>1. t \in Struct /\ given[t] \in Seq(Struct) /\ HasList(t)
  BY Zenon DEF TasksOK
<1>2. VmasOf(t) = given[t]
  BY <1>1, ListFromIs, Zenon DEF HasList, VmasOf
<1>3. Len(given[t]) \in Nat /\ Len(given[t]) > 0
  BY <1>1, SeqIs DEF HasList
<1> QED  BY <1>1, <1>2, <1>3, Zenon DEF UsedVmas, UsedMms, MmsOf, VmasIn

\* The invariant is what the properties need
LEMMA PoolProperties == ASSUME PInv PROVE PoolTypeOK /\ ListsKept /\ NotSharedTwice
<1>1. PoolTypeOK
  BY Zenon DEF PInv, PoolsOK, TasksOK, PoolTypeOK
<1>2. ListsKept
  BY TaskHas, Zenon DEF PInv, ListsKept
<1>3. ASSUME NEW t \in live
      PROVE  /\ t \notin FreeList("task") /\ mm_of[t] \notin FreeList("mm")
             /\ Elements(given[t]) \cap FreeList("vma") = {}
  <2>0. "task" \in Kinds /\ "mm" \in Kinds /\ "vma" \in Kinds
    BY Zenon DEF Kinds
  <2>1. t \notin FreeList("task")
    <3>1. PICK l : Sound(pool["task"], l, live)
      BY Zenon DEF PInv, PoolsOK
    <3> QED  BY <2>0, <3>1, FreeListIs, Zenon DEF Sound
  <2>2. mm_of[t] \notin FreeList("mm")
    <3>1. PICK l : Sound(pool["mm"], l, UsedMms)
      BY Zenon DEF PInv, PoolsOK
    <3>2. mm_of[t] \in UsedMms
      BY Zenon DEF UsedMms, MmsOf
    <3> QED  BY <2>0, <3>1, <3>2, FreeListIs, Zenon DEF Sound
  <2>3. Elements(given[t]) \cap FreeList("vma") = {}
    <3>1. PICK l : Sound(pool["vma"], l, UsedVmas)
      BY Zenon DEF PInv, PoolsOK
    <3>2. Elements(given[t]) \subseteq UsedVmas
      BY Zenon DEF UsedVmas, VmasIn
    <3>3. FreeList("vma") = Left(pool["vma"], l)
      BY <2>0, <3>1, FreeListIs, Zenon
    <3> QED  BY <3>1, <3>2, <3>3, Zenon DEF Sound
  <2> QED  BY <2>1, <2>2, <2>3, Zenon
<1>4. NotSharedTwice
  BY <1>3, Zenon DEF PInv, TasksOK, NotSharedTwice
<1> QED  BY <1>1, <1>2, <1>4, Zenon

\* the structures of a new task are in use by no other
Fresh(t, m, v) ==
  /\ t \in Struct /\ t \notin live /\ m \in Struct /\ m \notin UsedMms
  /\ v \in Seq(Struct) /\ v # <<>> /\ Len(v) <= MaxStruct /\ Distinct(v)
  /\ \A i \in 1..Len(v) : v[i] \notin UsedVmas

\* Make takes fresh structures from sound pools
LEMMA MakeFresh ==
  ASSUME PInv, NEW n \in Nat, n > 0, NEW t, NEW old, Make(n, t, old)
  PROVE  LET m == GetMany("mm", 1).got[1]
             v == GetMany("vma", n).got
             p == GetMany("vma", n).pool
         IN /\ Fresh(t, m, v) /\ Len(v) = n
            /\ mm_of' = [mm_of EXCEPT ![t] = m] /\ given' = [given EXCEPT ![t] = v]
            /\ \E l : Sound(pool'["task"], l, live \cup {t})
            /\ \E l : Sound(pool'["mm"], l, UsedMms \cup {m})
            /\ \E l : Sound(p, l, UsedVmas \cup Elements(v))
            /\ pool' = [task |-> pool'["task"], mm |-> pool'["mm"], vma |-> Replaced(p, old)]
<1> DEFINE g == GetMany("task", 1)
           k == GetMany("mm", 1)
           a == GetMany("vma", n)
           m == k.got[1]
           v == a.got
<1>0. "task" \in Kinds /\ "mm" \in Kinds /\ "vma" \in Kinds /\ 1 \in Nat
  BY Zenon DEF Kinds
<1>1. /\ Within("task", 1) /\ Within("mm", 1) /\ Within("vma", n) /\ t = g.got[1]
      /\ mm_of' = [mm_of EXCEPT ![t] = m] /\ given' = [given EXCEPT ![t] = v]
      /\ pool' = [task |-> g.pool, mm |-> k.pool, vma |-> Replaced(a.pool, old)]
  BY Zenon DEF Make
<1>2. g.got[1] \in Struct /\ g.got[1] \notin live /\ \E l : Sound(g.pool, l, live \cup {g.got[1]})
  <2>1. PICK l : Sound(pool["task"], l, live)
    BY Zenon DEF PInv, PoolsOK
  <2>2. /\ g.got \in [1..1 -> Struct] /\ \A j \in 1..1 : g.got[j] \notin live
        /\ \E l1 : Sound(g.pool, l1, With(live, g.got, 1))
    BY <1>0, <1>1, <2>1, GetManySound, Zenon
  <2> HIDE DEF g
  <2>3. With(live, g.got, 1) = live \cup {g.got[1]}
    BY DEF With
  <2> QED  BY <2>2, <2>3
<1>3. m \in Struct /\ m \notin UsedMms /\ \E l : Sound(k.pool, l, UsedMms \cup {m})
  <2>1. PICK l : Sound(pool["mm"], l, UsedMms)
    BY Zenon DEF PInv, PoolsOK
  <2>2. /\ k.got \in [1..1 -> Struct] /\ \A j \in 1..1 : k.got[j] \notin UsedMms
        /\ \E l1 : Sound(k.pool, l1, With(UsedMms, k.got, 1))
    BY <1>0, <1>1, <2>1, GetManySound, Zenon
  <2> HIDE DEF k
  <2>3. With(UsedMms, k.got, 1) = UsedMms \cup {k.got[1]}
    BY DEF With
  <2> QED  BY <2>2, <2>3
<1>4. /\ v \in [1..n -> Struct] /\ \A j \in 1..n : v[j] \notin UsedVmas
      /\ \A i, j \in 1..n : v[i] = v[j] => i = j
      /\ \E l : Sound(a.pool, l, With(UsedVmas, v, n))
  <2>1. PICK l : Sound(pool["vma"], l, UsedVmas)
    BY Zenon DEF PInv, PoolsOK
  <2> QED  BY <1>0, <1>1, <2>1, GetManySound, Zenon
<1>5. n <= MaxStruct
  <2>1. pool["vma"].made \in Nat /\ PerPage["vma"] \in Nat /\ MaxStruct \in Nat
    BY <1>0, TaskPoolAssumption DEF PInv, PoolsOK, Pools
  <2> QED  BY <1>1, <2>1 DEF Within
<1> HIDE DEF v, a, k, g, m
<1>6. v \in Seq(Struct) /\ Len(v) = n /\ v # <<>>
  <2>1. v \in Seq(Struct) /\ DOMAIN v = 1..n
    BY <1>4
  <2> QED  BY <2>1, SeqIs
<1>7. With(UsedVmas, v, n) = UsedVmas \cup Elements(v)
  BY <1>6, ElementsAre, Zenon DEF With
<1>8. Fresh(t, m, v)
  BY <1>1, <1>2, <1>3, <1>4, <1>5, <1>6, Zenon DEF Fresh, Distinct
<1>9. pool'["task"] = g.pool /\ pool'["mm"] = k.pool
  BY <1>1, Zenon
<1> QED  BY <1>1, <1>2, <1>3, <1>4, <1>6, <1>7, <1>8, <1>9, Zenon DEF v, a, k, g, m

\* Structures that are given back are no longer in use
LEMMA SoundLess == ASSUME NEW p, NEW l, NEW U, NEW V, Sound(p, l, U), V \subseteq U PROVE Sound(p, l, V)
  BY Zenon DEF Sound

\* Linked makes a list of v and leaves other vmas alone
LEMMA LinkedIs ==
  ASSUME NEW f \in [Struct -> 0..MaxStruct], NEW v \in Seq(Struct), Distinct(v)
  PROVE  /\ Linked(f, v) \in [Struct -> 0..MaxStruct]
         /\ \A i \in 1..Len(v) : Linked(f, v)[v[i]] = IF i < Len(v) THEN v[i + 1] ELSE 0
         /\ \A x \in Struct : x \notin Elements(v) => Linked(f, v)[x] = f[x]
<1> DEFINE after(x) == LET i == CHOOSE i \in DOMAIN v : v[i] = x IN IF i < Len(v) THEN v[i + 1] ELSE 0
           g == [x \in Struct |-> IF x \in Elements(v) THEN after(x) ELSE f[x]]
<1>1. Linked(f, v) = g
  BY Zenon DEF Linked
<1>2. /\ DOMAIN v = 1..Len(v) /\ Len(v) \in Nat /\ \A i \in 1..Len(v) : v[i] \in Struct
      /\ Elements(v) = {v[i] : i \in 1..Len(v)} /\ \A x \in Struct : x \in 0..MaxStruct
      /\ 0 \in 0..MaxStruct
  <2>1. DOMAIN v = 1..Len(v) /\ Len(v) \in Nat /\ \A i \in 1..Len(v) : v[i] \in Struct
    OBVIOUS
  <2>2. (\A x \in Struct : x \in 0..MaxStruct) /\ 0 \in 0..MaxStruct
    BY TaskPoolAssumption DEF Struct
  <2> QED  BY <2>1, <2>2, ElementsAre, Zenon
<1>3. ASSUME NEW i \in 1..Len(v) PROVE after(v[i]) = IF i < Len(v) THEN v[i + 1] ELSE 0
  <2> DEFINE j == CHOOSE j \in DOMAIN v : v[j] = v[i]
  <2>1. j \in DOMAIN v /\ v[j] = v[i]
    BY <1>2, Zenon
  <2>2. j = i
    <3> HIDE DEF j
    <3> QED  BY <1>2, <2>1, Zenon DEF Distinct
  <2>3. after(v[i]) = IF j < Len(v) THEN v[j + 1] ELSE 0
    BY Zenon
  <2> HIDE DEF j, after
  <2> QED  BY <2>2, <2>3, Zenon
<1> HIDE DEF after
<1>4. ASSUME NEW x \in Struct PROVE (IF x \in Elements(v) THEN after(x) ELSE f[x]) \in 0..MaxStruct
  <2>1. CASE x \in Elements(v)
    <3>1. PICK i \in 1..Len(v) : x = v[i]
      BY <1>2, <2>1, Zenon
    <3>2. i < Len(v) => i + 1 \in 1..Len(v)
      BY <1>2
    <3> QED  BY <1>2, <1>3, <2>1, <3>1, <3>2, Zenon
  <2>2. CASE x \notin Elements(v)
    BY <2>2, Zenon
  <2> QED  BY <2>1, <2>2, Zenon
<1>5. g \in [Struct -> 0..MaxStruct]
  BY <1>4, Zenon
<1>6. \A i \in 1..Len(v) : g[v[i]] = IF i < Len(v) THEN v[i + 1] ELSE 0
  <2> SUFFICES ASSUME NEW i \in 1..Len(v) PROVE g[v[i]] = IF i < Len(v) THEN v[i + 1] ELSE 0
    BY Zenon
  <2>1. v[i] \in Struct /\ v[i] \in Elements(v)
    BY <1>2, Zenon
  <2>2. g[v[i]] = after(v[i])
    BY <2>1, Zenon
  <2> HIDE DEF g
  <2> QED  BY <1>3, <2>2, Zenon
<1>7. \A x \in Struct : x \notin Elements(v) => g[x] = f[x]
  BY Zenon
<1> HIDE DEF g
<1> QED  BY <1>1, <1>5, <1>6, <1>7, Zenon

\* A new task keeps what holds of tasks, if the ones that stay keep their lists
LEMMA BornKeeps ==
  ASSUME TasksOK, NEW t, NEW m, NEW v, Fresh(t, m, v),
         mm_of' = [mm_of EXCEPT ![t] = m], given' = [given EXCEPT ![t] = v],
         live' \subseteq live \cup {t},
         next' \in [Struct -> 0..MaxStruct], vm' \in [Struct -> 0..MaxStruct], vm'[m] = v[1],
         \A i \in 1..Len(v) : next'[v[i]] = IF i < Len(v) THEN v[i + 1] ELSE 0,
         \A u \in live' : u # t => /\ vm'[mm_of[u]] = vm[mm_of[u]]
                                   /\ \A i \in 1..Len(given[u]) : next'[given[u][i]] = next[given[u][i]]
  PROVE  /\ TasksOK'
         /\ UsedMms' \subseteq MmsOf(live' \ {t}) \cup {m}
         /\ UsedVmas' \subseteq VmasIn(live' \ {t}) \cup Elements(v)
<1>1. /\ t \in Struct /\ t \notin live /\ m \in Struct /\ m \notin UsedMms
      /\ v \in Seq(Struct) /\ v # <<>> /\ Len(v) <= MaxStruct /\ Distinct(v)
      /\ \A i \in 1..Len(v) : v[i] \notin UsedVmas
  BY Zenon DEF Fresh
<1>2. /\ mm_of \in [Struct -> 0..MaxStruct] /\ given \in [Struct -> Seq(Struct)] /\ live \subseteq Struct
      /\ \A x \in Struct : x \in 0..MaxStruct
  <2>1. \A x \in Struct : x \in 0..MaxStruct
    BY TaskPoolAssumption DEF Struct
  <2> QED  BY <2>1, Zenon DEF TasksOK
<1>3. /\ mm_of' \in [Struct -> 0..MaxStruct] /\ mm_of'[t] = m
      /\ \A u \in Struct : u # t => mm_of'[u] = mm_of[u]
  BY <1>1, <1>2, Zenon
<1>4. /\ given' \in [Struct -> Seq(Struct)] /\ given'[t] = v
      /\ \A u \in Struct : u # t => given'[u] = given[u]
  <2> DEFINE S == Seq(Struct)
  <2>1. given \in [Struct -> S] /\ v \in S
    BY <1>1, <1>2, Zenon
  <2> HIDE DEF S
  <2>2. /\ given' \in [Struct -> S] /\ given'[t] = v
        /\ \A u \in Struct : u # t => given'[u] = given[u]
    BY <1>1, <2>1, Zenon
  <2> QED  BY <2>2, Zenon DEF S
<1>5. \A u \in live' : u # t => u \in live /\ u \in Struct /\ mm_of'[u] = mm_of[u] /\ given'[u] = given[u]
  BY <1>2, <1>3, <1>4, Zenon
<1>6. Elements(v) \cap UsedVmas = {}
  <2>1. Elements(v) = {v[i] : i \in 1..Len(v)}
    BY <1>1, ElementsAre, Zenon
  <2>2. ASSUME NEW x \in Elements(v) PROVE x \notin UsedVmas
    <3>1. PICK i \in 1..Len(v) : x = v[i]
      BY <2>1, Zenon
    <3> QED  BY <1>1, <3>1, Zenon
  <2> QED  BY ONLY <2>2, Zenon
<1>7. ASSUME NEW u \in live', u # t
      PROVE  mm_of'[u] # m /\ Elements(given'[u]) \cap Elements(v) = {} /\ HasList(u)'
  <2>1. u \in live /\ mm_of'[u] = mm_of[u] /\ given'[u] = given[u]
    BY <1>5, <1>7, Zenon
  <2>2. mm_of[u] \in UsedMms /\ Elements(given[u]) \subseteq UsedVmas
    BY <2>1, TaskHas, Zenon
  <2>3. HasList(u)
    BY <2>1, Zenon DEF TasksOK
  <2>4. IsList(given[u], vm'[mm_of[u]], next')
    BY <1>7, <2>3, Zenon DEF HasList, IsList
  <2>5. HasList(u)'
    BY <2>1, <2>3, <2>4, Zenon DEF HasList
  <2> QED  BY <1>1, <1>6, <2>1, <2>2, <2>5
<1>8. HasList(t)'
  <2>1. IsList(v, vm'[m], next')
    BY <1>1, Zenon DEF IsList
  <2> QED  BY <1>1, <1>3, <1>4, <2>1, Zenon DEF HasList
<1>9. ASSUME NEW a \in live', NEW b \in live', a # b
      PROVE  mm_of'[a] # mm_of'[b] /\ Elements(given'[a]) \cap Elements(given'[b]) = {}
  <2>1. CASE a = t
    BY <1>3, <1>4, <1>7, <1>9, <2>1
  <2>2. CASE b = t
    BY <1>3, <1>4, <1>7, <1>9, <2>2, Zenon
  <2>3. CASE a # t /\ b # t
    BY <1>5, <1>9, <2>3, Zenon DEF TasksOK
  <2> QED  BY <2>1, <2>2, <2>3, Zenon
<1>10. TasksOK'
  <2>1. \A u \in live' : HasList(u)'
    BY <1>7, <1>8, Zenon
  <2>2. live' \subseteq Struct
    BY <1>1, <1>2, Zenon
  <2> QED  BY <1>3, <1>4, <1>9, <2>1, <2>2, Zenon DEF TasksOK, Struct
<1>11. UsedMms' \subseteq MmsOf(live' \ {t}) \cup {m}
  BY <1>3, <1>5 DEF UsedMms, MmsOf
<1>12. UsedVmas' \subseteq VmasIn(live' \ {t}) \cup Elements(v)
  <2>1. UsedVmas' = UNION {Elements(given'[u]) : u \in live'}
    BY Zenon DEF UsedVmas, VmasIn, Elements
  <2> DEFINE W == VmasIn(live' \ {t})
  <2>2. ASSUME NEW u \in live' PROVE Elements(given'[u]) \subseteq W \cup Elements(v)
    <3>1. CASE u = t
      <4>1. Elements(given'[u]) = Elements(v)
        BY <1>4, <3>1, Zenon
      <4> QED  BY <4>1, Zenon
    <3>2. CASE u # t
      <4>1. given'[u] = given[u] /\ u \in live' \ {t}
        BY <1>5, <3>2, Zenon
      <4>2. Elements(given[u]) \subseteq W
        BY <4>1, Zenon DEF VmasIn
      <4> QED  BY <4>1, <4>2, Zenon
    <3> QED  BY <3>1, <3>2, Zenon
  <2> HIDE DEF W
  <2>3. UNION {Elements(given'[u]) : u \in live'} \subseteq W \cup Elements(v)
    BY <2>2
  <2> QED  BY <2>1, <2>3, Zenon DEF W
<1> QED  BY <1>10, <1>11, <1>12, Zenon

\* create_new_task and fork_process
LEMMA NewTaskKeeps ==
  ASSUME PInv, NEW n \in Nat, n > 0, NEW t, Make(n, t, <<>>), next' = Linked(next, given'[t]),
         vm' = [vm EXCEPT ![mm_of'[t]] = given'[t][1]], live' = live \cup {t}
  PROVE  PInv'
<1> DEFINE m == GetMany("mm", 1).got[1]
           v == GetMany("vma", n).got
           p == GetMany("vma", n).pool
<1>1. /\ Fresh(t, m, v) /\ Len(v) = n
      /\ mm_of' = [mm_of EXCEPT ![t] = m] /\ given' = [given EXCEPT ![t] = v]
      /\ \E l : Sound(pool'["task"], l, live \cup {t})
      /\ \E l : Sound(pool'["mm"], l, UsedMms \cup {m})
      /\ \E l : Sound(p, l, UsedVmas \cup Elements(v))
      /\ pool' = [task |-> pool'["task"], mm |-> pool'["mm"], vma |-> Replaced(p, <<>>)]
  BY MakeFresh, Zenon
<1> HIDE DEF m, v, p
<1>2. /\ TasksOK /\ next \in [Struct -> 0..MaxStruct] /\ mm_of \in [Struct -> 0..MaxStruct]
      /\ vm \in [Struct -> 0..MaxStruct] /\ DOMAIN given = Struct
  BY Zenon DEF PInv, TasksOK
<1>3. /\ t \in Struct /\ t \notin live /\ m \in Struct /\ m \notin UsedMms /\ v \in Seq(Struct)
      /\ Distinct(v) /\ \A i \in 1..Len(v) : v[i] \notin UsedVmas
  BY <1>1, Zenon DEF Fresh
<1>4. mm_of'[t] = m /\ given'[t] = v
  BY <1>1, <1>2, <1>3, Zenon
<1>5. /\ next' \in [Struct -> 0..MaxStruct]
      /\ \A i \in 1..Len(v) : next'[v[i]] = IF i < Len(v) THEN v[i + 1] ELSE 0
      /\ \A x \in Struct : x \notin Elements(v) => next'[x] = next[x]
  <2>1. next' = Linked(next, v)
    BY <1>4, Zenon
  <2>2. /\ Linked(next, v) \in [Struct -> 0..MaxStruct]
        /\ \A i \in 1..Len(v) : Linked(next, v)[v[i]] = IF i < Len(v) THEN v[i + 1] ELSE 0
        /\ \A x \in Struct : x \notin Elements(v) => Linked(next, v)[x] = next[x]
    BY <1>2, <1>3, LinkedIs, Zenon
  <2> QED  BY <2>1, <2>2, Zenon
<1>6. /\ vm' \in [Struct -> 0..MaxStruct] /\ vm'[m] = v[1]
      /\ \A k \in Struct : k # m => vm'[k] = vm[k]
  <2>1. v[1] \in 0..MaxStruct
    <3>1. v[1] \in Struct
      BY <1>1, <1>3
    <3> QED  BY <3>1, TaskPoolAssumption DEF Struct
  <2>2. vm' = [vm EXCEPT ![m] = v[1]]
    BY <1>4, Zenon
  <2> QED  BY <1>2, <1>3, <2>1, <2>2, Zenon
<1>7. ASSUME NEW u \in live', u # t
      PROVE  /\ vm'[mm_of[u]] = vm[mm_of[u]]
             /\ \A i \in 1..Len(given[u]) : next'[given[u][i]] = next[given[u][i]]
  <2>1. u \in live
    BY <1>7, Zenon
  <2>2. given[u] \in Seq(Struct) /\ mm_of[u] \in UsedMms /\ Elements(given[u]) \subseteq UsedVmas
    BY <1>2, <2>1, TaskHas, Zenon
  <2>3. mm_of[u] \in Struct
    BY <2>2, Zenon DEF PInv, PoolsOK, Sound
  <2>4. \A i \in 1..Len(given[u]) : given[u][i] \in Struct /\ given[u][i] \notin Elements(v)
    <3>1. Elements(v) = {v[i] : i \in 1..Len(v)}
      BY <1>3, ElementsAre, Zenon
    <3>2. \A i \in 1..Len(given[u]) : given[u][i] \in Elements(given[u]) /\ given[u][i] \in Struct
      BY <2>2, ElementsAre, Zenon
    <3> QED  BY <1>3, <2>2, <3>1, <3>2, Zenon
  <2> QED  BY <1>3, <1>5, <1>6, <2>2, <2>3, <2>4, Zenon
<1>8. /\ TasksOK'
      /\ UsedMms' \subseteq MmsOf(live' \ {t}) \cup {m}
      /\ UsedVmas' \subseteq VmasIn(live' \ {t}) \cup Elements(v)
  <2>1. live' \subseteq live \cup {t}
    BY Zenon
  <2> QED  BY <1>1, <1>2, <1>5, <1>6, <1>7, <2>1, BornKeeps, Zenon
<1>9. live' \ {t} = live
  BY <1>3, Zenon
<1>10. UsedMms' \subseteq UsedMms \cup {m} /\ UsedVmas' \subseteq UsedVmas \cup Elements(v)
  BY <1>8, <1>9, Zenon DEF UsedMms, UsedVmas
<1>11. /\ \E l : Sound(pool'["task"], l, live')
       /\ \E l : Sound(pool'["mm"], l, UsedMms')
       /\ \E l : Sound(p, l, UsedVmas')
  BY <1>1, <1>10, SoundLess, Zenon
<1>12. pool'["vma"] = p
  BY <1>1 DEF Replaced
<1>13. pool' \in [Kinds -> Pools]
  <2>1. pool'["task"] \in Pools /\ pool'["mm"] \in Pools /\ pool'["vma"] \in Pools
    BY <1>11, <1>12, Zenon DEF Sound
  <2>2. pool' = [d \in Kinds |-> pool'[d]]
    BY <1>1, Zenon DEF Kinds
  <2> QED  BY <2>1, <2>2, Zenon DEF Kinds
<1>14. PoolsOK'
  BY <1>11, <1>12, <1>13, Zenon DEF PoolsOK, Sound, Left, Pools, Struct, Kinds
<1> QED  BY <1>8, <1>14, Zenon DEF PInv

\* replace_task leaves the pool with the first vma of the old list
LEMMA ReplacedSound ==
  ASSUME NEW p, NEW l, NEW U, Sound(p, l, U), NEW old, old # <<>>, old[1] \in U,
         NEW V, V \subseteq U, old[1] \notin V
  PROVE  Sound(Replaced(p, old), old[1], V)
<1> DEFINE h == old[1]
           q == [p EXCEPT !.head = h]
<1>1. Replaced(p, old) = q
  BY Zenon DEF Replaced
<1>2. h \in Struct /\ h <= p.made /\ p.free[h] = 0 /\ p \in Pools
  BY Zenon DEF Sound
<1>3. h \in Nat /\ h > 0 /\ h \in 0..MaxStruct /\ p.made \in Nat
  BY <1>2, TaskPoolAssumption DEF Struct, Pools
<1> HIDE DEF h
<1>4. q \in Pools /\ q.head = h /\ q.free = p.free /\ q.made = p.made
  BY <1>2, <1>3, Zenon DEF Pools
<1> HIDE DEF q
<1>5. \A u \in V : u \in Struct /\ u <= q.made /\ q.free[u] = 0 /\ u \notin Left(q, h)
  <2> SUFFICES ASSUME NEW u \in V PROVE u \in Struct /\ u <= q.made /\ q.free[u] = 0 /\ u \notin Left(q, h)
    BY Zenon
  <2>1. u # h /\ u \in Struct /\ u <= p.made /\ p.free[u] = 0
    BY Zenon DEF Sound, h
  <2>2. u \notin h..h
    BY <1>3, <2>1
  <2> QED  BY <1>3, <1>4, <2>1, <2>2, Zenon DEF Left
<1>6. \A i \in Struct : ~ (q.head <= i /\ i < h)
  BY <1>3, <1>4, TaskPoolAssumption DEF Struct
<1>7. \A i \in Struct : q.made < i => q.free[i] = 0
  BY <1>4, Zenon DEF Sound
<1>8. Sound(q, h, V)
  BY <1>2, <1>3, <1>4, <1>5, <1>6, <1>7 DEF Sound
<1> QED  BY <1>1, <1>8, Zenon DEF h

\* sys_execve: the first vma of the old task is all the pool has, the rest of the old list
\* and of the free list is lost
LEMMA ExecTaskKeeps ==
  ASSUME PInv, NEW o \in live, NEW n \in Nat, n > 0, NEW t, ExecTask(o, n, t)
  PROVE  PInv'
<1> DEFINE m == GetMany("mm", 1).got[1]
           v == GetMany("vma", n).got
           p == GetMany("vma", n).pool
           old == given[o]
           z == old[Len(old)]
           f == Linked(next, v)
<1>1. /\ TasksOK /\ next \in [Struct -> 0..MaxStruct] /\ mm_of \in [Struct -> 0..MaxStruct]
      /\ vm \in [Struct -> 0..MaxStruct] /\ DOMAIN given = Struct
  BY Zenon DEF PInv, TasksOK
<1>2. /\ o \in Struct /\ old \in Seq(Struct) /\ Len(old) \in Nat /\ Len(old) > 0 /\ mm_of[o] \in UsedMms
      /\ Elements(old) \subseteq UsedVmas /\ VmasOf(o) = old
  BY <1>1, TaskHas, Zenon
<1>3. /\ Make(n, t, old) /\ live' = (live \ {o}) \cup {t}
      /\ next' = Relinked(Linked(next, given'[t]), p, old)
      /\ vm' = [vm EXCEPT ![mm_of[o]] = 0, ![mm_of'[t]] = given'[t][1]]
  BY <1>2, Zenon DEF ExecTask
<1>4. /\ Fresh(t, m, v) /\ Len(v) = n
      /\ mm_of' = [mm_of EXCEPT ![t] = m] /\ given' = [given EXCEPT ![t] = v]
      /\ \E l : Sound(pool'["task"], l, live \cup {t})
      /\ \E l : Sound(pool'["mm"], l, UsedMms \cup {m})
      /\ \E l : Sound(p, l, UsedVmas \cup Elements(v))
      /\ pool' = [task |-> pool'["task"], mm |-> pool'["mm"], vma |-> Replaced(p, old)]
  BY <1>3, MakeFresh, Zenon
<1> HIDE DEF m, v, p, old
<1>5. /\ t \in Struct /\ t \notin live /\ m \in Struct /\ m \notin UsedMms /\ v \in Seq(Struct)
      /\ Distinct(v) /\ \A i \in 1..Len(v) : v[i] \notin UsedVmas
  BY <1>4, Zenon DEF Fresh
<1>6. mm_of'[t] = m /\ given'[t] = v /\ mm_of[o] \in Struct
  <2>1. mm_of[o] \in Struct
    BY <1>2, Zenon DEF PInv, PoolsOK, Sound
  <2> QED  BY <1>1, <1>4, <1>5, <2>1, Zenon
<1>7. /\ z \in Struct /\ z \in Elements(old) /\ old[1] \in Elements(old) /\ old # <<>>
      /\ Elements(v) \cap UsedVmas = {}
  <2>1. Elements(old) = {old[i] : i \in 1..Len(old)} /\ Elements(v) = {v[i] : i \in 1..Len(v)}
    BY <1>2, <1>5, ElementsAre, Zenon
  <2>2. Len(old) \in 1..Len(old) /\ 1 \in 1..Len(old)
    BY <1>2
  <2>3. old # <<>>
    BY <1>2, SeqIs
  <2> QED  BY <1>2, <1>5, <2>1, <2>2, <2>3
<1>8. /\ next' \in [Struct -> 0..MaxStruct]
      /\ \A i \in 1..Len(v) : next'[v[i]] = IF i < Len(v) THEN v[i + 1] ELSE 0
      /\ \A x \in Struct : x \notin Elements(v) /\ x # z => next'[x] = next[x]
  <2>1. next' = [f EXCEPT ![z] = p.head]
    <3>1. next' = Relinked(Linked(next, v), p, old)
      BY <1>3, <1>6, Zenon
    <3> QED  BY <1>7, <3>1, Zenon DEF Relinked
  <2>2. /\ f \in [Struct -> 0..MaxStruct]
        /\ \A i \in 1..Len(v) : f[v[i]] = IF i < Len(v) THEN v[i + 1] ELSE 0
        /\ \A x \in Struct : x \notin Elements(v) => f[x] = next[x]
    BY <1>1, <1>5, LinkedIs, Zenon
  <2>3. p.head \in 0..MaxStruct
    BY <1>4, Zenon DEF Sound, Pools
  <2>4. z \notin Elements(v) /\ \A i \in 1..Len(v) : v[i] # z /\ v[i] \in Struct
    <3>1. z \in UsedVmas
      BY <1>2, <1>7, Zenon
    <3> HIDE DEF z
    <3>2. \A i \in 1..Len(v) : v[i] \in Struct
      BY <1>5
    <3>3. z \notin Elements(v)
      BY <1>7, <3>1, Zenon
    <3> QED  BY <1>5, <3>1, <3>2, <3>3, Zenon
  <2> HIDE DEF f, z
  <2>5. /\ next' \in [Struct -> 0..MaxStruct]
        /\ \A x \in Struct : x # z => next'[x] = f[x]
    BY <1>7, <2>1, <2>2, <2>3, Zenon
  <2> QED  BY <2>2, <2>4, <2>5, Zenon
<1>9. /\ vm' \in [Struct -> 0..MaxStruct] /\ vm'[m] = v[1]
      /\ \A k \in Struct : k # m /\ k # mm_of[o] => vm'[k] = vm[k]
  <2>1. v[1] \in 0..MaxStruct /\ 0 \in 0..MaxStruct
    <3>1. v[1] \in Struct
      BY <1>4, <1>5
    <3> QED  BY <3>1, TaskPoolAssumption DEF Struct
  <2>2. vm' = [vm EXCEPT ![mm_of[o]] = 0, ![m] = v[1]]
    BY <1>3, <1>6, Zenon
  <2> QED  BY <1>1, <1>5, <1>6, <2>1, <2>2, Zenon
<1>10. ASSUME NEW u \in live', u # t
       PROVE  /\ vm'[mm_of[u]] = vm[mm_of[u]]
              /\ \A i \in 1..Len(given[u]) : next'[given[u][i]] = next[given[u][i]]
  <2>1. u \in live /\ u # o
    BY <1>3, <1>10, Zenon
  <2>2. given[u] \in Seq(Struct) /\ mm_of[u] \in UsedMms /\ Elements(given[u]) \subseteq UsedVmas
    BY <1>1, <2>1, TaskHas, Zenon
  <2>3. mm_of[u] \in Struct /\ mm_of[u] # m
    BY <1>5, <2>2, Zenon DEF PInv, PoolsOK, Sound
  <2>4. mm_of[u] # mm_of[o] /\ Elements(given[u]) \cap Elements(old) = {}
    BY <1>1, <2>1, Zenon DEF TasksOK, old
  <2>5. \A i \in 1..Len(given[u]) : given[u][i] \in Elements(given[u]) /\ given[u][i] \in Struct
    BY <2>2, ElementsAre, Zenon
  <2>6. \A i \in 1..Len(given[u]) : given[u][i] \notin Elements(v) /\ given[u][i] # z
    <3> HIDE DEF z
    <3> QED  BY <1>7, <2>2, <2>4, <2>5, Zenon
  <2> HIDE DEF z
  <2> QED  BY <1>8, <1>9, <2>3, <2>4, <2>5, <2>6, Zenon
<1>11. /\ TasksOK'
       /\ UsedMms' \subseteq MmsOf(live' \ {t}) \cup {m}
       /\ UsedVmas' \subseteq VmasIn(live' \ {t}) \cup Elements(v)
  <2>1. live' \subseteq live \cup {t}
    BY <1>3, Zenon
  <2> QED  BY <1>1, <1>4, <1>8, <1>9, <1>10, <2>1, BornKeeps, Zenon
<1>12. live' \ {t} = live \ {o} /\ live' \subseteq live \cup {t}
  BY <1>3, <1>5, Zenon
<1>13. /\ UsedMms' \subseteq UsedMms \cup {m} /\ UsedVmas' \subseteq UsedVmas \cup Elements(v)
       /\ old[1] \notin UsedVmas' /\ old[1] \in UsedVmas \cup Elements(v)
  <2>1. UsedMms' \subseteq MmsOf(live \ {o}) \cup {m} /\ UsedVmas' \subseteq VmasIn(live \ {o}) \cup Elements(v)
    BY <1>11, <1>12, Zenon
  <2>2. MmsOf(live \ {o}) \subseteq UsedMms
    BY Zenon DEF UsedMms, MmsOf
  <2>3. VmasIn(live \ {o}) \subseteq UsedVmas
    BY Zenon DEF UsedVmas, VmasIn
  <2>4. old[1] \in UsedVmas /\ old[1] \notin Elements(v)
    BY <1>2, <1>7, Zenon
  <2>5. old[1] \notin VmasIn(live \ {o})
    <3> SUFFICES ASSUME NEW u \in live \ {o} PROVE old[1] \notin Elements(given[u])
      BY Zenon DEF VmasIn
    <3>1. Elements(given[u]) \cap Elements(old) = {}
      BY <1>1, Zenon DEF TasksOK, old
    <3> QED  BY <1>7, <3>1, Zenon
  <2> QED  BY <2>1, <2>2, <2>3, <2>4, <2>5, Zenon
<1>14. /\ \E l : Sound(pool'["task"], l, live')
       /\ \E l : Sound(pool'["mm"], l, UsedMms')
  BY <1>4, <1>12, <1>13, SoundLess, Zenon
<1>15. \E l : Sound(pool'["vma"], l, UsedVmas')
  <2>1. PICK l : Sound(p, l, UsedVmas \cup Elements(v))
    BY <1>4, Zenon
  <2>2. Sound(Replaced(p, old), old[1], UsedVmas')
    BY <1>7, <1>13, <2>1, ReplacedSound, Zenon
  <2>3. pool'["vma"] = Replaced(p, old)
    BY <1>4
  <2> QED  BY <2>2, <2>3, Zenon
<1>16. pool' \in [Kinds -> Pools]
  <2>1. pool'["task"] \in Pools /\ pool'["mm"] \in Pools /\ pool'["vma"] \in Pools
    BY <1>14, <1>15, Zenon DEF Sound
  <2>2. pool' = [d \in Kinds |-> pool'[d]]
    BY <1>4, Zenon DEF Kinds
  <2> QED  BY <2>1, <2>2, Zenon DEF Kinds
<1>17. PoolsOK'
  BY <1>14, <1>15, <1>16, Zenon DEF PoolsOK, Sound, Left, Pools, Struct, Kinds
<1> QED  BY <1>11, <1>17, Zenon DEF PInv

\* Where pools and lists stay as they are and at most tasks go, the invariant stays
LEMMA FewerTasks ==
  ASSUME PInv, live' \subseteq live, UNCHANGED <<pool, next, mm_of, vm, given>> PROVE PInv'
<1>1. UsedMms' \subseteq UsedMms /\ UsedVmas' \subseteq UsedVmas
  BY DEF UsedMms, UsedVmas, MmsOf, VmasIn, Elements
<1>2. /\ \E l : Sound(pool["task"], l, live')
      /\ \E l : Sound(pool["mm"], l, UsedMms')
      /\ \E l : Sound(pool["vma"], l, UsedVmas')
  BY <1>1, SoundLess, Zenon DEF PInv, PoolsOK
<1>3. PoolsOK'
  BY <1>2 DEF PInv, PoolsOK, Sound, Left, Pools, Struct, Kinds
<1>4. TasksOK'
  <2>1. ASSUME NEW t \in live' PROVE HasList(t)'
    <3>1. HasList(t)
      BY <2>1, Zenon DEF PInv, TasksOK
    <3> QED  BY <3>1, Zenon DEF HasList, Distinct, IsList
  <2>2. ASSUME NEW t \in live', NEW u \in live', t # u
        PROVE  (mm_of[t] # mm_of[u] /\ Elements(given[t]) \cap Elements(given[u]) = {})'
    <3>1. mm_of[t] # mm_of[u] /\ Elements(given[t]) \cap Elements(given[u]) = {}
      BY <2>2, Zenon DEF PInv, TasksOK
    <3> QED  BY <3>1, Zenon DEF Elements
  <2>3. /\ next' \in [Struct -> 0..MaxStruct]
        /\ mm_of' \in [Struct -> 0..MaxStruct] /\ vm' \in [Struct -> 0..MaxStruct]
        /\ live' \subseteq Struct /\ given' \in [Struct -> Seq(Struct)]
    BY Zenon DEF PInv, TasksOK
  <2> QED  BY <2>1, <2>2, <2>3, Zenon DEF TasksOK, Struct
<1> QED  BY <1>3, <1>4, Zenon DEF PInv

\* sys_exit
LEMMA ExitTaskKeeps == ASSUME PInv, NEW o, ExitTask(o) PROVE PInv'
  BY FewerTasks, Zenon DEF ExitTask

\* File calls leave the pools alone
LEMMA SamePools == ASSUME PInv, UNCHANGED poolVars PROVE PInv'
  BY FewerTasks, Zenon DEF poolVars

\* Every step
LEMMA PoolNext == ASSUME PInv, [Next]_vars PROVE PInv'
<1>1. \A path : \A h \in Loadable(path) : Tar[h].elf \in Nat /\ Tar[h].elf > 0
  <2> SUFFICES ASSUME NEW path, NEW h \in Loadable(path) PROVE Tar[h].elf \in Nat /\ Tar[h].elf > 0
    BY Zenon
  <2> DEFINE H == [name : Seq(STRING), dir : BOOLEAN, size : Nat, elf : Nat]
  <2>1. Tar \in Seq(H)
    BY FilesAssumption, Zenon
  <2>2. h \in DOMAIN Tar /\ Tar[h].elf > 0
    BY Zenon DEF Loadable, TfsOpen, Lookup, Headers
  <2>3. Tar[h] \in H
    <3> HIDE DEF H
    <3> QED  BY <2>1, <2>2
  <2> QED  BY <2>2, <2>3, Zenon
<1>2. ASSUME NEW path \in Paths, NEW t \in Task, Boot(path, t) PROVE PInv'
  <2>1. PICK h \in Loadable(path) : CreateTask(Tar[h].elf, t)
    BY <1>2, Zenon DEF Boot
  <2>2. Tar[h].elf \in Nat /\ Tar[h].elf > 0
    BY <1>1, Zenon
  <2> QED  BY <2>1, <2>2, NewTaskKeeps, Zenon DEF CreateTask
<1>3. ASSUME NEW o \in live, NEW t \in Task, Fork(o, t) PROVE PInv'
  <2>1. ForkTask(o, t)
    BY <1>3, Zenon DEF Fork
  <2>2. Len(VmasOf(o)) \in Nat /\ Len(VmasOf(o)) > 0
    BY TaskHas, Zenon DEF PInv
  <2> QED  BY <2>1, <2>2, NewTaskKeeps, Zenon DEF ForkTask
<1>4. ASSUME NEW o \in live, NEW t \in Task, NEW path \in Paths, Exec(o, path, t) PROVE PInv'
  <2>1. PICK h \in Loadable(path) : ExecTask(o, Tar[h].elf, t)
    BY <1>4, Zenon DEF Exec
  <2>2. Tar[h].elf \in Nat /\ Tar[h].elf > 0
    BY <1>1, Zenon
  <2> QED  BY <2>1, <2>2, ExecTaskKeeps, Zenon
<1>5. ASSUME NEW o \in live, Exit(o) PROVE PInv'
  BY <1>5, ExitTaskKeeps, Zenon DEF Exit
<1>6. CASE UNCHANGED poolVars
  BY <1>6, SamePools, Zenon
<1>7. UNCHANGED vars => UNCHANGED poolVars
  BY Zenon DEF vars
<1> QED  BY <1>2, <1>3, <1>4, <1>5, <1>6, <1>7, Zenon DEF Next

\* At the start no structure has been made
LEMMA PoolStarts == ASSUME PoolInit PROVE PInv
<1>1. UsedMms = {} /\ UsedVmas = {} /\ live = {}
  BY Zenon DEF PoolInit, UsedMms, UsedVmas, MmsOf, VmasIn
<1> DEFINE p0 == [head |-> 0, free |-> [i \in Struct |-> 0], made |-> 0]
<1>2. Sound(p0, 0, {})
  BY TaskPoolAssumption DEF Sound, Left, Pools, Struct
<1>3. \A d \in Kinds : pool[d] = p0
  BY Zenon DEF PoolInit
<1>4. pool \in [Kinds -> Pools]
  BY TaskPoolAssumption DEF PoolInit, Pools, Struct
<1> HIDE DEF p0
<1>5. PoolsOK
  <2>1. pool["task"] = p0 /\ pool["mm"] = p0 /\ pool["vma"] = p0
    BY <1>3, Zenon DEF Kinds
  <2> QED  BY <1>1, <1>2, <1>4, <2>1, Zenon DEF PoolsOK
<1>6. TasksOK
  BY <1>1, TaskPoolAssumption DEF PoolInit, TasksOK, Struct
<1> QED  BY <1>5, <1>6, Zenon DEF PInv

(***************************************************************************)
(* The free list of every pool is a run of structures nobody has: a page   *)
(* reload_* has linked and get_* has taken some of, or the one vma         *)
(* replace_task leaves at the head.  Tasks that run have structures of     *)
(* their own, each the vmas it was made with, linked in that order.        *)
(***************************************************************************)
THEOREM PoolInvariant == Spec => []PInv
<1>1. Init => PInv
  BY PoolStarts, Zenon DEF Init
<1>2. PInv /\ [Next]_vars => PInv'
  BY PoolNext, Zenon
<1> QED  BY <1>1, <1>2, PTL DEF Spec

(***************************************************************************)
(* A walk over the vmas of a running task finds the ones create_new_task,  *)
(* fork_process or load_elf gave it, all of them, in order, and ends:      *)
(* nothing another task does to the pools gets into the list.              *)
(***************************************************************************)
THEOREM ListsStay == Spec => []ListsKept
<1>1. PInv => ListsKept
  BY PoolProperties, Zenon
<1> QED  BY <1>1, PoolInvariant, PTL

(***************************************************************************)
(* Two tasks that run share no mm_struct and no vma_struct, and nothing a  *)
(* task has can be got from a pool again: replace_task, which links the    *)
(* vmas it gives back through the wrong field, loses structures and never  *)
(* hands one out twice.                                                    *)
(***************************************************************************)
THEOREM StructuresNotShared == Spec => []NotSharedTwice
<1>1. PInv => NotSharedTwice
  BY PoolProperties, Zenon
<1> QED  BY <1>1, PoolInvariant, PTL
==============================================================================
