---------------------------- MODULE QueueProofs -----------------------------
(***************************************************************************)
(* The available list implements the round-robin queue of RoundRobin, for  *)
(* any number of tasks that yield, fork and exit, as long as none forks    *)
(* after the first exit.                                                   *)
(***************************************************************************)
EXTENDS ScheduleProofs

-----------------------------------------------------------------------------
(* Lists as sequences *)

\* s is the list that starts at h, for next = nx
IsList(s, h, nx) ==
  /\ s \in Seq(Task)
  /\ h = IF Len(s) = 0 THEN NULL ELSE s[1]
  /\ \A i \in 1..Len(s) : nx[s[i]] = IF i = Len(s) THEN NULL ELSE s[i + 1]

Distinct(s) == \A i, j \in 1..Len(s) : s[i] = s[j] => i = j

\* pointers lead to a task of higher rank
Ranked(r, b, nx) ==
  /\ b \in Nat /\ r \in [Task -> 0..b]
  /\ \A t \in Task : nx[t] # NULL => nx[t] \in Task /\ r[t] < r[nx[t]]

\* There is always one hole less than needed
LEMMA Pigeonholes ==
  ASSUME NEW n \in Nat, NEW f \in [1..(n + 1) -> 1..n] PROVE \E i, j \in 1..(n + 1) : i # j /\ f[i] = f[j]
<1> DEFINE Fits(m, g) == g \in [1..(m + 1) -> 1..m] /\ \A i, j \in 1..(m + 1) : g[i] = g[j] => i = j
           Bad == {m \in Nat : \E g : Fits(m, g)}
<1> SUFFICES ASSUME Bad # {} PROVE FALSE
  OBVIOUS
<1>1. PICK m \in Bad : \A k \in Bad : m <= k
  BY Least, Zenon
<1>2. PICK g : Fits(m, g)
  BY <1>1, Zenon
<1> DEFINE z == g[m + 1]
           h == [i \in 1..m |-> IF g[i] = m THEN z ELSE g[i]]
<1>3. m \in Nat /\ m + 1 \in 1..(m + 1) /\ z \in 1..m
  BY <1>1, <1>2
<1>4. m - 1 \in Nat /\ (m - 1) + 1 = m
  BY <1>3
<1>5. ASSUME NEW i \in 1..m PROVE i \in 1..(m + 1) /\ g[i] \in 1..m /\ g[i] # z
  <2>1. i \in 1..(m + 1) /\ i # m + 1
    BY <1>3
  <2> QED  BY <1>2, <1>3, <2>1, Zenon
<1>6. ASSUME NEW i \in 1..m PROVE h[i] \in 1..(m - 1)
  <2>1. h[i] = IF g[i] = m THEN z ELSE g[i]
    BY Zenon
  <2>2. m \in Nat /\ z \in 1..m /\ g[i] \in 1..m /\ g[i] # z
    BY <1>3, <1>5, Zenon
  <2> DEFINE y == g[i]
             w == h[i]
  <2>3. m \in Nat /\ z \in 1..m /\ y \in 1..m /\ y # z /\ w = IF y = m THEN z ELSE y
    BY <2>1, <2>2, Zenon
  <2> SUFFICES w \in 1..(m - 1)
    BY Zenon
  <2> HIDE DEF h, z, y, w
  <2>4. CASE y = m
    BY ONLY <2>3, <2>4
  <2>5. CASE y # m
    BY ONLY <2>3, <2>5
  <2> QED  BY <2>4, <2>5, Zenon
<1>7. ASSUME NEW i \in 1..m, NEW j \in 1..m, h[i] = h[j] PROVE i = j
  <2>1. h[i] = (IF g[i] = m THEN z ELSE g[i]) /\ h[j] = (IF g[j] = m THEN z ELSE g[j])
    BY Zenon
  <2> HIDE DEF h, z
  <2>2. g[i] = g[j]
    BY <1>5, <1>7, <2>1, Zenon
  <2>3. i \in 1..(m + 1) /\ j \in 1..(m + 1)
    BY <1>5, Zenon
  <2>4. \A k, l \in 1..(m + 1) : g[k] = g[l] => k = l
    BY <1>2, Zenon
  <2> QED  BY ONLY <2>2, <2>3, <2>4, Zenon
<1>8. h \in [1..m -> 1..(m - 1)]
  BY <1>6, Zenon
<1> HIDE DEF h
<1>9. Fits(m - 1, h)
  BY <1>4, <1>7, <1>8, Zenon
<1>10. m - 1 \in Bad
  BY <1>4, <1>9, Zenon
<1>11. m <= m - 1
  <2> HIDE DEF Bad
  <2> QED  BY <1>1, <1>10, Zenon
<1> QED  BY <1>3, <1>11

\* A sequence without repetitions is no longer than there are tasks
LEMMA DistinctShort == ASSUME NEW s \in Seq(Task), Distinct(s) PROVE Len(s) <= N
<1> SUFFICES ASSUME N < Len(s) PROVE FALSE
  BY ScheduleAssumption
<1>0. N \in Nat /\ Len(s) \in Nat
  BY ScheduleAssumption
<1>1. \A i \in 1..(N + 1) : i \in 1..Len(s)
  BY <1>0
<1> DEFINE f == [i \in 1..(N + 1) |-> s[i]]
<1>2. f \in [1..(N + 1) -> 1..N] /\ \A i \in 1..(N + 1) : f[i] = s[i]
  <2>1. \A i \in 1..(N + 1) : s[i] \in Task
    BY <1>1
  <2> QED  BY <2>1, Zenon DEF Task
<1> HIDE DEF f
<1>3. \E i, j \in 1..(N + 1) : i # j /\ f[i] = f[j]
  BY <1>0, <1>2, Pigeonholes, Zenon
<1> QED  BY <1>1, <1>2, <1>3, Zenon DEF Distinct

\* The empty sequence at the end of another one, and in front of it
LEMMA ConcatNone == ASSUME NEW T, NEW s \in Seq(T) PROVE s \o <<>> = s /\ <<>> \o s = s
<1> DEFINE e == <<>>
           u == s \o e
           v == e \o s
<1>1. e \in Seq(T) /\ Len(e) = 0
  OBVIOUS
<1> HIDE DEF e
<1>2. u \in Seq(T) /\ Len(u) = Len(s) /\ Len(s) \in Nat /\ \A i \in 1..Len(s) : u[i] = s[i]
  BY <1>1
<1>3. v \in Seq(T) /\ Len(v) = Len(s) /\ \A i \in 1..Len(s) : v[i] = s[i]
  BY <1>1
<1> HIDE DEF u, v
<1>4. u = s
  BY <1>2
<1>5. v = s
  BY <1>2, <1>3
<1> QED  BY <1>4, <1>5, Zenon DEF u, v, e

\* The nodes of a list
LEMMA NodesList ==
  ASSUME NEW s, NEW h, NEW nx, IsList(s, h, nx), NEW k \in 0..N
  PROVE  Nodes(h, nx)[k] = IF k < Len(s) THEN s[k + 1] ELSE NULL
<1> DEFINE at == Nodes(h, nx)
           Is(i) == at[i] = IF i < Len(s) THEN s[i + 1] ELSE NULL
           Bad == {i \in 0..N : ~ Is(i)}
<1>1. at[0] = h /\ \A i \in 1..N : at[i] = Step(nx, at[i - 1])
  BY NodesAre
<1>2. /\ N \in Nat /\ Bad \in SUBSET Nat /\ Len(s) \in Nat /\ s \in Seq(Task) /\ NULL \notin Task
      /\ h = IF Len(s) = 0 THEN NULL ELSE s[1]
      /\ \A i \in 1..Len(s) : nx[s[i]] = IF i = Len(s) THEN NULL ELSE s[i + 1]
  BY ScheduleAssumption DEF IsList, NULL, Task
<1> HIDE DEF at
<1> SUFFICES ASSUME Bad # {} PROVE FALSE
  BY Zenon DEF at
<1>3. PICK m \in Bad : \A i \in Bad : m <= i
  BY <1>2, Least, Zenon
<1>4. m # 0
  <2>1. Is(0)
    BY <1>1, <1>2
  <2> QED  BY <1>3, <2>1, Zenon
<1>5. m \in 1..N /\ m - 1 \in 0..N /\ Is(m - 1)
  BY <1>2, <1>3, <1>4
<1>6. at[m] = Step(nx, at[m - 1])
  BY <1>1, <1>5, Zenon
<1>7. CASE m - 1 < Len(s)
  <2>1. m \in 1..Len(s) /\ at[m - 1] = s[m]
    BY <1>2, <1>5, <1>7
  <2>2. s[m] \in Task
    BY <1>2, <2>1
  <2>3. at[m] = nx[s[m]]
    BY <1>2, <1>6, <2>1, <2>2, Zenon DEF Step
  <2>4. Is(m)
    BY <1>2, <2>1, <2>3
  <2> QED  BY <1>3, <2>4, Zenon
<1>8. CASE ~ m - 1 < Len(s)
  <2>1. at[m - 1] = NULL /\ ~ m < Len(s)
    BY <1>2, <1>5, <1>8
  <2>2. Is(m)
    BY <1>6, <2>1, Zenon DEF Step
  <2> QED  BY <1>3, <2>2, Zenon
<1> QED  BY <1>7, <1>8, Zenon

\* Where pointers go up in rank every list ends, and shows no task twice
LEMMA ListExists ==
  ASSUME NEW nx, NEW r, NEW b, Ranked(r, b, nx), NEW h \in Task \cup {NULL}
  PROVE  \E s : IsList(s, h, nx) /\ Distinct(s)
<1> DEFINE at == Nodes(h, nx)
<1>1. at[0] = h /\ \A i \in 1..N : at[i] = Step(nx, at[i - 1])
  BY NodesAre
<1>2. N \in Nat /\ NULL \notin Task
  BY ScheduleAssumption DEF NULL, Task
<1> HIDE DEF at
<1>3. ASSUME NEW i \in 0..N PROVE at[i] \in Task \cup {NULL}
  <2> DEFINE Bad == {k \in 0..N : at[k] \notin Task \cup {NULL}}
  <2> SUFFICES ASSUME Bad # {} PROVE FALSE
    BY Zenon
  <2>0. Bad \in SUBSET Nat
    BY <1>2
  <2>1. PICK m \in Bad : \A k \in Bad : m <= k
    BY <2>0, Least, Zenon
  <2>2. m # 0
    BY <1>1, <2>1, Zenon
  <2>3. m \in 1..N /\ m - 1 \in 0..N /\ m - 1 \notin Bad
    BY <1>2, <2>1, <2>2
  <2> QED  BY <1>1, <2>1, <2>3, Zenon DEF Step, Ranked
<1>4. ASSUME NEW i \in 0..N, NEW k \in 0..N, i < k, at[k] # NULL
      PROVE  at[i] # NULL /\ r[at[i]] < r[at[k]]
  <2> DEFINE Ok(j) == at[j] # NULL => at[i] # NULL /\ r[at[i]] < r[at[j]]
             Bad == {j \in 0..N : i < j /\ ~ Ok(j)}
  <2> SUFFICES ASSUME Bad # {} PROVE FALSE
    BY <1>4, Zenon
  <2>0. Bad \in SUBSET Nat
    BY <1>2
  <2>1. PICK m \in Bad : \A j \in Bad : m <= j
    BY <2>0, Least, Zenon
  <2>2. m \in 1..N /\ m - 1 \in 0..N /\ m - 1 \notin Bad /\ i <= m - 1
    BY <1>2, <2>1
  <2>3. at[m] # NULL /\ at[m] = Step(nx, at[m - 1])
    BY <1>1, <2>1, <2>2, Zenon
  <2>4. at[m - 1] # NULL /\ at[m - 1] \in Task /\ at[m] = nx[at[m - 1]]
    BY <1>3, <2>2, <2>3, Zenon DEF Step
  <2>5. r[at[m - 1]] < r[at[m]] /\ r[at[m - 1]] \in Nat /\ r[at[m]] \in Nat
    BY <2>3, <2>4 DEF Ranked
  <2>6. CASE i = m - 1
    BY <2>1, <2>4, <2>5, <2>6, Zenon
  <2>7. CASE i < m - 1
    <3>1. Ok(m - 1)
      BY <2>2, <2>7, Zenon
    <3>2. at[i] # NULL /\ r[at[i]] < r[at[m - 1]] /\ at[i] \in Task
      BY <1>3, <2>4, <3>1, Zenon
    <3>3. r[at[i]] \in Nat
      BY <3>2 DEF Ranked
    <3>4. Ok(m)
      BY <2>5, <3>2, <3>3
    <3> QED  BY <2>1, <3>4, Zenon
  <2> QED  BY <2>2, <2>6, <2>7
<1>5. ASSUME NEW i \in 0..N, NEW k \in 0..N, at[i] = at[k], at[i] # NULL PROVE i = k
  <2>1. at[i] \in Task
    BY <1>3, <1>5, Zenon
  <2>2. r[at[i]] \in Nat
    BY <2>1 DEF Ranked
  <2>3. ~ i < k /\ ~ k < i
    BY <1>4, <1>5, <2>2
  <2> QED  BY <1>2, <2>3
<1>6. at[N] = NULL
  <2> SUFFICES ASSUME at[N] # NULL PROVE FALSE
    BY Zenon
  <2>1. \A i \in 0..N : at[i] # NULL
    BY <1>2, <1>4
  <2> DEFINE s == [i \in 1..(N + 1) |-> at[i - 1]]
  <2>2. s \in Seq(Task) /\ Len(s) = N + 1
    BY <1>2, <1>3, <2>1
  <2>3. \A i \in 1..(N + 1) : s[i] = at[i - 1] /\ i - 1 \in 0..N
    BY <1>2
  <2> HIDE DEF s
  <2>4. Distinct(s)
    <3> SUFFICES ASSUME NEW i \in 1..(N + 1), NEW j \in 1..(N + 1), s[i] = s[j] PROVE i = j
      BY <2>2, Zenon DEF Distinct
    <3>1. i - 1 = j - 1
      BY <1>5, <2>1, <2>3
    <3> QED  BY <1>2, <3>1
  <2> QED  BY <1>2, <2>2, <2>4, DistinctShort
<1> DEFINE Nulls == {i \in 0..N : at[i] = NULL}
<1>7. PICK m \in Nulls : \A i \in Nulls : m <= i
  <2>1. N \in Nulls /\ Nulls \in SUBSET Nat
    BY <1>2, <1>6
  <2> QED  BY <2>1, Least, Zenon
<1>8. m \in 0..N /\ at[m] = NULL /\ \A i \in 0..N : i < m => at[i] # NULL
  BY <1>2, <1>7
<1> DEFINE s == [i \in 1..m |-> at[i - 1]]
<1>9. \A i \in 1..m : i - 1 \in 0..N /\ i - 1 < m /\ i \in 1..N /\ at[i - 1] # NULL /\ at[i - 1] \in Task
  BY <1>2, <1>3, <1>8
<1>10. s \in Seq(Task) /\ Len(s) = m /\ \A i \in 1..m : s[i] = at[i - 1]
  BY <1>8, <1>9
<1> HIDE DEF s
<1>11. h = IF Len(s) = 0 THEN NULL ELSE s[1]
  BY <1>1, <1>8, <1>10
<1>12. ASSUME NEW i \in 1..Len(s) PROVE nx[s[i]] = IF i = Len(s) THEN NULL ELSE s[i + 1]
  <2>1. i \in 1..m /\ s[i] = at[i - 1] /\ at[i] = nx[s[i]]
    BY <1>1, <1>9, <1>10, Zenon DEF Step
  <2>2. CASE i = m
    BY <1>8, <1>10, <2>1, <2>2, Zenon
  <2>3. CASE i # m
    <3>1. i + 1 \in 1..m /\ (i + 1) - 1 = i
      BY <1>8, <2>1, <2>3
    <3> QED  BY <1>10, <2>1, <2>3, <3>1, Zenon
  <2> QED  BY <2>2, <2>3, Zenon
<1>13. Distinct(s)
  <2> SUFFICES ASSUME NEW i \in 1..m, NEW j \in 1..m, s[i] = s[j] PROVE i = j
    BY <1>10, Zenon DEF Distinct
  <2>1. i - 1 = j - 1
    BY <1>5, <1>9, <1>10
  <2> QED  BY <1>8, <2>1
<1> QED  BY <1>10, <1>11, <1>12, <1>13, Zenon DEF IsList

\* The nodes of a list that are tasks
LEMMA ListNodes ==
  ASSUME NEW s, NEW h, NEW nx, IsList(s, h, nx), Len(s) <= N
  PROVE  /\ N \in Nat /\ Len(s) \in 0..N /\ NULL \notin Task
         /\ \A i \in 1..Len(s) : s[i] \in Task
         /\ \A k \in 0..N : Nodes(h, nx)[k] # NULL <=> k < Len(s)
         /\ \A k \in 0..N : k < Len(s) => Nodes(h, nx)[k] = s[k + 1]
<1>1. N \in Nat /\ Len(s) \in 0..N /\ NULL \notin Task /\ \A i \in 1..Len(s) : s[i] \in Task
  BY ScheduleAssumption DEF IsList, NULL, Task
<1> DEFINE at == Nodes(h, nx)
<1>2. \A k \in 0..N : at[k] = IF k < Len(s) THEN s[k + 1] ELSE NULL
  BY NodesList, Zenon
<1> HIDE DEF at
<1>3. \A k \in 0..N : k < Len(s) => k + 1 \in 1..Len(s)
  BY <1>1
<1>4. \A k \in 0..N : at[k] # NULL <=> k < Len(s)
  BY <1>1, <1>2, <1>3, Zenon
<1>5. \A k \in 0..N : k < Len(s) => at[k] = s[k + 1]
  BY <1>2, Zenon
<1> QED  BY <1>1, <1>4, <1>5, Zenon DEF at

\* Path gives the list
LEMMA PathList ==
  ASSUME NEW s, NEW h, NEW nx, IsList(s, h, nx), Len(s) <= N
  PROVE  Path(h, nx) = s
<1> DEFINE at == Nodes(h, nx)
           Is(n) == \A k \in 0..N : at[k] # NULL <=> k < n
           m == CHOOSE n \in 0..(N + 1) : Is(n)
<1>1. /\ N \in Nat /\ Len(s) \in 0..N /\ Is(Len(s)) 
      /\ \A k \in 0..N : k < Len(s) => at[k] = s[k + 1]
  BY ListNodes
<1>2. Path(h, nx) = [i \in 1..m |-> at[i - 1]]
  BY Zenon DEF Path
<1> HIDE DEF at
<1>3. m \in 0..(N + 1) /\ Is(m)
  <2>1. \E n \in 0..(N + 1) : Is(n)
    <3>1. Len(s) \in 0..(N + 1)
      BY <1>1
    <3> QED  BY <1>1, <3>1, Zenon
  <2> HIDE DEF Is
  <2> QED  BY <2>1, Zenon
<1> HIDE DEF m
<1>4. m = Len(s)
  <2>1. ~ m < Len(s)
    <3> SUFFICES ASSUME m < Len(s) PROVE FALSE
      BY Zenon
    <3>1. m \in 0..N
      BY <1>1, <1>3
    <3> QED  BY <1>1, <1>3, <3>1
  <2>2. ~ Len(s) < m
    BY <1>1, <1>3
  <2> QED  BY <1>1, <1>3, <2>1, <2>2
<1>5. \A i \in 1..Len(s) : at[i - 1] = s[i]
  <2> SUFFICES ASSUME NEW i \in 1..Len(s) PROVE at[i - 1] = s[i]
    BY Zenon
  <2>1. i - 1 \in 0..N /\ i - 1 < Len(s) /\ (i - 1) + 1 = i
    BY <1>1
  <2> QED  BY <1>1, <2>1, Zenon
<1>6. s \in Seq(Task)
  BY Zenon DEF IsList
<1> QED  BY <1>2, <1>4, <1>5, <1>6

\* The end of a list, and that it has one
LEMMA LastList ==
  ASSUME NEW s, NEW h, NEW nx, IsList(s, h, nx), Len(s) \in 1..N
  PROVE  Last(h, nx) = s[Len(s)]
<1> DEFINE at == Nodes(h, nx)
           Ends(i) == at[i] # NULL /\ (i = N \/ at[i + 1] = NULL)
           n == CHOOSE i \in 0..N : Ends(i)
<1>1. /\ N \in Nat /\ Len(s) \in 1..N /\ \A k \in 0..N : at[k] # NULL <=> k < Len(s)
      /\ \A k \in 0..N : k < Len(s) => at[k] = s[k + 1]
  <2>1. N \in Nat /\ Len(s) <= N
    BY ScheduleAssumption
  <2> QED  BY <2>1, ListNodes
<1>2. Last(h, nx) = at[n]
  BY Zenon DEF Last
<1> HIDE DEF at
<1>3. Len(s) - 1 \in 0..N /\ Ends(Len(s) - 1)
  <2>1. Len(s) - 1 \in 0..N /\ Len(s) - 1 < Len(s) /\ (Len(s) - 1) + 1 = Len(s)
    BY <1>1
  <2>2. at[Len(s) - 1] # NULL
    BY <1>1, <2>1, Zenon
  <2>3. at[Len(s)] = NULL
    <3>1. Len(s) \in 0..N /\ ~ Len(s) < Len(s)
      BY <1>1
    <3> QED  BY <1>1, <3>1, Zenon
  <2>4. at[(Len(s) - 1) + 1] = NULL
    BY <2>1, <2>3, Zenon
  <2> QED  BY <2>1, <2>2, <2>4, Zenon
<1>4. n \in 0..N /\ Ends(n)
  <2>1. \E i \in 0..N : Ends(i)
    BY <1>3, Zenon
  <2> HIDE DEF Ends
  <2> QED  BY <2>1, Zenon
<1> HIDE DEF n
<1>5. n < Len(s) /\ (n = N \/ ~ n + 1 < Len(s))
  <2>1. n < Len(s)
    BY <1>1, <1>4, Zenon
  <2>2. n # N => n + 1 \in 0..N
    BY <1>1, <1>4
  <2> QED  BY <1>1, <1>4, <2>1, <2>2, Zenon
<1>6. n + 1 = Len(s)
  BY <1>1, <1>4, <1>5
<1> QED  BY <1>1, <1>2, <1>4, <1>5, <1>6, Zenon

\* A search of a list finds the first element of the set, or nothing
LEMMA FirstList ==
  ASSUME NEW s, NEW h, NEW nx, IsList(s, h, nx), Len(s) <= N, NEW S \in SUBSET Task
  PROVE  \/ First(h, nx, S) = NULL /\ \A i \in 1..Len(s) : s[i] \notin S
         \/ \E i \in 1..Len(s) : /\ First(h, nx, S) = s[i] /\ s[i] \in S
                                 /\ \A j \in 1..Len(s) : j < i => s[j] \notin S
<1> DEFINE at == Nodes(h, nx)
           hits == {i \in 0..N : at[i] \in S}
<1>1. /\ N \in Nat /\ Len(s) \in 0..N /\ NULL \notin S
      /\ \A k \in 0..N : at[k] # NULL <=> k < Len(s)
      /\ \A k \in 0..N : k < Len(s) => at[k] = s[k + 1]
  BY ListNodes
<1>2. First(h, nx, S) = IF hits = {} THEN NULL ELSE at[CHOOSE i \in hits : \A k \in hits : i <= k]
  BY Zenon DEF First
<1> HIDE DEF at
<1>3. \A i \in 1..Len(s) : i - 1 \in 0..N /\ s[i] = at[i - 1]
  <2> SUFFICES ASSUME NEW i \in 1..Len(s) PROVE i - 1 \in 0..N /\ s[i] = at[i - 1]
    BY Zenon
  <2>1. i - 1 \in 0..N /\ i - 1 < Len(s) /\ (i - 1) + 1 = i
    BY <1>1
  <2> QED  BY <1>1, <2>1, Zenon
<1>4. CASE hits = {}
  BY <1>2, <1>3, <1>4, Zenon
<1>5. CASE hits # {}
  <2> DEFINE m == CHOOSE i \in hits : \A k \in hits : i <= k
  <2>1. hits \in SUBSET Nat
    BY <1>1
  <2>2. \E i \in hits : \A k \in hits : i <= k
    BY <1>5, <2>1, Least, Zenon
  <2>3. m \in hits /\ \A k \in hits : m <= k
    <3> HIDE DEF hits
    <3> QED  BY <2>2, Zenon
  <2>4. First(h, nx, S) = at[m]
    BY <1>2, <1>5, Zenon
  <2> HIDE DEF m
  <2>5. m \in 0..N /\ at[m] \in S /\ m < Len(s)
    BY <1>1, <2>3, Zenon
  <2>6. m + 1 \in 1..Len(s) /\ s[m + 1] = at[m]
    BY <1>1, <2>5
  <2>7. ASSUME NEW j \in 1..Len(s), j < m + 1 PROVE s[j] \notin S
    <3>1. j - 1 \in 0..N /\ s[j] = at[j - 1] /\ ~ m <= j - 1
      BY <1>1, <1>3, <2>5, <2>7
    <3> QED  BY <2>3, <3>1, Zenon
  <2> QED  BY <2>4, <2>5, <2>6, <2>7, Zenon
<1> QED  BY <1>4, <1>5, Zenon

\* the pointers after t was put behind c
Put(nx, c, t) == [nx EXCEPT ![c] = t, ![t] = NULL]

\* A task that is put behind the last one ends the list: it is the new last one, or it
\* was on the list and what followed it is cut off
LEMMA PutAtEnd ==
  ASSUME NEW s, NEW h, NEW nx \in [Task -> Task \cup {NULL}], IsList(s, h, nx), Distinct(s),
         Len(s) # 0, NEW t \in Task, NEW ny, ny = Put(nx, s[Len(s)], t)
  PROVE  /\ (\A i \in 1..Len(s) : s[i] # t) => IsList(Append(s, t), h, ny) /\ Distinct(Append(s, t))
         /\ \A k \in 1..Len(s) :
              s[k] = t => IsList(SubSeq(s, 1, k), h, ny) /\ Distinct(SubSeq(s, 1, k))
<1> DEFINE n == Len(s)
           c == s[n]
<1>1. /\ s \in Seq(Task) /\ n \in Nat /\ n \in 1..n /\ c \in Task /\ h = s[1]
      /\ \A i \in 1..n : s[i] \in Task
      /\ \A i \in 1..n : nx[s[i]] = IF i = n THEN NULL ELSE s[i + 1]
      /\ \A i, j \in 1..n : s[i] = s[j] => i = j
  BY DEF IsList, Distinct
<1>2. /\ ny[t] = NULL /\ (c # t => ny[c] = t)
      /\ \A u \in Task : u # t /\ u # c => ny[u] = nx[u]
  BY <1>1, Zenon DEF Put
<1> HIDE DEF n, c
<1>3. n = Len(s) /\ c = s[n]
  BY Zenon DEF n, c
<1>4. ASSUME \A i \in 1..n : s[i] # t
      PROVE  IsList(Append(s, t), h, ny) /\ Distinct(Append(s, t))
  <2> DEFINE u == Append(s, t)
  <2>1. u \in Seq(Task) /\ Len(u) = n + 1 /\ u[n + 1] = t /\ \A i \in 1..n : u[i] = s[i]
    BY <1>1, <1>3
  <2> HIDE DEF u
  <2>2. h = u[1] /\ Len(u) # 0
    BY <1>1, <2>1
  <2>3. ASSUME NEW i \in 1..Len(u) PROVE ny[u[i]] = IF i = Len(u) THEN NULL ELSE u[i + 1]
    <3>1. CASE i = n + 1
      BY <1>2, <2>1, <3>1, Zenon
    <3>2. CASE i = n
      <4>1. u[i] = c /\ c # t /\ i + 1 = n + 1 /\ i # Len(u)
        BY <1>1, <1>3, <1>4, <2>1, <3>2, Zenon
      <4> QED  BY <1>2, <2>1, <4>1, Zenon
    <3>3. CASE i # n + 1 /\ i # n
      <4>1. i \in 1..n /\ i + 1 \in 1..n /\ u[i] = s[i] /\ u[i + 1] = s[i + 1] /\ i # Len(u)
        BY <1>1, <2>1, <3>3
      <4>2. s[i] # c /\ s[i] # t /\ s[i] \in Task
        BY <1>1, <1>3, <1>4, <3>3, <4>1, Zenon
      <4> QED  BY <1>1, <1>2, <3>3, <4>1, <4>2, Zenon
    <3> QED  BY <3>1, <3>2, <3>3, Zenon
  <2>4. Distinct(u)
    <3> SUFFICES ASSUME NEW i \in 1..Len(u), NEW j \in 1..Len(u), u[i] = u[j] PROVE i = j
      BY Zenon DEF Distinct
    <3>1. i = n + 1 \/ i \in 1..n
      BY <1>1, <2>1
    <3>2. j = n + 1 \/ j \in 1..n
      BY <1>1, <2>1
    <3> QED  BY <1>1, <1>4, <2>1, <3>1, <3>2
  <2> QED  BY <2>1, <2>2, <2>3, <2>4, Zenon DEF IsList, u
<1>5. ASSUME NEW k \in 1..n, s[k] = t
      PROVE  IsList(SubSeq(s, 1, k), h, ny) /\ Distinct(SubSeq(s, 1, k))
  <2> DEFINE u == SubSeq(s, 1, k)
  <2>1. u \in Seq(Task) /\ Len(u) = k /\ \A i \in 1..k : u[i] = s[i]
    BY <1>1, <1>3
  <2> HIDE DEF u
  <2>2. h = u[1] /\ Len(u) # 0
    BY <1>1, <2>1
  <2>3. ASSUME NEW i \in 1..Len(u) PROVE ny[u[i]] = IF i = Len(u) THEN NULL ELSE u[i + 1]
    <3>1. CASE i = k
      BY <1>2, <1>5, <2>1, <3>1, Zenon
    <3>2. CASE i # k
      <4>1. i \in 1..n /\ i + 1 \in 1..k /\ u[i] = s[i] /\ u[i + 1] = s[i + 1] /\ i # n /\ i # Len(u)
        BY <1>1, <2>1, <3>2
      <4>2. s[i] # c /\ s[i] # t /\ s[i] \in Task
        BY <1>1, <1>3, <1>5, <3>2, <4>1, Zenon
      <4> QED  BY <1>1, <1>2, <4>1, <4>2, Zenon
    <3> QED  BY <3>1, <3>2, Zenon
  <2>4. Distinct(u)
    <3> SUFFICES ASSUME NEW i \in 1..k, NEW j \in 1..k, u[i] = u[j] PROVE i = j
      BY <2>1, Zenon DEF Distinct
    <3>1. i \in 1..n /\ j \in 1..n
      BY <1>1
    <3> QED  BY <1>1, <2>1, <3>1, Zenon
  <2> QED  BY <2>1, <2>2, <2>3, <2>4, Zenon DEF IsList, u
<1> QED  BY <1>4, <1>5, Zenon DEF n

\* The task that was put behind another one has the highest rank
LEMMA PutRanked ==
  ASSUME NEW nx \in [Task -> Task \cup {NULL}], NEW r, NEW b, Ranked(r, b, nx),
         NEW c \in Task, NEW t \in Task
  PROVE  \E q, d : Ranked(q, d, Put(nx, c, t))
<1> DEFINE q == [r EXCEPT ![t] = b + 1]
           ny == Put(nx, c, t)
<1>1. b \in Nat /\ r \in [Task -> 0..b] /\ \A u \in Task : r[u] \in 0..b
  BY Zenon DEF Ranked
<1>2. b + 1 \in Nat /\ q \in [Task -> 0..(b + 1)] /\ q[t] = b + 1 /\ \A u \in Task : u # t => q[u] = r[u]
  BY <1>1
<1> HIDE DEF q
<1>3. NULL \notin Task
  BY ScheduleAssumption DEF NULL, Task
<1>4. ny[t] = NULL /\ (c # t => ny[c] = t) /\ \A u \in Task : u # t /\ u # c => ny[u] = nx[u]
  BY Zenon DEF Put
<1> HIDE DEF ny
<1>5. ASSUME NEW u \in Task, ny[u] # NULL PROVE ny[u] \in Task /\ q[u] < q[ny[u]]
  <2>1. u # t /\ q[u] = r[u] /\ r[u] \in 0..b
    BY <1>1, <1>2, <1>4, <1>5, Zenon
  <2>2. CASE u = c
    BY <1>1, <1>2, <1>4, <2>1, <2>2
  <2>3. CASE u # c
    <3>1. ny[u] = nx[u] /\ nx[u] # NULL
      BY <1>4, <1>5, <2>1, <2>3, Zenon
    <3>2. nx[u] \in Task /\ r[u] < r[nx[u]]
      BY <3>1, Zenon DEF Ranked
    <3>3. CASE nx[u] = t
      BY <1>1, <1>2, <2>1, <3>1, <3>3
    <3>4. CASE nx[u] # t
      BY <1>2, <2>1, <3>1, <3>2, <3>4, Zenon
    <3> QED  BY <3>3, <3>4, Zenon
  <2> QED  BY <2>2, <2>3, Zenon
<1>6. Ranked(q, b + 1, ny)
  BY <1>2, <1>5, Zenon DEF Ranked
<1> QED  BY <1>6, Zenon DEF ny

-----------------------------------------------------------------------------
(* What Keep computes *)

\* Sequences of one element and one more
LEMMA OneMore ==
  ASSUME NEW T, NEW y \in T, NEW x \in T, NEW a \in Seq(T)
  PROVE  /\ <<>> \in Seq(T) /\ Append(<<>>, y) = <<y>> /\ <<y>> \o <<>> = <<y>>
         /\ Append(a, x) \in Seq(T) /\ Append(<<y>> \o a, x) = <<y>> \o Append(a, x)
<1>1. <<>> \in Seq(T) /\ Len(<<>>) = 0
  OBVIOUS
<1>2. <<y>> \in Seq(T) /\ Len(<<y>>) = 1 /\ <<y>>[1] = y
  OBVIOUS
<1> DEFINE o == <<y>>
           e == <<>>
<1>3. o \in Seq(T) /\ Len(o) = 1 /\ o[1] = y /\ e \in Seq(T) /\ Len(e) = 0
  BY <1>1, <1>2, Zenon
<1> HIDE DEF o, e
<1>4. Append(e, y) = o
  BY <1>3
<1>5. o \o e = o
  BY <1>3, ConcatNone, Zenon DEF e
<1>6. Append(a, x) \in Seq(T) /\ Len(Append(a, x)) = Len(a) + 1 /\ Append(a, x)[Len(a) + 1] = x
      /\ \A i \in 1..Len(a) : Append(a, x)[i] = a[i]
  OBVIOUS
<1>7. Append(o \o a, x) = o \o Append(a, x)
  BY <1>3
<1> QED  BY <1>1, <1>4, <1>5, <1>6, <1>7, Zenon DEF o, e

Grow(q, x, S) == IF x \in S THEN Append(q, x) ELSE q

\* f[i] is what Keep has kept of the first i elements of s
IsKept(f, s, n, S) ==
  f = [i \in 0..n |-> IF i = 0 THEN <<>> ELSE IF s[i] \in S THEN Append(f[i - 1], s[i]) ELSE f[i - 1]]

KeptBy(f, s, n, S) == f[0] = <<>> /\ \A i \in 1..n : f[i] = Grow(f[i - 1], s[i], S)

LEMMA KeptValues ==
  ASSUME NEW n \in Nat, NEW f, NEW s, NEW S
  PROVE  IsKept(f, s, n, S) <=> DOMAIN f = 0..n /\ f = [i \in 0..n |-> f[i]] /\ KeptBy(f, s, n, S)
<1> DEFINE F == [i \in 0..n |-> IF i = 0 THEN <<>> ELSE IF s[i] \in S THEN Append(f[i - 1], s[i]) ELSE f[i - 1]]
<1>1. DOMAIN F = 0..n /\ F = [i \in 0..n |-> F[i]] /\ F[0] = <<>>
  OBVIOUS
<1>2. ASSUME NEW i \in 1..n PROVE F[i] = Grow(f[i - 1], s[i], S) /\ i \in 0..n
  <2>1. i \in 0..n /\ i # 0
    OBVIOUS
  <2> QED  BY <2>1, Zenon DEF Grow
<1>3. \A i \in 0..n : i = 0 \/ i \in 1..n
  OBVIOUS
<1>4. IsKept(f, s, n, S) <=> f = F
  BY Zenon DEF IsKept
<1> HIDE DEF F
<1>5. ASSUME f = F PROVE DOMAIN f = 0..n /\ f = [i \in 0..n |-> f[i]] /\ KeptBy(f, s, n, S)
  BY <1>1, <1>2, <1>5, Zenon DEF KeptBy
<1>6. ASSUME f = [i \in 0..n |-> f[i]], KeptBy(f, s, n, S) PROVE f = F
  <2>1. \A i \in 0..n : f[i] = F[i]
    BY <1>1, <1>2, <1>3, <1>6, Zenon DEF KeptBy
  <2> QED  BY <1>1, <1>6, <2>1, Zenon
<1> QED  BY <1>4, <1>5, <1>6, Zenon

LEMMA KeptExists == ASSUME NEW s, NEW S PROVE \A n \in Nat : \E f : IsKept(f, s, n, S)
<1> DEFINE Bad == {n \in Nat : ~ \E f : IsKept(f, s, n, S)}
<1> SUFFICES ASSUME Bad # {} PROVE FALSE
  BY Zenon
<1>1. PICK n \in Bad : \A k \in Bad : n <= k
  BY Least, Zenon
<1>2. n # 0
  <2> SUFFICES ASSUME n = 0 PROVE FALSE
    BY Zenon
  <2> DEFINE f == [i \in 0..0 |-> <<>>]
  <2>1. DOMAIN f = 0..0 /\ f = [i \in 0..0 |-> f[i]] /\ f[0] = <<>>
    OBVIOUS
  <2> HIDE DEF f
  <2>2. KeptBy(f, s, 0, S)
    BY <2>1 DEF KeptBy
  <2>3. IsKept(f, s, 0, S)
    BY <2>1, <2>2, KeptValues, Zenon
  <2> QED  BY <1>1, <2>3, Zenon
<1>3. n \in Nat /\ n - 1 \in Nat /\ n - 1 \notin Bad
  BY <1>1, <1>2
<1>4. PICK f : IsKept(f, s, n - 1, S)
  BY <1>3, Zenon
<1>5. f[0] = <<>> /\ \A i \in 1..(n - 1) : f[i] = Grow(f[i - 1], s[i], S)
  BY <1>3, <1>4, KeptValues DEF KeptBy
<1> DEFINE g == [i \in 0..n |-> IF i = n THEN Grow(f[n - 1], s[n], S) ELSE f[i]]
<1>6. DOMAIN g = 0..n /\ g = [i \in 0..n |-> g[i]] /\ g[0] = <<>> /\ g[n] = Grow(f[n - 1], s[n], S)
  BY <1>2, <1>3, <1>5
<1>7. \A i \in 0..(n - 1) : g[i] = f[i]
  BY <1>3
<1> HIDE DEF g
<1>8. ASSUME NEW i \in 1..n PROVE g[i] = Grow(g[i - 1], s[i], S)
  <2>1. CASE i = n
    <3>1. n - 1 \in 0..(n - 1)
      BY <1>3
    <3> QED  BY <1>6, <1>7, <2>1, <3>1, Zenon
  <2>2. CASE i # n
    <3>1. i \in 1..(n - 1) /\ i \in 0..(n - 1) /\ i - 1 \in 0..(n - 1)
      BY <1>3, <2>2
    <3> QED  BY <1>5, <1>7, <3>1, Zenon
  <2> QED  BY <2>1, <2>2, Zenon
<1>9. IsKept(g, s, n, S)
  BY <1>3, <1>6, <1>8, KeptValues, Zenon DEF KeptBy
<1> QED  BY <1>1, <1>9, Zenon

\* Keep is the last of what was kept step by step
LEMMA KeepIs ==
  ASSUME NEW s, Len(s) \in Nat, NEW S
  PROVE  \E f : KeptBy(f, s, Len(s), S) /\ Keep(s, S) = f[Len(s)]
<1> DEFINE kept == CHOOSE f : IsKept(f, s, Len(s), S)
<1>1. IsKept(kept, s, Len(s), S)
  BY KeptExists, Zenon
<1>2. Keep(s, S) = kept[Len(s)]
  BY Zenon DEF Keep, IsKept
<1> HIDE DEF kept
<1> QED  BY <1>1, <1>2, KeptValues, Zenon

\* Sequences that agree up to k keep the same up to k
LEMMA KeptAgree ==
  ASSUME NEW f, NEW s, NEW n \in Nat, NEW S, KeptBy(f, s, n, S),
         NEW g, NEW t, NEW m \in Nat, NEW T, KeptBy(g, t, m, T),
         NEW k \in Nat, k <= n, k <= m,
         \A i \in 1..k : s[i] = t[i] /\ (s[i] \in S <=> s[i] \in T)
  PROVE  f[k] = g[k]
<1> DEFINE Bad == {i \in 0..k : f[i] # g[i]}
<1> SUFFICES ASSUME Bad # {} PROVE FALSE
  OBVIOUS
<1>1. Bad \in SUBSET Nat
  OBVIOUS
<1>2. PICK i \in Bad : \A j \in Bad : i <= j
  BY <1>1, Least, Zenon
<1>3. i # 0
  BY <1>2, Zenon DEF KeptBy
<1>4. i \in 1..k /\ i - 1 \in 0..k /\ i - 1 \notin Bad /\ i \in 1..n /\ i \in 1..m
  BY <1>2, <1>3
<1>5. f[i] = Grow(f[i - 1], s[i], S) /\ g[i] = Grow(g[i - 1], t[i], T) /\ f[i - 1] = g[i - 1]
  BY <1>4, Zenon DEF KeptBy
<1>6. s[i] = t[i] /\ (s[i] \in S <=> s[i] \in T)
  BY <1>4, Zenon
<1>7. f[i] = g[i]
  BY <1>5, <1>6, Zenon DEF Grow
<1> QED  BY <1>2, <1>7, Zenon

\* Nothing is kept where there is nothing of the set
LEMMA KeptStill ==
  ASSUME NEW f, NEW s, NEW n \in Nat, NEW S, KeptBy(f, s, n, S), NEW k \in 0..n,
         NEW m \in k..n, \A i \in 1..n : k < i /\ i <= m => s[i] \notin S
  PROVE  f[m] = f[k]
<1> DEFINE Bad == {i \in k..m : f[i] # f[k]}
<1> SUFFICES ASSUME Bad # {} PROVE FALSE
  OBVIOUS
<1>1. Bad \in SUBSET Nat
  OBVIOUS
<1>2. PICK i \in Bad : \A j \in Bad : i <= j
  BY <1>1, Least, Zenon
<1>3. i # k
  BY <1>2, Zenon
<1>4. i \in 1..n /\ k < i /\ i <= m /\ i - 1 \in k..m /\ i - 1 \notin Bad
  BY <1>2, <1>3
<1>5. f[i] = Grow(f[i - 1], s[i], S) /\ f[i - 1] = f[k] /\ s[i] \notin S
  BY <1>4, Zenon DEF KeptBy
<1> QED  BY <1>2, <1>5, Zenon DEF Grow

\* A sequence that agrees with the front of another one, which has nothing of the set
\* behind it, keeps the same
LEMMA KeepFront ==
  ASSUME NEW s, Len(s) \in Nat, NEW t, Len(t) \in 0..Len(s), NEW S, NEW T,
         \A i \in 1..Len(t) : s[i] = t[i] /\ (s[i] \in S <=> s[i] \in T),
         \A i \in 1..Len(s) : Len(t) < i => s[i] \notin S
  PROVE  Keep(s, S) = Keep(t, T)
<1>1. PICK f : KeptBy(f, s, Len(s), S) /\ Keep(s, S) = f[Len(s)]
  BY KeepIs, Zenon
<1>2. Len(t) \in Nat /\ Len(t) <= Len(s) /\ Len(s) \in Len(t)..Len(s)
  OBVIOUS
<1>3. PICK g : KeptBy(g, t, Len(t), T) /\ Keep(t, T) = g[Len(t)]
  BY <1>2, KeepIs, Zenon
<1>4. f[Len(t)] = g[Len(t)]
  BY <1>1, <1>2, <1>3, KeptAgree
<1>5. f[Len(s)] = f[Len(t)]
  BY <1>1, <1>2, KeptStill
<1> QED  BY <1>1, <1>3, <1>4, <1>5, Zenon

LEMMA KeepNone ==
  ASSUME NEW s, Len(s) \in Nat, NEW S, \A i \in 1..Len(s) : s[i] \notin S
  PROVE  Keep(s, S) = <<>>
<1>1. PICK f : KeptBy(f, s, Len(s), S) /\ Keep(s, S) = f[Len(s)]
  BY KeepIs, Zenon
<1>2. 0 \in 0..Len(s) /\ Len(s) \in 0..Len(s)
  OBVIOUS
<1>3. f[Len(s)] = f[0]
  BY <1>1, <1>2, KeptStill
<1> QED  BY <1>1, <1>3, Zenon DEF KeptBy

LEMMA KeepAppend ==
  ASSUME NEW s \in Seq(Task), NEW x \in Task, NEW S
  PROVE  Keep(Append(s, x), S) = Grow(Keep(s, S), x, S)
<1> DEFINE t == Append(s, x)
           n == Len(s)
<1>1. n \in Nat /\ Len(t) = n + 1 /\ t[n + 1] = x /\ \A i \in 1..n : t[i] = s[i]
  OBVIOUS
<1> HIDE DEF t, n
<1>2. Len(t) \in Nat /\ n <= Len(t) /\ n + 1 \in 1..Len(t) /\ (n + 1) - 1 = n
  BY <1>1
<1>3. PICK f : KeptBy(f, t, Len(t), S) /\ Keep(t, S) = f[Len(t)]
  BY <1>2, KeepIs, Zenon
<1>4. PICK g : KeptBy(g, s, n, S) /\ Keep(s, S) = g[n]
  BY <1>1, KeepIs, Zenon DEF n
<1>5. f[n] = g[n]
  BY <1>1, <1>2, <1>3, <1>4, KeptAgree
<1>6. f[n + 1] = Grow(f[n], x, S)
  BY <1>1, <1>2, <1>3, Zenon DEF KeptBy
<1> QED  BY <1>1, <1>3, <1>4, <1>5, <1>6, Zenon DEF t

\* What is kept are elements of the sequence
LEMMA KeepElements ==
  ASSUME NEW s \in Seq(Task), NEW S
  PROVE  Keep(s, S) \in Seq({s[i] : i \in 1..Len(s)})
<1> DEFINE E == {s[i] : i \in 1..Len(s)}
           n == Len(s)
<1>1. PICK f : KeptBy(f, s, n, S) /\ Keep(s, S) = f[n]
  BY KeepIs
<1>2. n \in Nat /\ \A i \in 1..n : s[i] \in E
  OBVIOUS
<1> HIDE DEF E
<1> DEFINE Bad == {i \in 0..n : f[i] \notin Seq(E)}
<1>3. Bad = {}
  <2> SUFFICES ASSUME Bad # {} PROVE FALSE
    BY Zenon
  <2>1. Bad \in SUBSET Nat
    BY <1>2
  <2> HIDE DEF n
  <2>2. PICK i \in Bad : \A j \in Bad : i <= j
    BY <2>1, Least, Zenon
  <2>3. i # 0
    <3>1. <<>> \in Seq(E)
      OBVIOUS
    <3> QED  BY <1>1, <2>2, <3>1, Zenon DEF KeptBy
  <2>4. i \in 1..n /\ i - 1 \in 0..n /\ i - 1 \notin Bad
    BY <1>2, <2>2, <2>3
  <2>5. f[i] = Grow(f[i - 1], s[i], S) /\ f[i - 1] \in Seq(E) /\ s[i] \in E
    BY <1>1, <1>2, <2>4, Zenon DEF KeptBy
  <2>6. f[i] \in Seq(E)
    BY <2>5 DEF Grow
  <2> QED  BY <2>2, <2>6, Zenon
<1>4. n \in 0..n
  BY <1>2
<1> QED  BY <1>1, <1>3, <1>4, Zenon DEF E

\* the first element of s that is in S is at i, and t is what follows it
FirstIs(s, S, i, t) ==
  /\ s \in Seq(Task) /\ t \in Seq(Task)
  /\ i \in 1..Len(s) /\ s[i] \in S /\ \A j \in 1..Len(s) : j < i => s[j] \notin S
  /\ Len(t) = Len(s) - i /\ \A j \in 1..Len(t) : t[j] = s[i + j]

\* It comes first in what is kept, and then comes what the rest keeps
LEMMA KeepRest ==
  ASSUME NEW s, NEW S, NEW i, NEW t, FirstIs(s, S, i, t)
  PROVE  /\ Keep(s, S) # <<>> /\ Head(Keep(s, S)) = s[i] /\ Tail(Keep(s, S)) = Keep(t, S)
<1>0. /\ s \in Seq(Task) /\ t \in Seq(Task)
      /\ i \in 1..Len(s) /\ s[i] \in S /\ \A j \in 1..Len(s) : j < i => s[j] \notin S
      /\ Len(t) = Len(s) - i /\ \A j \in 1..Len(t) : t[j] = s[i + j]
  BY Zenon DEF FirstIs
<1> DEFINE n == Len(s)
           m == Len(t)
<1>1. PICK f : KeptBy(f, s, n, S) /\ Keep(s, S) = f[n]
  BY <1>0, KeepIs
<1>2. PICK g : KeptBy(g, t, m, S) /\ Keep(t, S) = g[m]
  BY <1>0, KeepIs
<1>3. n \in Nat /\ m \in Nat /\ m = n - i /\ i \in 1..n /\ i - 1 \in 0..n /\ s[i] \in Task
  BY <1>0
<1>4. \A j \in 1..m : t[j] = s[i + j] /\ t[j] \in Task
  BY <1>0
<1> HIDE DEF n, m
<1>5. f[i - 1] = <<>>
  <2>1. 0 \in 0..n /\ i - 1 \in 0..n
    BY <1>3
  <2>2. \A j \in 1..n : 0 < j /\ j <= i - 1 => s[j] \notin S
    BY <1>0, <1>3 DEF n
  <2>3. f[i - 1] = f[0]
    BY <1>1, <1>3, <2>1, <2>2, KeptStill, Zenon
  <2> QED  BY <1>1, <2>3, Zenon DEF KeptBy
<1>6. f[i] = <<s[i]>>
  <2>1. f[i] = Append(<<>>, s[i])
    BY <1>0, <1>1, <1>3, <1>5, Zenon DEF KeptBy, Grow
  <2> QED  BY <1>3, <2>1, OneMore
<1> DEFINE Ok(j) == g[j] \in Seq(Task) /\ f[i + j] = <<s[i]>> \o g[j]
           Bad == {j \in 0..m : ~ Ok(j)}
<1>7. Bad = {}
  <2> SUFFICES ASSUME Bad # {} PROVE FALSE
    BY Zenon
  <2>1. Bad \in SUBSET Nat
    BY <1>3
  <2>2. PICK j \in Bad : \A k \in Bad : j <= k
    BY <2>1, Least, Zenon
  <2>3. j # 0
    <3>1. g[0] = <<>> /\ i + 0 = i
      BY <1>2, <1>3 DEF KeptBy
    <3>2. <<>> \in Seq(Task) /\ <<s[i]>> \o <<>> = <<s[i]>>
      BY <1>3, OneMore
    <3>3. Ok(0)
      BY <1>3, <1>6, <3>1, <3>2, Zenon
    <3> QED  BY <2>2, <3>3, Zenon
  <2>4. /\ j \in 1..m /\ j - 1 \in 0..m /\ j - 1 \notin Bad /\ i + j \in 1..n
        /\ (i + j) - 1 = i + (j - 1)
    BY <1>3, <2>2, <2>3
  <2>5. Ok(j - 1)
    BY <2>4, Zenon
  <2>6. g[j] = Grow(g[j - 1], t[j], S) /\ f[i + j] = Grow(f[i + (j - 1)], s[i + j], S)
    BY <1>1, <1>2, <2>4, Zenon DEF KeptBy
  <2>7. t[j] = s[i + j] /\ t[j] \in Task
    BY <1>4, <2>4, Zenon
  <2> DEFINE a == g[j - 1]
             x == t[j]
             y == s[i]
  <2>8. a \in Seq(Task) /\ x \in Task /\ y \in Task /\ f[i + (j - 1)] = <<y>> \o a
    BY <1>3, <2>5, <2>7, Zenon
  <2>9. g[j] = Grow(a, x, S) /\ f[i + j] = Grow(<<y>> \o a, x, S)
    BY <2>6, <2>7, <2>8, Zenon
  <2> HIDE DEF a, x, y
  <2>10. Append(a, x) \in Seq(Task) /\ Append(<<y>> \o a, x) = <<y>> \o Append(a, x)
    <3>1. a \in Seq(Task) /\ x \in Task /\ y \in Task
      BY <2>8, Zenon
    <3> HIDE DEF Bad
    <3> QED  BY ONLY <3>1, OneMore
  <2>11. g[j] \in Seq(Task) /\ f[i + j] = <<y>> \o g[j]
    BY <2>8, <2>9, <2>10, Zenon DEF Grow
  <2>12. Ok(j)
    BY <2>11, Zenon DEF y
  <2> QED  BY <2>2, <2>12, Zenon
<1>8. m \in 0..m /\ i + m = n
  BY <1>3
<1>9. Ok(m)
  BY <1>7, <1>8, Zenon
<1> DEFINE y == s[i]
           q == g[m]
<1>10. y \in Task /\ q \in Seq(Task) /\ Keep(s, S) = <<y>> \o q /\ Keep(t, S) = q
  BY <1>1, <1>2, <1>3, <1>8, <1>9, Zenon
<1> HIDE DEF y, q
<1>11. <<y>> \o q # <<>> /\ Head(<<y>> \o q) = y /\ Tail(<<y>> \o q) = q
  <2>1. <<y>> \in Seq(Task) /\ Len(<<y>>) = 1 /\ <<y>>[1] = y
    BY <1>10
  <2>2. <<y>> \o q \in Seq(Task) /\ Len(<<y>> \o q) = 1 + Len(q)
    BY <1>10, <2>1
  <2> QED  BY <1>10, <2>1, <2>2
<1> QED  BY <1>10, <1>11, Zenon DEF y

-----------------------------------------------------------------------------
(* The available list as a round-robin queue.  A list keeps what a stale   *)
(* pointer still leads to behind its tasks: tasks that have exited, idle,  *)
(* and the task that runs.                                                 *)

\* programs do nothing but yield, fork and exit
OnlyYields == Calls \subseteq {"yield", "fork", "exit"}

NoExit == \A t \in Task : ~ Exited(t)

Holds(s, t) == \E i \in 1..Len(s) : s[i] = t

\* no task that can run is behind t on s
Behind(s, t) == \A i, j \in 1..Len(s) : i < j /\ s[i] = t => ~ runnable[s[j]]

\* nobody sleeps or waits, and no list is cyclic
QuietOK ==
  /\ sleeping_tasks = NULL /\ waiting_tasks = NULL
  /\ \A t \in Task : ~ waiting[t] /\ sleep_time[t] = 0
  /\ ~ runnable[Idle]
  /\ me # NULL => stage = "switch"
  /\ \E r, b : Ranked(r, b, next)

\* between the choice of current and the switch, when me is not yet back on the list s
ChosenOK(s) ==
  /\ ~ Holds(s, current) /\ Behind(s, me)
  /\ current = Idle => Len(s) = 0
  /\ me = Idle => \A t \in Task : runnable[t] => t = current

RunningOK(s) ==
  /\ Behind(s, current)
  /\ current = Idle => \A t, u \in Task : runnable[t] /\ runnable[u] => t = u

\* and before the first exit, when a fork is still to be expected: only idle can be on the
\* list without being runnable, and the pointer of the task that runs is clear, or leads
\* to a list that will not be empty when the task comes back
ChosenEarly(s) ==
  /\ ~ Holds(s, Idle) /\ ~ Holds(s, me) /\ me # current
  /\ current # Idle => next[current] = available_tasks
  /\ current = Idle => next[Idle] = NULL /\ me \notin {Idle, NULL}
  /\ Len(s) = 0 /\ me # NULL => next[me] = NULL
  /\ me = NULL => Len(s) = 0 /\ next[Idle] = NULL
  /\ me = Idle => Len(s) = 0

RunningEarly(s) ==
  /\ ~ Holds(s, current)
  /\ current \in Task \ {Idle} /\ next[current] # NULL =>
       /\ next[current] = available_tasks
       /\ \E i, j \in 1..Len(s) : i # j /\ runnable[s[i]] /\ runnable[s[j]]
  /\ current = Idle \/ Len(s) = 0 => next[Idle] = NULL
  /\ \A i \in 1..Len(s) : s[i] = Idle => i = 1

\* no task that can run is lost
QueueOK(s) ==
  /\ IsList(s, available_tasks, next) /\ Distinct(s)
  /\ \A t \in Task : runnable[t] /\ t \notin {current, me} => Holds(s, t)
  /\ current = NULL => s = <<Shell>> /\ next[Idle] = NULL
  /\ IF stage = "switch" THEN ChosenOK(s) ELSE RunningOK(s)
  /\ NoExit => IF stage = "switch" THEN ChosenEarly(s) ELSE RunningEarly(s)

QInv == QuietOK /\ \E s : QueueOK(s)

\* the tasks of Ready, and the one that is about to follow
Others(rn, c, m) == {t \in Task : rn[t] /\ t \notin {c, m}}
Coming(rn, c, m) == IF m \notin {NULL, c} /\ rn[m] THEN <<m>> ELSE <<>>

LEMMA OthersAre ==
  ASSUME NEW rn, NEW c, NEW m, NEW t
  PROVE  t \in Others(rn, c, m) <=> t \in Task /\ rn[t] /\ t # c /\ t # m
  BY Zenon DEF Others

\* Ready in terms of the list
LEMMA ReadyIs ==
  ASSUME NEW s, IsList(s, available_tasks, next), Distinct(s)
  PROVE  Ready = Keep(s, Others(runnable, current, me)) \o Coming(runnable, current, me)
<1>1. Len(s) <= N
  BY DistinctShort, Zenon DEF IsList
<1>2. Path(available_tasks, next) = s
  BY <1>1, PathList, Zenon
<1> QED  BY <1>2, Zenon DEF Ready, Others, Coming

LEMMA ReadyIsNext ==
  ASSUME NEW s, IsList(s, available_tasks', next'), Distinct(s)
  PROVE  Ready' = Keep(s, Others(runnable', current', me')) \o Coming(runnable', current', me')
<1>1. Len(s) <= N
  BY DistinctShort, Zenon DEF IsList
<1>2. Path(available_tasks', next') = s
  BY <1>1, PathList, Zenon
<1> QED  BY <1>2, Zenon DEF Ready, Others, Coming

\* nobody comes back while no switch is under way
LEMMA NoneComes ==
  ASSUME NEW s \in Seq(Task), NEW rn, NEW c
  PROVE  /\ Keep(s, Others(rn, c, NULL)) \in Seq(Task)
         /\ Keep(s, Others(rn, c, NULL)) \o Coming(rn, c, NULL) = Keep(s, Others(rn, c, NULL))
<1> DEFINE q == Keep(s, Others(rn, c, NULL))
           E == {s[i] : i \in 1..Len(s)}
<1>1. q \in Seq(E) /\ E \subseteq Task
  BY KeepElements
<1> HIDE DEF E, q
<1>2. q \in Seq(Task)
  BY <1>1
<1>3. Coming(rn, c, NULL) = <<>>
  BY Zenon DEF Coming
<1> QED  BY <1>2, <1>3, ConcatNone, Zenon DEF q

\* what the steps use of the types
LEMMA Typed ==
  ASSUME IInv
  PROVE  /\ NULL \notin Task /\ Idle \in Task /\ Shell \in Task /\ Idle # Shell
         /\ current \in Task \cup {NULL} /\ me \in Task \cup {NULL} /\ available_tasks \in Task \cup {NULL}
         /\ next \in [Task -> Task \cup {NULL}] /\ runnable \in [Task -> BOOLEAN]
         /\ pc[Idle] # "unborn" /\ pc[Shell] # "unborn" /\ ms \in Nat
         /\ stage \in {"run", "switch", "panic"} => current \in Task
<1>1. NULL \notin Task /\ Idle \in Task /\ Shell \in Task /\ Idle # Shell
  BY ScheduleAssumption DEF NULL, Task, Idle, Shell
<1>2. TypeOK
  BY InvTypes, Zenon
<1>3. stage \in {"run", "switch", "panic"} => current \in Task
  BY <1>2, Zenon DEF IInv, PointersOK, TypeOK
<1>4. pc[Idle] # "unborn" /\ pc[Shell] # "unborn"
  <2>1. Shell \in Known
    BY DEF IInv, BirthOK, Known, Shell
  <2> QED  BY <1>1, <2>1, Zenon DEF IInv, BirthOK
<1> QED  BY <1>1, <1>2, <1>3, <1>4, ScheduleAssumption DEF TypeOK

\* Before the first exit every task on a list can run, except for idle
LEMMA ListRuns ==
  ASSUME IInv, NoExit, NEW s, IsList(s, available_tasks, next), NEW i \in 1..Len(s), s[i] # Idle
  PROVE  runnable[s[i]]
<1>1. s \in Seq(Task) /\ Len(s) \in Nat /\ \A k \in 1..Len(s) : s[k] \in Task
  BY DEF IsList
<1>2. available_tasks \in Known /\ next \in [Task -> Known]
  BY Zenon DEF IInv, PointersOK
<1>3. s[i] \in Known
  <2>1. CASE i = 1
    BY <1>1, <1>2, <2>1 DEF IsList
  <2>2. CASE i # 1
    <3>1. i - 1 \in 1..Len(s) /\ i - 1 # Len(s) /\ (i - 1) + 1 = i
      BY <1>1, <2>2
    <3>2. next[s[i - 1]] = s[i] /\ s[i - 1] \in Task
      BY <1>1, <3>1, Zenon DEF IsList
    <3> QED  BY <1>2, <3>2, Zenon
  <2> QED  BY <2>1, <2>2, Zenon
<1>4. pc[s[i]] # "unborn" /\ s[i] \in Task
  BY <1>1, <1>3, Zenon DEF IInv, BirthOK
<1> QED  BY <1>4, Zenon DEF NoExit, Exited

\* Steps that leave the list and the tasks alone
LEMMA SameQueue ==
  ASSUME QInv, UNCHANGED <<current, available_tasks, sleeping_tasks, waiting_tasks, next>>,
         UNCHANGED <<runnable, waiting, sleep_time, me>>,
         stage # "switch", stage' # "switch", NoExit' => NoExit
  PROVE  QInv' /\ UNCHANGED <<current, Ready>>
<1>1. QuietOK' /\ UNCHANGED Ready
  BY Zenon DEF QInv, QuietOK, Ready
<1>2. PICK s : QueueOK(s)
  BY Zenon DEF QInv
<1>3. RunningOK(s)' /\ (NoExit' => RunningEarly(s)')
  BY <1>2, Zenon DEF QueueOK, RunningOK, RunningEarly, Behind
<1>4. QueueOK(s)'
  BY <1>2, <1>3, Zenon DEF QueueOK
<1> QED  BY <1>1, <1>4, Zenon DEF QInv

LEMMA InitQueue == ASSUME Init PROVE QInv /\ RR!Init
<1>1. NULL \notin Task /\ Idle \in Task /\ Shell \in Task /\ Idle # Shell
  BY ScheduleAssumption DEF NULL, Task, Idle, Shell
<1> DEFINE s == <<Shell>>
<1>2. s \in Seq(Task) /\ Len(s) = 1 /\ s[1] = Shell /\ s = Append(<<>>, Shell)
  <2>1. <<>> \in Seq(Task)
    OBVIOUS
  <2>2. Append(<<>>, Shell) = <<Shell>>
    BY ONLY <1>1, <2>1, OneMore, Zenon
  <2> QED  BY <1>1, <2>2
<1> HIDE DEF s
<1>3. IsList(s, available_tasks, next) /\ Distinct(s)
  BY <1>1, <1>2 DEF IsList, Distinct, Init
<1>4. \A t \in Task : runnable[t] => Holds(s, t)
  <2>1. \A t \in Task : runnable[t] <=> t = Shell
    BY Zenon DEF Init
  <2>2. 1 \in 1..Len(s) /\ s[1] = Shell
    BY <1>2
  <2> QED  BY <2>1, <2>2, Zenon DEF Holds
<1>5. RunningOK(s)
  BY <1>1, <1>2 DEF RunningOK, Behind, Init
<1>6. RunningEarly(s)
  BY <1>1, <1>2 DEF RunningEarly, Holds, Init
<1>7. QueueOK(s)
  BY <1>1, <1>3, <1>4, <1>5, <1>6, Zenon DEF QueueOK, Init, s
<1>8. \E r, b : Ranked(r, b, next)
  <2>1. Ranked([t \in Task |-> 0], 0, next)
    BY DEF Ranked, Init
  <2> QED  BY <2>1, Zenon
<1>9. QInv
  BY <1>1, <1>7, <1>8, Zenon DEF QInv, QuietOK, Init
<1>10. Ready = <<Shell>>
  <2> DEFINE S == Others(runnable, current, me)
  <2>1. me = NULL /\ Shell \in S
    BY <1>1, Zenon DEF Init, Others
  <2>2. Ready = Keep(s, S)
    BY <1>2, <1>3, <2>1, ReadyIs, NoneComes, Zenon
  <2> HIDE DEF S
  <2>3. Keep(<<>>, S) = <<>>
    <3>1. Len(<<>>) \in Nat /\ \A i \in 1..Len(<<>>) : <<>>[i] \notin S
      OBVIOUS
    <3> QED  BY ONLY <3>1, KeepNone, Zenon
  <2>4. Keep(Append(<<>>, Shell), S) = Grow(Keep(<<>>, S), Shell, S)
    <3>1. <<>> \in Seq(Task)
      OBVIOUS
    <3> QED  BY <1>1, <3>1, KeepAppend, Zenon
  <2>5. Keep(s, S) = Append(<<>>, Shell)
    BY <1>2, <2>1, <2>3, <2>4, Zenon DEF Grow
  <2> QED  BY <1>2, <2>2, <2>5, Zenon DEF s
<1> QED  BY <1>9, <1>10, Zenon DEF RR!Init, Init

\* A task that exits is not on the queue, and runs no more
LEMMA ExitQueue == ASSUME IInv, QInv, SysExit PROVE QInv' /\ UNCHANGED <<current, Ready>>
<1>1. /\ stage = "run" /\ stage' = "pick" /\ current \in Task /\ current # Idle
      /\ runnable' = [runnable EXCEPT ![current] = FALSE]
      /\ UNCHANGED <<current, available_tasks, sleeping_tasks, waiting_tasks, next, sleep_time, me>>
      /\ pc' = [pc EXCEPT ![current] = "exit"] 
  BY Typed, Zenon DEF SysExit, Calling, lists
<1>2. me = NULL /\ ~ runnable[Idle] /\ \A t \in Task : ~ waiting[t]
  BY <1>1, Zenon DEF QInv, QuietOK
<1>3. runnable \in [Task -> BOOLEAN] /\ pc \in [Task -> {"unborn", "user", "slept", "wait4", "exit", "exec"}]
  BY Zenon DEF IInv, DataOK, BirthOK
<1>4. UNCHANGED waiting
  <2>1. parent[current] # NULL => parent[current] \in Task
    BY <1>1, InvTypes, Zenon DEF TypeOK
  <2>2. ~ Awaits(parent[current])
    BY <1>2, <2>1, Zenon DEF Awaits
  <2> QED  BY <2>2, Zenon DEF SysExit
<1>5. /\ runnable'[current] = FALSE
      /\ \A t \in Task : t # current => runnable'[t] = runnable[t]
      /\ \A t \in Task : runnable'[t] => runnable[t]
  BY <1>1, <1>3, Zenon
<1>6. QuietOK'
  BY <1>1, <1>2, <1>4, <1>5, Typed, Zenon DEF QInv, QuietOK
<1>7. ~ NoExit'
  <2>1. pc'[current] = "exit"
    BY <1>1, <1>3, Zenon
  <2> QED  BY <1>1, <1>5, <2>1, Zenon DEF NoExit, Exited
<1>8. PICK s : QueueOK(s)
  BY Zenon DEF QInv
<1>9. s \in Seq(Task) /\ \A i \in 1..Len(s) : s[i] \in Task
  BY <1>8 DEF QueueOK, IsList
<1>10. RunningOK(s)'
  <2>1. RunningOK(s)
    BY <1>1, <1>8, Zenon DEF QueueOK
  <2> QED  BY <1>1, <1>5, <1>9, <2>1, Zenon DEF RunningOK, Behind
<1>11. QueueOK(s)'
  <2>1. /\ IsList(s, available_tasks, next) /\ Distinct(s)
        /\ \A t \in Task : runnable[t] /\ t \notin {current, me} => Holds(s, t)
    BY <1>8, Zenon DEF QueueOK
  <2>2. \A t \in Task : runnable'[t] /\ t \notin {current, me} => Holds(s, t)
    BY <1>5, <2>1, Zenon
  <2> QED  BY <1>1, <1>7, <1>10, <2>1, <2>2, Typed, Zenon DEF QueueOK
<1>12. Others(runnable', current, me) = Others(runnable, current, me)
  BY <1>5, Zenon DEF Others
<1>13. Coming(runnable', current, me) = Coming(runnable, current, me)
  BY <1>2, Zenon DEF Coming
<1>14. Ready' = Ready
  <2>1. IsList(s, available_tasks, next) /\ Distinct(s)
    BY <1>8, Zenon DEF QueueOK
  <2>2. IsList(s, available_tasks', next')
    BY <1>1, <2>1, Zenon
  <2> QED  BY <1>1, <1>12, <1>13, <2>1, <2>2, ReadyIs, ReadyIsNext, Zenon
<1> QED  BY <1>1, <1>6, <1>11, <1>14, Zenon DEF QInv

\* A new task runs, and the one that ran goes to the end of the queue if it still can run
LEMMA Dispatched ==
  ASSUME ~ runnable[Idle], current' # current, RR!Dispatch(Coming(runnable, current', current))
  PROVE  RR!Next
<1>1. CASE current \in {NULL, Idle}
  <2>1. Coming(runnable, current', current) = <<>>
    BY <1>1, Zenon DEF Coming
  <2> QED  BY <1>1, <2>1, Zenon DEF RR!Next, RR!Yield
<1>2. CASE current \notin {NULL, Idle} /\ runnable[current]
  <2>1. Coming(runnable, current', current) = <<current>>
    BY <1>2, Zenon DEF Coming
  <2> QED  BY <1>2, <2>1, Zenon DEF RR!Next, RR!Yield
<1>3. CASE current \notin {NULL, Idle} /\ ~ runnable[current]
  <2>1. Coming(runnable, current', current) = <<>>
    BY <1>3, Zenon DEF Coming
  <2> QED  BY <1>3, <2>1, Zenon DEF RR!Next, RR!Leave
<1> QED  BY <1>1, <1>2, <1>3, Zenon

\* get_next_task takes the first task of the list that can run
LEMMA PickSome ==
  ASSUME IInv, QuietOK, NEW s, QueueOK(s), stage = "search",
         NEW i \in 1..Len(s), runnable[s[i]], \A j \in 1..Len(s) : j < i => ~ runnable[s[j]],
         PickAvailable(s[i]), me' = current, stage' = "switch", UNCHANGED <<state, pc>>
  PROVE  QInv' /\ [RR!Next]_<<current, Ready>>
<1> DEFINE n == Len(s)
           q == s[i]
           p == current
           t == SubSeq(s, i + 1, n)
<1>1. /\ s \in Seq(Task) /\ n \in Nat /\ i \in 1..n /\ q \in Task /\ \A j \in 1..n : s[j] \in Task
      /\ \A j \in 1..n : next[s[j]] = IF j = n THEN NULL ELSE s[j + 1]
      /\ \A j, k \in 1..n : s[j] = s[k] => j = k
  <2>1. /\ s \in Seq(Task)
        /\ \A j \in 1..n : next[s[j]] = IF j = n THEN NULL ELSE s[j + 1]
        /\ \A j, k \in 1..n : s[j] = s[k] => j = k
    BY Zenon DEF QueueOK, IsList, Distinct
  <2>2. n \in Nat /\ \A j \in 1..n : s[j] \in Task
    BY ONLY <2>1
  <2> QED  BY <2>1, <2>2, Zenon
<1>2. t \in Seq(Task) /\ Len(t) = n - i /\ \A j \in 1..(n - i) : t[j] = s[i + j]
  BY <1>1
<1>3. /\ runnable[q] /\ ~ runnable[Idle] /\ q # NULL /\ q # Idle /\ me = NULL
      /\ NULL \notin Task /\ runnable \in [Task -> BOOLEAN]
  BY <1>1, Typed, Zenon DEF QuietOK
<1>4. /\ current' = q /\ available_tasks' = next[q] /\ me' = p /\ stage' = "switch"
      /\ UNCHANGED <<next, runnable, waiting, sleep_time, pc, sleeping_tasks, waiting_tasks>>
  BY <1>1, <1>3, Zenon DEF PickAvailable, state
<1> HIDE DEF t, n, q, p
<1>5. n = Len(s) /\ q = s[i] /\ p = current
  BY Zenon DEF n, q, p
<1>6. \A j \in 1..(n - i) : t[j] = s[i + j] /\ i + j \in 1..n /\ i < i + j /\ t[j] \in Task
  BY <1>1, <1>2
<1>7. IsList(t, next[q], next)
  <2>1. next[q] = IF Len(t) = 0 THEN NULL ELSE t[1]
    BY <1>1, <1>2, <1>5
  <2>2. ASSUME NEW j \in 1..Len(t) PROVE next[t[j]] = IF j = Len(t) THEN NULL ELSE t[j + 1]
    <3>1. j \in 1..(n - i) /\ next[s[i + j]] = IF i + j = n THEN NULL ELSE s[(i + j) + 1]
      BY <1>1, <1>2, <1>6, Zenon
    <3>2. CASE j = Len(t)
      BY <1>1, <1>2, <1>6, <3>1, <3>2
    <3>3. CASE j # Len(t)
      <4>0. n \in Nat /\ i \in 1..n /\ j \in 1..(n - i) /\ j # n - i
        BY <1>1, <1>2, <3>1, <3>3, Zenon
      <4>1. j + 1 \in 1..(n - i) /\ i + (j + 1) = (i + j) + 1 /\ i + j # n
        BY ONLY <4>0
      <4> QED  BY <1>6, <3>1, <3>3, <4>1, Zenon
    <3> QED  BY <3>2, <3>3, Zenon
  <2> QED  BY <1>2, <2>1, <2>2, Zenon DEF IsList
<1>8. Distinct(t)
  <2> SUFFICES ASSUME NEW j \in 1..(n - i), NEW k \in 1..(n - i), t[j] = t[k] PROVE j = k
    BY <1>2, Zenon DEF Distinct
  <2>1. i + j = i + k
    BY <1>1, <1>6
  <2> QED  BY <1>1, <2>1
<1>9. \A j \in 1..(n - i) : t[j] # q
  <2> SUFFICES ASSUME NEW j \in 1..(n - i) PROVE t[j] # q
    BY Zenon
  <2>1. i + j # i
    BY <1>1
  <2> QED  BY <1>1, <1>5, <1>6, <2>1
<1>10. Behind(s, p) /\ (p = Idle => \A u, v \in Task : runnable[u] /\ runnable[v] => u = v)
  BY <1>5, Zenon DEF QueueOK, RunningOK
<1>11. \A j, k \in 1..(n - i) : j < k /\ t[j] = p => ~ runnable[t[k]]
  <2> SUFFICES ASSUME NEW j \in 1..(n - i), NEW k \in 1..(n - i), j < k, t[j] = p PROVE ~ runnable[t[k]]
    BY Zenon
  <2>1. i + j < i + k
    BY <1>1
  <2> QED  BY <1>5, <1>6, <1>10, <2>1 DEF Behind
<1>12. \A u \in Task : runnable[u] /\ u \notin {q, p} => Holds(t, u)
  <2> SUFFICES ASSUME NEW u \in Task, runnable[u], u # q, u # p PROVE Holds(t, u)
    BY Zenon
  <2>1. u \notin {current, me}
    BY <1>3, <1>5, Zenon
  <2>2. PICK j \in 1..n : s[j] = u
    BY <1>5, <2>1, Zenon DEF QueueOK, Holds
  <2>3. i < j
    BY <1>1, <1>5, <2>2
  <2>4. j - i \in 1..(n - i) /\ i + (j - i) = j
    BY <1>1, <2>3
  <2> QED  BY <1>2, <1>6, <2>2, <2>4, Zenon DEF Holds
<1>13. ChosenOK(t)'
  <2>1. ~ Holds(t, q)
    BY <1>2, <1>9, Zenon DEF Holds
  <2>2. Behind(t, me)'
    BY <1>2, <1>4, <1>11, Zenon DEF Behind
  <2>3. p = Idle => \A u \in Task : runnable[u] => u = q
    BY <1>1, <1>3, <1>10, Zenon
  <2> QED  BY <1>3, <1>4, <2>1, <2>2, <2>3, Zenon DEF ChosenOK, Holds
<1>14. ASSUME NoExit PROVE ChosenEarly(t)'
  <2>1. RunningEarly(s)
    BY <1>14, Zenon DEF QueueOK
  <2>2. ~ Holds(t, Idle)
    <3> SUFFICES ASSUME NEW j \in 1..(n - i), t[j] = Idle PROVE FALSE
      BY <1>2, Zenon DEF Holds
    <3>1. i + j = 1
      BY <1>5, <1>6, <2>1, Zenon DEF RunningEarly
    <3> QED  BY <1>1, <3>1
  <2>3. \A j \in 1..n : s[j] # p
    BY <1>5, <2>1, Zenon DEF RunningEarly, Holds
  <2>4. ~ Holds(t, p) /\ p # q
    BY <1>1, <1>2, <1>5, <1>6, <2>3 DEF Holds
  <2>5. ASSUME Len(t) = 0, p # NULL PROVE next[p] = NULL
    <3>1. i = n /\ \A j \in 1..n : runnable[s[j]] => j = n
      BY <1>1, <1>2, <1>5, <2>5
    <3>2. CASE p = Idle
      BY <1>5, <2>1, <3>2, Zenon DEF RunningEarly
    <3>3. CASE p # Idle
      <4>1. p \in Task
        BY <1>5, <2>5, Typed, Zenon
      <4> QED  BY <1>5, <2>1, <3>1, <3>3, <4>1, Zenon DEF RunningEarly
    <3> QED  BY <3>2, <3>3, Zenon
  <2>6. p = NULL => Len(t) = 0 /\ next[Idle] = NULL
    <3> SUFFICES ASSUME p = NULL PROVE Len(t) = 0 /\ next[Idle] = NULL
      BY Zenon
    <3>1. s = <<Shell>> /\ next[Idle] = NULL
      BY <1>5, Zenon DEF QueueOK
    <3>2. n = 1
      BY <1>5, <3>1, Zenon
    <3> QED  BY <1>1, <1>2, <3>1, <3>2
  <2>7. p = Idle => Len(t) = 0
    <3> SUFFICES ASSUME p = Idle, Len(t) # 0 PROVE FALSE
      BY Zenon
    <3>1. i + 1 \in 1..n /\ i + 1 # i
      BY <1>1, <1>2
    <3>2. runnable[s[i + 1]]
      <4>1. IsList(s, available_tasks, next) /\ s[i + 1] # Idle /\ i + 1 \in 1..Len(s)
        BY <1>5, <2>3, <3>1, Zenon DEF QueueOK
      <4> QED  BY <1>14, <4>1, ListRuns, Zenon
    <3>3. s[i + 1] = s[i]
      BY <1>1, <1>3, <1>5, <1>10, <3>1, <3>2, Zenon
    <3> QED  BY <1>1, <3>1, <3>3, Zenon
  <2> QED  BY <1>3, <1>4, <2>2, <2>4, <2>5, <2>6, <2>7, Zenon DEF ChosenEarly, Holds
<1>15. QInv'
  <2>1. QuietOK'
    BY <1>4, Zenon DEF QuietOK
  <2>2. NoExit' <=> NoExit
    BY <1>4, Zenon DEF NoExit, Exited
  <2>3. \A u \in Task : runnable'[u] /\ u \notin {current', me'} => Holds(t, u)
    BY <1>4, <1>12, Zenon
  <2>4. IsList(t, available_tasks', next')
    BY <1>4, <1>7, Zenon
  <2>5. QueueOK(t)'
    BY <1>3, <1>4, <1>8, <1>13, <1>14, <2>2, <2>3, <2>4, Zenon DEF QueueOK, Holds
  <2> QED  BY <2>1, <2>5, Zenon DEF QInv
<1>16. Ready' = Keep(t, Others(runnable, q, p)) \o Coming(runnable, q, p)
  BY <1>4, <1>7, <1>8, ReadyIsNext, Zenon
<1> DEFINE S == Others(runnable, p, NULL)
<1>17. Ready = Keep(s, S)
  <2>1. IsList(s, available_tasks, next) /\ Distinct(s)
    BY Zenon DEF QueueOK
  <2>2. Ready = Keep(s, Others(runnable, p, NULL)) \o Coming(runnable, p, NULL)
    BY <1>3, <1>5, <2>1, ReadyIs, Zenon
  <2> QED  BY <1>1, <2>2, NoneComes
<1>18. CASE q = p
  <2>1. \A j \in 1..n : s[j] \notin S
    <3> SUFFICES ASSUME NEW j \in 1..n, runnable[s[j]], s[j] # p PROVE FALSE
      BY OthersAre
    <3>1. i < j
      <4>1. j # i
        BY <1>5, <1>18, Zenon
      <4>2. ~ j < i
        BY <1>5, Zenon
      <4> QED  BY <1>1, <4>1, <4>2
    <3> QED  BY <1>5, <1>10, <1>18, <3>1, Zenon DEF Behind
  <2>2. Keep(s, S) = <<>>
    <3> HIDE DEF S
    <3> QED  BY <1>1, <1>5, <2>1, KeepNone, Zenon
  <2>3. \A j \in 1..Len(t) : t[j] \notin Others(runnable, q, p)
    BY <1>2, <1>3, <1>5, <1>6, <2>1 DEF Others
  <2>4. Keep(t, Others(runnable, q, p)) = <<>>
    BY <1>2, <2>3, KeepNone
  <2>5. Coming(runnable, q, p) = <<>>
    BY <1>18, Zenon DEF Coming
  <2>6. Ready' = <<>>
    <3>1. <<>> \in Seq(Task)
      OBVIOUS
    <3> QED  BY <1>16, <2>4, <2>5, <3>1, ConcatNone, Zenon
  <2> QED  BY <1>4, <1>5, <1>15, <1>17, <1>18, <2>2, <2>6, Zenon
<1>19. CASE q # p
  <2>1. s[i] \in S /\ \A j \in 1..n : j < i => s[j] \notin S
    BY <1>1, <1>3, <1>5, <1>19, Zenon DEF Others
  <2> HIDE DEF S
  <2>2. Keep(s, S) # <<>> /\ Head(Keep(s, S)) = q /\ Tail(Keep(s, S)) = Keep(t, S)
    <3>1. FirstIs(s, S, i, t)
      BY <1>1, <1>2, <1>5, <2>1, Zenon DEF FirstIs
    <3> QED  BY <1>5, <3>1, KeepRest
  <2>3. \A j \in 1..Len(t) : t[j] \in S <=> t[j] \in Others(runnable, q, p)
    <3> SUFFICES ASSUME NEW j \in 1..Len(t)
                 PROVE  t[j] \in S <=> t[j] \in Others(runnable, q, p)
      BY Zenon
    <3>1. t[j] # q /\ t[j] # NULL
      BY <1>2, <1>3, <1>6, <1>9, Zenon
    <3> QED  BY <3>1, OthersAre DEF S
  <2>4. Keep(t, S) = Keep(t, Others(runnable, q, p))
    <3>1. Len(t) \in Nat /\ Len(t) \in 0..Len(t) /\ \A j \in 1..Len(t) : ~ Len(t) < j
      BY <1>2
    <3> QED  BY <2>3, <3>1, KeepFront
  <2>5. RR!Dispatch(Coming(runnable, current', current))
    BY <1>4, <1>5, <1>16, <1>17, <2>2, <2>4, Zenon DEF RR!Dispatch
  <2>6. RR!Next
    BY <1>3, <1>4, <1>5, <1>19, <2>5, Dispatched, Zenon
  <2> QED  BY <1>15, <2>6, Zenon
<1> QED  BY <1>18, <1>19, Zenon

\* The empty list
LEMMA EmptyList ==
  ASSUME NEW nx
  PROVE  /\ IsList(<<>>, NULL, nx) /\ Distinct(<<>>) /\ Len(<<>>) = 0 /\ <<>> \in Seq(Task)
         /\ \A S : Keep(<<>>, S) = <<>>
<1>1. <<>> \in Seq(Task) /\ Len(<<>>) = 0
  OBVIOUS
<1>2. ASSUME NEW S PROVE Keep(<<>>, S) = <<>>
  <2>1. Len(<<>>) \in Nat /\ \A i \in 1..Len(<<>>) : <<>>[i] \notin S
    OBVIOUS
  <2> QED  BY ONLY <2>1, KeepNone, Zenon
<1> QED  BY <1>1, <1>2 DEF IsList, Distinct

\* get_next_task gives the processor to idle when no task on the list can run
LEMMA PickNone ==
  ASSUME IInv, QuietOK, NEW s, QueueOK(s), stage = "search",
         \A j \in 1..Len(s) : ~ runnable[s[j]],
         PickAvailable(NULL), me' = current, stage' = "switch", UNCHANGED <<state, pc>>
  PROVE  QInv' /\ [RR!Next]_<<current, Ready>>
<1> DEFINE n == Len(s)
           p == current
           t == <<>>
<1>1. /\ s \in Seq(Task) /\ n \in Nat /\ \A j \in 1..n : s[j] \in Task
      /\ IsList(s, available_tasks, next) /\ Distinct(s)
  BY DEF QueueOK, IsList
<1>2. IsList(t, NULL, next) /\ Distinct(t) /\ Len(t) = 0 /\ t \in Seq(Task) /\ \A S : Keep(t, S) = <<>>
  BY EmptyList, Zenon
<1>3. /\ ~ runnable[Idle] /\ me = NULL /\ NULL \notin Task /\ runnable \in [Task -> BOOLEAN]
      /\ Shell \in Task /\ Shell # Idle /\ Idle \in Task
  BY Typed, Zenon DEF QuietOK
<1>4. /\ current' = Idle /\ available_tasks' = NULL /\ me' = p /\ stage' = "switch"
      /\ UNCHANGED <<next, runnable, waiting, sleep_time, pc, sleeping_tasks, waiting_tasks>>
  BY Zenon DEF PickAvailable, state
<1> HIDE DEF t, n, p
<1>5. n = Len(s) /\ p = current
  BY Zenon DEF n, p
<1>6. ASSUME NEW u \in Task, runnable[u] PROVE u = p
  <2> SUFFICES ASSUME u # p PROVE FALSE
    BY Zenon
  <2>1. u \notin {current, me}
    BY <1>3, <1>5, Zenon
  <2>2. PICK j \in 1..n : s[j] = u
    BY <1>5, <1>6, <2>1, Zenon DEF QueueOK, Holds
  <2> QED  BY <1>5, <1>6, <2>2, Zenon
<1>7. ~ Holds(t, Idle) /\ ~ Holds(t, p)
  BY <1>2 DEF Holds
<1>8. ChosenOK(t)'
  <2>1. p = Idle => \A u \in Task : runnable[u] => u = Idle
    BY <1>6, Zenon
  <2>2. Behind(t, me)'
    BY <1>2 DEF Behind
  <2> QED  BY <1>2, <1>4, <1>7, <2>1, <2>2, Zenon DEF ChosenOK, Holds
<1>9. ASSUME NoExit PROVE ChosenEarly(t)'
  <2>1. RunningEarly(s)
    BY <1>9, Zenon DEF QueueOK
  <2>2. runnable[Shell]
    BY <1>3, <1>9, Typed, Zenon DEF NoExit, Exited
  <2>3. p = Shell
    BY <1>3, <1>6, <2>2, Zenon
  <2>4. p \in Task /\ p # Idle /\ p # NULL
    BY <1>3, <2>3, Zenon
  <2>5. next[p] = NULL
    BY <1>5, <2>1, <2>4, Zenon DEF RunningEarly
  <2>6. \A j \in 1..n : s[j] = Idle /\ j = 1
    <3> SUFFICES ASSUME NEW j \in 1..n PROVE s[j] = Idle
      BY <1>5, <2>1, Zenon DEF RunningEarly
    <3> QED  BY <1>1, <1>5, <1>9, ListRuns, Zenon
  <2>7. next[Idle] = NULL
    <3>1. CASE n = 0
      BY <1>5, <2>1, <3>1, Zenon DEF RunningEarly
    <3>2. CASE n # 0
      <4>1. n = 1 /\ 1 \in 1..n
        BY <1>1, <2>6, <3>2
      <4>2. s[1] = Idle
        BY <2>6, <4>1, Zenon
      <4> QED  BY <1>1, <1>5, <4>1, <4>2, Zenon DEF IsList
    <3> QED  BY <3>1, <3>2, Zenon
  <2> QED  BY <1>2, <1>4, <1>7, <2>4, <2>5, <2>7, Zenon DEF ChosenEarly, Holds
<1>10. QInv'
  <2>1. QuietOK'
    BY <1>4, Zenon DEF QuietOK
  <2>2. NoExit' <=> NoExit
    BY <1>4, Zenon DEF NoExit, Exited
  <2>3. \A u \in Task : runnable'[u] /\ u \notin {current', me'} => Holds(t, u)
    BY <1>4, <1>6, Zenon
  <2>4. IsList(t, available_tasks', next')
    BY <1>2, <1>4, Zenon
  <2>5. QueueOK(t)'
    BY <1>2, <1>3, <1>4, <1>8, <1>9, <2>2, <2>3, <2>4, Zenon DEF QueueOK, Holds
  <2> QED  BY <2>1, <2>5, Zenon DEF QInv
<1>11. Ready' = Coming(runnable, Idle, p)
  <2>1. Ready' = Keep(t, Others(runnable, Idle, p)) \o Coming(runnable, Idle, p)
    BY <1>2, <1>4, ReadyIsNext, Zenon
  <2>2. Keep(t, Others(runnable, Idle, p)) = <<>>
    BY <1>2, Zenon
  <2>3. Coming(runnable, Idle, p) \in Seq(Task)
    <3>1. p \in Task \cup {NULL}
      BY <1>5, Typed, Zenon
    <3> QED  BY <1>2, <3>1 DEF Coming, t
  <2> QED  BY <2>1, <2>2, <2>3, ConcatNone, Zenon
<1>12. Ready = <<>>
  <2>1. Ready = Keep(s, Others(runnable, p, NULL)) \o Coming(runnable, p, NULL)
    BY <1>1, <1>3, <1>5, ReadyIs, Zenon
  <2>2. Ready = Keep(s, Others(runnable, p, NULL))
    BY <1>1, <2>1, NoneComes, Zenon
  <2>3. \A j \in 1..Len(s) : s[j] \notin Others(runnable, p, NULL)
    BY OthersAre, Zenon
  <2> QED  BY <1>1, <1>5, <2>2, <2>3, KeepNone, Zenon
<1>13. CASE p = Idle
  <2>1. Coming(runnable, Idle, p) = <<>>
    BY <1>13, Zenon DEF Coming
  <2> QED  BY <1>4, <1>5, <1>10, <1>11, <1>12, <1>13, <2>1, Zenon
<1>14. CASE p # Idle
  <2>1. RR!Dispatch(Coming(runnable, current', current))
    BY <1>4, <1>5, <1>11, <1>12, Zenon DEF RR!Dispatch
  <2>2. RR!Next
    BY <1>3, <1>4, <1>5, <1>14, <2>1, Dispatched, Zenon
  <2> QED  BY <1>10, <2>2, Zenon
<1> QED  BY <1>13, <1>14, Zenon

\* get_next_task as a whole
LEMMA PickQueue ==
  ASSUME IInv, QInv, GetNextTask
  PROVE  QInv' /\ [RR!Next]_<<current, Ready>>
<1>1. /\ sleeping_tasks = NULL /\ waiting_tasks = NULL
      /\ \A t \in Task : ~ waiting[t] /\ sleep_time[t] = 0
  BY Zenon DEF QInv, QuietOK
<1>2. CASE SearchSleeping
  <2>0. Awake \in SUBSET Task
    BY Zenon DEF Awake
  <2>1. First(sleeping_tasks, next, Awake) = NULL
    BY <1>1, <2>0, FirstOfNone, Zenon
  <2>2. /\ stage = "pick" /\ stage' = "search" /\ UNCHANGED <<current, lists, me, state, pc>>
    BY <1>2, <2>1, Zenon DEF SearchSleeping
  <2>3. NoExit' => NoExit
    BY <2>2, Zenon DEF NoExit, Exited, state
  <2> QED  BY <2>2, <2>3, SameQueue, Zenon DEF lists, state
<1>3. CASE SearchOthers
  <2> DEFINE a == First(available_tasks, next, Eligible)
  <2>0. DoneWaiting \in SUBSET Task
    BY Zenon DEF DoneWaiting
  <2>1. First(waiting_tasks, next, DoneWaiting) = NULL
    BY <1>1, <2>0, FirstOfNone, Zenon
  <2>2. /\ stage = "search" /\ PickAvailable(a) /\ me' = current /\ stage' = "switch"
        /\ UNCHANGED <<state, pc>>
    BY <1>3, <2>1, Zenon DEF SearchOthers, PickWaiter
  <2>3. PICK s : QueueOK(s)
    BY Zenon DEF QInv
  <2>4. IsList(s, available_tasks, next) /\ Len(s) <= N /\ \A j \in 1..Len(s) : s[j] \in Task
    BY <2>3, DistinctShort DEF QueueOK, IsList
  <2>5. Eligible \in SUBSET Task
    BY Zenon DEF Eligible
  <2>6. \A t \in Task : t \in Eligible <=> runnable[t]
    BY <1>1, Typed DEF Eligible
  <2> HIDE DEF a
  <2>7. \/ a = NULL /\ \A i \in 1..Len(s) : s[i] \notin Eligible
        \/ \E i \in 1..Len(s) : /\ a = s[i] /\ s[i] \in Eligible
                                /\ \A j \in 1..Len(s) : j < i => s[j] \notin Eligible
    BY <2>4, <2>5, FirstList DEF a
  <2>8. QuietOK
    BY Zenon DEF QInv
  <2>9. CASE a = NULL /\ \A i \in 1..Len(s) : s[i] \notin Eligible
    <3>1. \A i \in 1..Len(s) : ~ runnable[s[i]]
      BY <2>4, <2>6, <2>9, Zenon
    <3> QED  BY <2>2, <2>3, <2>8, <2>9, <3>1, PickNone, Zenon
  <2>10. ASSUME NEW i \in 1..Len(s), a = s[i], s[i] \in Eligible,
                \A j \in 1..Len(s) : j < i => s[j] \notin Eligible
         PROVE  QInv' /\ [RR!Next]_<<current, Ready>>
    <3>1. runnable[s[i]] /\ \A j \in 1..Len(s) : j < i => ~ runnable[s[j]]
      BY <2>4, <2>6, <2>10, Zenon
    <3> QED  BY <2>2, <2>3, <2>8, <2>10, <3>1, PickSome, Zenon
  <2> QED  BY <2>7, <2>9, <2>10, Zenon
<1> QED  BY <1>2, <1>3, Zenon DEF GetNextTask

\* m is the k-th of u, behind the part of s that counts
BackAt(k, u, s, rn, c, m) ==
  /\ k \in 1..Len(u) /\ u[k] = m /\ k - 1 <= Len(s)
  /\ \A i \in 1..(k - 1) : u[i] = s[i] /\ s[i] # m
  /\ \A i \in 1..Len(s) : k <= i => s[i] \notin Others(rn, c, m)
  /\ \A i \in 1..Len(u) : k < i => u[i] \notin Others(rn, c, NULL)

\* A task that comes back is the one that Ready has foreseen
LEMMA ComesBack ==
  ASSUME NEW rn \in [Task -> BOOLEAN], NEW c, NEW m \in Task, NEW s \in Seq(Task), NEW u \in Seq(Task),
         NEW k, BackAt(k, u, s, rn, c, m)
  PROVE  Keep(u, Others(rn, c, NULL)) = Keep(s, Others(rn, c, m)) \o Coming(rn, c, m)
<1> DEFINE S == Others(rn, c, NULL)
           T == Others(rn, c, m)
           v == SubSeq(s, 1, k - 1)
           w == Append(v, m)
<1>1. /\ k \in Nat /\ k - 1 \in Nat /\ Len(s) \in Nat /\ Len(u) \in Nat /\ NULL \notin Task
      /\ k \in 1..Len(u) /\ u[k] = m /\ k - 1 <= Len(s)
      /\ \A i \in 1..(k - 1) : u[i] = s[i] /\ s[i] # m
  BY DEF NULL, Task, BackAt
<1>2. v \in Seq(Task) /\ Len(v) = k - 1 /\ \A i \in 1..(k - 1) : v[i] = s[i]
  BY <1>1
<1>3. \A i \in 1..(k - 1) : s[i] \in S <=> s[i] \in T
  BY <1>1, OthersAre
<1>4. m \in S <=> rn[m] /\ m # c
  BY <1>1, OthersAre
<1>5. /\ \A i \in 1..Len(s) : k <= i => s[i] \notin T
      /\ \A i \in 1..Len(u) : k < i => u[i] \notin S
  BY Zenon DEF BackAt
<1> HIDE DEF S, T, v
<1>6. w \in Seq(Task) /\ Len(w) = k /\ w[k] = m /\ \A i \in 1..(k - 1) : w[i] = v[i]
  BY <1>1, <1>2
<1> HIDE DEF w
<1>7. Keep(u, S) = Keep(w, S)
  <2>1. \A i \in 1..Len(w) : u[i] = w[i]
    <3> SUFFICES ASSUME NEW i \in 1..k PROVE u[i] = w[i]
      BY <1>6, Zenon
    <3>1. i = k \/ i \in 1..(k - 1)
      BY <1>1
    <3> QED  BY <1>1, <1>2, <1>6, <3>1, Zenon
  <2>2. Len(w) \in 0..Len(u) /\ \A i \in 1..Len(u) : Len(w) < i => u[i] \notin S
    BY <1>1, <1>5, <1>6
  <2> QED  BY <1>1, <2>1, <2>2, KeepFront
<1>8. Keep(s, T) = Keep(v, S)
  <2>1. \A i \in 1..Len(v) : s[i] = v[i] /\ (s[i] \in T <=> s[i] \in S)
    BY <1>2, <1>3, Zenon
  <2>2. Len(v) \in 0..Len(s) /\ \A i \in 1..Len(s) : Len(v) < i => s[i] \notin T
    BY <1>1, <1>2, <1>5
  <2>3. Len(s) \in Nat
    BY <1>1, Zenon
  <2> QED  BY ONLY <2>1, <2>2, <2>3, KeepFront
<1>9. Keep(w, S) = Grow(Keep(v, S), m, S)
  BY <1>2, KeepAppend, Zenon DEF w
<1> DEFINE q == Keep(v, S)
           E == {v[i] : i \in 1..Len(v)}
<1>10. q \in Seq(E) /\ E \subseteq Task
  <2>1. v \in Seq(Task)
    BY <1>2, Zenon
  <2>2. q \in Seq(E)
    BY ONLY <2>1, KeepElements, Zenon
  <2>3. E \subseteq Task
    BY ONLY <2>1
  <2> QED  BY <2>2, <2>3, Zenon
<1> HIDE DEF E, q
<1>11. q \in Seq(Task)
  BY <1>10
<1>12. Grow(q, m, S) = q \o Coming(rn, c, m)
  <2>1. CASE m \in S
    <3>1. Coming(rn, c, m) = <<m>>
      BY <1>1, <1>4, <2>1, Zenon DEF Coming
    <3>2. Append(q, m) = q \o <<m>>
      BY <1>11
    <3> QED  BY <2>1, <3>1, <3>2, Zenon DEF Grow
  <2>2. CASE m \notin S
    <3>1. Coming(rn, c, m) = <<>>
      BY <1>1, <1>4, <2>2, Zenon DEF Coming
    <3>2. q \o <<>> = q
      BY <1>11, ConcatNone, Zenon
    <3> QED  BY <2>2, <3>1, <3>2, Zenon DEF Grow
  <2> QED  BY <2>1, <2>2, Zenon
<1> QED  BY <1>7, <1>8, <1>9, <1>12, Zenon DEF S, T, q

\* What switch_to and the test in reschedule do when nobody sleeps or waits
LEMMA SwitchIs ==
  ASSUME IInv, QuietOK, SwitchTo
  PROVE  /\ stage = "switch" /\ stage' # "switch" /\ me' = NULL /\ current \in Task
         /\ UNCHANGED <<current, sleeping_tasks, waiting_tasks, runnable, waiting, sleep_time>>
         /\ NoExit' => NoExit
         /\ me = NULL => UNCHANGED <<available_tasks, next>>
         /\ me # NULL => me \in Task
         /\ me # NULL /\ available_tasks = NULL => available_tasks' = me /\ UNCHANGED next
         /\ me # NULL /\ available_tasks # NULL =>
              UNCHANGED available_tasks /\ next' = Put(next, Last(available_tasks, next), me)
<1> DEFINE l == AddTail(available_tasks, me, next, prev)
<1>1. /\ stage = "switch" /\ stage' # "switch" /\ me' = NULL
      /\ UNCHANGED <<current, sleeping_tasks, waiting_tasks, runnable, waiting, sleep_time>>
  BY Zenon DEF SwitchTo, state
<1>2. current \in Task /\ me \in Task \cup {NULL} /\ ms \in Nat
  BY <1>1, Typed, Zenon
<1>3. NoExit' => NoExit
  <2> SUFFICES ASSUME NEW t \in Task, Exited(t) PROVE Exited(t)'
    BY Zenon DEF NoExit
  <2>1. pc' = [pc EXCEPT ![current] = IF pc[current] = "exec" THEN "exec" ELSE "user"]
    BY Zenon DEF SwitchTo
  <2>2. DOMAIN pc = Task
    BY Zenon DEF IInv, BirthOK
  <2>3. pc'[t] # "unborn"
    <3>1. CASE t = current
      BY <1>2, <2>1, <2>2, <3>1, Zenon
    <3>2. CASE t # current
      BY <1>2, <2>1, <2>2, <3>2, Zenon DEF Exited
    <3> QED  BY <3>1, <3>2, Zenon
  <2> QED  BY <1>1, <2>3, Zenon DEF Exited
<1>4. CASE me = NULL
  BY <1>1, <1>2, <1>3, <1>4, Zenon DEF SwitchTo
<1>5. CASE me # NULL
  <2>1. Reschedulable(me)
    BY <1>2, <1>5 DEF Reschedulable, QuietOK
  <2>2. available_tasks' = l.head /\ next' = l.next
    BY <1>5, <2>1, Zenon DEF SwitchTo
  <2>3. available_tasks = NULL => l.head = me /\ l.next = next
    BY Zenon DEF AddTail
  <2>4. available_tasks # NULL =>
          l.head = available_tasks /\ l.next = Put(next, Last(available_tasks, next), me)
    BY Zenon DEF AddTail, Put
  <2> HIDE DEF l
  <2> QED  BY <1>1, <1>2, <1>3, <1>5, <2>2, <2>3, <2>4, Zenon
<1> QED  BY <1>4, <1>5, Zenon

\* The list u after a switch is a queue when
LEMMA SwitchDone ==
  ASSUME IInv, QuietOK, SwitchTo, NEW s, QueueOK(s),
         NEW u, IsList(u, available_tasks', next'), Distinct(u),
         \E r, b : Ranked(r, b, next'),
         \A t \in Task : runnable[t] /\ t # current => Holds(u, t),
         RunningOK(u), NoExit => RunningEarly(u)',
         Keep(u, Others(runnable, current, NULL)) =
           Keep(s, Others(runnable, current, me)) \o Coming(runnable, current, me)
  PROVE  QInv' /\ UNCHANGED <<current, Ready>>
<1>1. /\ stage = "switch" /\ stage' # "switch" /\ me' = NULL /\ current \in Task /\ NULL \notin Task
      /\ UNCHANGED <<current, sleeping_tasks, waiting_tasks, runnable, waiting, sleep_time>>
      /\ NoExit' => NoExit
  BY SwitchIs, Typed, Zenon
<1>2. Ready' = Ready
  <2>1. Ready = Keep(s, Others(runnable, current, me)) \o Coming(runnable, current, me)
    BY ReadyIs, Zenon DEF QueueOK
  <2>2. Ready' = Keep(u, Others(runnable, current, NULL)) \o Coming(runnable, current, NULL)
    BY <1>1, ReadyIsNext, Zenon
  <2>3. u \in Seq(Task)
    BY Zenon DEF IsList
  <2> QED  BY <2>1, <2>2, <2>3, NoneComes, Zenon
<1>3. QuietOK'
  BY <1>1, Zenon DEF QuietOK
<1>4. RunningOK(u)'
  BY <1>1, Zenon DEF RunningOK, Behind
<1>5. QueueOK(u)'
  BY <1>1, <1>4, Zenon DEF QueueOK, Holds
<1> QED  BY <1>1, <1>2, <1>3, <1>5, Zenon DEF QInv

\* nobody comes back
LEMMA SwitchFirst ==
  ASSUME IInv, QuietOK, SwitchTo, NEW s, QueueOK(s), me = NULL
  PROVE  QInv' /\ UNCHANGED <<current, Ready>>
<1>1. /\ stage = "switch" /\ current \in Task /\ NULL \notin Task
      /\ UNCHANGED <<current, available_tasks, next, runnable>>
  BY SwitchIs, Typed, Zenon
<1>2. IsList(s, available_tasks', next') /\ Distinct(s) /\ \E r, b : Ranked(r, b, next')
  BY <1>1, Zenon DEF QueueOK, QuietOK
<1>3. \A t \in Task : runnable[t] /\ t # current => Holds(s, t)
  BY <1>1, Zenon DEF QueueOK
<1>4. ChosenOK(s) /\ ~ Holds(s, current)
  BY <1>1, Zenon DEF QueueOK, ChosenOK
<1>5. Behind(s, current)
  BY <1>4, Zenon DEF Behind, Holds
<1>6. current = Idle => \A t, u \in Task : runnable[t] /\ runnable[u] => t = u
  <2> SUFFICES ASSUME current = Idle, NEW t \in Task, runnable[t] PROVE FALSE
    BY Zenon
  <2>1. Len(s) = 0 /\ t # Idle
    BY <1>4, Zenon DEF ChosenOK, QuietOK
  <2> QED  BY <1>3, <2>1 DEF Holds
<1>7. ASSUME NoExit PROVE RunningEarly(s)'
  <2>1. ChosenEarly(s)
    BY <1>1, <1>7, Zenon DEF QueueOK
  <2>2. Len(s) = 0 /\ next[Idle] = NULL
    BY <2>1, Zenon DEF ChosenEarly
  <2>3. available_tasks = NULL
    BY <2>2 DEF QueueOK, IsList
  <2>4. current # Idle => next[current] = NULL
    BY <2>1, <2>3, Zenon DEF ChosenEarly
  <2> QED  BY <1>1, <1>4, <2>2, <2>4 DEF RunningEarly, Holds
<1>8. RunningOK(s)
  BY <1>5, <1>6, Zenon DEF RunningOK
<1>9. Keep(s, Others(runnable, current, NULL)) =
        Keep(s, Others(runnable, current, me)) \o Coming(runnable, current, me)
  <2>1. s \in Seq(Task)
    BY Zenon DEF QueueOK, IsList
  <2> QED  BY <2>1, NoneComes, Zenon
<1> QED  BY <1>2, <1>3, <1>7, <1>8, <1>9, SwitchDone, Zenon

\* a task comes back to an empty list, with what its stale pointer leads to behind it
LEMMA SwitchEmpty ==
  ASSUME IInv, QuietOK, SwitchTo, NEW s, QueueOK(s), me # NULL, Len(s) = 0
  PROVE  QInv' /\ UNCHANGED <<current, Ready>>
<1>1. /\ stage = "switch" /\ current \in Task /\ me \in Task /\ NULL \notin Task
      /\ UNCHANGED <<current, next, runnable>> /\ runnable \in [Task -> BOOLEAN]
      /\ available_tasks = NULL /\ available_tasks' = me /\ s \in Seq(Task) /\ ~ runnable[Idle]
  <2>1. available_tasks = NULL /\ s \in Seq(Task) /\ ~ runnable[Idle]
    BY DEF QueueOK, IsList, QuietOK
  <2> QED  BY <2>1, SwitchIs, Typed, Zenon
<1>2. \E u : IsList(u, me, next) /\ Distinct(u)
  BY <1>1, ListExists, Zenon DEF QuietOK
<1>3. PICK u : IsList(u, me, next) /\ Distinct(u)
  BY <1>2, Zenon
<1>4. /\ u \in Seq(Task) /\ Len(u) \in Nat /\ Len(u) # 0 /\ 1 \in 1..Len(u) /\ u[1] = me
      /\ \A i \in 1..Len(u) : u[i] \in Task
      /\ \A i, j \in 1..Len(u) : u[i] = u[j] => i = j
  BY <1>1, <1>3 DEF IsList, Distinct
<1>5. ASSUME NEW t \in Task, runnable[t] PROVE t \in {current, me}
  BY <1>5 DEF QueueOK, Holds
<1>6. \A t \in Task : runnable[t] /\ t # current => Holds(u, t)
  BY <1>4, <1>5, Zenon DEF Holds
<1>7. Behind(u, current)
  <2> SUFFICES ASSUME NEW i \in 1..Len(u), NEW j \in 1..Len(u), i < j, u[i] = current, runnable[u[j]]
               PROVE  FALSE
    BY Zenon DEF Behind
  <2>1. u[j] \in {current, me}
    BY <1>4, <1>5, Zenon
  <2> QED  BY <1>4, <2>1
<1>8. RunningOK(u)
  BY <1>1, <1>5, <1>7, Zenon DEF RunningOK
<1>9. ASSUME NoExit PROVE RunningEarly(u)'
  <2>1. ChosenEarly(s)
    BY <1>1, <1>9, Zenon DEF QueueOK
  <2>3. (current # Idle => next[current] = NULL) /\ (current = Idle => next[Idle] = NULL)
    BY <1>1, <2>1, Zenon DEF ChosenEarly
  <2>4. Len(u) = 1
    <3>1. next[me] = NULL
      BY <2>1, Zenon DEF ChosenEarly
    <3>2. next[u[1]] = IF 1 = Len(u) THEN NULL ELSE u[1 + 1]
      BY <1>3, <1>4, Zenon DEF IsList
    <3>3. Len(u) # 1 => 1 + 1 \in 1..Len(u)
      <4>1. Len(u) \in Nat /\ Len(u) # 0
        BY <1>4, Zenon
      <4> QED  BY ONLY <4>1
    <3> QED  BY <1>1, <1>4, <3>1, <3>2, <3>3, Zenon
  <2>5. ~ Holds(u, current)
    <3>1. me # current
      BY <2>1, Zenon DEF ChosenEarly
    <3> QED  BY <1>4, <2>4, <3>1 DEF Holds
  <2> QED  BY <1>1, <1>4, <2>3, <2>4, <2>5 DEF RunningEarly, Holds
<1>10. Keep(u, Others(runnable, current, NULL)) =
         Keep(s, Others(runnable, current, me)) \o Coming(runnable, current, me)
  <2>1. \A i \in 1..Len(u) : 1 < i => u[i] \notin Others(runnable, current, NULL)
    <3> SUFFICES ASSUME NEW i \in 1..Len(u), 1 < i, u[i] \in Others(runnable, current, NULL) PROVE FALSE
      BY Zenon
    <3>1. u[i] \in Task /\ runnable[u[i]] /\ u[i] # current
      BY OthersAre, Zenon
    <3>2. u[i] = me
      BY <1>5, <3>1, Zenon
    <3> QED  BY <1>4, <3>2
  <2>2. /\ 1 - 1 <= Len(s) /\ \A i \in 1..(1 - 1) : u[i] = s[i] /\ s[i] # me
        /\ \A i \in 1..Len(s) : 1 <= i => s[i] \notin Others(runnable, current, me)
    OBVIOUS
  <2>3. BackAt(1, u, s, runnable, current, me)
    BY <1>4, <2>1, <2>2, Zenon DEF BackAt
  <2>4. runnable \in [Task -> BOOLEAN] /\ me \in Task /\ s \in Seq(Task) /\ u \in Seq(Task)
    BY <1>1, <1>4, Zenon
  <2> QED  BY ONLY <2>3, <2>4, ComesBack, Zenon
<1>11. IsList(u, available_tasks', next') /\ \E r, b : Ranked(r, b, next')
  BY <1>1, <1>3, Zenon DEF QuietOK
<1> QED  BY <1>3, <1>6, <1>8, <1>9, <1>10, <1>11, SwitchDone, Zenon

\* what both of the next two lemmas need
LEMMA SwitchTail ==
  ASSUME IInv, QuietOK, SwitchTo, NEW s, QueueOK(s), me # NULL, Len(s) # 0
  PROVE  /\ stage = "switch" /\ current \in Task /\ me \in Task /\ NULL \notin Task /\ current # Idle
         /\ UNCHANGED <<current, available_tasks, runnable>> /\ runnable \in [Task -> BOOLEAN]
         /\ s \in Seq(Task) /\ Len(s) \in Nat /\ \A i \in 1..Len(s) : s[i] \in Task
         /\ next \in [Task -> Task \cup {NULL}] /\ next' = Put(next, s[Len(s)], me)
         /\ IsList(s, available_tasks, next) /\ Distinct(s)
         /\ \A i \in 1..Len(s) : s[i] # current
         /\ \E r, b : Ranked(r, b, next')
<1>1. /\ IsList(s, available_tasks, next) /\ Distinct(s) /\ s \in Seq(Task) /\ Len(s) \in Nat
      /\ \A i \in 1..Len(s) : s[i] \in Task
  BY DEF QueueOK, IsList
<1>2. NULL \notin Task /\ next \in [Task -> Task \cup {NULL}] /\ runnable \in [Task -> BOOLEAN]
  BY Typed, Zenon
<1>3. Len(s) \in 1..Len(s) /\ 1 \in 1..Len(s) /\ Len(s) <= N
  BY <1>1, DistinctShort
<1>4. available_tasks # NULL
  BY <1>1, <1>2, <1>3, Zenon DEF IsList
<1>5. Last(available_tasks, next) = s[Len(s)]
  <2>1. Len(s) \in 1..N
    BY <1>1, <1>3, ScheduleAssumption
  <2> QED  BY <1>1, <2>1, LastList, Zenon
<1>6. /\ stage = "switch" /\ current \in Task /\ me \in Task
      /\ UNCHANGED <<current, available_tasks, runnable>> /\ next' = Put(next, s[Len(s)], me)
  BY <1>4, <1>5, SwitchIs, Zenon
<1>7. ChosenOK(s)
  BY <1>6, Zenon DEF QueueOK
<1>8. current # Idle /\ \A i \in 1..Len(s) : s[i] # current
  BY <1>7, Zenon DEF ChosenOK, Holds
<1>9. \E r, b : Ranked(r, b, next')
  <2>1. PICK r, b : Ranked(r, b, next)
    BY Zenon DEF QuietOK
  <2>2. s[Len(s)] \in Task
    BY <1>1, <1>3, Zenon
  <2> QED  BY <1>2, <1>6, <2>1, <2>2, PutRanked, Zenon
<1> QED  BY <1>1, <1>2, <1>6, <1>8, <1>9, Zenon

\* a task comes back behind the others
LEMMA SwitchBehind ==
  ASSUME IInv, QuietOK, SwitchTo, NEW s, QueueOK(s), me # NULL, Len(s) # 0, ~ Holds(s, me)
  PROVE  QInv' /\ UNCHANGED <<current, Ready>>
<1> DEFINE n == Len(s)
<1>0. PICK u : u = Append(s, me)
  BY Zenon
<1>1. /\ stage = "switch" /\ current \in Task /\ me \in Task /\ NULL \notin Task /\ current # Idle
      /\ UNCHANGED <<current, available_tasks, runnable>> /\ runnable \in [Task -> BOOLEAN]
      /\ s \in Seq(Task) /\ n \in Nat /\ n # 0 /\ \A i \in 1..n : s[i] \in Task
      /\ next \in [Task -> Task \cup {NULL}] /\ next' = Put(next, s[n], me)
      /\ IsList(s, available_tasks, next) /\ Distinct(s)
      /\ \A i \in 1..n : s[i] # current
      /\ \A i \in 1..n : s[i] # me
  BY SwitchTail, Zenon DEF Holds
<1>2. IsList(u, available_tasks, next') /\ Distinct(u) /\ \E r, b : Ranked(r, b, next')
  BY <1>0, <1>1, SwitchTail, PutAtEnd, Zenon
<1>3. u \in Seq(Task) /\ Len(u) = n + 1 /\ u[n + 1] = me /\ \A i \in 1..n : u[i] = s[i]
  BY <1>0, <1>1
<1>4. n = Len(s) /\ n + 1 \in 1..Len(u) /\ \A i \in 1..Len(u) : i = n + 1 \/ i \in 1..n
  BY <1>1, <1>3
<1> HIDE DEF n
<1>5. \A i \in 1..n : i \in 1..Len(u) /\ i # n + 1
  BY <1>1, <1>3
<1>6. \A t \in Task : runnable[t] /\ t # current => Holds(u, t)
  <2> SUFFICES ASSUME NEW t \in Task, runnable[t], t # current PROVE Holds(u, t)
    BY Zenon
  <2>1. CASE t = me
    BY <1>3, <1>4, <2>1, Zenon DEF Holds
  <2>2. CASE t # me
    <3>1. Holds(s, t)
      BY <2>2, Zenon DEF QueueOK
    <3> QED  BY <1>3, <1>4, <1>5, <3>1, Zenon DEF Holds
  <2> QED  BY <2>1, <2>2, Zenon
<1>7. RunningOK(u)
  <2>1. ASSUME NEW i \in 1..Len(u), NEW j \in 1..Len(u), i < j, u[i] = current PROVE FALSE
    <3>1. i \in 1..n
      BY <1>1, <1>3, <1>4, <2>1
    <3> QED  BY <1>1, <1>3, <2>1, <3>1, Zenon
  <2> QED  BY <1>1, <2>1, Zenon DEF RunningOK, Behind
<1>8. ASSUME NoExit PROVE RunningEarly(u)'
  <2>1. ChosenEarly(s)
    BY <1>1, <1>8, Zenon DEF QueueOK
  <2>2. /\ me # Idle /\ me # current /\ next[current] = available_tasks
        /\ \A i \in 1..n : s[i] # Idle
    BY <1>1, <1>4, <2>1, Zenon DEF ChosenEarly, Holds
  <2>3. next'[current] = next[current]
    <3>1. n \in 1..n
      BY <1>1
    <3>2. current # s[n]
      BY <1>1, <3>1, Zenon
    <3> QED  BY <1>1, <2>2, <3>2, Zenon DEF Put
  <2>4. \A i \in 1..Len(u) : u[i] # current /\ u[i] # Idle
    BY <1>1, <1>3, <1>4, <2>2, Zenon
  <2>5. runnable[me]
    <3>1. me \in Known
      BY Zenon DEF IInv, PointersOK
    <3>2. pc[me] # "unborn"
      BY <1>1, <3>1, Zenon DEF IInv, BirthOK
    <3> QED  BY <1>1, <1>8, <2>2, <3>2, Zenon DEF NoExit, Exited
  <2>6. 1 \in 1..n /\ runnable[s[1]]
    <3>1. 1 \in 1..n
      BY <1>1
    <3> QED  BY <1>1, <1>4, <1>8, <2>2, <3>1, ListRuns, Zenon
  <2>7. \E i, j \in 1..Len(u) : i # j /\ runnable'[u[i]] /\ runnable'[u[j]]
    <3>1. 1 \in 1..Len(u) /\ n + 1 \in 1..Len(u) /\ 1 # n + 1
      BY <1>4, <1>5, <2>6, Zenon
    <3>2. runnable'[u[1]] /\ runnable'[u[n + 1]]
      BY <1>1, <1>3, <2>5, <2>6, Zenon
    <3> QED  BY <3>1, <3>2, Zenon
  <2>8. Len(u) # 0
    BY <1>4
  <2> QED  BY <1>1, <2>2, <2>3, <2>4, <2>7, <2>8, Zenon DEF RunningEarly, Holds
<1>9. Keep(u, Others(runnable, current, NULL)) =
        Keep(s, Others(runnable, current, me)) \o Coming(runnable, current, me)
  <2>1. (n + 1) - 1 = n /\ n <= n /\ \A i \in 1..n : ~ (n + 1 <= i)
    BY <1>1
  <2>2. \A i \in 1..Len(u) : ~ (n + 1 < i)
    BY <1>1, <1>3
  <2>3. BackAt(n + 1, u, s, runnable, current, me)
    BY <1>1, <1>3, <1>4, <2>1, <2>2, Zenon DEF BackAt
  <2>4. runnable \in [Task -> BOOLEAN] /\ me \in Task /\ s \in Seq(Task) /\ u \in Seq(Task)
    BY <1>1, <1>3, Zenon
  <2> QED  BY ONLY <2>3, <2>4, ComesBack, Zenon
<1>10. IsList(u, available_tasks', next')
  BY <1>1, <1>2, Zenon
<1> QED  BY <1>2, <1>6, <1>7, <1>8, <1>9, <1>10, SwitchDone, Zenon

\* a task comes back that a stale pointer had left on the list: what is behind it is cut
\* off, and none of that can run
LEMMA SwitchCut ==
  ASSUME IInv, QuietOK, SwitchTo, NEW s, QueueOK(s), me # NULL, NEW k \in 1..Len(s), s[k] = me
  PROVE  QInv' /\ UNCHANGED <<current, Ready>>
<1> DEFINE n == Len(s)
           u == SubSeq(s, 1, k)
<1>0. s \in Seq(Task) /\ n \in Nat /\ n # 0 /\ k \in 1..n
  BY DEF QueueOK, IsList
<1>1. /\ stage = "switch" /\ current \in Task /\ me \in Task /\ NULL \notin Task /\ current # Idle
      /\ UNCHANGED <<current, available_tasks, runnable>> /\ runnable \in [Task -> BOOLEAN]
      /\ \A i \in 1..n : s[i] \in Task
      /\ next \in [Task -> Task \cup {NULL}] /\ next' = Put(next, s[n], me)
      /\ IsList(s, available_tasks, next) /\ Distinct(s)
      /\ \A i \in 1..n : s[i] # current
      /\ \A i, j \in 1..n : s[i] = s[j] => i = j
  BY <1>0, SwitchTail, Zenon DEF Distinct
<1>2. IsList(u, available_tasks, next') /\ Distinct(u) /\ \E r, b : Ranked(r, b, next')
  BY <1>0, <1>1, SwitchTail, PutAtEnd, Zenon
<1>3. u \in Seq(Task) /\ Len(u) = k /\ \A i \in 1..k : u[i] = s[i] /\ i \in 1..n
  BY <1>0
<1> HIDE DEF u
<1>4. n = Len(s) /\ k \in Nat /\ n \in Nat /\ k <= n /\ k \in 1..n /\ k \in 1..k
  BY <1>0
<1> HIDE DEF n
<1>5. ASSUME NEW j \in 1..n, k < j PROVE ~ runnable[s[j]]
  <2>1. Behind(s, me)
    BY <1>1, Zenon DEF QueueOK, ChosenOK
  <2> QED  BY <1>4, <1>5, <2>1, Zenon DEF Behind
<1>6. \A t \in Task : runnable[t] /\ t # current => Holds(u, t)
  <2> SUFFICES ASSUME NEW t \in Task, runnable[t], t # current PROVE Holds(u, t)
    BY Zenon
  <2>1. CASE t = me
    BY <1>3, <1>4, <2>1, Zenon DEF Holds
  <2>2. CASE t # me
    <3>1. PICK j \in 1..n : s[j] = t
      BY <1>4, <2>2, Zenon DEF QueueOK, Holds
    <3>2. j \in 1..k
      BY <1>4, <1>5, <3>1
    <3> QED  BY <1>3, <3>1, <3>2, Zenon DEF Holds
  <2> QED  BY <2>1, <2>2, Zenon
<1>7. RunningOK(u)
  BY <1>1, <1>3, Zenon DEF RunningOK, Behind
<1>8. ~ NoExit
  <2>1. Holds(s, me)
    BY <1>4, Zenon DEF Holds
  <2> QED  BY <1>1, <2>1, Zenon DEF QueueOK, ChosenEarly
<1>9. Keep(u, Others(runnable, current, NULL)) =
        Keep(s, Others(runnable, current, me)) \o Coming(runnable, current, me)
  <2>1. \A i \in 1..n : k <= i => s[i] \notin Others(runnable, current, me)
    <3> SUFFICES ASSUME NEW i \in 1..n, k <= i, s[i] \in Others(runnable, current, me) PROVE FALSE
      BY Zenon
    <3>1. runnable[s[i]] /\ s[i] # me
      BY OthersAre, Zenon
    <3>2. i = k \/ k < i
      BY <1>4
    <3> QED  BY <1>5, <3>1, <3>2, Zenon
  <2>2. \A i \in 1..(k - 1) : u[i] = s[i] /\ s[i] # me
    <3> SUFFICES ASSUME NEW i \in 1..(k - 1) PROVE u[i] = s[i] /\ s[i] # me
      BY Zenon
    <3>1. i \in 1..k /\ i \in 1..n /\ i # k
      BY <1>4
    <3> QED  BY <1>1, <1>3, <1>4, <3>1, Zenon
  <2>3. k - 1 <= n /\ \A i \in 1..k : ~ (k < i)
    BY <1>4
  <2>4. BackAt(k, u, s, runnable, current, me)
    BY <1>3, <1>4, <2>1, <2>2, <2>3, Zenon DEF BackAt
  <2>5. runnable \in [Task -> BOOLEAN] /\ me \in Task /\ s \in Seq(Task) /\ u \in Seq(Task)
    BY <1>0, <1>1, <1>3, Zenon
  <2> QED  BY ONLY <2>4, <2>5, ComesBack, Zenon
<1>10. IsList(u, available_tasks', next')
  BY <1>1, <1>2, Zenon
<1> QED  BY <1>2, <1>6, <1>7, <1>8, <1>9, <1>10, SwitchDone, Zenon

\* switch_to as a whole
LEMMA SwitchQueue == ASSUME IInv, QInv, SwitchTo PROVE QInv' /\ UNCHANGED <<current, Ready>>
<1>1. QuietOK
  BY Zenon DEF QInv
<1>2. PICK s : QueueOK(s)
  BY Zenon DEF QInv
<1>3. CASE me = NULL
  BY <1>1, <1>2, <1>3, SwitchFirst, Zenon
<1>4. CASE me # NULL /\ Len(s) = 0
  BY <1>1, <1>2, <1>4, SwitchEmpty, Zenon
<1>5. CASE me # NULL /\ Len(s) # 0 /\ ~ Holds(s, me)
  BY <1>1, <1>2, <1>5, SwitchBehind, Zenon
<1>6. CASE me # NULL /\ Holds(s, me)
  BY <1>1, <1>2, <1>6, SwitchCut, Zenon DEF Holds
<1> QED  BY <1>3, <1>4, <1>5, <1>6, Zenon

\* What sys_fork does when nobody sleeps or waits
LEMMA ForkIs ==
  ASSUME IInv, QuietOK, NEW c \in Task, SysFork(c), NEW nx, nx = [next EXCEPT ![c] = next[current]]
  PROVE  /\ stage = "run" /\ current \in Task /\ current # Idle /\ current # c /\ me = NULL
         /\ c # Idle /\ c \notin Known /\ next_pid' # next_pid
         /\ UNCHANGED <<current, sleeping_tasks, waiting_tasks, stage, me>>
         /\ runnable' = [runnable EXCEPT ![c] = TRUE]
         /\ \A t \in Task : ~ waiting'[t] /\ sleep_time'[t] = 0
         /\ available_tasks = NULL => available_tasks' = c /\ next' = nx
         /\ available_tasks # NULL =>
              UNCHANGED available_tasks /\ next' = Put(nx, Last(available_tasks, nx), c)
<1> DEFINE l == AddTail(available_tasks, c, nx, [prev EXCEPT ![c] = prev[current]])
<1>1. /\ stage = "run" /\ current # Idle /\ pc[current] = "user" /\ NewTask(c)
      /\ UNCHANGED <<current, sleeping_tasks, waiting_tasks, stage, me>>
      /\ runnable' = [runnable EXCEPT ![c] = TRUE]
      /\ waiting' = [waiting EXCEPT ![c] = waiting[current]]
      /\ sleep_time' = [sleep_time EXCEPT ![c] = sleep_time[current]]
      /\ next_pid' = next_pid + 1
  BY Zenon DEF SysFork, Calling, GetNextPid
<1>2. /\ current \in Task /\ ms \in Nat /\ me = NULL
      /\ \A t \in Task : ~ waiting[t] /\ sleep_time[t] = 0
  BY <1>1, Typed, Zenon DEF QuietOK
<1>3. c # Idle /\ c \notin Known /\ current # c /\ next_pid \in Nat /\ next_pid' # next_pid
  <2>1. c # Idle /\ c \notin Known /\ next_pid \in Nat
    BY <1>1, NewTaskIs, KnownIs, Zenon
  <2>2. current \in Known
    BY Zenon DEF IInv, PointersOK
  <2> QED  BY <1>1, <2>1, <2>2
<1>4. \A t \in Task : ~ waiting'[t] /\ sleep_time'[t] = 0
  <2>1. waiting \in [Task -> BOOLEAN] /\ DOMAIN sleep_time = Task
    BY Zenon DEF IInv, DataOK
  <2>2. \A t \in Task : waiting'[t] = IF t = c THEN waiting[current] ELSE waiting[t]
    BY <1>1, <2>1, Zenon
  <2>3. \A t \in Task : sleep_time'[t] = IF t = c THEN sleep_time[current] ELSE sleep_time[t]
    BY <1>1, <2>1, Zenon
  <2> QED  BY <1>2, <2>2, <2>3, Zenon
<1>5. Reschedulable(current)
  BY <1>2 DEF Reschedulable
<1>6. available_tasks' = l.head /\ next' = l.next
  BY <1>5, Zenon DEF SysFork
<1>7. available_tasks = NULL => l.head = c /\ l.next = nx
  BY Zenon DEF AddTail
<1>8. available_tasks # NULL =>
        l.head = available_tasks /\ l.next = Put(nx, Last(available_tasks, nx), c)
  BY Zenon DEF AddTail, Put
<1> HIDE DEF l
<1> QED  BY <1>1, <1>2, <1>3, <1>4, <1>6, <1>7, <1>8, Zenon

\* Before the first exit the list gets the child as its last task, and no other pointer
\* changes but those of the last task and the child
LEMMA ForkList ==
  ASSUME IInv, QuietOK, NEW s, QueueOK(s), NEW c \in Task, SysFork(c), NoExit
  PROVE  /\ \A i \in 1..Len(s) : s[i] # c /\ s[i] # current
         /\ IsList(Append(s, c), available_tasks', next') /\ Distinct(Append(s, c))
         /\ \E r, b : Ranked(r, b, next')
         /\ next'[current] = next[current]
         /\ Len(s) # 0 => UNCHANGED available_tasks
<1>1. PICK nx : nx = [next EXCEPT ![c] = next[current]]
  BY Zenon
<1>2. /\ stage = "run" /\ current \in Task /\ current # Idle /\ current # c /\ c \notin Known
      /\ available_tasks = NULL => available_tasks' = c /\ next' = nx
      /\ available_tasks # NULL =>
              UNCHANGED available_tasks /\ next' = Put(nx, Last(available_tasks, nx), c)
  BY <1>1, ForkIs, Zenon
<1>3. /\ s \in Seq(Task) /\ Len(s) \in Nat /\ \A i \in 1..Len(s) : s[i] \in Task
      /\ IsList(s, available_tasks, next) /\ Distinct(s)
      /\ \A i \in 1..Len(s) : next[s[i]] = IF i = Len(s) THEN NULL ELSE s[i + 1]
      /\ available_tasks = IF Len(s) = 0 THEN NULL ELSE s[1]
  BY DEF QueueOK, IsList
<1>4. NULL \notin Task /\ next \in [Task -> Task \cup {NULL}]
  BY Typed, Zenon
<1>5. nx \in [Task -> Task \cup {NULL}] /\ nx[c] = next[current] /\ \A t \in Task : t # c => nx[t] = next[t]
  BY <1>1, <1>2, <1>4, Zenon
<1>6. RunningEarly(s)
  BY <1>2, Zenon DEF QueueOK
<1>7. ASSUME NEW i \in 1..Len(s) PROVE s[i] # c
  <2>1. available_tasks \in Known /\ next \in [Task -> Known]
    BY Zenon DEF IInv, PointersOK
  <2>2. CASE i = 1
    BY <1>2, <1>3, <2>1, <2>2
  <2>3. CASE i # 1
    <3>1. i - 1 \in 1..Len(s) /\ i - 1 # Len(s) /\ (i - 1) + 1 = i
      BY <1>3, <2>3
    <3>2. next[s[i - 1]] = s[i] /\ s[i - 1] \in Task
      BY <1>3, <3>1, Zenon
    <3> QED  BY <1>2, <2>1, <3>2, Zenon
  <2> QED  BY <2>2, <2>3, Zenon
<1>8. \A i \in 1..Len(s) : s[i] # c /\ s[i] # current
  BY <1>6, <1>7, Zenon DEF RunningEarly, Holds
<1>9. PICK r, b : Ranked(r, b, next)
  BY Zenon DEF QuietOK
<1>10. CASE Len(s) = 0
  <2>1. next[current] = NULL
    BY <1>2, <1>6, <1>10 DEF RunningEarly
  <2>2. available_tasks' = c /\ next' = nx /\ nx[c] = NULL /\ next'[current] = next[current]
    BY <1>2, <1>3, <1>5, <1>10, <2>1, Zenon
  <2>3. PICK u : u = Append(s, c)
    BY Zenon
  <2>4. u \in Seq(Task) /\ Len(u) = 1 /\ u[1] = c
    BY <1>3, <1>10, <2>3
  <2>5. IsList(u, c, nx) /\ Distinct(u)
    BY <2>2, <2>4 DEF IsList, Distinct
  <2>6. nx = Put(next, c, c)
    BY <1>1, <1>4, <2>1, Zenon DEF Put
  <2>7. \E q, d : Ranked(q, d, nx)
    BY <1>4, <1>9, <2>6, PutRanked, Zenon
  <2> QED  BY <1>8, <1>10, <2>2, <2>3, <2>5, <2>7, Zenon
<1>11. CASE Len(s) # 0
  <2> DEFINE z == s[Len(s)]
  <2>1. Len(s) \in 1..Len(s) /\ 1 \in 1..Len(s) /\ Len(s) \in 1..N
    BY <1>3, <1>11, DistinctShort, ScheduleAssumption
  <2>2. z \in Task /\ z # c /\ z # current /\ available_tasks # NULL
    BY <1>3, <1>4, <1>8, <1>11, <2>1, Zenon
  <2>3. IsList(s, available_tasks, nx)
    BY <1>3, <1>5, <1>7, Zenon DEF IsList
  <2>4. Last(available_tasks, nx) = z
    BY <2>1, <2>3, LastList, Zenon
  <2> HIDE DEF z
  <2>5. UNCHANGED available_tasks /\ next' = Put(nx, z, c)
    BY <1>2, <2>2, <2>4, Zenon
  <2>6. IsList(Append(s, c), available_tasks, next') /\ Distinct(Append(s, c))
    BY <1>3, <1>5, <1>7, <1>11, <2>3, <2>5, PutAtEnd, Zenon DEF z
  <2>7. Put(nx, z, c) = Put(next, z, c) /\ Put(nx, z, c)[current] = next[current]
    BY <1>1, <1>2, <1>4, <2>2, Zenon DEF Put
  <2>8. \E q, d : Ranked(q, d, next')
    BY <1>4, <1>9, <2>2, <2>5, <2>7, PutRanked, Zenon
  <2> QED  BY <1>8, <2>5, <2>6, <2>7, <2>8, Zenon
<1> QED  BY <1>10, <1>11, Zenon

\* sys_fork is a start
LEMMA ForkQueue ==
  ASSUME IInv, QInv, NEW c \in Task, SysFork(c), NoForkAfterExit
  PROVE  QInv' /\ RR!Next
<1>1. PICK nx : nx = [next EXCEPT ![c] = next[current]]
  BY Zenon
<1>2. QuietOK
  BY Zenon DEF QInv
<1>3. PICK s : QueueOK(s)
  BY Zenon DEF QInv
<1>4. /\ stage = "run" /\ current \in Task /\ current # Idle /\ current # c /\ me = NULL
      /\ c # Idle /\ next_pid' # next_pid
      /\ UNCHANGED <<current, sleeping_tasks, waiting_tasks, stage, me>>
      /\ runnable' = [runnable EXCEPT ![c] = TRUE]
      /\ \A t \in Task : ~ waiting'[t] /\ sleep_time'[t] = 0
  BY <1>1, <1>2, ForkIs, Zenon
<1>5. NoExit
  BY <1>4, Zenon DEF NoForkAfterExit, NoExit
<1>6. PICK u : u = Append(s, c)
  BY Zenon
<1>7. /\ \A i \in 1..Len(s) : s[i] # c /\ s[i] # current
      /\ IsList(u, available_tasks', next') /\ Distinct(u)
      /\ \E r, b : Ranked(r, b, next')
      /\ next'[current] = next[current]
      /\ Len(s) # 0 => UNCHANGED available_tasks
  BY <1>2, <1>3, <1>5, <1>6, ForkList, Zenon
<1>8. s \in Seq(Task) /\ Len(s) \in Nat /\ \A i \in 1..Len(s) : s[i] \in Task
  BY <1>3 DEF QueueOK, IsList
<1> DEFINE n == Len(s)
<1>9. /\ u \in Seq(Task) /\ Len(u) = n + 1 /\ u[n + 1] = c /\ \A i \in 1..n : u[i] = s[i] /\ i \in 1..Len(u)
      /\ n + 1 \in 1..Len(u) /\ \A i \in 1..Len(u) : i = n + 1 \/ i \in 1..n
  BY <1>6, <1>8
<1>10. n = Len(s)
  BY Zenon
<1> HIDE DEF n
<1>11. runnable \in [Task -> BOOLEAN] /\ NULL \notin Task /\ ~ runnable[Idle] /\ Idle \in Task
  BY <1>2, Typed, Zenon DEF QuietOK
<1>12. runnable'[c] /\ \A t \in Task : t # c => runnable'[t] = runnable[t]
  BY <1>4, <1>11, Zenon
<1>13. QuietOK'
  BY <1>2, <1>4, <1>7, <1>11, <1>12, Zenon DEF QuietOK
<1>14. \A t \in Task : runnable'[t] /\ t # current => Holds(u, t)
  <2> SUFFICES ASSUME NEW t \in Task, runnable'[t], t # current PROVE Holds(u, t)
    BY Zenon
  <2>1. CASE t = c
    BY <1>9, <2>1, Zenon DEF Holds
  <2>2. CASE t # c
    <3>1. PICK i \in 1..n : s[i] = t
      BY <1>3, <1>4, <1>10, <1>11, <1>12, <2>2, Zenon DEF QueueOK, Holds
    <3> QED  BY <1>9, <3>1, Zenon DEF Holds
  <2> QED  BY <2>1, <2>2, Zenon
<1>15. \A i \in 1..Len(u) : u[i] # current
  BY <1>4, <1>7, <1>9, <1>10, Zenon
<1>16. RunningOK(u)'
  BY <1>4, <1>15, Zenon DEF RunningOK, Behind
<1>17. RunningEarly(u)'
  <2>1. RunningEarly(s)
    BY <1>3, <1>4, <1>5, Zenon DEF QueueOK
  <2>2. ASSUME next[current] # NULL
        PROVE  /\ next'[current] = available_tasks'
               /\ \E i, j \in 1..Len(u) : i # j /\ runnable'[u[i]] /\ runnable'[u[j]]
    <3>1. PICK i, j \in 1..n : i # j /\ runnable[s[i]] /\ runnable[s[j]]
      BY <1>4, <1>10, <2>1, <2>2, Zenon DEF RunningEarly
    <3>2. n # 0
      BY <1>8, <1>10, <3>1
    <3>3. next'[current] = available_tasks'
      BY <1>4, <1>7, <1>10, <2>1, <2>2, <3>2, Zenon DEF RunningEarly
    <3>4. runnable'[u[i]] /\ runnable'[u[j]] /\ i \in 1..Len(u) /\ j \in 1..Len(u)
      BY <1>7, <1>8, <1>9, <1>10, <1>12, <3>1, Zenon
    <3> QED  BY <3>1, <3>3, <3>4, Zenon
  <2>3. \A i \in 1..Len(u) : u[i] = Idle => i = 1
    BY <1>4, <1>9, <1>10, <2>1, Zenon DEF RunningEarly
  <2>4. Len(u) # 0
    BY <1>9
  <2> QED  BY <1>4, <1>7, <1>15, <2>2, <2>3, <2>4, Zenon DEF RunningEarly, Holds
<1>18. QueueOK(u)'
  BY <1>4, <1>7, <1>11, <1>14, <1>16, <1>17, Zenon DEF QueueOK, Holds
<1> DEFINE S == Others(runnable, current, NULL)
           T == Others(runnable', current, NULL)
           q == Keep(s, S)
<1>19. Ready = q /\ q \in Seq(Task) /\ \A i \in 1..Len(q) : q[i] # c
  <2>1. Ready = Keep(s, Others(runnable, current, me)) \o Coming(runnable, current, me)
    BY <1>3, ReadyIs, Zenon DEF QueueOK
  <2>2. Ready = q /\ q \in Seq(Task)
    BY <1>4, <1>8, <2>1, NoneComes, Zenon
  <2> DEFINE E == {s[i] : i \in 1..Len(s)}
  <2>3. q \in Seq(E)
    BY <1>8, KeepElements, Zenon
  <2>4. c \notin E
    BY <1>7, Zenon
  <2> HIDE DEF q, E
  <2> QED  BY <2>2, <2>3, <2>4
<1>20. Keep(u, T) = Append(q, c)
  <2>1. c \in T
    BY <1>4, <1>11, <1>12, OthersAre, Zenon
  <2>2. \A i \in 1..Len(s) : s[i] = s[i] /\ (s[i] \in T <=> s[i] \in S)
    <3> SUFFICES ASSUME NEW i \in 1..Len(s) PROVE s[i] \in T <=> s[i] \in S
      BY Zenon
    <3>1. s[i] \in Task /\ runnable'[s[i]] = runnable[s[i]]
      BY <1>7, <1>8, <1>12, Zenon
    <3>2. s[i] \in T <=> s[i] \in Task /\ runnable'[s[i]] /\ s[i] # current /\ s[i] # NULL
      BY OthersAre, Zenon
    <3>3. s[i] \in S <=> s[i] \in Task /\ runnable[s[i]] /\ s[i] # current /\ s[i] # NULL
      BY OthersAre, Zenon
    <3> QED  BY <3>1, <3>2, <3>3, Zenon
  <2> HIDE DEF S, T
  <2>3. Keep(s, T) = q
    <3>1. Len(s) \in Nat /\ Len(s) \in 0..Len(s) /\ \A i \in 1..Len(s) : Len(s) < i => s[i] \notin T
      BY <1>8
    <3> QED  BY ONLY <2>2, <3>1, KeepFront
  <2>4. Keep(u, T) = Grow(Keep(s, T), c, T)
    <3>1. s \in Seq(Task) /\ c \in Task
      BY <1>8, Zenon
    <3>2. Keep(Append(s, c), T) = Grow(Keep(s, T), c, T)
      BY ONLY <3>1, KeepAppend, Zenon
    <3> QED  BY <1>6, <3>2, Zenon
  <2> QED  BY <2>1, <2>3, <2>4, Zenon DEF Grow
<1>21. Ready' = Append(Ready, c)
  <2>1. Ready' = Keep(u, Others(runnable', current, NULL)) \o Coming(runnable', current, NULL)
    BY <1>4, <1>7, ReadyIsNext, Zenon
  <2>2. Ready' = Keep(u, T)
    BY <1>9, <2>1, NoneComes, Zenon
  <2> HIDE DEF T, q
  <2> QED  BY <1>19, <1>20, <2>2, Zenon
<1>22. RR!Start(c)
  <2>1. \A i \in DOMAIN Ready : Ready[i] # c
    <3> HIDE DEF q
    <3> QED  BY <1>19
  <2> QED  BY <1>4, <1>21, <2>1, Zenon DEF RR!Start
<1> QED  BY <1>13, <1>18, <1>22, Zenon DEF QInv, RR!Next

\* The clock ticks, and nothing else happens
LEMMA SameAll ==
  ASSUME QInv, UNCHANGED <<current, available_tasks, sleeping_tasks, waiting_tasks, next>>,
         UNCHANGED <<runnable, waiting, sleep_time, me, stage, pc>>
  PROVE  QInv' /\ UNCHANGED <<current, Ready>>
<1>1. QuietOK' /\ UNCHANGED Ready
  BY Zenon DEF QInv, QuietOK, Ready
<1>2. PICK s : QueueOK(s)
  BY Zenon DEF QInv
<1>3. NoExit' <=> NoExit
  BY Zenon DEF NoExit, Exited
<1>4. /\ ChosenOK(s)' <=> ChosenOK(s)
      /\ RunningOK(s)' <=> RunningOK(s)
  BY Zenon DEF ChosenOK, RunningOK, Behind
<1>5. /\ ChosenEarly(s)' <=> ChosenEarly(s)
      /\ RunningEarly(s)' <=> RunningEarly(s)
  BY Zenon DEF ChosenEarly, RunningEarly
<1>6. QueueOK(s)'
  BY <1>2, <1>3, <1>4, <1>5, Zenon DEF QueueOK
<1> QED  BY <1>1, <1>6, Zenon DEF QInv

LEMMA YieldQueue == ASSUME IInv, QInv, SysYield PROVE QInv' /\ UNCHANGED <<current, Ready>>
<1>1. /\ stage = "run" /\ stage' = "pick" /\ pc' = [pc EXCEPT ![current] = "user"]
      /\ UNCHANGED <<current, available_tasks, sleeping_tasks, waiting_tasks, next>>
      /\ UNCHANGED <<runnable, waiting, sleep_time, me>>
  BY Zenon DEF SysYield, lists, state
<1>2. NoExit' => NoExit
  <2> SUFFICES ASSUME NEW t \in Task, Exited(t) PROVE Exited(t)'
    BY Zenon DEF NoExit
  <2>1. current \in Task /\ DOMAIN pc = Task
    BY <1>1, Typed, Zenon DEF IInv, BirthOK
  <2>2. pc'[t] # "unborn"
    <3>1. CASE t = current
      BY <1>1, <2>1, <3>1, Zenon
    <3>2. CASE t # current
      BY <1>1, <2>1, <3>2, Zenon DEF Exited
    <3> QED  BY <3>1, <3>2, Zenon
  <2> QED  BY <1>1, <2>2, Zenon DEF Exited
<1>3. stage # "switch" /\ stage' # "switch"
  BY <1>1, Zenon
<1> QED  BY <1>1, <1>2, <1>3, SameQueue, Zenon

\* Every step
LEMMA QueueNext ==
  ASSUME OnlyYields, IInv, QInv, [Next]_vars, NoForkAfterExit
  PROVE  QInv' /\ [RR!Next]_<<current, Ready>>
<1>1. CASE UNCHANGED vars
  <2>1. /\ UNCHANGED <<current, available_tasks, sleeping_tasks, waiting_tasks, next>>
        /\ UNCHANGED <<runnable, waiting, sleep_time, me, stage, pc>>
    BY <1>1, Zenon DEF vars, lists, state
  <2> QED  BY <2>1, SameAll, Zenon
<1>2. CASE Tick
  <2>1. /\ UNCHANGED <<current, available_tasks, sleeping_tasks, waiting_tasks, next>>
        /\ UNCHANGED <<runnable, waiting, sleep_time, me, stage, pc>>
    BY <1>2, Zenon DEF Tick, lists, state
  <2> QED  BY <2>1, SameAll, Zenon
<1>3. CASE SysYield
  BY <1>3, YieldQueue, Zenon
<1>4. ASSUME NEW m \in 0..MaxSleep, SysSleep(m) PROVE FALSE
  BY <1>4, Zenon DEF SysSleep, Calling, OnlyYields
<1>5. ASSUME NEW p \in {-1} \cup 3..(next_pid - 1), SysWait4(p) PROVE FALSE
  BY <1>5, Zenon DEF SysWait4, Calling, OnlyYields
<1>6. ASSUME NEW c \in Task, SysFork(c) PROVE QInv' /\ RR!Next
  BY <1>6, ForkQueue, Zenon
<1>7. CASE SysExit
  BY <1>7, ExitQueue, Zenon
<1>8. ASSUME NEW c \in Task, SysExecve(c) PROVE FALSE
  BY <1>8, Zenon DEF SysExecve, Calling, OnlyYields
<1>9. CASE GetNextTask
  BY <1>9, PickQueue, Zenon
<1>10. CASE SwitchTo
  BY <1>10, SwitchQueue, Zenon
<1> QED  BY <1>1, <1>2, <1>3, <1>4, <1>5, <1>6, <1>7, <1>8, <1>9, <1>10, Zenon DEF Next

(***************************************************************************)
(* When programs only yield, fork and exit, and none forks after the first *)
(* exit, the list that get_next_task takes from is the queue of the "round *)
(* robin technique" of README.506: although tasks leave the list by a move *)
(* of its head, keep their stale pointers and come back with them, no task *)
(* that can run is lost, and none runs before one that has waited longer.  *)
(***************************************************************************)
THEOREM QueueIsRoundRobin ==
  ASSUME OnlyYields PROVE Spec /\ [][NoForkAfterExit]_vars => ImplementsRoundRobin
<1>1. Init => IInv /\ QInv /\ RR!Init
  BY InitInv, InitQueue, Zenon
<1>2. IInv /\ QInv /\ [Next]_vars /\ [NoForkAfterExit]_vars => IInv' /\ QInv' /\ [RR!Next]_<<current, Ready>>
  <2> SUFFICES ASSUME IInv, QInv, [Next]_vars, [NoForkAfterExit]_vars
               PROVE  IInv' /\ QInv' /\ [RR!Next]_<<current, Ready>>
    BY Zenon
  <2>1. IInv'
    BY InvNext, Zenon
  <2>2. NoForkAfterExit
    BY Zenon DEF NoForkAfterExit, vars
  <2>3. QInv' /\ [RR!Next]_<<current, Ready>>
    BY <2>2, QueueNext, Zenon
  <2> QED  BY <2>1, <2>3, Zenon
<1> QED  BY <1>1, <1>2, PTL DEF Spec, ImplementsRoundRobin, RR!Spec
=============================================================================
