--------------------------- MODULE ScheduleProofs ----------------------------
(***************************************************************************)
(* Proofs about the scheduler, for any number of tasks, any length of      *)
(* sleep and every order of calls, although tasks stay threaded on lists   *)
(* they have left; and about the shell on top of it.                       *)
(***************************************************************************)
EXTENDS Sbush, WellFoundedInduction, TLAPS

-----------------------------------------------------------------------------
(* Lists *)

\* A set of numbers that is not empty has a least one
LEMMA Least ==
  ASSUME NEW S \in SUBSET Nat, S # {} PROVE \E i \in S : \A k \in S : i <= k
<1> DEFINE R == OpToRel(<, Nat)
<1>1. IsWellFoundedOn(R, Nat)
  BY NatLessThanWellFounded, Zenon
<1>2. \A x, y \in Nat : x < y => <<x, y>> \in R
  BY Zenon DEF OpToRel
<1> HIDE DEF R
<1>3. PICK x \in S : \A y \in S : ~ (<<y, x>> \in R)
  BY <1>1, WFMin, Zenon
<1>4. ASSUME NEW k \in S PROVE x <= k
  <2>1. k \in Nat /\ x \in Nat
    BY Zenon
  <2>2. ~ (k < x)
    BY <1>2, <1>3, <2>1, Zenon
  <2> QED  BY <2>1, <2>2
<1> QED  BY <1>4, Zenon

\* one step of a traversal
Step(nx, t) == IF t = NULL THEN NULL ELSE nx[t]

\* the first n steps of a traversal from h
IsWalk(s, n, h, nx) ==
  s = [k \in 0..n |-> IF k = 0 THEN h ELSE IF s[k - 1] = NULL THEN NULL ELSE nx[s[k - 1]]]

\* What a walk is, node by node
LEMMA WalkNodes ==
  ASSUME NEW n \in Nat, NEW s, NEW h, NEW nx, IsWalk(s, n, h, nx)
  PROVE  DOMAIN s = 0..n /\ s[0] = h /\ \A k \in 1..n : s[k] = Step(nx, s[k - 1])
<1> DEFINE F == [k \in 0..n |-> IF k = 0 THEN h ELSE IF s[k - 1] = NULL THEN NULL ELSE nx[s[k - 1]]]
<1>1. s = F
  BY Zenon DEF IsWalk
<1>2. DOMAIN F = 0..n /\ F[0] = h
  OBVIOUS
<1>3. ASSUME NEW k \in 1..n PROVE F[k] = Step(nx, s[k - 1])
  <2>1. k \in 0..n /\ k # 0
    OBVIOUS
  <2> QED  BY <2>1, Zenon DEF Step
<1> HIDE DEF F
<1> QED  BY <1>1, <1>2, <1>3, Zenon

\* and the other way round
LEMMA NodesWalk ==
  ASSUME NEW n \in Nat, NEW s, NEW h, NEW nx, s = [k \in 0..n |-> s[k]],
         s[0] = h, \A k \in 1..n : s[k] = Step(nx, s[k - 1])
  PROVE  IsWalk(s, n, h, nx)
<1> DEFINE F == [k \in 0..n |-> IF k = 0 THEN h ELSE IF s[k - 1] = NULL THEN NULL ELSE nx[s[k - 1]]]
<1>1. \A k \in 0..n : F[k] = s[k]
  <2> SUFFICES ASSUME NEW k \in 0..n PROVE F[k] = s[k]
    BY Zenon
  <2>1. CASE k = 0
    BY <2>1, Zenon
  <2>2. CASE k # 0
    <3>1. k \in 1..n
      BY <2>2
    <3> QED  BY <2>2, <3>1, Zenon DEF Step
  <2> QED  BY <2>1, <2>2, Zenon
<1>2. F = [k \in 0..n |-> F[k]]
  BY Zenon
<1> HIDE DEF F
<1>3. s = F
  BY <1>1, <1>2, Zenon
<1> QED  BY <1>3, Zenon DEF F, IsWalk

\* Every list can be walked for any number of steps
LEMMA WalkExists == ASSUME NEW h, NEW nx PROVE \A n \in Nat : \E s : IsWalk(s, n, h, nx)
<1> DEFINE Bad == {n \in Nat : ~ \E s : IsWalk(s, n, h, nx)}
<1> SUFFICES ASSUME Bad # {} PROVE FALSE
  BY Zenon
<1>1. PICK n \in Bad : \A k \in Bad : n <= k
  BY Least, Zenon
<1>2. n # 0
  <2> SUFFICES ASSUME n = 0 PROVE FALSE
    BY Zenon
  <2> DEFINE s == [k \in 0..0 |-> h]
  <2>1. s = [k \in 0..0 |-> s[k]] /\ s[0] = h /\ \A k \in 1..0 : s[k] = Step(nx, s[k - 1])
    OBVIOUS
  <2> HIDE DEF s
  <2>2. IsWalk(s, 0, h, nx)
    BY <2>1, NodesWalk, Zenon
  <2> QED  BY <2>2, Zenon
<1>3. n \in Nat /\ n - 1 \in Nat /\ n - 1 \notin Bad
  BY <1>1, <1>2
<1>4. PICK s : IsWalk(s, n - 1, h, nx)
  BY <1>3, Zenon
<1>5. DOMAIN s = 0..(n - 1) /\ s[0] = h /\ \A k \in 1..(n - 1) : s[k] = Step(nx, s[k - 1])
  BY <1>3, <1>4, WalkNodes
<1> DEFINE u == [k \in 0..n |-> IF k = n THEN Step(nx, s[n - 1]) ELSE s[k]]
<1>6. u = [k \in 0..n |-> u[k]] /\ u[0] = h /\ u[n] = Step(nx, s[n - 1])
  BY <1>2, <1>3, <1>5
<1>7. \A k \in 0..(n - 1) : u[k] = s[k]
  BY <1>3
<1> HIDE DEF u
<1>8. ASSUME NEW k \in 1..n PROVE u[k] = Step(nx, u[k - 1])
  <2>1. CASE k = n
    <3>1. n - 1 \in 0..(n - 1)
      BY <1>3
    <3> QED  BY <1>6, <1>7, <2>1, <3>1, Zenon
  <2>2. CASE k # n
    <3>1. k \in 1..(n - 1) /\ k \in 0..(n - 1) /\ k - 1 \in 0..(n - 1)
      BY <1>3, <2>2
    <3> QED  BY <1>5, <1>7, <3>1, Zenon
  <2> QED  BY <2>1, <2>2, Zenon
<1>9. IsWalk(u, n, h, nx)
  BY <1>3, <1>6, <1>8, NodesWalk, Zenon
<1> QED  BY <1>1, <1>9, Zenon

\* Nodes is the walk it is defined as
LEMMA NodesAre ==
  ASSUME NEW h, NEW nx
  PROVE  /\ Nodes(h, nx)[0] = h
         /\ \A k \in 1..N : Nodes(h, nx)[k] = Step(nx, Nodes(h, nx)[k - 1])
<1> DEFINE at == CHOOSE f : IsWalk(f, N, h, nx)
<1>1. N \in Nat
  BY ScheduleAssumption, Zenon
<1>2. IsWalk(at, N, h, nx)
  BY <1>1, WalkExists, Zenon
<1>3. Nodes(h, nx) = at
  BY Zenon DEF Nodes, IsWalk
<1> HIDE DEF at
<1> QED  BY <1>1, <1>2, <1>3, WalkNodes

\* pointers to K lead to K
Pointers(K) == NULL \in K /\ K \subseteq Task \cup {NULL}

\* A walk over a list whose pointers lead to K stays in K
LEMMA WalkKnown ==
  ASSUME NEW K, Pointers(K), NEW h \in K, NEW nx \in [Task -> K], NEW i \in 0..N
  PROVE  Nodes(h, nx)[i] \in K
<1> DEFINE s == Nodes(h, nx)
           Bad == {k \in 0..N : s[k] \notin K}
<1>1. s[0] = h /\ \A k \in 1..N : s[k] = Step(nx, s[k - 1])
  BY NodesAre
<1>2. N \in Nat /\ Bad \in SUBSET Nat
  BY ScheduleAssumption
<1> HIDE DEF s
<1> SUFFICES ASSUME Bad # {} PROVE FALSE
  BY Zenon DEF s
<1>3. PICK m \in Bad : \A k \in Bad : m <= k
  BY <1>2, Least, Zenon
<1>4. m \in 0..N /\ m # 0 /\ s[m] \notin K
  BY <1>1, <1>3, Zenon
<1>5. m \in 1..N /\ m - 1 \in 0..N /\ m - 1 \notin Bad
  BY <1>2, <1>3, <1>4
<1>6. s[m] = Step(nx, s[m - 1]) /\ s[m - 1] \in K
  BY <1>1, <1>5, Zenon
<1> QED  BY <1>4, <1>6, Zenon DEF Step, Pointers

\* A search finds a node that is in the set, or nothing
LEMMA FirstAt ==
  ASSUME NEW h, NEW nx, NEW S
  PROVE  \/ First(h, nx, S) = NULL
         \/ \E i \in 0..N : First(h, nx, S) = Nodes(h, nx)[i] /\ Nodes(h, nx)[i] \in S
<1> DEFINE s == Nodes(h, nx)
           hits == {i \in 0..N : s[i] \in S}
<1>1. CASE hits = {}
  BY <1>1, Zenon DEF First
<1>2. CASE hits # {}
  <2>1. hits \in SUBSET Nat
    BY ScheduleAssumption
  <2>2. \E i \in hits : \A k \in hits : i <= k
    BY <1>2, <2>1, Least, Zenon
  <2> DEFINE m == CHOOSE i \in hits : \A k \in hits : i <= k
  <2>3. m \in hits
    <3> HIDE DEF hits
    <3> QED  BY <2>2, Zenon
  <2>4. First(h, nx, S) = s[m]
    BY <1>2, Zenon DEF First
  <2> HIDE DEF m
  <2> QED  BY <2>3, <2>4, Zenon
<1> QED  BY <1>1, <1>2, Zenon

\* It stays among the tasks that pointers lead to
LEMMA FirstKnown ==
  ASSUME NEW K, Pointers(K), NEW h \in K, NEW nx \in [Task -> K], NEW S
  PROVE  First(h, nx, S) \in K /\ First(h, nx, S) \in S \cup {NULL}
<1>1. CASE First(h, nx, S) = NULL
  BY <1>1, Zenon DEF Pointers
<1>2. CASE First(h, nx, S) # NULL
  BY <1>2, FirstAt, WalkKnown
<1> QED  BY <1>1, <1>2, Zenon

\* A search of the empty list finds nothing
LEMMA FirstOfNone == ASSUME NEW nx, NEW S \in SUBSET Task PROVE First(NULL, nx, S) = NULL
<1> DEFINE s == Nodes(NULL, nx)
           Bad == {k \in 0..N : s[k] # NULL}
<1>1. s[0] = NULL /\ \A k \in 1..N : s[k] = Step(nx, s[k - 1])
  BY NodesAre
<1>2. N \in Nat /\ Bad \in SUBSET Nat
  BY ScheduleAssumption
<1> HIDE DEF s
<1>3. Bad = {}
  <2> SUFFICES ASSUME Bad # {} PROVE FALSE
    BY Zenon
  <2>1. PICK m \in Bad : \A k \in Bad : m <= k
    BY <1>2, Least, Zenon
  <2>2. m \in 0..N /\ m # 0 /\ s[m] # NULL
    BY <1>1, <2>1, Zenon
  <2>3. m \in 1..N /\ m - 1 \in 0..N /\ m - 1 \notin Bad
    BY <1>2, <2>1, <2>2
  <2> QED  BY <1>1, <2>2, <2>3, Zenon DEF Step
<1>4. NULL \notin S
  BY ScheduleAssumption DEF NULL, Task
<1>5. {i \in 0..N : s[i] \in S} = {}
  BY <1>3, <1>4, Zenon
<1> QED  BY <1>5, Zenon DEF First, s

\* The last node of a list is a task
LEMMA LastKnown ==
  ASSUME NEW K, Pointers(K), NEW h \in K, h # NULL, NEW nx \in [Task -> K]
  PROVE  Last(h, nx) \in K /\ Last(h, nx) # NULL
<1> DEFINE s == Nodes(h, nx)
           Ends(i) == s[i] # NULL /\ (i = N \/ s[i + 1] = NULL)
           Nulls == {i \in 0..N : s[i] = NULL}
<1>1. s[0] = h /\ \A i \in 0..N : s[i] \in K
  BY NodesAre, WalkKnown, Zenon
<1>2. N \in Nat /\ Nulls \in SUBSET Nat
  BY ScheduleAssumption
<1>3. Last(h, nx) = s[CHOOSE i \in 0..N : Ends(i)]
  BY Zenon DEF Last
<1> HIDE DEF s
<1>4. \E i \in 0..N : Ends(i)
  <2>1. CASE Nulls = {}
    <3>1. N \in 0..N
      BY <1>2
    <3> QED  BY <2>1, <3>1, Zenon
  <2>2. CASE Nulls # {}
    <3>1. PICK m \in Nulls : \A k \in Nulls : m <= k
      BY <1>2, <2>2, Least, Zenon
    <3>2. m # 0
      BY <1>1, <3>1, Zenon
    <3>3. m - 1 \in 0..N /\ m - 1 \notin Nulls /\ (m - 1) + 1 = m
      BY <1>2, <3>1, <3>2
    <3>4. Ends(m - 1)
      BY <3>1, <3>3, Zenon
    <3> QED  BY <3>3, <3>4, Zenon
  <2> QED  BY <2>1, <2>2, Zenon
<1> DEFINE n == CHOOSE i \in 0..N : Ends(i)
<1>5. n \in 0..N /\ Ends(n)
  BY <1>4, Zenon
<1> HIDE DEF n
<1>6. Last(h, nx) = s[n] /\ s[n] # NULL
  BY <1>3, <1>5, Zenon DEF n
<1> QED  BY <1>1, <1>5, <1>6, Zenon

\* Appending a task of K keeps the pointers in K
LEMMA AddTailKnown ==
  ASSUME NEW K, Pointers(K), NEW h \in K, NEW t \in K, t # NULL,
         NEW nx \in [Task -> K], NEW pv \in [Task -> K]
  PROVE  LET l == AddTail(h, t, nx, pv)
         IN l.head \in K /\ l.next \in [Task -> K] /\ l.prev \in [Task -> K]
<1>1. CASE h = NULL
  BY <1>1, Zenon DEF AddTail
<1>2. CASE h # NULL
  <2> DEFINE c == Last(h, nx)
  <2>1. c \in K /\ c # NULL
    BY <1>2, LastKnown, Zenon
  <2>2. AddTail(h, t, nx, pv) = [head |-> h, next |-> [nx EXCEPT ![c] = t, ![t] = NULL], prev |-> [pv EXCEPT ![t] = c]]
    BY <1>2, Zenon DEF AddTail
  <2> HIDE DEF c
  <2> QED  BY <2>1, <2>2 DEF Pointers
<1> QED  BY <1>1, <1>2, Zenon

\* Unlinking keeps the pointers in K
LEMMA UnlinkKnown ==
  ASSUME NEW K, Pointers(K), NEW t \in Task, next \in [Task -> K], prev \in [Task -> K]
  PROVE  Unlink(t).next \in [Task -> K] /\ Unlink(t).prev \in [Task -> K]
<1> DEFINE nx == IF prev[t] # NULL THEN [next EXCEPT ![prev[t]] = next[t]] ELSE next
           pv == IF nx[t] # NULL THEN [prev EXCEPT ![nx[t]] = prev[t]] ELSE prev
<1>1. Unlink(t) = [next |-> nx, prev |-> pv]
  BY Zenon DEF Unlink
<1>2. nx \in [Task -> K]
  BY Zenon DEF Pointers
<1> HIDE DEF nx
<1>3. pv \in [Task -> K]
  BY <1>2, Zenon DEF Pointers
<1> HIDE DEF pv
<1> QED  BY <1>1, <1>2, <1>3

-----------------------------------------------------------------------------
(* The invariant *)

\* the null pointer and the tasks that the pool has handed out, in order
Known == 0..(next_pid - 2)

\* no pointer leads to a task that was not yet made, and someone runs when run_next_task
\* has chosen
PointersOK ==
  /\ {current, me, available_tasks, sleeping_tasks, waiting_tasks} \subseteq Known
  /\ next \in [Task -> Known] /\ prev \in [Task -> Known] /\ parent \in [Task -> Known]
  /\ stage \in {"run", "switch", "panic"} => current # NULL

\* every fork and execve takes one task and one pid
BirthOK ==
  /\ next_pid \in 4..(N + 2)
  /\ pc \in [Task -> {"unborn", "user", "slept", "wait4", "exit", "exec"}]
  /\ \A t \in Task : pc[t] = "unborn" <=> t \notin Known
  /\ pc[Idle] = "user"
  /\ pid \in [Task -> 0..(next_pid - 1)]

DataOK ==
  /\ runnable \in [Task -> BOOLEAN] /\ waiting \in [Task -> BOOLEAN]
  /\ wait_pid \in [Task -> -1..(next_pid - 1)]
  /\ sleep_time \in [Task -> 0..(MaxMs + MaxSleep)]
  /\ num_children \in [Task -> Int]
  /\ rax \in [Task -> -1..(next_pid - 1)]
  /\ stage \in {"run", "pick", "search", "switch", "panic"}
  /\ ms \in 0..MaxMs

IInv == PointersOK /\ BirthOK /\ DataOK /\ UniquePid

\* no program waits for its children
NoWaits == Calls \cap {"wait", "waitpid"} = {}

\* what it takes for NoSleeperRuns besides: the waiting list, whose search does not look
\* at sleep_time, is empty, and who was chosen may run
SleepInv ==
  /\ waiting_tasks = NULL
  /\ sleep_time[Idle] = 0
  /\ stage = "switch" => sleep_time[current] <= ms
  /\ NoSleeperRuns

\* Where pointers lead
LEMMA KnownIs ==
  ASSUME IInv
  PROVE  /\ Pointers(Known) /\ \A t \in Known : t # NULL => t \in Task
         /\ next_pid \in Nat /\ next_pid - 2 \in 2..N /\ N \in Nat
         /\ Idle \in Known /\ Idle # NULL
  BY ScheduleAssumption DEF IInv, BirthOK, Known, Pointers, Task, NULL, Idle

\* The first task that was not yet made, and the pid that it or its parent gets
LEMMA NewTaskIs ==
  ASSUME IInv, NEW c, NewTask(c)
  PROVE  /\ c \in Task /\ c # Idle /\ c # NULL /\ c = next_pid - 1 /\ next_pid \in 4..(N + 1)
         /\ c \notin Known /\ pc[c] = "unborn"
<1>1. c \in Task /\ pc[c] = "unborn" /\ c \notin Known
  BY Zenon DEF NewTask, IInv, BirthOK
<1>2. next_pid \in 4..(N + 2) /\ N \in Nat /\ c \in 1..N
  BY <1>1, ScheduleAssumption, Zenon DEF IInv, BirthOK, Task
<1>3. c >= next_pid - 1
  BY <1>1, <1>2 DEF Known
<1>4. next_pid - 1 \in Task /\ next_pid - 1 \notin Known
  BY <1>2, <1>3 DEF Task, Known
<1>5. pc[next_pid - 1] = "unborn"
  BY <1>4, Zenon DEF IInv, BirthOK
<1>6. ~ (next_pid - 1 < c)
  BY <1>4, <1>5, Zenon DEF NewTask
<1>7. c = next_pid - 1
  BY <1>2, <1>3, <1>6
<1> QED  BY <1>1, <1>2, <1>7 DEF Idle, NULL

\* The invariant contains the types
LEMMA InvTypes == IInv => TypeOK
<1> SUFFICES ASSUME IInv PROVE TypeOK
  BY Zenon
<1>1. Known \subseteq Task \cup {NULL}
  BY KnownIs, Zenon DEF Pointers
<1>2. next_pid \in 4..(N + 2) /\ N \in Nat
  BY KnownIs, Zenon DEF IInv, BirthOK
<1>3. /\ current \in Task \cup {NULL} /\ me \in Task \cup {NULL}
      /\ {available_tasks, sleeping_tasks, waiting_tasks} \subseteq Task \cup {NULL}
  BY <1>1, Zenon DEF IInv, PointersOK
<1>4. next \in [Task -> Task \cup {NULL}] /\ prev \in [Task -> Task \cup {NULL}] /\ parent \in [Task -> Task \cup {NULL}]
  BY <1>1, Zenon DEF IInv, PointersOK
<1>5. 0..(next_pid - 1) \subseteq 0..(N + 1) /\ -1..(next_pid - 1) \subseteq -1..(N + 1)
  BY <1>2
<1>6. wait_pid \in [Task -> -1..(N + 1)] /\ pid \in [Task -> 0..(N + 1)] /\ rax \in [Task -> -1..(N + 1)]
  BY <1>5, Zenon DEF IInv, BirthOK, DataOK
<1>7. runnable \in [Task -> BOOLEAN] /\ waiting \in [Task -> BOOLEAN]
  BY Zenon DEF IInv, DataOK
<1> QED  BY <1>2, <1>3, <1>4, <1>6, <1>7, Zenon DEF IInv, BirthOK, DataOK, TypeOK

\* It holds when the first process has been made
LEMMA InitInv == Init => IInv
<1> SUFFICES ASSUME Init PROVE IInv
  BY Zenon
<1>1. N \in Nat /\ N >= 2 /\ next_pid = 4 /\ Known = 0..2 /\ Task = 1..N
  BY ScheduleAssumption DEF Init, Known, Task
<1>2. PointersOK
  BY <1>1 DEF Init, PointersOK, NULL, Shell
<1>3. pid = [t \in Task |-> IF t = Shell THEN 3 ELSE 0]
  BY Zenon DEF Init
<1>4. BirthOK
  BY <1>1, <1>3 DEF Init, BirthOK, Idle, Shell
<1>5. runnable \in [Task -> BOOLEAN] /\ waiting \in [Task -> BOOLEAN]
  BY Zenon DEF Init
<1>6. rax \in [Task -> -1..3]
  BY <1>1, <1>3 DEF Init, Idle, Shell
<1>7. DataOK
  <2>1. /\ wait_pid \in [Task -> -1..(next_pid - 1)] /\ sleep_time \in [Task -> 0..(MaxMs + MaxSleep)]
        /\ num_children \in [Task -> Int] /\ ms \in 0..MaxMs
    BY <1>1, ScheduleAssumption DEF Init
  <2> QED  BY <1>1, <1>5, <1>6, <2>1 DEF Init, DataOK
<1>8. UniquePid
  BY <1>1, <1>3 DEF Init, UniquePid, Idle, Shell
<1> QED  BY <1>2, <1>4, <1>7, <1>8, Zenon DEF IInv

\* Who runs has been made
LEMMA CurrentIs ==
  ASSUME IInv, stage \in {"run", "switch", "panic"}
  PROVE  current \in Known /\ current \in Task /\ current # NULL /\ pc[current] # "unborn"
  BY KnownIs, Zenon DEF IInv, PointersOK, BirthOK

\* A step that moves the running task in its program keeps births and pids
LEMMA PlaceKept ==
  ASSUME IInv, stage \in {"run", "switch"}, next_pid' = next_pid, pid' = pid,
         NEW v \in {"user", "slept", "wait4", "exit", "exec"},
         v = "exec" \/ pc[current] # "exec",
         current = Idle => v = "user",
         pc' = [pc EXCEPT ![current] = v]
  PROVE  BirthOK' /\ UniquePid'
<1>1. current \in Task /\ pc[current] # "unborn" /\ current \in Known
  BY CurrentIs, Zenon
<1>2. pc \in [Task -> {"unborn", "user", "slept", "wait4", "exit", "exec"}] /\ Idle \in Task
  BY KnownIs, Zenon DEF IInv, BirthOK
<1>3. \A t \in Task : pc'[t] = IF t = current THEN v ELSE pc[t]
  BY <1>2, Zenon
<1>4. pc' \in [Task -> {"unborn", "user", "slept", "wait4", "exit", "exec"}]
  BY <1>2, Zenon
<1>5. Known' = Known
  BY Zenon DEF Known
<1>6. \A t \in Task : pc'[t] = "unborn" <=> t \notin Known
  BY <1>1, <1>3, Zenon DEF IInv, BirthOK
<1>7. pc'[Idle] = "user"
  BY <1>2, <1>3, Zenon DEF IInv, BirthOK
<1>8. BirthOK'
  BY <1>4, <1>5, <1>6, <1>7, Zenon DEF IInv, BirthOK
<1>9. \A t \in Task : pc'[t] \notin {"unborn", "exec"} => pc[t] \notin {"unborn", "exec"}
  BY <1>1, <1>3, Zenon
<1>10. UniquePid'
  BY <1>9, Zenon DEF IInv, UniquePid
<1> QED  BY <1>8, <1>10, Zenon

\* The same for steps that leave everyone in place
LEMMA PlacesKept ==
  ASSUME IInv, UNCHANGED <<next_pid, pid, pc>> PROVE BirthOK' /\ UniquePid'
  BY Zenon DEF IInv, BirthOK, UniquePid, Known

-----------------------------------------------------------------------------
(* The steps *)

\* A tick and a yield
LEMMA QuietSteps ==
  ASSUME IInv, Tick \/ SysYield PROVE IInv'
<1>1. CASE Tick
  <2>1. UNCHANGED <<current, available_tasks, sleeping_tasks, waiting_tasks, next, prev, wait_pid, num_children,
                    parent, pid, runnable, waiting, sleep_time, rax, pc, stage, me, next_pid>>
    BY <1>1, Zenon DEF Tick, lists, family, state
  <2>2. ms' \in 0..MaxMs
    BY <1>1, ScheduleAssumption DEF Tick, IInv, DataOK
  <2>3. BirthOK' /\ UniquePid'
    BY <2>1, PlacesKept, Zenon
  <2>4. PointersOK'
    BY <2>1, Zenon DEF IInv, PointersOK, Known
  <2>5. DataOK'
    BY <2>1, <2>2, Zenon DEF IInv, DataOK
  <2> QED  BY <2>3, <2>4, <2>5, Zenon DEF IInv
<1>2. CASE SysYield
  <2>1. UNCHANGED <<current, available_tasks, sleeping_tasks, waiting_tasks, next, prev, wait_pid, num_children,
                    parent, pid, runnable, waiting, sleep_time, rax, me, ms, next_pid>>
    BY <1>2, Zenon DEF SysYield, lists, family, state
  <2>2. stage = "run" /\ stage' = "pick" /\ pc' = [pc EXCEPT ![current] = "user"]
    BY <1>2, Zenon DEF SysYield
  <2>3. pc[current] # "exec"
    BY <1>2, Zenon DEF SysYield, Calling, IInv, BirthOK
  <2>4. BirthOK' /\ UniquePid'
    BY <2>1, <2>2, <2>3, PlaceKept, Zenon
  <2>5. PointersOK'
    BY <2>1, <2>2, Zenon DEF IInv, PointersOK, Known
  <2>6. DataOK'
    BY <2>1, <2>2, Zenon DEF IInv, DataOK
  <2> QED  BY <2>4, <2>5, <2>6, Zenon DEF IInv
<1> QED  BY <1>1, <1>2, Zenon

\* sys_sleep
LEMMA SleepStep == ASSUME IInv, NEW m \in 0..MaxSleep, SysSleep(m) PROVE IInv'
<1> DEFINE l == AddTail(sleeping_tasks, current, next, prev)
<1>1. /\ stage = "run" /\ current # Idle /\ pc[current] = "user" /\ pc' = [pc EXCEPT ![current] = "slept"]
      /\ sleep_time' = [sleep_time EXCEPT ![current] = ms + m]
      /\ sleeping_tasks' = l.head /\ next' = l.next /\ prev' = l.prev
      /\ UNCHANGED <<current, available_tasks, waiting_tasks, wait_pid, num_children, parent, pid, runnable,
                     waiting, rax, stage, me, ms, next_pid>>
  BY Zenon DEF SysSleep, Calling, WakeTime, family
<1>2. current \in Known /\ current # NULL
  BY <1>1, CurrentIs, Zenon
<1>3. l.head \in Known /\ l.next \in [Task -> Known] /\ l.prev \in [Task -> Known]
  BY <1>2, KnownIs, AddTailKnown, Zenon DEF IInv, PointersOK
<1> HIDE DEF l
<1>4. PointersOK'
  BY <1>1, <1>3, Zenon DEF IInv, PointersOK, Known
<1>5. BirthOK' /\ UniquePid'
  BY <1>1, PlaceKept, Zenon
<1>6. ms + m \in 0..(MaxMs + MaxSleep)
  BY ScheduleAssumption DEF IInv, DataOK
<1>7. DataOK'
  BY <1>1, <1>6, Zenon DEF IInv, DataOK
<1> QED  BY <1>4, <1>5, <1>7, Zenon DEF IInv

\* sys_wait4
LEMMA WaitStep == ASSUME IInv, NEW p \in {-1} \cup 3..(next_pid - 1), SysWait4(p) PROVE IInv'
<1> DEFINE l == AddTail(waiting_tasks, current, next, prev)
<1>1. /\ stage = "run" /\ current # Idle /\ pc[current] = "user" /\ pc' = [pc EXCEPT ![current] = "wait4"]
      /\ waiting' = [waiting EXCEPT ![current] = TRUE] /\ wait_pid' = [wait_pid EXCEPT ![current] = p]
      /\ waiting_tasks' = l.head /\ next' = l.next /\ prev' = l.prev /\ stage' = "pick"
      /\ UNCHANGED <<current, available_tasks, sleeping_tasks, num_children, parent, pid, runnable,
                     sleep_time, rax, me, ms, next_pid>>
  BY Zenon DEF SysWait4, Calling
<1>2. current \in Known /\ current # NULL
  BY <1>1, CurrentIs, Zenon
<1>3. l.head \in Known /\ l.next \in [Task -> Known] /\ l.prev \in [Task -> Known]
  BY <1>2, KnownIs, AddTailKnown, Zenon DEF IInv, PointersOK
<1> HIDE DEF l
<1>4. PointersOK'
  BY <1>1, <1>3, Zenon DEF IInv, PointersOK, Known
<1>5. BirthOK' /\ UniquePid'
  BY <1>1, PlaceKept, Zenon
<1>6. p \in -1..(next_pid - 1)
  BY KnownIs
<1>7. waiting' \in [Task -> BOOLEAN]
  BY <1>1, Zenon DEF IInv, DataOK
<1>8. DataOK'
  BY <1>1, <1>6, <1>7, Zenon DEF IInv, DataOK
<1> QED  BY <1>4, <1>5, <1>8, Zenon DEF IInv

\* sys_exit
LEMMA ExitStep == ASSUME IInv, SysExit PROVE IInv'
<1>1. /\ stage = "run" /\ current # Idle /\ pc[current] = "user" /\ pc' = [pc EXCEPT ![current] = "exit"]
      /\ stage' = "pick" /\ runnable' = [runnable EXCEPT ![current] = FALSE]
      /\ waiting' \in {[waiting EXCEPT ![parent[current]] = FALSE], waiting}
      /\ rax' \in {[rax EXCEPT ![parent[current]] = pid[current]], rax}
      /\ num_children' \in {[num_children EXCEPT ![parent[current]] = @ - 1], num_children}
      /\ UNCHANGED <<current, available_tasks, sleeping_tasks, waiting_tasks, next, prev, wait_pid, parent, pid,
                     sleep_time, me, ms, next_pid>>
  BY Zenon DEF SysExit, Calling, lists
<1>2. current \in Task
  BY <1>1, CurrentIs, Zenon
<1>3. PointersOK'
  BY <1>1, Zenon DEF IInv, PointersOK, Known
<1>4. BirthOK' /\ UniquePid'
  BY <1>1, PlaceKept, Zenon
<1>5. runnable' \in [Task -> BOOLEAN] /\ waiting' \in [Task -> BOOLEAN]
  BY <1>1, Zenon DEF IInv, DataOK
<1>6. pid[current] \in -1..(next_pid - 1)
  BY <1>2, KnownIs DEF IInv, BirthOK
<1>7. rax' \in [Task -> -1..(next_pid - 1)] /\ num_children' \in [Task -> Int]
  BY <1>1, <1>6 DEF IInv, DataOK
<1>8. DataOK'
  BY <1>1, <1>5, <1>7, Zenon DEF IInv, DataOK
<1> QED  BY <1>3, <1>4, <1>8, Zenon DEF IInv

\* The first loop of get_next_task
LEMMA SearchSleepingStep == ASSUME IInv, SearchSleeping PROVE IInv'
<1> DEFINE t == First(sleeping_tasks, next, Awake)
<1>1. /\ stage = "pick"
      /\ UNCHANGED <<wait_pid, num_children, parent, pid, runnable, waiting, sleep_time, rax, pc, ms, next_pid>>
  BY Zenon DEF SearchSleeping, family, state
<1>2. BirthOK' /\ UniquePid'
  BY <1>1, PlacesKept, Zenon
<1>3. t \in Known
  BY KnownIs, FirstKnown, Zenon DEF IInv, PointersOK
<1>4. CASE t = NULL
  <2>1. stage' = "search" /\ UNCHANGED <<current, available_tasks, sleeping_tasks, waiting_tasks, next, prev, me>>
    BY <1>4, Zenon DEF SearchSleeping, lists
  <2> HIDE DEF t
  <2>2. PointersOK' /\ DataOK'
    BY <1>1, <2>1, Zenon DEF IInv, PointersOK, DataOK, Known
  <2> QED  BY <1>2, <2>2, Zenon DEF IInv
<1>5. CASE t # NULL
  <2>1. stage' = "switch" /\ me' = current /\ PickSleeper(t)
    BY <1>5, Zenon DEF SearchSleeping
  <2> HIDE DEF t
  <2>2. t \in Task
    BY <1>3, <1>5, KnownIs, Zenon
  <2>3. Unlink(t).next \in [Task -> Known] /\ Unlink(t).prev \in [Task -> Known]
    BY <2>2, KnownIs, UnlinkKnown, Zenon DEF IInv, PointersOK
  <2>4. PointersOK'
    BY <1>1, <1>3, <1>5, <2>1, <2>2, <2>3, Zenon DEF IInv, PointersOK, PickSleeper, Known
  <2>5. DataOK'
    BY <1>1, <2>1, Zenon DEF IInv, DataOK
  <2> QED  BY <1>2, <2>4, <2>5, Zenon DEF IInv
<1> QED  BY <1>4, <1>5, Zenon

\* The waiting list and the available list
LEMMA SearchOthersStep == ASSUME IInv, SearchOthers PROVE IInv'
<1> DEFINE w == First(waiting_tasks, next, DoneWaiting)
           a == First(available_tasks, next, Eligible)
<1>1. /\ stage = "search" /\ stage' = "switch" /\ me' = current
      /\ UNCHANGED <<wait_pid, num_children, parent, pid, runnable, waiting, sleep_time, rax, pc, ms, next_pid>>
      /\ PickWaiter(w) \/ PickAvailable(a)
  BY Zenon DEF SearchOthers, family, state
<1>2. BirthOK' /\ UniquePid'
  BY <1>1, PlacesKept, Zenon
<1>3. w \in Known /\ a \in Known
  BY KnownIs, FirstKnown, Zenon DEF IInv, PointersOK
<1> HIDE DEF w, a
<1>4. DataOK'
  BY <1>1, Zenon DEF IInv, DataOK
<1>5. CASE PickWaiter(w)
  <2>2. w \in Task /\ w # NULL
    BY <1>3, <1>5, KnownIs, Zenon DEF PickWaiter
  <2>3. Unlink(w).next \in [Task -> Known] /\ Unlink(w).prev \in [Task -> Known]
    BY <2>2, KnownIs, UnlinkKnown, Zenon DEF IInv, PointersOK
  <2>4. PointersOK'
    BY <1>1, <1>3, <1>5, <2>2, <2>3, Zenon DEF IInv, PointersOK, PickWaiter, Known
  <2> QED  BY <1>2, <1>4, <2>4, Zenon DEF IInv
<1>6. CASE PickAvailable(a)
  <2>1. next[a] \in Known \/ a = NULL
    BY <1>3, KnownIs, Zenon DEF IInv, PointersOK
  <2>2. Idle \in Known /\ Idle # NULL /\ NULL \in Known
    BY KnownIs, Zenon DEF Pointers
  <2>3. PointersOK'
    BY <1>1, <1>3, <1>6, <2>1, <2>2, Zenon DEF IInv, PointersOK, PickAvailable, Known
  <2> QED  BY <1>2, <1>4, <2>3, Zenon DEF IInv
<1> QED  BY <1>1, <1>5, <1>6, Zenon

\* switch_to
LEMMA SwitchStep == ASSUME IInv, SwitchTo PROVE IInv'
<1> DEFINE l == AddTail(available_tasks, me, next, prev)
           v == IF pc[current] = "exec" THEN "exec" ELSE "user"
<1>1. /\ stage = "switch" /\ stage' \in {"panic", "run"} /\ me' = NULL
      /\ UNCHANGED <<current, sleeping_tasks, waiting_tasks, wait_pid, num_children, parent, pid, runnable,
                     waiting, sleep_time, rax, ms, next_pid>>
      /\ \/ me # NULL /\ available_tasks' = l.head /\ next' = l.next /\ prev' = l.prev
         \/ UNCHANGED <<available_tasks, next, prev>>
  BY Zenon DEF SwitchTo, family, state
<1>2. pc' = [pc EXCEPT ![current] = v]
  BY Zenon DEF SwitchTo
<1>3. BirthOK' /\ UniquePid'
  <2>1. current = Idle => v = "user"
    BY Zenon DEF IInv, BirthOK
  <2>2. v \in {"user", "slept", "wait4", "exit", "exec"} /\ (v = "exec" \/ pc[current] # "exec")
    BY Zenon
  <2> HIDE DEF v
  <2> QED  BY <1>1, <1>2, <2>1, <2>2, PlaceKept, Zenon
<1>4. me # NULL => l.head \in Known /\ l.next \in [Task -> Known] /\ l.prev \in [Task -> Known]
  BY KnownIs, AddTailKnown, Zenon DEF IInv, PointersOK
<1> HIDE DEF l
<1>5. current # NULL /\ NULL \in Known
  BY <1>1, CurrentIs, KnownIs, Zenon DEF Pointers
<1>6. PointersOK'
  BY <1>1, <1>4, <1>5, Zenon DEF IInv, PointersOK, Known
<1>7. DataOK'
  BY <1>1, Zenon DEF IInv, DataOK
<1> QED  BY <1>3, <1>6, <1>7, Zenon DEF IInv

\* The new task is known from now on
LEMMA KnownGrows ==
  ASSUME IInv, NEW c, NewTask(c), GetNextPid
  PROVE  /\ Known' = Known \cup {c} /\ Pointers(Known')
         /\ next_pid' = next_pid + 1 /\ next_pid' \in 4..(N + 2)
         /\ 0..(next_pid - 1) \subseteq 0..(next_pid' - 1) /\ -1..(next_pid - 1) \subseteq -1..(next_pid' - 1)
         /\ next_pid \in 0..(next_pid' - 1) /\ next_pid \notin 0..(next_pid - 1)
<1>1. /\ c \in Task /\ c = next_pid - 1 /\ next_pid \in 4..(N + 1) /\ N \in Nat /\ c # NULL
      /\ next_pid' = next_pid + 1 /\ Pointers(Known)
  BY NewTaskIs, KnownIs, Zenon DEF GetNextPid
<1>2. Known' = Known \cup {c}
  BY <1>1 DEF Known
<1>3. Pointers(Known')
  BY <1>1, <1>2, Zenon DEF Pointers
<1> QED  BY <1>1, <1>2, <1>3

\* Births after fork and execve: the new task runs, the old one is where v says, and the
\* new one has a new pid or the old one's, which then has left its program
LEMMA BirthStep ==
  ASSUME IInv, stage = "run", NEW c, NewTask(c), GetNextPid, current # Idle, pc[current] = "user",
         NEW v \in {"user", "exec"}, pc' = [pc EXCEPT ![c] = "user", ![current] = v],
         pid' = [pid EXCEPT ![c] = IF v = "user" THEN next_pid ELSE pid[current]]
  PROVE  BirthOK' /\ UniquePid'
<1>1. c \in Task /\ c # Idle /\ c \notin Known /\ pc[c] = "unborn"
  BY NewTaskIs, Zenon
<1>2. current \in Task /\ current \in Known /\ current # c
  BY <1>1, CurrentIs, Zenon
<1>3. /\ Known' = Known \cup {c} /\ next_pid' \in 4..(N + 2)
      /\ 0..(next_pid - 1) \subseteq 0..(next_pid' - 1) /\ next_pid \in 0..(next_pid' - 1)
      /\ next_pid \notin 0..(next_pid - 1)
  BY KnownGrows, Zenon
<1>4. /\ pc \in [Task -> {"unborn", "user", "slept", "wait4", "exit", "exec"}]
      /\ pid \in [Task -> 0..(next_pid - 1)] /\ pc[Idle] = "user" /\ Idle \in Task
  BY KnownIs, Zenon DEF IInv, BirthOK
<1>5. /\ pc' \in [Task -> {"unborn", "user", "slept", "wait4", "exit", "exec"}]
      /\ \A t \in Task : pc'[t] = IF t = c THEN "user" ELSE IF t = current THEN v ELSE pc[t]
  BY <1>1, <1>2, <1>4, Zenon
<1> DEFINE q == IF v = "user" THEN next_pid ELSE pid[current]
<1>6. q \in 0..(next_pid' - 1)
  BY <1>2, <1>3, <1>4, Zenon
<1>7. \A t \in Task : pid'[t] = IF t = c THEN q ELSE pid[t]
  BY <1>4, Zenon
<1>8. pid' \in [Task -> 0..(next_pid' - 1)]
  <2>1. pid' = [pid EXCEPT ![c] = q]
    BY Zenon
  <2> HIDE DEF q
  <2> QED  BY <1>3, <1>4, <1>6, <2>1, Zenon
<1>9. \A t \in Task : pc'[t] = "unborn" <=> t \notin Known'
  BY <1>1, <1>2, <1>3, <1>5, Zenon DEF IInv, BirthOK
<1>10. BirthOK'
  BY <1>1, <1>3, <1>4, <1>5, <1>8, <1>9, Zenon DEF BirthOK
<1>11. ASSUME NEW t \in Task, t # c, pc'[t] \notin {"unborn", "exec"}
       PROVE  pc[t] \notin {"unborn", "exec"} /\ pid'[t] = pid[t] /\ pid[t] # q
  <2>1. pc[t] \notin {"unborn", "exec"} /\ pid'[t] = pid[t] /\ pid[t] \in 0..(next_pid - 1)
    BY <1>4, <1>5, <1>7, <1>11, Zenon
  <2>2. CASE v = "user"
    BY <1>3, <2>1, <2>2, Zenon
  <2>3. CASE v = "exec"
    <3>1. t # current
      BY <1>5, <1>11, <2>3, Zenon
    <3>2. pid[t] # pid[current]
      BY <1>2, <2>1, <3>1, Zenon DEF IInv, UniquePid
    <3> QED  BY <2>1, <2>3, <3>2, Zenon
  <2> QED  BY <2>1, <2>2, <2>3, Zenon
<1>12. pid'[c] = q
  BY <1>1, <1>7, Zenon
<1> HIDE DEF q
<1>13. UniquePid'
  <2> SUFFICES ASSUME NEW t \in Task, NEW u \in Task, pc'[t] \notin {"unborn", "exec"},
                      pc'[u] \notin {"unborn", "exec"}, pid'[t] = pid'[u]
               PROVE  t = u
    BY Zenon DEF UniquePid
  <2>1. CASE t # c /\ u # c
    BY <1>11, <2>1, Zenon DEF IInv, UniquePid
  <2>2. CASE t = c /\ u # c
    BY <1>11, <1>12, <2>2, Zenon
  <2>3. CASE t # c /\ u = c
    BY <1>11, <1>12, <2>3, Zenon
  <2> QED  BY <2>1, <2>2, <2>3, Zenon
<1> QED  BY <1>10, <1>13, Zenon

\* sys_fork
LEMMA ForkStep == ASSUME IInv, NEW c \in Task, SysFork(c) PROVE IInv'
<1> DEFINE nx == [next EXCEPT ![c] = next[current]]
           pv == [prev EXCEPT ![c] = prev[current]]
           l == IF Reschedulable(current)
                THEN AddTail(available_tasks, c, nx, pv)
                ELSE [head |-> available_tasks, next |-> nx, prev |-> pv]
<1>1. /\ stage = "run" /\ current # Idle /\ pc[current] = "user" /\ NewTask(c) /\ GetNextPid
      /\ runnable' = [runnable EXCEPT ![c] = TRUE] /\ waiting' = [waiting EXCEPT ![c] = waiting[current]]
      /\ sleep_time' = [sleep_time EXCEPT ![c] = sleep_time[current]]
      /\ wait_pid' = [wait_pid EXCEPT ![c] = wait_pid[current]]
      /\ parent' = [parent EXCEPT ![c] = current] /\ pid' = [pid EXCEPT ![c] = next_pid]
      /\ rax' = [rax EXCEPT ![c] = 0] /\ pc' = [pc EXCEPT ![c] = "user"]
      /\ UNCHANGED <<current, sleeping_tasks, waiting_tasks, stage, me, ms>>
  BY Zenon DEF SysFork, Calling
<1>2. num_children' = [num_children EXCEPT ![c] = num_children[current], ![current] = @ + 1]
  BY Zenon DEF SysFork
<1>3. available_tasks' = l.head /\ next' = l.next /\ prev' = l.prev
  BY Zenon DEF SysFork
<1>4. c \in Task /\ c # NULL /\ c \notin Known
  BY <1>1, NewTaskIs, Zenon
<1>5. current \in Task /\ current \in Known /\ current # NULL
  BY <1>1, CurrentIs, Zenon
<1>6. /\ Known' = Known \cup {c} /\ Pointers(Known') /\ next_pid' = next_pid + 1
      /\ -1..(next_pid - 1) \subseteq -1..(next_pid' - 1) /\ next_pid \in 0..(next_pid' - 1)
  BY <1>1, KnownGrows, Zenon
<1>7. BirthOK' /\ UniquePid'
  <2>1. pc' = [pc EXCEPT ![c] = "user", ![current] = "user"]
    BY <1>1, <1>4, <1>5, Zenon DEF IInv, BirthOK
  <2> QED  BY <1>1, <2>1, BirthStep, Zenon
<1>8. l.head \in Known' /\ l.next \in [Task -> Known'] /\ l.prev \in [Task -> Known']
  <2>1. nx \in [Task -> Known'] /\ pv \in [Task -> Known'] /\ available_tasks \in Known' /\ c \in Known'
    BY <1>4, <1>5, <1>6, Zenon DEF IInv, PointersOK
  <2> HIDE DEF nx, pv
  <2>2. CASE Reschedulable(current)
    BY <1>4, <1>6, <2>1, <2>2, AddTailKnown, Zenon
  <2>3. CASE ~ Reschedulable(current)
    BY <2>1, <2>3, Zenon
  <2> QED  BY <2>2, <2>3, Zenon
<1> HIDE DEF l
<1>9. PointersOK'
  <2>1. parent' \in [Task -> Known']
    BY <1>1, <1>5, <1>6, Zenon DEF IInv, PointersOK
  <2>2. {current', me', available_tasks', sleeping_tasks', waiting_tasks'} \subseteq Known'
    BY <1>1, <1>3, <1>6, <1>8, Zenon DEF IInv, PointersOK
  <2> QED  BY <1>1, <1>3, <1>5, <1>8, <2>1, <2>2, Zenon DEF PointersOK
<1>10. runnable' \in [Task -> BOOLEAN] /\ waiting' \in [Task -> BOOLEAN]
  BY <1>1, <1>5, Zenon DEF IInv, DataOK
<1>11. wait_pid' \in [Task -> -1..(next_pid' - 1)] /\ rax' \in [Task -> -1..(next_pid' - 1)]
  BY <1>1, <1>5, <1>6, KnownIs DEF IInv, DataOK
<1>12. sleep_time' \in [Task -> 0..(MaxMs + MaxSleep)]
  BY <1>1, <1>5, Zenon DEF IInv, DataOK
<1>13. num_children' \in [Task -> Int]
  BY <1>2, <1>4, <1>5 DEF IInv, DataOK
<1>14. DataOK'
  BY <1>1, <1>10, <1>11, <1>12, <1>13, Zenon DEF IInv, DataOK
<1> QED  BY <1>7, <1>9, <1>14, Zenon DEF IInv

\* sys_execve
LEMMA ExecStep == ASSUME IInv, NEW c \in Task, SysExecve(c) PROVE IInv'
<1> DEFINE l == AddTail(available_tasks, c, next, prev)
           nx == IF l.prev[current] # NULL THEN [l.next EXCEPT ![l.prev[current]] = c] ELSE l.next
<1>1. /\ stage = "run" /\ current # Idle /\ pc[current] = "user" /\ NewTask(c) /\ GetNextPid /\ stage' = "pick"
      /\ runnable' = [runnable EXCEPT ![c] = TRUE]
      /\ parent' = [parent EXCEPT ![c] = parent[current], ![current] = NULL]
      /\ pid' = [pid EXCEPT ![c] = pid[current]] /\ rax' = [rax EXCEPT ![c] = next_pid]
      /\ pc' = [pc EXCEPT ![c] = "user", ![current] = "exec"]
      /\ UNCHANGED <<current, sleeping_tasks, waiting_tasks, wait_pid, num_children, waiting, sleep_time, me, ms>>
  BY Zenon DEF SysExecve, Calling
<1>3. /\ available_tasks' = l.head
      /\ next' = [nx EXCEPT ![c] = l.next[current], ![current] = NULL]
      /\ prev' = [l.prev EXCEPT ![current] = NULL]
  BY Zenon DEF SysExecve
<1>4. c \in Task /\ c # NULL /\ c \notin Known
  BY <1>1, NewTaskIs, Zenon
<1>5. current \in Task /\ current \in Known /\ current # NULL
  BY <1>1, CurrentIs, Zenon
<1>6. /\ Known' = Known \cup {c} /\ Pointers(Known') /\ next_pid' = next_pid + 1 /\ NULL \in Known'
      /\ -1..(next_pid - 1) \subseteq -1..(next_pid' - 1) /\ next_pid \in 0..(next_pid' - 1)
  BY <1>1, KnownGrows, Zenon DEF Pointers
<1>7. BirthOK' /\ UniquePid'
  BY <1>1, BirthStep, Zenon
<1>8. l.head \in Known' /\ l.next \in [Task -> Known'] /\ l.prev \in [Task -> Known']
  <2>1. next \in [Task -> Known'] /\ prev \in [Task -> Known'] /\ available_tasks \in Known' /\ c \in Known'
    BY <1>6, Zenon DEF IInv, PointersOK
  <2> QED  BY <1>4, <1>6, <2>1, AddTailKnown, Zenon
<1> HIDE DEF l
<1>9. nx \in [Task -> Known']
  BY <1>4, <1>6, <1>8, Zenon
<1> HIDE DEF nx
<1>10. next' \in [Task -> Known'] /\ prev' \in [Task -> Known']
  BY <1>3, <1>5, <1>6, <1>8, <1>9, Zenon
<1>11. PointersOK'
  <2>1. parent' \in [Task -> Known']
    BY <1>1, <1>5, <1>6, Zenon DEF IInv, PointersOK
  <2>2. {current', me', available_tasks', sleeping_tasks', waiting_tasks'} \subseteq Known'
    BY <1>1, <1>3, <1>6, <1>8, Zenon DEF IInv, PointersOK
  <2> QED  BY <1>1, <1>10, <2>1, <2>2, Zenon DEF PointersOK
<1>12. runnable' \in [Task -> BOOLEAN]
  BY <1>1, Zenon DEF IInv, DataOK
<1>13. wait_pid' \in [Task -> -1..(next_pid' - 1)] /\ rax' \in [Task -> -1..(next_pid' - 1)]
  BY <1>1, <1>5, <1>6, KnownIs DEF IInv, DataOK
<1>14. DataOK'
  BY <1>1, <1>12, <1>13, Zenon DEF IInv, DataOK
<1> QED  BY <1>7, <1>11, <1>14, Zenon DEF IInv

\* Every step of the programs and of the scheduler keeps the invariant
LEMMA InvNext == IInv /\ [Next]_vars => IInv'
<1> SUFFICES ASSUME IInv, [Next]_vars PROVE IInv'
  BY Zenon
<1>1. CASE Next
  BY <1>1, QuietSteps, SleepStep, WaitStep, ForkStep, ExitStep, ExecStep, SearchSleepingStep, SearchOthersStep,
     SwitchStep, Zenon DEF Next, GetNextTask
<1>2. CASE UNCHANGED vars
  <2>1. UNCHANGED <<current, available_tasks, sleeping_tasks, waiting_tasks, next, prev, wait_pid, num_children,
                    parent, pid, runnable, waiting, sleep_time, rax, pc, stage, me, ms, next_pid>>
    BY <1>2, Zenon DEF vars, lists, family, state
  <2>2. BirthOK' /\ UniquePid'
    BY <2>1, PlacesKept, Zenon
  <2>3. PointersOK' /\ DataOK'
    BY <2>1, Zenon DEF IInv, PointersOK, DataOK, Known
  <2> QED  BY <2>2, <2>3, Zenon DEF IInv
<1> QED  BY <1>1, <1>2, Zenon

\* Without waits, nobody is chosen before its time and nobody who was chosen goes to sleep
LEMMA SleepNext == ASSUME NoWaits, IInv, SleepInv, [Next]_vars PROVE SleepInv'
<1>1. sleep_time \in [Task -> 0..(MaxMs + MaxSleep)] /\ ms \in 0..MaxMs /\ Idle \in Task /\ pc[Idle] = "user"
  BY KnownIs, Zenon DEF IInv, DataOK, BirthOK
<1>2. MaxMs \in Nat /\ MaxSleep \in Nat
  BY ScheduleAssumption, Zenon
<1>3. CASE Tick
  <2>1. ms' = ms + 1 /\ UNCHANGED <<current, waiting_tasks, sleep_time, pc, stage>>
    BY <1>3, Zenon DEF Tick, lists, state
  <2>2. stage = "switch" \/ stage = "run" => current \in Task
    BY CurrentIs, Zenon
  <2> QED  BY <1>1, <1>2, <2>1, <2>2 DEF SleepInv, NoSleeperRuns
<1>4. CASE SysYield
  <2>1. stage' = "pick" /\ UNCHANGED <<waiting_tasks, sleep_time>>
    BY <1>4, Zenon DEF SysYield, lists, state
  <2> QED  BY <2>1, Zenon DEF SleepInv, NoSleeperRuns
<1>5. ASSUME NEW m \in 0..MaxSleep, SysSleep(m) PROVE SleepInv'
  <2>1. /\ stage = "run" /\ stage' = "run" /\ current' = current /\ current # Idle
        /\ UNCHANGED <<waiting_tasks, ms>> /\ pc' = [pc EXCEPT ![current] = "slept"]
        /\ sleep_time' = [sleep_time EXCEPT ![current] = WakeTime(m)]
    BY <1>5, Zenon DEF SysSleep, Calling
  <2>2. current \in Task
    BY <2>1, CurrentIs, Zenon
  <2>3. pc'[current] = "slept"
    BY <2>1, <2>2, Zenon DEF IInv, BirthOK
  <2> QED  BY <1>1, <2>1, <2>3, Zenon DEF SleepInv, NoSleeperRuns
<1>6. ASSUME NEW p \in {-1} \cup 3..(next_pid - 1), SysWait4(p) PROVE FALSE
  BY <1>6, Zenon DEF SysWait4, Calling, NoWaits
<1>7. ASSUME NEW c \in Task, SysFork(c) PROVE SleepInv'
  <2>1. /\ stage = "run" /\ stage' = "run" /\ current' = current /\ pc[current] = "user" /\ NewTask(c)
        /\ UNCHANGED <<waiting_tasks, ms>> /\ sleep_time' = [sleep_time EXCEPT ![c] = sleep_time[current]]
    BY <1>7, Zenon DEF SysFork, Calling
  <2>2. c # Idle /\ c # current
    BY <2>1, NewTaskIs, CurrentIs, Zenon
  <2>3. current \in Task
    BY <2>1, CurrentIs, Zenon
  <2>4. sleep_time'[current] = sleep_time[current] /\ sleep_time'[Idle] = sleep_time[Idle]
    BY <1>1, <2>1, <2>2, <2>3, Zenon
  <2> QED  BY <2>1, <2>4, Zenon DEF SleepInv, NoSleeperRuns
<1>8. CASE SysExit
  <2>1. stage' = "pick" /\ UNCHANGED <<waiting_tasks, sleep_time>>
    BY <1>8, Zenon DEF SysExit, lists
  <2> QED  BY <2>1, Zenon DEF SleepInv, NoSleeperRuns
<1>9. ASSUME NEW c \in Task, SysExecve(c) PROVE SleepInv'
  <2>1. stage' = "pick" /\ UNCHANGED <<waiting_tasks, sleep_time>>
    BY <1>9, Zenon DEF SysExecve
  <2> QED  BY <2>1, Zenon DEF SleepInv, NoSleeperRuns
<1>10. CASE SearchSleeping
  <2> DEFINE t == First(sleeping_tasks, next, Awake)
  <2>1. t \in Awake \cup {NULL}
    BY KnownIs, FirstKnown, Zenon DEF IInv, PointersOK
  <2>2. UNCHANGED <<sleep_time, ms>>
    BY <1>10, Zenon DEF SearchSleeping, state
  <2>3. CASE t = NULL
    <3>1. stage' = "search" /\ UNCHANGED waiting_tasks
      BY <1>10, <2>3, Zenon DEF SearchSleeping, lists
    <3> QED  BY <2>2, <3>1, Zenon DEF SleepInv, NoSleeperRuns
  <2>4. CASE t # NULL
    <3>1. stage' = "switch" /\ current' = t /\ UNCHANGED waiting_tasks
      BY <1>10, <2>4, Zenon DEF SearchSleeping, PickSleeper
    <3>2. sleep_time[t] <= ms
      BY <2>1, <2>4, Zenon DEF Awake
    <3> HIDE DEF t
    <3> QED  BY <2>2, <3>1, <3>2, Zenon DEF SleepInv, NoSleeperRuns
  <2> QED  BY <2>3, <2>4, Zenon
<1>11. CASE SearchOthers
  <2> DEFINE a == First(available_tasks, next, Eligible)
  <2>1. First(waiting_tasks, next, DoneWaiting) = NULL
    <3>1. waiting_tasks = NULL /\ DoneWaiting \in SUBSET Task
      BY Zenon DEF SleepInv, DoneWaiting
    <3> QED  BY <3>1, FirstOfNone, Zenon
  <2>2. PickAvailable(a) /\ stage' = "switch" /\ UNCHANGED <<sleep_time, ms>>
    BY <1>11, <2>1, Zenon DEF SearchOthers, PickWaiter, state
  <2>3. a \in Eligible \cup {NULL}
    BY KnownIs, FirstKnown, Zenon DEF IInv, PointersOK
  <2>4. current' = Idle \/ (current' \in Eligible)
    BY <2>2, <2>3, Zenon DEF PickAvailable
  <2>5. sleep_time[current'] <= ms
    BY <1>1, <2>4 DEF Eligible, SleepInv
  <2>6. waiting_tasks' = waiting_tasks
    BY <2>2, Zenon DEF PickAvailable
  <2> HIDE DEF a
  <2> QED  BY <2>2, <2>5, <2>6, Zenon DEF SleepInv, NoSleeperRuns
<1>12. CASE SwitchTo
  <2>1. stage = "switch" /\ stage' # "switch" /\ UNCHANGED <<current, waiting_tasks, sleep_time, ms>>
    BY <1>12, Zenon DEF SwitchTo, state
  <2> QED  BY <2>1, Zenon DEF SleepInv, NoSleeperRuns
<1>13. CASE UNCHANGED vars
  BY <1>13, Zenon DEF vars, lists, state, SleepInv, NoSleeperRuns
<1> QED  BY <1>3, <1>4, <1>5, <1>6, <1>7, <1>8, <1>9, <1>10, <1>11, <1>12, <1>13, Zenon DEF Next, GetNextTask

\* no program sleeps
NoSleeps == "sleep" \notin Calls

\* a task that has exited, and that the lists have brought back, executes no program
NoExecAfterExit == \A c \in Task : SysExecve(c) => runnable[current]

\* a child that t waited for has exited, and t knows which
Answered(t) ==
  /\ wait_pid[t] \in {-1, rax[t]}
  /\ \E c \in Task : parent[c] = t /\ pid[c] = rax[t] /\ Exited(c)

\* what it takes for WaitReturnsChild: the sleeping list, whose search does not look at the
\* flag waiting, is empty; who was chosen does not wait; and only an answer ends a wait
WaitInv ==
  /\ sleeping_tasks = NULL /\ ~ waiting[Idle]
  /\ stage = "switch" => ~ waiting[current]
  /\ \A t \in Task : pc[t] = "wait4" /\ ~ waiting[t] => Answered(t)

\* Who is chosen does not wait: the searches of the waiting list and of the available list
\* look at the flag, and nobody is on the sleeping list
LEMMA ChosenIsReady ==
  ASSUME IInv, sleeping_tasks = NULL, ~ waiting[Idle], GetNextTask
  PROVE  /\ sleeping_tasks' = NULL /\ stage \in {"pick", "search"} /\ stage' \in {"search", "switch"}
         /\ stage' = "switch" => ~ waiting[current']
         /\ UNCHANGED <<wait_pid, parent, pid, runnable, waiting, rax, pc>>
<1>1. CASE SearchSleeping
  <2>1. First(sleeping_tasks, next, Awake) = NULL
    <3>1. Awake \in SUBSET Task
      BY Zenon DEF Awake
    <3> QED  BY <3>1, FirstOfNone, Zenon
  <2> QED  BY <1>1, <2>1, Zenon DEF SearchSleeping, lists, family, state
<1>2. CASE SearchOthers
  <2> DEFINE w == First(waiting_tasks, next, DoneWaiting)
             a == First(available_tasks, next, Eligible)
  <2>1. /\ stage = "search" /\ stage' = "switch" /\ UNCHANGED <<wait_pid, parent, pid, runnable, waiting, rax, pc>>
        /\ PickWaiter(w) \/ PickAvailable(a)
    BY <1>2, Zenon DEF SearchOthers, family, state
  <2>2. w \in DoneWaiting \cup {NULL} /\ a \in Eligible \cup {NULL}
    BY KnownIs, FirstKnown, Zenon DEF IInv, PointersOK
  <2> HIDE DEF w, a
  <2>3. UNCHANGED sleeping_tasks
    BY <2>1, Zenon DEF PickWaiter, PickAvailable
  <2>4. current' = Idle \/ current' \in DoneWaiting
    BY <2>1, <2>2, Zenon DEF PickWaiter, PickAvailable, DoneWaiting, Eligible
  <2>5. ~ waiting[current']
    BY <2>4, Zenon DEF DoneWaiting
  <2> QED  BY <2>1, <2>3, <2>5, Zenon
<1> QED  BY <1>1, <1>2, Zenon DEF GetNextTask

\* An answer stays one
LEMMA AnswersKept ==
  ASSUME IInv, IInv', WaitInv, UNCHANGED <<waiting, rax, wait_pid, parent, pid, runnable>>,
         \A t \in Task : pc'[t] = "wait4" /\ ~ waiting[t] => pc[t] = "wait4",
         \A t \in Task : pc'[t] = "unborn" => pc[t] = "unborn"
  PROVE  \A t \in Task : pc'[t] = "wait4" /\ ~ waiting'[t] => Answered(t)'
<1> SUFFICES ASSUME NEW t \in Task, pc'[t] = "wait4", ~ waiting'[t] PROVE Answered(t)'
  BY Zenon
<1>1. Answered(t)
  BY Zenon DEF WaitInv
<1>2. PICK c \in Task : parent[c] = t /\ pid[c] = rax[t] /\ Exited(c)
  BY <1>1, Zenon DEF Answered
<1>3. Exited(c)'
  BY <1>2, Zenon DEF Exited
<1> QED  BY <1>1, <1>2, <1>3, Zenon DEF Answered

\* Without sleeps, every step keeps it
LEMMA WaitNext ==
  ASSUME NoSleeps, NoExecAfterExit, IInv, IInv', WaitInv, [Next]_vars PROVE WaitInv'
<1>1. /\ pc \in [Task -> {"unborn", "user", "slept", "wait4", "exit", "exec"}] /\ Idle \in Task /\ pc[Idle] = "user"
      /\ waiting \in [Task -> BOOLEAN] /\ runnable \in [Task -> BOOLEAN]
  BY KnownIs, Zenon DEF IInv, DataOK, BirthOK
<1>2. stage \in {"run", "switch"} => current \in Task /\ pc[current] # "unborn"
  BY CurrentIs, Zenon
<1>3. CASE Tick
  <2>1. UNCHANGED <<current, sleeping_tasks, wait_pid, parent, pid, runnable, waiting, rax, pc, stage>>
    BY <1>3, Zenon DEF Tick, lists, family, state
  <2> QED  BY <2>1, AnswersKept, Zenon DEF WaitInv
<1>4. CASE SysYield
  <2>1. /\ stage = "run" /\ stage' = "pick" /\ pc' = [pc EXCEPT ![current] = "user"]
        /\ UNCHANGED <<sleeping_tasks, wait_pid, parent, pid, runnable, waiting, rax>>
    BY <1>4, Zenon DEF SysYield, lists, family, state
  <2>2. \A t \in Task : pc'[t] = IF t = current THEN "user" ELSE pc[t]
    BY <1>1, <2>1, Zenon
  <2> QED  BY <2>1, <2>2, AnswersKept DEF WaitInv
<1>5. ASSUME NEW m \in 0..MaxSleep, SysSleep(m) PROVE FALSE
  BY <1>5, Zenon DEF SysSleep, Calling, NoSleeps
<1>6. ASSUME NEW p \in {-1} \cup 3..(next_pid - 1), SysWait4(p) PROVE WaitInv'
  <2>1. /\ stage = "run" /\ stage' = "pick" /\ current # Idle /\ pc' = [pc EXCEPT ![current] = "wait4"]
        /\ waiting' = [waiting EXCEPT ![current] = TRUE] /\ wait_pid' = [wait_pid EXCEPT ![current] = p]
        /\ UNCHANGED <<sleeping_tasks, parent, pid, runnable, rax>>
    BY <1>6, Zenon DEF SysWait4, Calling
  <2>2. ASSUME NEW t \in Task, pc'[t] = "wait4", ~ waiting'[t] PROVE Answered(t)'
    <3>1. t # current
      BY <1>1, <2>1, <2>2, Zenon
    <3>2. pc[t] = "wait4" /\ ~ waiting[t] /\ wait_pid'[t] = wait_pid[t]
      BY <1>1, <2>1, <2>2, <3>1, Zenon DEF IInv, DataOK
    <3>3. Answered(t)
      BY <3>2, Zenon DEF WaitInv
    <3>4. \A c \in Task : Exited(c) => Exited(c)'
      BY <1>1, <2>1, Zenon DEF Exited
    <3> QED  BY <2>1, <3>2, <3>3, <3>4, Zenon DEF Answered
  <2>3. waiting'[Idle] = waiting[Idle]
    BY <1>1, <2>1, Zenon
  <2> QED  BY <2>1, <2>2, <2>3, Zenon DEF WaitInv
<1>7. ASSUME NEW c \in Task, SysFork(c) PROVE WaitInv'
  <2>1. /\ stage = "run" /\ stage' = "run" /\ NewTask(c) /\ pc' = [pc EXCEPT ![c] = "user"]
        /\ waiting' = [waiting EXCEPT ![c] = waiting[current]] /\ wait_pid' = [wait_pid EXCEPT ![c] = wait_pid[current]]
        /\ parent' = [parent EXCEPT ![c] = current] /\ pid' = [pid EXCEPT ![c] = next_pid]
        /\ rax' = [rax EXCEPT ![c] = 0] /\ runnable' = [runnable EXCEPT ![c] = TRUE] /\ UNCHANGED sleeping_tasks
    BY <1>7, Zenon DEF SysFork, Calling
  <2>2. ASSUME NEW t \in Task, t # c
        PROVE  /\ pc'[t] = pc[t] /\ waiting'[t] = waiting[t] /\ wait_pid'[t] = wait_pid[t]
               /\ parent'[t] = parent[t] /\ pid'[t] = pid[t] /\ rax'[t] = rax[t] /\ runnable'[t] = runnable[t]
    BY <2>1, <2>2 DEF IInv, DataOK, BirthOK, PointersOK
  <2>3. pc'[c] = "user" /\ pc[c] = "unborn"
    BY <1>1, <2>1, NewTaskIs, Zenon
  <2>4. ASSUME NEW t \in Task, pc'[t] = "wait4", ~ waiting'[t] PROVE Answered(t)'
    <3>1. t # c
      BY <2>3, <2>4, Zenon
    <3>2. Answered(t)
      BY <2>2, <2>4, <3>1, Zenon DEF WaitInv
    <3>3. PICK d \in Task : parent[d] = t /\ pid[d] = rax[t] /\ Exited(d)
      BY <3>2, Zenon DEF Answered
    <3>4. d # c
      BY <2>3, <3>3, Zenon DEF Exited
    <3> QED  BY <2>2, <3>1, <3>2, <3>3, <3>4, Zenon DEF Answered, Exited
  <2>5. waiting'[Idle] = waiting[Idle]
    BY <1>1, <2>2, <2>3, Zenon
  <2> QED  BY <2>1, <2>4, <2>5, Zenon DEF WaitInv
<1>8. CASE SysExit
  <2> DEFINE p == parent[current]
  <2>1. /\ stage = "run" /\ stage' = "pick" /\ current # Idle /\ pc' = [pc EXCEPT ![current] = "exit"]
        /\ runnable' = [runnable EXCEPT ![current] = FALSE]
        /\ IF Awaits(p) THEN waiting' = [waiting EXCEPT ![p] = FALSE] /\ rax' = [rax EXCEPT ![p] = pid[current]]
                        ELSE UNCHANGED <<waiting, rax>>
        /\ UNCHANGED <<current, sleeping_tasks, wait_pid, parent, pid>>
    BY <1>8, Zenon DEF SysExit, Calling, lists
  <2>2. current \in Task /\ pc[current] # "unborn"
    BY <1>2, <2>1, Zenon
  <2>3. \A t \in Task : /\ pc'[t] = IF t = current THEN "exit" ELSE pc[t]
                        /\ runnable'[t] => runnable[t]
    BY <1>1, <2>1, Zenon
  <2>6. ~ runnable'[current]
    BY <1>1, <2>1, <2>2, Zenon
  <2>4. (\A c \in Task : Exited(c) => Exited(c)') /\ Exited(current)'
    BY <2>1, <2>2, <2>3, <2>6 DEF Exited
  <2>5. ASSUME NEW t \in Task, pc'[t] = "wait4", ~ waiting'[t] PROVE Answered(t)'
    <3>1. pc[t] = "wait4"
      BY <2>3, <2>5, Zenon
    <3>2. CASE Awaits(p) /\ t = p
      <4>1. rax'[t] = pid[current]
        BY <2>1, <3>2, Zenon DEF IInv, DataOK
      <4>2. wait_pid[t] \in {pid[current], -1} /\ parent[current] = t
        BY <3>2, Zenon DEF Awaits
      <4> QED  BY <2>1, <2>2, <2>4, <4>1, <4>2, Zenon DEF Answered
    <3>3. CASE ~ (Awaits(p) /\ t = p)
      <4>1. waiting'[t] = waiting[t] /\ rax'[t] = rax[t]
        BY <2>1, <3>3, Zenon DEF IInv, DataOK
      <4>2. Answered(t)
        BY <2>5, <3>1, <4>1, Zenon DEF WaitInv
      <4> QED  BY <2>1, <2>4, <4>1, <4>2, Zenon DEF Answered
    <3> QED  BY <3>2, <3>3, Zenon
  <2>7. ~ waiting'[Idle]
    BY <1>1, <2>1, Zenon DEF WaitInv
  <2> QED  BY <2>1, <2>5, <2>7, Zenon DEF WaitInv
<1>9. ASSUME NEW c \in Task, SysExecve(c) PROVE WaitInv'
  <2>1. /\ stage = "run" /\ stage' = "pick" /\ NewTask(c) /\ pc' = [pc EXCEPT ![c] = "user", ![current] = "exec"]
        /\ parent' = [parent EXCEPT ![c] = parent[current], ![current] = NULL]
        /\ pid' = [pid EXCEPT ![c] = pid[current]] /\ rax' = [rax EXCEPT ![c] = next_pid]
        /\ runnable' = [runnable EXCEPT ![c] = TRUE] /\ UNCHANGED <<sleeping_tasks, waiting, wait_pid>>
    BY <1>9, Zenon DEF SysExecve, Calling
  <2>2. ASSUME NEW t \in Task, t # c
        PROVE  /\ pc'[t] = (IF t = current THEN "exec" ELSE pc[t]) /\ pid'[t] = pid[t] /\ rax'[t] = rax[t]
               /\ runnable'[t] = runnable[t] /\ (t # current => parent'[t] = parent[t])
    BY <2>1, <2>2 DEF IInv, DataOK, BirthOK, PointersOK
  <2>3. pc'[c] # "wait4" /\ pc[c] = "unborn" /\ current # c
    BY <1>1, <1>2, <2>1, NewTaskIs, Zenon
  <2>4. runnable[current]
    BY <1>9, Zenon DEF NoExecAfterExit
  <2>5. ASSUME NEW t \in Task, pc'[t] = "wait4", ~ waiting'[t] PROVE Answered(t)'
    <3>1. t # c /\ t # current
      BY <2>2, <2>3, <2>5, Zenon
    <3>2. Answered(t)
      BY <2>1, <2>2, <2>5, <3>1, Zenon DEF WaitInv
    <3>3. PICK d \in Task : parent[d] = t /\ pid[d] = rax[t] /\ Exited(d)
      BY <3>2, Zenon DEF Answered
    <3>4. d # c /\ d # current
      BY <2>3, <2>4, <3>3, Zenon DEF Exited
    <3>5. parent'[d] = t /\ pid'[d] = rax'[t] /\ Exited(d)'
      BY <2>2, <3>1, <3>3, <3>4, Zenon DEF Exited
    <3>6. wait_pid'[t] \in {-1, rax'[t]}
      BY <2>1, <2>2, <3>1, <3>2, Zenon DEF Answered
    <3> QED  BY <3>5, <3>6, Zenon DEF Answered
  <2> QED  BY <2>1, <2>5, Zenon DEF WaitInv
<1>10. CASE GetNextTask
  <2>1. /\ sleeping_tasks' = NULL /\ (stage' = "switch" => ~ waiting[current'])
        /\ UNCHANGED <<wait_pid, parent, pid, runnable, waiting, rax, pc>>
    BY <1>10, ChosenIsReady, Zenon DEF WaitInv
  <2> QED  BY <2>1, AnswersKept, Zenon DEF WaitInv
<1>11. CASE SwitchTo
  <2>1. /\ stage = "switch" /\ stage' # "switch" /\ UNCHANGED <<sleeping_tasks, wait_pid, parent, pid, runnable, waiting, rax>>
        /\ pc' = [pc EXCEPT ![current] = IF @ = "exec" THEN "exec" ELSE "user"]
    BY <1>11, Zenon DEF SwitchTo, family, state
  <2>2. \A t \in Task : pc'[t] = IF t = current THEN IF pc[t] = "exec" THEN "exec" ELSE "user" ELSE pc[t]
    BY <1>1, <2>1, Zenon
  <2> QED  BY <1>2, <2>1, <2>2, AnswersKept DEF WaitInv
<1>12. CASE UNCHANGED vars
  <2>1. UNCHANGED <<current, sleeping_tasks, wait_pid, parent, pid, runnable, waiting, rax, pc, stage>>
    BY <1>12, Zenon DEF vars, lists, family, state
  <2> QED  BY <2>1, AnswersKept, Zenon DEF WaitInv
<1> QED  BY <1>3, <1>4, <1>5, <1>6, <1>7, <1>8, <1>9, <1>10, <1>11, <1>12, Zenon DEF Next

-----------------------------------------------------------------------------
(* The shell *)

Command(t) == prog[t] \in {"runcmd", "command"}

\* at most one command is on its way, and then the shell waits for it or is about to
ShellInv ==
  /\ sleeping_tasks = NULL /\ ~ waiting[Idle]
  /\ prog \in [Task -> {"none", "getcmd", "wait", "runcmd", "command", "done"}]
  /\ \A t \in Task : prog[t] \in {"getcmd", "wait"} => t = Shell
  /\ \A t, u \in Task : Command(t) /\ Command(u) => t = u
  /\ \A t \in Task : Command(t) => waiting[Shell] \/ prog[Shell] = "wait"
  /\ prog[Shell] = "wait" => current = Shell /\ stage = "run"
  /\ stage \in {"run", "switch"} => ~ waiting[current]

\* It is what the property needs
LEMMA ShellPrompt == IInv /\ ShellInv => PromptAfterCompletion
<1> SUFFICES ASSUME IInv, ShellInv, stage = "run", prog[current] = "getcmd", NEW t \in Task, Command(t)
             PROVE  FALSE
  BY Zenon DEF PromptAfterCompletion, Command
<1>1. current = Shell /\ ~ waiting[Shell]
  BY CurrentIs, Zenon DEF ShellInv
<1> QED  BY <1>1, Zenon DEF ShellInv

\* The shell's steps are steps of the scheduler
LEMMA ShellSteps == [ShellNext]_shellVars => [Next]_vars
<1>1. ShellNext => Next
  <2> SUFFICES ASSUME ShellNext PROVE Next
    BY Zenon
  <2>1. CASE Kernel
    BY <2>1, Zenon DEF Kernel, Next
  <2>2. CASE Shells
    BY <2>2, Zenon DEF Shells, ForkCommand, ExecCommand, ExitShell, WaitCommand, ExitCommand, Next
  <2> QED  BY <2>1, <2>2, Zenon DEF ShellNext
<1> QED  BY <1>1, Zenon DEF shellVars

\* Every step of the shell, of a command and of the kernel keeps it
LEMMA ShellStep == ASSUME IInv, ShellInv, [ShellNext]_shellVars PROVE ShellInv'
<1>1. /\ pc \in [Task -> {"unborn", "user", "slept", "wait4", "exit", "exec"}] /\ Idle \in Task /\ Shell \in Task
      /\ waiting \in [Task -> BOOLEAN] /\ Shell # Idle /\ pc[Shell] # "unborn"
  BY KnownIs DEF IInv, DataOK, BirthOK, Known, Shell, Idle, Task
<1>2. prog \in [Task -> {"none", "getcmd", "wait", "runcmd", "command", "done"}]
  BY Zenon DEF ShellInv
<1>3. stage = "run" => current \in Task /\ pc[current] # "unborn"
  BY CurrentIs, Zenon
<1>4. CASE Tick /\ UNCHANGED prog
  BY <1>4, Zenon DEF Tick, lists, state, ShellInv, Command
<1>5. CASE GetNextTask /\ UNCHANGED prog
  <2>1. /\ sleeping_tasks' = NULL /\ stage \in {"pick", "search"} /\ stage' \in {"search", "switch"}
        /\ stage' = "switch" => ~ waiting[current']
        /\ UNCHANGED waiting
    BY <1>5, ChosenIsReady, Zenon DEF ShellInv
  <2>2. prog[Shell] # "wait"
    BY <2>1, Zenon DEF ShellInv
  <2> QED  BY <1>5, <2>1, <2>2, Zenon DEF ShellInv, Command
<1>6. CASE SwitchTo /\ UNCHANGED prog
  <2>1. stage = "switch" /\ UNCHANGED <<current, sleeping_tasks, waiting>>
    BY <1>6, Zenon DEF SwitchTo, state
  <2>2. prog[Shell] # "wait"
    BY <2>1, Zenon DEF ShellInv
  <2> QED  BY <1>6, <2>1, <2>2, Zenon DEF ShellInv, Command
<1>7. CASE current = Idle /\ SysYield /\ UNCHANGED prog
  <2>1. stage' = "pick" /\ UNCHANGED <<sleeping_tasks, waiting>>
    BY <1>7, Zenon DEF SysYield, lists, state
  <2>2. prog[Shell] # "wait"
    BY <1>1, <1>7, Zenon DEF ShellInv
  <2> QED  BY <1>7, <2>1, <2>2, Zenon DEF ShellInv, Command
<1>8. ASSUME NEW c \in Task, stage = "run", ForkCommand(c) PROVE ShellInv'
  <2>1. /\ NewTask(c) /\ waiting' = [waiting EXCEPT ![c] = waiting[current]]
        /\ UNCHANGED <<current, sleeping_tasks, stage>>
        /\ prog' = [prog EXCEPT ![current] = "wait", ![c] = "runcmd"] /\ prog[current] = "getcmd"
    BY <1>8, Zenon DEF ForkCommand, SysFork
  <2>2. current = Shell /\ c # Shell /\ c # Idle
    BY <1>1, <1>3, <1>8, <2>1, NewTaskIs, Zenon DEF ShellInv
  <2>3. \A t \in Task : ~ Command(t)
    BY <1>8, <2>1, ShellPrompt, Zenon DEF PromptAfterCompletion, Command
  <2>4. \A t \in Task : prog'[t] = IF t = c THEN "runcmd" ELSE IF t = Shell THEN "wait" ELSE prog[t]
    BY <1>2, <2>1, <2>2, Zenon
  <2>5. prog' \in [Task -> {"none", "getcmd", "wait", "runcmd", "command", "done"}]
    BY <1>2, <2>1, Zenon
  <2>6. \A t \in Task : Command(t)' => t = c
    BY <2>3, <2>4, Zenon DEF Command
  <2>7. waiting'[Shell] = waiting[Shell] /\ waiting'[Idle] = waiting[Idle]
    BY <1>1, <2>1, <2>2, Zenon
  <2> QED  BY <1>1, <1>8, <2>1, <2>2, <2>4, <2>5, <2>6, <2>7, Zenon DEF ShellInv
<1>9. CASE stage = "run" /\ WaitCommand
  <2>1. /\ stage' = "pick" /\ current # Idle /\ waiting' = [waiting EXCEPT ![current] = TRUE] /\ UNCHANGED sleeping_tasks
        /\ prog' = [prog EXCEPT ![current] = "getcmd"] /\ prog[current] = "wait"
    BY <1>9, Zenon DEF WaitCommand, SysWait4, Calling
  <2>2. current = Shell
    BY <1>3, <1>9, <2>1, Zenon DEF ShellInv
  <2>3. waiting'[Shell] /\ waiting'[Idle] = waiting[Idle]
    BY <1>1, <2>1, <2>2, Zenon
  <2>4. \A t \in Task : prog'[t] = IF t = Shell THEN "getcmd" ELSE prog[t]
    BY <1>2, <2>1, <2>2, Zenon
  <2>5. prog' \in [Task -> {"none", "getcmd", "wait", "runcmd", "command", "done"}]
    BY <1>2, <2>1, Zenon
  <2>6. \A t \in Task : Command(t)' => Command(t)
    BY <2>4, Zenon DEF Command
  <2> QED  BY <1>1, <2>1, <2>3, <2>4, <2>5, <2>6, Zenon DEF ShellInv
<1>10. ASSUME NEW c \in Task, stage = "run", ExecCommand(c) PROVE ShellInv'
  <2>1. /\ NewTask(c) /\ stage' = "pick" /\ UNCHANGED <<sleeping_tasks, waiting>>
        /\ prog' = [prog EXCEPT ![current] = "done", ![c] = "command"] /\ Command(current)
    BY <1>10, Zenon DEF ExecCommand, SysExecve, Command
  <2>2. current \in Task /\ c # Shell /\ c # current /\ current # Shell
    BY <1>1, <1>3, <1>10, <2>1, NewTaskIs, Zenon DEF ShellInv, Command
  <2>3. waiting[Shell] /\ prog[Shell] # "wait"
    BY <2>1, <2>2, Zenon DEF ShellInv
  <2>4. \A t \in Task : prog'[t] = IF t = c THEN "command" ELSE IF t = current THEN "done" ELSE prog[t]
    BY <1>2, <2>1, <2>2, Zenon
  <2>5. prog' \in [Task -> {"none", "getcmd", "wait", "runcmd", "command", "done"}]
    BY <1>2, <2>1, Zenon
  <2>6. \A t \in Task : Command(t)' => t = c
    BY <2>1, <2>2, <2>4, Zenon DEF ShellInv, Command
  <2> QED  BY <1>1, <2>1, <2>2, <2>3, <2>4, <2>5, <2>6, Zenon DEF ShellInv
<1>11. CASE stage = "run" /\ (ExitShell \/ ExitCommand)
  <2>1. /\ stage' = "pick" /\ UNCHANGED sleeping_tasks
        /\ prog' = [prog EXCEPT ![current] = "done"] /\ (prog[current] = "getcmd" \/ Command(current))
        /\ waiting' \in {[waiting EXCEPT ![parent[current]] = FALSE], waiting}
    BY <1>11, Zenon DEF ExitShell, ExitCommand, SysExit, lists, Command
  <2>2. current \in Task
    BY <1>3, <1>11, Zenon
  <2>3. \A t \in Task : prog'[t] = IF t = current THEN "done" ELSE prog[t]
    BY <1>2, <2>1, Zenon
  <2>4. prog' \in [Task -> {"none", "getcmd", "wait", "runcmd", "command", "done"}]
    BY <1>2, <2>1, Zenon
  <2>5. \A t \in Task : ~ Command(t)'
    <3>1. CASE prog[current] = "getcmd"
      <4>1. \A t \in Task : ~ Command(t)
        BY <1>11, <3>1, ShellPrompt, Zenon DEF PromptAfterCompletion, Command
      <4> QED  BY <2>3, <4>1, Zenon DEF Command
    <3>2. CASE Command(current)
      BY <2>2, <2>3, <3>2, Zenon DEF ShellInv, Command
    <3> QED  BY <2>1, <3>1, <3>2, Zenon
  <2>6. ~ waiting'[Idle]
    BY <1>1, <2>1, Zenon DEF ShellInv
  <2>7. prog'[Shell] # "wait"
    BY <1>1, <2>1, <2>2, <2>3, Zenon DEF ShellInv, Command
  <2> QED  BY <2>1, <2>3, <2>4, <2>5, <2>6, <2>7, Zenon DEF ShellInv
<1>12. CASE UNCHANGED shellVars
  BY <1>12, Zenon DEF shellVars, vars, lists, state, ShellInv, Command
<1> QED  BY <1>4, <1>5, <1>6, <1>7, <1>8, <1>9, <1>10, <1>11, <1>12, Zenon DEF ShellNext, Kernel, Shells

-----------------------------------------------------------------------------
(* The theorems *)

\* No pointer of the scheduler, however stale, leads to a task that was not yet made, and
\* whoever is chosen exists; every fork and execve uses up one pid
THEOREM SchedulerInvariant == Spec => []IInv
<1> QED  BY InitInv, InvNext, PTL DEF Spec

\* The scheduler's pointers, flags and counters stay in their ranges
THEOREM SchedulerTyped == Spec => []TypeOK
<1> QED  BY SchedulerInvariant, InvTypes, PTL

\* After any sequence of fork, execve and exit, two tasks that can still run programs
\* have different pids
THEOREM PidsAreUnique == Spec => []UniquePid
<1>1. IInv => UniquePid
  BY Zenon DEF IInv
<1> QED  BY <1>1, SchedulerInvariant, PTL

\* If no program waits for children, no task is back in its program before its
\* sleep_time, although the clock ticks between the choice and the switch
THEOREM SleepersStay == ASSUME NoWaits PROVE Spec => []NoSleeperRuns
<1>1. Init => SleepInv
  BY KnownIs, InitInv, ScheduleAssumption DEF Init, SleepInv, NoSleeperRuns, Idle, Task
<1>2. IInv /\ SleepInv /\ [Next]_vars => SleepInv'
  BY SleepNext, Zenon
<1>3. SleepInv => NoSleeperRuns
  BY Zenon DEF SleepInv
<1> QED  BY <1>1, <1>2, <1>3, SchedulerInvariant, PTL DEF Spec

\* If no program sleeps and no exited task executes a program, sys_wait4 returns only
\* when a child it waits for has exited, with the pid of that child
THEOREM WaitsAreAnswered ==
  ASSUME NoSleeps PROVE Spec /\ [][NoExecAfterExit]_vars => WaitReturnsChild
<1>1. Init => WaitInv
  BY ScheduleAssumption DEF Init, WaitInv, Idle, Shell, Task
<1>2. IInv /\ IInv' /\ WaitInv /\ [Next]_vars /\ [NoExecAfterExit]_vars => WaitInv'
  <2>1. CASE NoExecAfterExit
    BY <2>1, WaitNext, Zenon
  <2>2. CASE UNCHANGED vars
    BY <2>2, Zenon DEF vars, lists, family, state, WaitInv, Answered, Exited
  <2> QED  BY <2>1, <2>2, Zenon
<1>3. IInv /\ WaitInv =>
        [stage = "switch" /\ stage' = "run" /\ pc[current] = "wait4" =>
           /\ wait_pid[current] \in {-1, rax[current]}
           /\ \E c \in Task : parent[c] = current /\ pid[c] = rax[current] /\ Exited(c)]_vars
  BY CurrentIs, Zenon DEF WaitInv, Answered
<1> QED  BY <1>1, <1>2, <1>3, SchedulerInvariant, PTL DEF Spec, WaitReturnsChild

\* The shell reads a command only when every command before it has exited, in any number
\* of rounds, although execve replaces the child that it waits for
THEOREM PromptComesLast == ShellSpec => []PromptAfterCompletion
<1>1. ShellInit => IInv /\ ShellInv
  <2> SUFFICES ASSUME ShellInit PROVE IInv /\ ShellInv
    BY Zenon
  <2>1. IInv
    BY InitInv, Zenon DEF ShellInit
  <2>2. ShellInv
    BY ScheduleAssumption DEF ShellInit, Init, ShellInv, Command, Idle, Shell, Task
  <2> QED  BY <2>1, <2>2, Zenon
<1>2. IInv /\ ShellInv /\ [ShellNext]_shellVars => (IInv /\ ShellInv)'
  BY ShellSteps, InvNext, ShellStep, Zenon
<1> QED  BY <1>1, <1>2, ShellPrompt, PTL DEF ShellSpec
===============================================================================
