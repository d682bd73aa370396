------------------------------ MODULE TaskPool -------------------------------
(***************************************************************************)
(* The pools of sys/task_pool.c that processes are made from: task_struct, *)
(* mm_struct and vma_struct.  A pool is a list through the field free of   *)
(* its structures, refilled a page at a time.  The vmas of an mm_struct    *)
(* are a list through the field next.  A structure is a number, 0 is NULL. *)
(* Nothing calls release_*: structures come back to a pool only through    *)
(* replace_task.                                                           *)
(***************************************************************************)
EXTENDS Integers, Sequences, FiniteSets

CONSTANTS
  PerPage,    \* structures of each kind in a page
  MaxStruct   \* bound on the structures of a kind

Kinds == {"task", "mm", "vma"}

ASSUME TaskPoolAssumption ==
  /\ PerPage \in [Kinds -> Nat \ {0}]
  /\ MaxStruct \in Nat

VARIABLES
  pool,    \* free_task_struct, free_mm_struct, free_vma_struct and the field free
  next,    \* the field next of the vmas
  mm_of,   \* the mm of every task_struct
  vm,      \* the first vma of every mm_struct
  live,    \* tasks that run
  given    \* history: the vmas each task was made with

poolVars == <<pool, next, mm_of, vm, live, given>>

Struct == 1..MaxStruct
Pools == [head : 0..MaxStruct, free : [Struct -> 0..MaxStruct], made : 0..MaxStruct]

PoolTypeOK ==
  /\ pool \in [Kinds -> Pools]
  /\ next \in [Struct -> 0..MaxStruct]
  /\ mm_of \in [Struct -> 0..MaxStruct] /\ vm \in [Struct -> 0..MaxStruct]
  /\ live \subseteq Struct
  /\ given \in [Struct -> Seq(Struct)]

PoolInit ==
  /\ pool = [d \in Kinds |-> [head |-> 0, free |-> [i \in Struct |-> 0], made |-> 0]]
  /\ next = [i \in Struct |-> 0]
  /\ mm_of = [i \in Struct |-> 0] /\ vm = [i \in Struct |-> 0]
  /\ live = {}
  /\ given = [i \in Struct |-> <<>>]

-----------------------------------------------------------------------------
(* Pools *)

\* mutant: the last structure of the page is linked to the one after the page
ReloadPast(d, p) ==
  [head |-> p.made + 1,
   free |-> [i \in Struct |-> IF i \in (p.made + 1)..(p.made + PerPage[d]) THEN (i + 1) % (MaxStruct + 1) ELSE p.free[i]],
   made |-> p.made + PerPage[d]]

\* reload_*: the structures of a new page, in order
Reload(d, p) ==
  [head |-> p.made + 1,
   free |-> [i \in Struct |-> IF i \in (p.made + 1)..(p.made + PerPage[d] - 1) THEN i + 1 ELSE p.free[i]],
   made |-> p.made + PerPage[d]]

\* the pool as get_* uses it
Ready(d, p) == IF p.head = 0 THEN Reload(d, p) ELSE p

\* get_*: the first structure, cleared
Get(d, p) ==
  LET r == Ready(d, p) IN [r EXCEPT !.head = r.free[r.head], !.free = [@ EXCEPT ![r.head] = 0]]

\* n calls in a row: the pool after them, and what they return
GetMany(d, n) ==
  LET after[i \in 0..n] == IF i = 0 THEN pool[d] ELSE Get(d, after[i - 1])
  IN [pool |-> after[n], got |-> [i \in 1..n |-> Ready(d, after[i - 1]).head]]

\* whether n more structures are within the bound
Within(d, n) == pool[d].made + n + PerPage[d] <= MaxStruct

-----------------------------------------------------------------------------
(* Lists *)

\* the list from head h through the field f, up to more steps than it can have
ListFrom(h, f) ==
  LET at[i \in 0..MaxStruct] == IF i = 0 THEN h ELSE IF at[i - 1] = 0 THEN 0 ELSE f[at[i - 1]]
      len == Cardinality({i \in 0..MaxStruct : at[i] # 0})
  IN [i \in 1..len |-> at[i - 1]]

Elements(s) == {s[i] : i \in DOMAIN s}

\* a list of the vmas s: each points to the one after it
Linked(f, s) ==
  [v \in Struct |->
     IF v \in Elements(s)
     THEN LET i == CHOOSE i \in DOMAIN s : s[i] = v IN IF i < Len(s) THEN s[i + 1] ELSE 0
     ELSE f[v]]

VmasOf(t) == ListFrom(vm[mm_of[t]], next)

-----------------------------------------------------------------------------
(* Tasks *)

\* replace_task makes the list of the old task the pool's, but links the rest of the
\* pool behind it through next: the pool is left with the first of its vmas
Replaced(p, old) == IF old = <<>> THEN p ELSE [p EXCEPT !.head = old[1]]

Relinked(f, p, old) == IF old = <<>> THEN f ELSE [f EXCEPT ![old[Len(old)]] = p.head]

\* a new task_struct and mm_struct with n vmas; old is the list it takes the place of
Make(n, t, old) ==
  LET task == GetMany("task", 1)
      mm == GetMany("mm", 1)
      vmas == GetMany("vma", n)
  IN /\ Within("task", 1) /\ Within("mm", 1) /\ Within("vma", n)
     /\ t = task.got[1]
     /\ mm_of' = [mm_of EXCEPT ![t] = mm.got[1]]
     /\ given' = [given EXCEPT ![t] = vmas.got]
     /\ pool' = [task |-> task.pool, mm |-> mm.pool, vma |-> Replaced(vmas.pool, old)]

\* create_new_task and the calls of set_vma in load_elf
CreateTask(n, t) ==
  /\ Make(n, t, <<>>)
  /\ next' = Linked(next, given'[t])
  /\ vm' = [vm EXCEPT ![mm_of'[t]] = given'[t][1]]
  /\ live' = live \cup {t}

\* mutant: the copies of the vmas are not linked to each other
ForkTaskUnlinked(p, t) ==
  /\ p \in live
  /\ Make(Len(VmasOf(p)), t, <<>>)
  /\ next' = [v \in Struct |->
                IF v \in Elements(given'[t])
                THEN LET i == CHOOSE i \in DOMAIN given'[t] : given'[t][i] = v IN next[VmasOf(p)[i]]
                ELSE next[v]]
  /\ vm' = [vm EXCEPT ![mm_of'[t]] = given'[t][1]]
  /\ live' = live \cup {t}

\* fork_process: the structures are copied, vma by vma
ForkTask(p, t) ==
  /\ p \in live
  /\ Make(Len(VmasOf(p)), t, <<>>)
  /\ next' = Linked(next, given'[t])
  /\ vm' = [vm EXCEPT ![mm_of'[t]] = given'[t][1]]
  /\ live' = live \cup {t}

\* sys_execve: the new task is made first, then replace_task empties the old one
ExecTask(p, n, t) ==
  /\ p \in live
  /\ Make(n, t, VmasOf(p))
  /\ next' = Relinked(Linked(next, given'[t]), GetMany("vma", n).pool, VmasOf(p))
  /\ vm' = [vm EXCEPT ![mm_of[p]] = 0, ![mm_of'[t]] = given'[t][1]]
  /\ live' = (live \ {p}) \cup {t}

\* sys_exit gives no structure back
ExitTask(p) ==
  /\ p \in live
  /\ live' = live \ {p}
  /\ UNCHANGED <<pool, next, mm_of, vm, given>>

-----------------------------------------------------------------------------

FreeList(d) == Elements(ListFrom(pool[d].head, pool[d].free))

\* The vma list of a running task stays the list it was made with, whatever other
\* tasks fork, execute or give back: a walk over it finds every vma and ends
ListsKept == \A t \in live : VmasOf(t) = given[t]

\* No structure is in use twice, or in use and on a free list, although replace_task
\* links the structures it gives back through the wrong field
NotSharedTwice ==
  /\ \A t, u \in live : t # u => /\ mm_of[t] # mm_of[u]
                                 /\ Elements(given[t]) \cap Elements(given[u]) = {}
  /\ \A t \in live : /\ t \notin FreeList("task") /\ mm_of[t] \notin FreeList("mm")
                     /\ Elements(given[t]) \cap FreeList("vma") = {}
==============================================================================
