------------------------------ MODULE Schedule ------------------------------
(***************************************************************************)
(* The cooperative scheduler, sys/schedule.c, with the system calls of     *)
(* sys/syscall_handler.c that drive it.                                    *)
(*                                                                         *)
(* A task_struct is a number, 0 is the null pointer.  The three task lists *)
(* are the code's: a head pointer each, threaded through the one next and  *)
(* prev field of every task.  Interrupts are off inside a system call up   *)
(* to the sti of run_next_task, so a call is one step (stage "run"), and   *)
(* the timer can tick before get_next_task (stage "pick"), after its loop  *)
(* over the sleeping list ("search") and before switch_to ("switch").      *)
(***************************************************************************)
EXTENDS Integers, Sequences, FiniteSets

CONSTANTS
  N,        \* number of task_structs: 1 is idle, 2 the first user process
  Calls,    \* the system calls that programs make
  MaxMs,    \* bound on the clock
  MaxSleep  \* bound on the argument of sleep

ASSUME ScheduleAssumption ==
  /\ N \in Nat /\ N >= 2
  /\ Calls \subseteq {"yield", "sleep", "wait", "waitpid", "fork", "exit", "exec"}
  /\ MaxMs \in Nat /\ MaxSleep \in Nat

VARIABLES
  current, available_tasks, sleeping_tasks, waiting_tasks,
  next, prev,
  runnable, waiting, wait_pid, sleep_time, num_children, parent, pid, rax,
  pc,       \* where a task is: outside the kernel, or in the call it yields from
  stage,    \* what the processor does
  me,       \* run_next_task's prev
  ms,       \* the clock
  next_pid  \* the static pid

lists == <<available_tasks, sleeping_tasks, waiting_tasks, next, prev>>
family == <<wait_pid, num_children, parent, pid>>
state == <<runnable, waiting, sleep_time, rax>>
vars == <<current, lists, family, state, pc, stage, me, ms, next_pid>>

Task == 1..N
NULL == 0
Idle == 1
Shell == 2

\* bound on how far a counter of children runs below zero
MinChildren == -2

-----------------------------------------------------------------------------
(* List traversal.  The nodes of a list that starts at h, for next = nx.   *)

Nodes(h, nx) ==
  LET at[k \in 0..N] == IF k = 0 THEN h
                        ELSE IF at[k - 1] = NULL THEN NULL
                        ELSE nx[at[k - 1]]
  IN at

\* the traversal never meets a null pointer
Cyclic(h, nx) == Nodes(h, nx)[N] # NULL

\* the node where while (cursor->next != NULL) stops
Last(h, nx) ==
  LET s == Nodes(h, nx)
      n == CHOOSE i \in 0..N : s[i] # NULL /\ (i = N \/ s[i + 1] = NULL)
  IN s[n]

\* the first node of S, or null
First(h, nx, S) ==
  LET s == Nodes(h, nx)
      hits == {i \in 0..N : s[i] \in S}
  IN IF hits = {} THEN NULL
     ELSE s[CHOOSE i \in hits : \A k \in hits : i <= k]

\* mutant: the task goes in front
AddFront(h, t, nx, pv) ==
  [head |-> t, next |-> [nx EXCEPT ![t] = h], prev |-> pv]

(***************************************************************************)
(* The shared body of reschedule, add_waiting_task and add_sleeping_task:  *)
(* an empty list gets a new head, whose own next and prev stay as they     *)
(* are; otherwise the task goes after the last one.                        *)
(***************************************************************************)
AddTail(h, t, nx, pv) ==
  IF h = NULL
  THEN [head |-> t, next |-> nx, prev |-> pv]
  ELSE LET c == Last(h, nx) IN
       [head |-> h,
        next |-> [nx EXCEPT ![c] = t, ![t] = NULL],
        prev |-> [pv EXCEPT ![t] = c]]

\* unlinking, shared by the two branches of get_next_task that do it
Unlink(t) ==
  LET nx == IF prev[t] # NULL THEN [next EXCEPT ![prev[t]] = next[t]] ELSE next
      pv == IF nx[t] # NULL THEN [prev EXCEPT ![nx[t]] = prev[t]] ELSE prev
  IN [next |-> nx, prev |-> pv]

-----------------------------------------------------------------------------

Init ==
  /\ current = NULL
  /\ available_tasks = Shell /\ sleeping_tasks = NULL /\ waiting_tasks = NULL
  /\ next = [t \in Task |-> NULL] /\ prev = [t \in Task |-> NULL]
  /\ runnable = [t \in Task |-> t = Shell]
  /\ waiting = [t \in Task |-> FALSE]
  /\ wait_pid = [t \in Task |-> 0]
  /\ sleep_time = [t \in Task |-> 0]
  /\ num_children = [t \in Task |-> 0]
  /\ parent = [t \in Task |-> NULL]
  /\ pid = [t \in Task |-> IF t = Shell THEN 3 ELSE 0]
  /\ rax = [t \in Task |-> IF t = Idle THEN -1 ELSE pid[t]]
  /\ pc = [t \in Task |-> IF t \in {Idle, Shell} THEN "user" ELSE "unborn"]
  /\ stage = "pick" /\ me = NULL
  /\ ms = 0
  /\ next_pid = 4

\* the timer interrupt, whenever interrupts are on
Tick ==
  /\ stage \in {"run", "pick", "search", "switch"}
  /\ ms < MaxMs
  /\ ms' = ms + 1
  /\ UNCHANGED <<current, lists, family, state, pc, stage, me, next_pid>>

\* the code that is about to run is a program's and makes call c
Calling(c) ==
  /\ stage = "run"
  /\ pc[current] = "user"
  /\ c \in Calls
  /\ current # Idle

\* idle_task calls nothing but yield
SysYield ==
  /\ stage = "run"
  /\ \/ Calling("yield")
     \/ current = Idle
     \/ pc[current] = "slept"
  /\ stage' = "pick"
  /\ pc' = [pc EXCEPT ![current] = "user"]
  /\ UNCHANGED <<current, lists, family, state, me, ms, next_pid>>

\* mutant: the difference, not the sum
WakeTimeLeft(msec) == msec - ms

WakeTime(msec) == ms + msec

\* the kernel's sleep(): this call, and then yield() by SysYield
SysSleep(msec) ==
  /\ Calling("sleep")
  /\ ~Cyclic(sleeping_tasks, next)
  /\ sleep_time' = [sleep_time EXCEPT ![current] = WakeTime(msec)]
  /\ LET l == AddTail(sleeping_tasks, current, next, prev) IN
     /\ sleeping_tasks' = l.head
     /\ next' = l.next
     /\ prev' = l.prev
  /\ pc' = [pc EXCEPT ![current] = "slept"]
  /\ UNCHANGED <<current, available_tasks, waiting_tasks, family, runnable, waiting, rax,
                 stage, me, ms, next_pid>>

\* sys_wait4 with a child to wait for; without one it returns -1 at once
SysWait4(p) ==
  /\ Calling(IF p = -1 THEN "wait" ELSE "waitpid")
  /\ num_children[current] # 0
  /\ ~Cyclic(waiting_tasks, next)
  /\ LET l == AddTail(waiting_tasks, current, next, prev) IN
     /\ waiting_tasks' = l.head
     /\ next' = l.next
     /\ prev' = l.prev
  /\ waiting' = [waiting EXCEPT ![current] = TRUE]
  /\ wait_pid' = [wait_pid EXCEPT ![current] = p]
  /\ pc' = [pc EXCEPT ![current] = "wait4"]
  /\ stage' = "pick"
  /\ UNCHANGED <<current, available_tasks, sleeping_tasks, num_children, parent, pid,
                 runnable, sleep_time, rax, me, ms, next_pid>>

\* mutant: off by one in the comparison with the clock
ReschedulableLate(t) == ~waiting[t] /\ sleep_time[t] < ms

\* the early return of reschedule
Reschedulable(t) == ~waiting[t] /\ sleep_time[t] <= ms

\* mutant: the static pid is not advanced
GetNextPidStuck == UNCHANGED next_pid

GetNextPid == next_pid' = next_pid + 1

\* the task pool hands out task_structs in order and takes none back
NewTask(c) == c \in Task /\ pc[c] = "unborn" /\ \A t \in Task : t < c => pc[t] # "unborn"

(***************************************************************************)
(* sys_fork: fork_process copies the whole task_struct of the parent, its  *)
(* list pointers, sleep_time and num_children included; schedule then puts *)
(* the child on the available list.                                        *)
(***************************************************************************)
SysFork(c) ==
  /\ Calling("fork")
  /\ NewTask(c)
  /\ ~Cyclic(available_tasks, next)
  /\ runnable' = [runnable EXCEPT ![c] = TRUE]
  /\ waiting' = [waiting EXCEPT ![c] = waiting[current]]
  /\ sleep_time' = [sleep_time EXCEPT ![c] = sleep_time[current]]
  /\ num_children' = [num_children EXCEPT ![c] = num_children[current], ![current] = @ + 1]
  /\ wait_pid' = [wait_pid EXCEPT ![c] = wait_pid[current]]
  /\ parent' = [parent EXCEPT ![c] = current]
  /\ pid' = [pid EXCEPT ![c] = next_pid]
  /\ GetNextPid
  /\ rax' = [rax EXCEPT ![c] = 0]
  /\ LET nx == [next EXCEPT ![c] = next[current]]
         pv == [prev EXCEPT ![c] = prev[current]]
         l == IF Reschedulable(current)
              THEN AddTail(available_tasks, c, nx, pv)
              ELSE [head |-> available_tasks, next |-> nx, prev |-> pv]
     IN
     /\ available_tasks' = l.head
     /\ next' = l.next
     /\ prev' = l.prev
  /\ pc' = [pc EXCEPT ![c] = "user"]
  /\ UNCHANGED <<current, sleeping_tasks, waiting_tasks, stage, me, ms>>

\* mutant: any exit wakes a waiting parent
AwaitsAny(p) == p # NULL /\ waiting[p]

\* mutant: -1 is compared as a pid
AwaitsExact(p) == p # NULL /\ waiting[p] /\ wait_pid[p] = pid[current]

\* a parent that waits for this pid or for any child
Awaits(p) ==
  /\ p # NULL
  /\ waiting[p]
  /\ wait_pid[p] \in {pid[current], -1}

SysExit ==
  LET p == parent[current]
      wakes == Awaits(p)
  IN
  /\ Calling("exit")
  /\ p # NULL => num_children[p] > MinChildren
  /\ runnable' = [runnable EXCEPT ![current] = FALSE]
  /\ waiting' = IF wakes THEN [waiting EXCEPT ![p] = FALSE] ELSE waiting
  /\ rax' = IF wakes THEN [rax EXCEPT ![p] = pid[current]] ELSE rax
  /\ num_children' = IF p # NULL THEN [num_children EXCEPT ![p] = @ - 1] ELSE num_children
  /\ pc' = [pc EXCEPT ![current] = "exit"]
  /\ stage' = "pick"
  /\ UNCHANGED <<current, lists, wait_pid, parent, pid, sleep_time, me, ms, next_pid>>

(***************************************************************************)
(* sys_execve of a valid program: load_elf creates and schedules a second  *)
(* task, which takes over the caller's pid and parent; the caller's list   *)
(* neighbours are relinked, replace_task clears its pointers, and it       *)
(* yields, still runnable.                                                 *)
(***************************************************************************)
SysExecve(c) ==
  /\ Calling("exec")
  /\ NewTask(c)
  /\ ~Cyclic(available_tasks, next)
  /\ LET l == AddTail(available_tasks, c, next, prev)
         nx == IF l.prev[current] # NULL
               THEN [l.next EXCEPT ![l.prev[current]] = c] ELSE l.next
     IN
     /\ available_tasks' = l.head
     /\ next' = [nx EXCEPT ![c] = l.next[current], ![current] = NULL]
     /\ prev' = [l.prev EXCEPT ![current] = NULL]
  /\ runnable' = [runnable EXCEPT ![c] = TRUE]
  /\ parent' = [parent EXCEPT ![c] = parent[current], ![current] = NULL]
  /\ pid' = [pid EXCEPT ![c] = pid[current]]
  /\ rax' = [rax EXCEPT ![c] = next_pid]
  /\ GetNextPid
  /\ pc' = [pc EXCEPT ![c] = "user", ![current] = "exec"]
  /\ stage' = "pick"
  /\ UNCHANGED <<current, sleeping_tasks, waiting_tasks, wait_pid, num_children, waiting,
                 sleep_time, me, ms>>

-----------------------------------------------------------------------------
(* run_next_task: current = get_next_task() *)

\* mutants: a millisecond early; the flag is not tested
AwakeEarly == {t \in Task : sleep_time[t] <= ms + 1}
DoneWaitingAll == Task

Awake == {t \in Task : sleep_time[t] <= ms}
DoneWaiting == {t \in Task : ~waiting[t]}
Eligible == {t \in Task : runnable[t] /\ sleep_time[t] <= ms /\ ~waiting[t]}

PickSleeper(t) ==
  /\ current' = t
  /\ sleeping_tasks' = IF t = sleeping_tasks THEN Unlink(t).next[t] ELSE sleeping_tasks
  /\ next' = Unlink(t).next
  /\ prev' = Unlink(t).prev
  /\ UNCHANGED <<available_tasks, waiting_tasks>>

PickWaiter(t) ==
  /\ t # NULL
  /\ current' = t
  /\ waiting_tasks' = IF t = waiting_tasks THEN Unlink(t).next[t] ELSE waiting_tasks
  /\ next' = Unlink(t).next
  /\ prev' = Unlink(t).prev
  /\ UNCHANGED <<available_tasks, sleeping_tasks>>

\* mutant: the skipped tasks stay on the list when idle is chosen
PickAvailableKeeps(t) ==
  /\ current' = IF t = NULL THEN Idle ELSE t
  /\ available_tasks' = IF t = NULL THEN available_tasks ELSE next[t]
  /\ UNCHANGED <<sleeping_tasks, waiting_tasks, next, prev>>

\* the skipped tasks leave the list with the one picked; none: idle
PickAvailable(t) ==
  /\ current' = IF t = NULL THEN Idle ELSE t
  /\ available_tasks' = IF t = NULL THEN NULL ELSE next[t]
  /\ UNCHANGED <<sleeping_tasks, waiting_tasks, next, prev>>

\* the first loop of get_next_task; the clock may tick before the next one
SearchSleeping ==
  LET t == First(sleeping_tasks, next, Awake) IN
  /\ stage = "pick"
  /\ IF t = NULL
     THEN /\ ~Cyclic(sleeping_tasks, next)
          /\ stage' = "search"
          /\ UNCHANGED <<current, lists, me>>
     ELSE /\ PickSleeper(t)
          /\ me' = current
          /\ stage' = "switch"
  /\ UNCHANGED <<family, state, pc, ms, next_pid>>

\* the waiting list, then the available list
SearchOthers ==
  LET w == First(waiting_tasks, next, DoneWaiting)
      a == First(available_tasks, next, Eligible)
  IN
  /\ stage = "search"
  /\ \/ PickWaiter(w)
     \/ /\ w = NULL /\ ~Cyclic(waiting_tasks, next)
        /\ a = NULL => ~Cyclic(available_tasks, next)
        /\ PickAvailable(a)
  /\ me' = current
  /\ stage' = "switch"
  /\ UNCHANGED <<family, state, pc, ms, next_pid>>

GetNextTask == SearchSleeping \/ SearchOthers

\* switch_to(me, current), and the return of current to where it yielded
SwitchTo ==
  /\ stage = "switch"
  /\ IF me # NULL /\ Reschedulable(me)
     THEN /\ ~Cyclic(available_tasks, next)
          /\ LET l == AddTail(available_tasks, me, next, prev) IN
             /\ available_tasks' = l.head
             /\ next' = l.next
             /\ prev' = l.prev
     ELSE UNCHANGED <<available_tasks, next, prev>>
  /\ stage' = IF pc[current] = "exec" THEN "panic" ELSE "run"
  /\ pc' = [pc EXCEPT ![current] = IF @ = "exec" THEN "exec" ELSE "user"]
  /\ me' = NULL
  /\ UNCHANGED <<current, sleeping_tasks, waiting_tasks, family, state, ms, next_pid>>

-----------------------------------------------------------------------------

Next ==
  \/ Tick
  \/ SysYield
  \/ \E m \in 0..MaxSleep : SysSleep(m)
  \/ \E p \in {-1} \cup 3..(next_pid - 1) : SysWait4(p)
  \/ \E c \in Task : SysFork(c)
  \/ SysExit
  \/ \E c \in Task : SysExecve(c)
  \/ GetNextTask
  \/ SwitchTo

Spec == Init /\ [][Next]_vars

TypeOK ==
  /\ current \in Task \cup {NULL} /\ me \in Task \cup {NULL}
  /\ {available_tasks, sleeping_tasks, waiting_tasks} \subseteq Task \cup {NULL}
  /\ next \in [Task -> Task \cup {NULL}] /\ prev \in [Task -> Task \cup {NULL}]
  /\ runnable \in [Task -> BOOLEAN] /\ waiting \in [Task -> BOOLEAN]
  /\ wait_pid \in [Task -> -1..(N + 1)] /\ pid \in [Task -> 0..(N + 1)]
  /\ sleep_time \in [Task -> 0..(MaxMs + MaxSleep)]
  /\ num_children \in [Task -> Int]
  /\ parent \in [Task -> Task \cup {NULL}]
  /\ rax \in [Task -> -1..(N + 1)]
  /\ pc \in [Task -> {"unborn", "user", "slept", "wait4", "exit", "exec"}]
  /\ stage \in {"run", "pick", "search", "switch", "panic"}
  /\ ms \in 0..MaxMs
  /\ next_pid \in 4..(N + 2)

-----------------------------------------------------------------------------
(* What must hold of every task, whatever the programs call *)

Exited(t) == t # Idle /\ pc[t] # "unborn" /\ ~runnable[t]

\* pid is the "unique process ID": after any sequence of fork and execve, two
\* tasks that can still run programs have different pids
UniquePid ==
  \A s, t \in {u \in Task : pc[u] \notin {"unborn", "exec"}} : pid[s] = pid[t] => s = t

\* sys_wait4 returns only when a child it waits for has called exit, and then
\* with the pid of that child, however the lists it sits on were threaded
WaitReturnsChild ==
  [][stage = "switch" /\ stage' = "run" /\ pc[current] = "wait4" =>
       /\ wait_pid[current] \in {-1, rax[current]}
       /\ \E c \in Task : parent[c] = current /\ pid[c] = rax[current] /\ Exited(c)]_vars

\* sleep_time is the "clock ms that it is allowed to run": no task is back in its
\* program before that, although a tick may fall between the choice and the switch
NoSleeperRuns ==
  stage = "run" /\ pc[current] = "user" => sleep_time[current] <= ms

-----------------------------------------------------------------------------
(* The scheduler as a round-robin queue *)

\* the list that starts at h, for next = nx, as a sequence
Path(h, nx) ==
  LET at == Nodes(h, nx)
      n == CHOOSE n \in 0..(N + 1) : \A k \in 0..N : at[k] # NULL <=> k < n
  IN [i \in 1..n |-> at[i - 1]]

\* the elements of s that are in S, in their order
Keep(s, S) ==
  LET kept[i \in 0..Len(s)] == IF i = 0 THEN <<>>
                               ELSE IF s[i] \in S THEN Append(kept[i - 1], s[i])
                               ELSE kept[i - 1]
  IN kept[Len(s)]

\* The ready tasks: the list without exited tasks, without idle, without what a
\* stale pointer still shows of the running task; me is about to be appended
Ready ==
  Keep(Path(available_tasks, next), {t \in Task : runnable[t] /\ t \notin {current, me}})
  \o IF me \notin {NULL, current} /\ runnable[me] THEN <<me>> ELSE <<>>

RR == INSTANCE RoundRobin WITH running <- current, queue <- Ready, NoTask <- NULL

\* The pointer lists behave as a round-robin queue: no ready task is lost, run
\* twice or overtaken, and idle runs only when no task is ready
ImplementsRoundRobin == RR!Spec

\* the population is fixed once a task has exited: no program forks after that
NoForkAfterExit == next_pid' # next_pid => \A t \in Task : ~Exited(t)

(***************************************************************************)
(* Fairness: kernel code runs to its end, and programs are cooperative:    *)
(* whichever runs calls the kernel to yield, wait or exit in the end.      *)
(***************************************************************************)
Fairness ==
  /\ WF_vars(GetNextTask)
  /\ WF_vars(SwitchTo)
  /\ WF_vars(SysYield \/ SysExit)

\* every task that is ready gets the processor
ReadyRuns == \A t \in Task \ {Idle} : runnable[t] /\ pc[t] = "user" ~> current = t /\ stage = "run"

\* sys_exit: "Process will be removed from available_tasks"
ExitedIsRemoved ==
  \A t \in Task : Exited(t) ~> \A i \in 0..N : Nodes(available_tasks, next)[i] # t
=============================================================================
