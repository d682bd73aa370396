----------------------------- MODULE RoundRobin -----------------------------
(***************************************************************************)
(* What README.506 promises of the scheduler: "schedule new tasks via an   *)
(* available_tasks linked list, round robin technique", and "idle task     *)
(* runs if no runnable task is available".  A queue of the tasks that are  *)
(* ready and the task that runs.                                           *)
(***************************************************************************)
EXTENDS Sequences

CONSTANTS Task, Idle, Shell, NoTask

VARIABLES running, queue

Init == running = NoTask /\ queue = <<Shell>>

\* the head of the queue runs, idle when there is none; kept goes to its end
Dispatch(kept) ==
  IF queue = <<>>
  THEN running' = Idle /\ queue' = kept
  ELSE running' = Head(queue) /\ queue' = Tail(queue) \o kept

Yield == Dispatch(IF running \in {NoTask, Idle} THEN <<>> ELSE <<running>>)

Leave == running \notin {NoTask, Idle} /\ Dispatch(<<>>)

Start(c) ==
  /\ running # c /\ \A i \in DOMAIN queue : queue[i] # c
  /\ queue' = Append(queue, c)
  /\ UNCHANGED running

Next == Yield \/ Leave \/ \E c \in Task : Start(c)

Spec == Init /\ [][Next]_<<running, queue>>
==============================================================================
