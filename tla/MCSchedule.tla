----------------------------- MODULE MCSchedule -----------------------------
(***************************************************************************)
(* Workloads for the scheduler.                                            *)
(***************************************************************************)
EXTENDS Schedule

\* a fixed population: no program forks once another has exited
FixedNext == Next /\ NoForkAfterExit

FixedSpec == Init /\ [][FixedNext]_vars /\ Fairness

\* any order of calls
FairSpec == Spec /\ Fairness
==============================================================================
