-------------------------------- MODULE Sbush --------------------------------
(***************************************************************************)
(* The shell, bin/sbush/sbush.c, on top of the scheduler: main reads a     *)
(* command, forks, and waits; the child executes the program and exits if  *)
(* there is none.  The programs of bin/ run to their exit without a yield. *)
(* Reading a command halts inside the kernel and never yields.             *)
(***************************************************************************)
EXTENDS Schedule

VARIABLE prog   \* what a task's program does next

shellVars == <<vars, prog>>

ShellInit == Init /\ prog = [t \in Task |-> IF t = Shell THEN "getcmd" ELSE "none"]

\* a command was read: fork() returns the pid in the shell, 0 in the child
ForkCommand(c) ==
  /\ prog[current] = "getcmd"
  /\ SysFork(c)
  /\ prog' = [prog EXCEPT ![current] = "wait", ![c] = "runcmd"]

\* the command was "exit"
ExitShell ==
  /\ prog[current] = "getcmd"
  /\ SysExit
  /\ prog' = [prog EXCEPT ![current] = "done"]

WaitCommand ==
  /\ prog[current] = "wait"
  /\ SysWait4(-1)
  /\ prog' = [prog EXCEPT ![current] = "getcmd"]

\* runcmd: execvpe does not come back unless it fails
ExecCommand(c) ==
  /\ prog[current] = "runcmd"
  /\ SysExecve(c)
  /\ prog' = [prog EXCEPT ![current] = "done", ![c] = "command"]

\* runcmd after a failed execvpe, or the end of the program
ExitCommand ==
  /\ prog[current] \in {"runcmd", "command"}
  /\ SysExit
  /\ prog' = [prog EXCEPT ![current] = "done"]

Kernel ==
  /\ \/ Tick
     \/ GetNextTask
     \/ SwitchTo
     \/ current = Idle /\ SysYield
  /\ UNCHANGED prog

Shells ==
  /\ stage = "run"
  /\ current # Idle
  /\ \/ \E c \in Task : ForkCommand(c) \/ ExecCommand(c)
     \/ ExitShell
     \/ WaitCommand
     \/ ExitCommand

ShellNext == Kernel \/ Shells

\* The kernel runs to its end, and so does a command; nobody need type one.
ShellFairness ==
  /\ WF_shellVars(GetNextTask /\ UNCHANGED prog)
  /\ WF_shellVars(SwitchTo /\ UNCHANGED prog)
  /\ WF_shellVars(stage = "run" /\ current # Idle /\ (WaitCommand \/ ExitCommand))

ShellSpec == ShellInit /\ [][ShellNext]_shellVars /\ ShellFairness

\* "parent waits on the child for completion": the shell reads a command only when
\* every command before it has exited
PromptAfterCompletion ==
  stage = "run" /\ prog[current] = "getcmd" => \A t \in Task : prog[t] \notin {"runcmd", "command"}

\* The shell comes back from every command, in any number of rounds, unless the
\* machine stops at the panic behind execve
PromptReturns ==
  prog[Shell] = "wait" ~> \/ current = Shell /\ stage = "run" /\ prog[Shell] = "getcmd"
                          \/ stage = "panic"
==============================================================================
