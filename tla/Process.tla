------------------------------- MODULE Process -------------------------------
(***************************************************************************)
(* Processes as the system calls make them: fork, execve and exit act on   *)
(* the pools of TaskPool and on the files of Files in one step.            *)
(***************************************************************************)
EXTENDS TaskPool, Files

vars == <<poolVars, fileVars>>

Init == PoolInit /\ FilesInit

TypeOK == PoolTypeOK /\ FilesTypeOK

\* the descriptors of create_new_task: terminal at 0, 1 and 2
NewFiles == [fd \in Fds |-> IF fd < 3 THEN Terminal ELSE 0]

\* what create_elf_process loads.  It never closes the object it opens the file with,
\* and nothing points to that object afterwards: it is left out
Loadable(path) == {h \in TfsOpen(path, "O_RDONLY") : h # 0 /\ Tar[h].elf > 0}

\* create_elf_process at boot
Boot(path, t) ==
  /\ pool["task"].made = 0
  /\ \E h \in Loadable(path) : CreateTask(Tar[h].elf, t)
  /\ fdarr' = [fdarr EXCEPT ![t] = NewFiles]
  /\ NoObject /\ UNCHANGED <<cwd, halted>>

\* sys_fork: the child's descriptors are the parent's, and no count is raised
Fork(p, t) ==
  /\ ForkTask(p, t)
  /\ fdarr' = [fdarr EXCEPT ![t] = fdarr[p]]
  /\ cwd' = [cwd EXCEPT ![t] = cwd[p]]
  /\ NoObject /\ UNCHANGED halted

\* sys_execve: the new task has the descriptors of a new task and no directory, and
\* replace_task clears the old ones without a close; a file that is not found, or that
\* validate_ehdr refuses, changes nothing
Exec(p, path, t) ==
  /\ \E h \in Loadable(path) : ExecTask(p, Tar[h].elf, t)
  /\ fdarr' = [fdarr EXCEPT ![p] = NoFiles, ![t] = NewFiles]
  /\ cwd' = [cwd EXCEPT ![p] = <<>>]
  /\ NoObject /\ UNCHANGED halted

\* sys_exit closes nothing; nothing reads the descriptors of the task again, and they
\* are dropped
Exit(p) ==
  /\ ExitTask(p)
  /\ fdarr' = [fdarr EXCEPT ![p] = NoFiles]
  /\ cwd' = [cwd EXCEPT ![p] = <<>>]
  /\ NoObject /\ UNCHANGED halted

Next ==
  /\ ~ halted
  /\ \/ \E path \in Paths, t \in Task : Boot(path, t)
     \/ \E p \in live :
          \/ \E t \in Task : Fork(p, t) \/ \E path \in Paths : Exec(p, path, t)
          \/ Exit(p)
          \/ FileCall(p) /\ UNCHANGED poolVars

Spec == Init /\ [][Next]_vars
==============================================================================
