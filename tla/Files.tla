-------------------------------- MODULE Files --------------------------------
(***************************************************************************)
(* The file calls of sys/syscall_handler.c over the tar file system of     *)
(* sys/tarfs.c.  A header of the archive is a number; header 0 is          *)
(* root_hdr, which is not in the archive.  A name is a sequence of tokens, *)
(* so that one name can begin another, as memcmp over the length of the    *)
(* path sees it.  A file object is a page of kmalloc: after kfree its      *)
(* address is not used again, and a call that follows a pointer to it, or  *)
(* any other wild pointer, stops the kernel.                               *)
(***************************************************************************)
EXTENDS Integers, Sequences, FiniteSets

CONSTANTS
  Task,        \* task_structs
  Tar,         \* the headers of the archive: name, dir, size, elf
  Paths,       \* names programs pass to open and execve
  Dirs,        \* names programs pass to chdir
  FdArgs,      \* descriptors programs pass
  Counts,      \* byte counts programs pass to read
  MaxFd,       \* MAX_FD
  MaxPathLen,  \* MAX_PATH_LEN
  MaxObjects   \* bound on the file objects

Terminal == -1     \* the file object of the terminal, which is never freed
Root == <<"/">>
Flags == {"O_RDONLY", "O_DIRECTORY", "O_RDWR"}

ASSUME FilesAssumption ==
  /\ Tar \in Seq([name : Seq(STRING), dir : BOOLEAN, size : Nat, elf : Nat])
  /\ \A h \in DOMAIN Tar : Tar[h].dir => Tar[h].size = 0
  /\ MaxFd \in Nat /\ MaxFd >= 3 /\ MaxPathLen \in Nat /\ MaxObjects \in Nat /\ Counts \subseteq Nat
  /\ FdArgs \subseteq 0..(MaxFd - 1)

VARIABLES
  fdarr,    \* of every task: 0 is NULL
  cwd,
  objs,     \* file objects: data, offset and count; count 0 when freed
  out,      \* history: the bytes or headers delivered through each object
  closer,   \* history: the task whose close freed the object
  halted    \* the kernel has followed a wild pointer, or loops for ever

fileVars == <<fdarr, cwd, objs, out, closer, halted>>

Headers == DOMAIN Tar
Fds == 0..(MaxFd - 1)
Wild == Len(Tar) + 1    \* the offset of the root: a pointer outside the archive
IsDir(h) == h \in {0} \cup {k \in Headers : Tar[k].dir}
SizeOf(h) == Tar[h].size

FilesTypeOK ==
  /\ fdarr \in [Task -> [Fds -> Terminal..MaxObjects]]
  /\ \A t \in Task, fd \in Fds : fdarr[t][fd] <= Len(objs)
  /\ \A t \in Task : Len(cwd[t]) <= MaxPathLen
  /\ \A o \in DOMAIN objs : /\ objs[o].hdr \in 0..Len(Tar) /\ objs[o].count \in 0..1
                            /\ objs[o].offset \in Nat
                            /\ (objs[o].count = 0) = (closer[o] # 0)
  /\ DOMAIN out = DOMAIN objs /\ DOMAIN closer = DOMAIN objs

NoFiles == [fd \in Fds |-> 0]

FilesInit ==
  /\ fdarr = [t \in Task |-> NoFiles]
  /\ cwd = [t \in Task |-> <<>>]
  /\ objs = <<>> /\ out = <<>> /\ closer = <<>>
  /\ halted = FALSE

-----------------------------------------------------------------------------
(* The archive *)

\* get_tfs_next: 0 after the last header
GetTfsNext(h) == IF h = Len(Tar) THEN 0 ELSE h + 1

\* memcmp over the length of the path: the name begins with it
Begins(path, name) == Len(path) <= Len(name) /\ SubSeq(name, 1, Len(path)) = path

\* the first header whose name begins with the path, none or one
Lookup(path) ==
  IF path = Root THEN {0}
  ELSE {h \in Headers : /\ Begins(path, Tar[h].name)
                        /\ \A k \in 1..(h - 1) : ~ Begins(path, Tar[k].name)}

CheckTfsDir(path) == \E h \in Lookup(path) : IsDir(h)

\* the headers tfs_open makes an object for
TfsOpen(path, flags) ==
  {h \in Lookup(path) : flags # "O_RDWR" /\ (flags = "O_DIRECTORY" => IsDir(h))}

\* a directory starts at the header after its own, a file at byte 0
FirstOffset(h) == IF h = 0 THEN Wild ELSE IF IsDir(h) THEN GetTfsNext(h) ELSE 0

\* mutant: the count is not set
NewObjectUncounted(h) ==
  /\ Len(objs) < MaxObjects
  /\ objs' = Append(objs, [hdr |-> h, offset |-> FirstOffset(h), count |-> 0])
  /\ out' = Append(out, <<>>)
  /\ closer' = Append(closer, 0)

\* tfs_open's new object
NewObject(h) ==
  /\ Len(objs) < MaxObjects
  /\ objs' = Append(objs, [hdr |-> h, offset |-> FirstOffset(h), count |-> 1])
  /\ out' = Append(out, <<>>)
  /\ closer' = Append(closer, 0)

NoObject == UNCHANGED <<objs, out, closer>>

-----------------------------------------------------------------------------
(* System calls on files *)

Halt == halted' = TRUE /\ UNCHANGED <<fdarr, cwd, objs, out, closer>>

\* get_free_fd: the lowest one, none or one
GetFreeFd(t) == {fd \in Fds : fdarr[t][fd] = 0 /\ \A k \in 0..(fd - 1) : fdarr[t][k] # 0}

\* sys_open cuts the last character of the name before it looks for it
SysOpen(t, name, flags) ==
  \E fd \in GetFreeFd(t), h \in TfsOpen(SubSeq(name, 1, Len(name) - 1), flags) :
    /\ NewObject(h)
    /\ fdarr' = [fdarr EXCEPT ![t][fd] = Len(objs')]
    /\ UNCHANGED <<cwd, halted>>

Object(t, fd) == fdarr[t][fd]

Dangling(o) == o > 0 /\ objs[o].count = 0

\* mutant: the descriptor keeps its pointer
SysCloseKeeps(t, fd) ==
  LET o == Object(t, fd) IN
  /\ o # 0 /\ ~ Dangling(o)
  /\ IF o = Terminal THEN NoObject /\ fdarr' = [fdarr EXCEPT ![t][fd] = 0]
     ELSE /\ objs' = [objs EXCEPT ![o] = [hdr |-> 0, offset |-> 0, count |-> 0]]
          /\ closer' = [closer EXCEPT ![o] = t]
          /\ out' = [out EXCEPT ![o] = <<>>]
          /\ UNCHANGED fdarr
  /\ UNCHANGED <<cwd, halted>>

\* tfs_close: the count it takes down is 1, so that the object is cleared and freed
TfsClose(o, t) ==
  /\ objs' = [objs EXCEPT ![o] = [hdr |-> 0, offset |-> 0, count |-> @.count - 1]]
  /\ closer' = [closer EXCEPT ![o] = t]
  /\ out' = [out EXCEPT ![o] = <<>>]

\* closing the terminal frees nothing
SysClose(t, fd) ==
  LET o == Object(t, fd) IN
  /\ o # 0
  /\ IF Dangling(o) THEN Halt
     ELSE /\ IF o = Terminal THEN NoObject ELSE TfsClose(o, t)
          /\ fdarr' = [fdarr EXCEPT ![t][fd] = 0]
          /\ UNCHANGED <<cwd, halted>>

\* mutant: the count is not cut at the end of the file
TfsReadPast(o, n) == n

\* how many bytes tfs_read copies; the difference of size and offset is not negative
TfsRead(o, n) ==
  LET rest == SizeOf(objs[o].hdr) - objs[o].offset IN IF n < rest THEN n ELSE rest

\* tfs_read of a directory copies from an address made of its next header
ReadHalts(o) == Dangling(o) \/ (IsDir(objs[o].hdr) /\ objs[o].offset # 0)

SysRead(t, fd, n) ==
  LET o == Object(t, fd)
      acount == TfsRead(o, n)
  IN /\ o > 0
     /\ IF ReadHalts(o) THEN Halt
        ELSE /\ objs' = [objs EXCEPT ![o].offset = @ + acount]
             /\ out' = [out EXCEPT ![o] = @ \o [i \in 1..acount |-> objs[o].offset + i]]
             /\ UNCHANGED <<fdarr, cwd, closer, halted>>

\* mutant: a directory ends at the end of the archive only
ListsAll(d, h) == TRUE

\* whether tfs_readdir takes header h for an entry of the directory d
Lists(d, h) == Begins(Tar[d].name, Tar[h].name)

\* the rest of the entry's name has a slash in it: tfs_readdir tries the same one again
Deeper(d, h) ==
  \E k \in Headers \ {d} : IsDir(k) /\ Begins(Tar[d].name, Tar[k].name) /\ Begins(Tar[k].name, Tar[h].name)

\* the offset of a file is a byte count, the one of the root leads out of the archive
ReaddirHalts(o) ==
  \/ Dangling(o)
  \/ /\ objs[o].offset # 0
     /\ \/ objs[o].hdr = 0 \/ ~ IsDir(objs[o].hdr)
        \/ Lists(objs[o].hdr, objs[o].offset) /\ Deeper(objs[o].hdr, objs[o].offset)

\* one entry, or the end
TfsReaddir(o) ==
  LET h == objs[o].offset IN
  IF h # 0 /\ Lists(objs[o].hdr, h)
  THEN /\ objs' = [objs EXCEPT ![o].offset = GetTfsNext(h)]
       /\ out' = [out EXCEPT ![o] = Append(@, h)]
  ELSE /\ objs' = [objs EXCEPT ![o].offset = 0]
       /\ UNCHANGED out

\* the terminal has no entries
SysGetdents(t, fd) ==
  LET o == Object(t, fd) IN
  /\ o > 0
  /\ IF ReaddirHalts(o) THEN Halt
     ELSE TfsReaddir(o) /\ UNCHANGED <<fdarr, cwd, closer, halted>>

\* sys_write on a file does nothing but follow the pointer
SysWrite(t, fd) == Dangling(Object(t, fd)) /\ Halt

\* sys_chdir; it also frees the page the name is in, which is memory of the caller and
\* not part of this module
SysChdir(t, path) ==
  /\ path[1] # "." /\ Len(path) <= MaxPathLen /\ CheckTfsDir(path)
  /\ cwd' = [cwd EXCEPT ![t] = path]
  /\ UNCHANGED <<fdarr, objs, out, closer, halted>>

FileCall(t) ==
  \/ \E name \in Paths, flags \in Flags : SysOpen(t, name, flags)
  \/ \E fd \in FdArgs : \/ SysClose(t, fd) \/ SysGetdents(t, fd) \/ SysWrite(t, fd)
                        \/ \E n \in Counts : SysRead(t, fd, n)
  \/ \E path \in Dirs : SysChdir(t, path)

-----------------------------------------------------------------------------

\* A task loses a file it has open only when another task, which fork gave the same
\* object to, closes it: its own closes leave no pointer behind
LostOnlyToRelative ==
  \A t \in Task, fd \in Fds : Dangling(Object(t, fd)) => closer[Object(t, fd)] # t

\* The tasks that read through one file object together get every byte of the file
\* once and in order, up to its end and no further
ReadsInOrder ==
  \A o \in DOMAIN objs :
    ~ IsDir(objs[o].hdr) =>
      /\ objs[o].offset <= SizeOf(objs[o].hdr)
      /\ out[o] = [i \in 1..objs[o].offset |-> i]

\* what the listing of a directory has delivered so far
Delivered(o) == {out[o][i] : i \in DOMAIN out[o]}

\* what a directory holds
Inside(d) == {h \in Headers \ {d} : Begins(Tar[d].name, Tar[h].name)}

\* A listing that has come to its end has delivered everything in the directory, once
\* and in the order of the archive, and nothing else
ListingComplete ==
  \A o \in DOMAIN objs :
    LET d == objs[o].hdr IN
    (d # 0 /\ IsDir(d)) =>
      /\ Delivered(o) \subseteq Inside(d)
      /\ \A i, j \in DOMAIN out[o] : i < j => out[o][i] < out[o][j]
      /\ objs[o].offset = 0 => Delivered(o) = Inside(d)
==============================================================================
