# A TLA+ development for os506

os506 is a small 64-bit kernel with a shell: one processor, cooperative
scheduling, `fork` with copy-on-write, a keyboard terminal and a tar file
system. This directory models the parts of it that are hard to test, checks
them with TLC on small instances and proves with TLAPS, for every instance, safety of the
page allocator, copy-on-write, the scheduler and the shell's loop, the terminal, the disk
driver, the user heap, the clock, the task pool and the sharing of open files, and that
the scheduler's lists are a round-robin queue for the workloads for which they are one.

## 1. The system

| part | state | operations | interacts with | what is hard about it |
|---|---|---|---|---|
| page allocator, `sys/pmap.c` | `list_arr` (base, map_count, next), `freelist_head` | `pmap_init`, `get_free_page`, `release_page`, `inc_map_count` | everything that maps memory | a list through an array with holes; counts; wrong pointers |
| address spaces, `sys/pging.c`, `mm.c`, `kmalloc.c`, `elf64.c`, `isr.c` | page tables, VMAs, `brk` | `load_elf`, `fork_process`, `handle_pg_fault`, `kmmap`, `sys_brk` | allocator, scheduler | sharing that nobody may observe; counts of shared pages; running out of pages |
| scheduler, `sys/schedule.c` | three list heads, one `next`/`prev` pair per task, `current` | `get_next_task`, `reschedule`, `switch_to`, `add_*_task` | system calls, clock | one pair of pointers for three lists; interrupts on during the choice |
| process calls, `sys/syscall_handler.c` | `runnable`, `waiting`, `wait_pid`, `num_children`, `pid` | yield, sleep, wait4, fork, exit, execve | scheduler, address spaces | order of exit and wait; `fork` copies a whole `task_struct` |
| task pool, `sys/task_pool.c` | five free lists | `get_*`, `release_*`, `reload_*`, `replace_task` | all of the above | a freed chain linked by the wrong field |
| clock, `sys/ktime.c` | `ticks`, `s_cnt`, `second`, `day`, `ms` | `addTick` | sleep | seconds of two lengths |
| terminal, `sys/kprintf.c` | ring buffer, `full`, `count`, `backspace` | `term_putchar` (interrupt), `term_read` | keyboard, `sys_read` | an interrupt between any two statements of `term_pop` |
| shell, `bin/sbush` | its place in the loop | read, fork, exec, wait | process calls | prompt exactly when the command is over |
| files, `sys/tarfs.c`, `fdarr` | file objects, descriptors | open, read, close, getdents, chdir | task pool | `fork` shares file objects that `close` frees |
| pipes, `sys/kpipe.c` | ring buffer | read, write, close | files | `syspipe` returns before it makes one |
| user heap, `libc/memory.c` | block list | malloc, free, sbrk | `sys_brk` | reuse of blocks, failing `sbrk` |
| disk, `sys/ahci.c`, `sys/pci.c` | port and slot registers | read, write, probing | device | hardware protocol |
| screen, `sys/kprintf.c` | `x`, `y`, `arr` | `kputchar`, `term_write`, echo | terminal | wrapping and scrolling under a line that is being edited |
| boot, descriptor tables, libc, programs | | | | straight-line code |

Interrupts are off in a system call or fault until `run_next_task` (or the
`sti; hlt` of `sys_read`) turns them on; programs are never preempted, as the
timer interrupt only counts. So a call is one step of a model except where
interrupts are on, and there it is split at every statement that matters.

## 2. Modules

| module | models | composes / refines |
|---|---|---|
| `PageAlloc` | the promise of the allocator: a count per page | |
| `Pmap`, `MCPmap` | `sys/pmap.c` | implements `PageAlloc` |
| `PrivateMemory` | the promise of `fork` and `execve`: one memory per process, a copy of the parent's or a fresh image | |
| `Vm`, `MCVm` | address spaces over page counts | implements `PrivateMemory` |
| `VmProofs` | theorems about `Vm`: tables and areas, then fork and the refinement | |
| `RoundRobin` | the promise of the scheduler: a queue | |
| `Schedule`, `MCSchedule` | scheduler and process calls | implements `RoundRobin` for some workloads |
| `Sbush` | the shell's loop on top of `Schedule` | extends `Schedule` |
| `ScheduleProofs` | theorems about `Schedule` and `Sbush` | |
| `QueueProofs` | that `Schedule` implements `RoundRobin` | extends `ScheduleProofs` |
| `Ktime` | the clock | |
| `Terminal` | keyboard interrupt and reader | |
| `Screen` | `kputchar`, the echo and program output | extends `Terminal` |
| `TerminalProofs` | theorems about `Terminal` and `Screen`: ring, line and cursor, the steps, the echo | |
| `TaskPool` | pools of structures, vma lists, `replace_task` | |
| `Files` | file calls over the tar archive | |
| `Process`, `MCProcess` | fork, execve and exit over pools and files | composes `TaskPool` and `Files` |
| `PoolProofs` | theorems about the structures of `Process` | |
| `FilesProofs` | theorems about the files of `Process` and its types | extends `PoolProofs` |
| `Allocator` | the promise of malloc: bytes nobody else has | |
| `Malloc` | `libc/memory.c` over `sys_brk` | implements `Allocator` |
| `AllocatorProofs` | theorems about `Pmap` and `Malloc` | |
| `Ahci` | disk driver, PCI walk and the controller | |
| `DeviceProofs` | theorems about `Ahci` and `Ktime` | |

Operators with a comment that begins with "mutant" are altered copies of the
definition that follows them. Each property fails when one of them takes the
definition's place, which shows that the property depends on the code.

**Pmap.** A descriptor is its index from 1, 0 is the null pointer. `pmap_init`
is one step per descriptor (`InitKernelPage`, `InitFirstPage`, `InitFreePage`,
`InitTail`), then any order of `GetFreePage`, `ReleasePage(p)` and
`IncMapCount(p)` with any pointer, valid or not. The memory map is the constant
`Base`, so regions, holes and the kernel's place are arbitrary.

**Vm.** Virtual pages are numbers, page contents small values. A page table
entry is a page with its write and copy-on-write bits. `Load` is `load_elf`,
from boot or from `execve` (which gives no page back), `Fork` is
`fork_process` with its copy of the stack and its double visit of a page that
two segments share, `CowFault`, `DemandFault` and `SegFault` are the branches
of `handle_pg_fault`, `Brk` is `sys_brk`. A break is an address (page `v` begins at
`v * PageSize`) and `vm_end` the page that `ALIGN_UP` rounds it up to, which is the first
page of the stack when the break lies in the last page below it. Which free page is taken is left
open. When no page is left the kernel faults at a kernel address and loops;
that and `panic` are `halted`. The tables and the kernel stack of a process are
`TablePages` pages, taken and never returned. A program's store (`Write`)
needs a writable entry; a store by a system call (`KernelWrite`) does not,
since nothing in the kernel sets CR0.WP. `Layouts` are the segment tables of the
programs, `Brks` the breaks they ask for, and `Buffers` the pages that a system
call stores into.

**Schedule.** Tasks are numbers; the three heads and the `next`, `prev` fields
are the code's own, so stale pointers are visible in the model. `stage` says
what the processor does: a program (`run`), `get_next_task` before and after its
loop over the sleeping list (`pick`, `search`), between choice and switch
(`switch`), or the `panic` behind `execve`. The timer ticks at every stage where
interrupts are on. A traversal of a cyclic list never ends in the code; in the
model the step is not enabled, so the machine stops. `exit` and the other calls
are possible for any task that the scheduler runs, also for one that has exited
and is wrongly resumed.

**Sbush.** The shell's program counter `prog` on top of the kernel: `fork`,
then `wait(-1)`; the child calls `execve` or, when the program does not exist,
exits.

**Ktime.** `addTick` as it is, with the length of a day as a constant.

**Terminal.** The interrupt is one step; the reader is split at each statement
of `term_pop`, and `count--` on the volatile char is a load and a store. `typed`
and `read` are histories. The key table has no tab and no EOT; a character is
one of two visible ones, a newline, or `nul` for the keys whose entry in the table
is 0 (arrows, function keys), which are stored like any other and not shown.

**Screen.** `Screen` adds `kputchar` below the terminal. `BASE` and `arr` are
written together and are one array. A key and its echo are one step, since both
happen in the interrupt. Programs write printable characters, newline, carriage
return, backspace and tab; the bytes `kputchar` ignores change nothing. The loop for a
tab has no end in the code, so after a tab only `TabLoop` goes on. `mixed` records that a
program wrote into the line being typed, and `astray` that the cursor has gone back
without the line: over a key that was not shown, or because a program wrote a backspace
or a carriage return into the line, or a backspace at the first cell of the screen. A
newline key begins a new line and ends both.

**TaskPool, Files, Process.** A structure is a number and a pool the code's list
through `free`; vma lists go through `next`. `Reload` is the refill from a page,
`Replaced` and `Relinked` are the two assignments of `replace_task`. In `Files`
a header of the archive is a number and a name a sequence of tokens, so that a
name can be the beginning of another, which is all that `memcmp` sees. A file
object is a page of `kmalloc`, whose addresses are not used again; following a
pointer to a freed one stops the kernel (`Halt`), as do a read of a directory,
`getdents` on the root and the endless loop of `tfs_readdir`. `Process` joins the
two: one step of fork, execve or exit changes both. The objects that
`create_elf_process` never closes are left out, as nothing points to them.
`SysChdir` leaves out `kfree` of the caller's page (section 5).

**Malloc.** A block is its address, size and free flag, in the order of the
list. `SysBrk` moves the break before it decides about the vma, as the code does,
and `Sbrk` cannot see a refusal. A store at an address in no vma ends the run.

**Ahci.** The driver's program counter is split where it reads a register. The
controller is external: it answers reset and engine switches late, moves the
data of a command at some time, and completes or fails it; a failure may leave the
bit in `ci` and stop the engine. `ahci_write` and `ahci_read` are the same code
but for the direction, so that one definition stands for both and the map names
one of the two. `main.c` has the call of `ahciTest` commented out.

## 3. Runs

Passing runs:

| run | bounds | shows |
|---|---|---|
| `pmap` | 5 pages in two regions, kernel in the second, pointers -1 and one in the hole, counts to 2 | `FreeListExact`, `NeverCorrupt`, `ImplementsPageAlloc` |
| `vm` | 3 processes, 5 pages, a program with one segment and one with two in the same page, heap of one page up to the stack, pages of two bytes and a break inside a page, stack of two | `MappedIsCounted`, `WritableIsPrivate`, `ImplementsPrivateMemory` |
| `sched_fixed` | 5 tasks, yield, fork, exit; no fork after the first exit | `ImplementsRoundRobin`, `ReadyRuns`, `ExitedIsRemoved` |
| `sched_sleep` | 3 tasks, all calls but wait, clock to 2, sleeps to 2 | `NoSleeperRuns` |
| `sched_wait` | 4 tasks, all calls but sleep | `UniquePid`, `WaitReturnsChild` |
| `sbush` | 14 tasks, commands that exist and that do not | `PromptAfterCompletion`, `PromptReturns` |
| `ktime` | day of 3 seconds, 300 interrupts | `ClocksAgree` |
| `terminal` | ring of 3, char of 3 values, 5 keys, one key between two statements of `term_pop`, reads of 1 and 2, screen of 3 by 2, 2 characters of output of every kind | `NothingLost`, `EraseInLine`, `WholeLines`, `LineIsRead`, `CursorOnScreen`, `EchoIsLine` |
| `process` | 3 tasks, 12 structures of a kind with 1, 2 and 3 to a page, archive of 6 headers, 2 file objects, descriptor 2 used by the programs | `ListsKept`, `NotSharedTwice`, `LostOnlyToRelative`, `ReadsInOrder`, `ListingComplete` |
| `malloc` | 5 blocks, requests of 0, 1, 4 and 9 bytes, alignment 4, pages of 8, three pages of room below the stack | `BlocksDisjoint`, `BlocksInHeap`, `ImplementsAllocator` |
| `ahci` | PCI functions at slot 0 (0 and 3) and slot 1, 2 command slots, 3 blocks, spin limit 2, 2 failures | `ControllerFound`, `WrittenIsStored`, `VerdictSound`, `RebaseWhileStopped`, `TablesKept`, `TestEnds` |

`vm`, `sched_sleep`, `terminal`, `process` and `ahci` also check the type invariant
of their module; those of `Pmap`, `Ktime` and `Malloc` are proved (section 4).

Why these bounds are enough for the cases to happen: five pages allow a page to
be shared by two, copied by both and given out again, or a tree of three
processes, and exhaustion in each of them; five tasks allow three children with
their exits and yields in every order; the ring of three wraps around and fills
up with every mixture of newlines and other keys; three tasks allow a parent and two
relatives to hold one file object while one of them closes it; three pages of heap
are used up within five blocks, so that refused requests and reuse both occur; two
command slots are used up by two failures, and slot 1 is where function 8 of slot 0
leads. In `vm` pages and processes are
interchangeable, which justifies the symmetry set.

Three of the passing runs are restricted, because what they show fails beyond
the restriction:

- `sched_fixed` has no fork after an exit: `sched_lost` shows that the queue
  breaks otherwise;
- `sched_sleep` and `sched_wait` never mix sleep with wait. The three lists share
  one pair of pointers, so with both calls a search of one list walks into
  another: with both calls in one configuration `WaitReturnsChild` and
  `NoSleeperRuns` fail;
- `vm` has system calls store into stack pages only (`Buffers = {3, 4}`). `fork`
  copies the stack, all other pages are shared, and a system call's store into a
  shared page is seen by both processes: with `Buffers` containing a segment or
  heap page `ImplementsPrivateMemory` fails.

`CHECK_DEADLOCK FALSE` stands where the system may stop: a halted machine, a
cyclic list, or the end of the bounded clock.

One run has TLC find the code to differ from what a document of the repository
says: in `sched_lost` a task forked after an exit can drop out of the available
list and never run (`ReadyRuns`).

Five more such differences were found in the same way, and no run is kept for
them:

- a wait returns although no child has exited, once sleep and wait are mixed
  (`syscall_handler.c:73`; the comment at line 50 says "Wait for pid to return");
- the caller of `execve` is scheduled again at the second command and reaches the
  `panic` that `syscall_handler.c:531` says is not reached "on success".
  `PromptReturns` is stated up to that panic;
- `count--` can lose a newline (`kprintf.c:116`; line 21 calls it "number of input
  delims"). `LineIsRead` is stated for a count that is not 0;
- `read` stores one character more than its size (`kprintf.c:141`; line 126 calls it
  "size of the data to read"): `Len(got') <= size` fails. `WholeLines` has the bound
  `size + 1`, which the code keeps and which a loop with `count < size` keeps too;
- a tab that a program writes prints blanks without end (`kprintf.c:396`; line 394 says
  "move cursor 4 blank space forward").

The models show more of the kind, for which no run is kept: a task can resume
after its exit (`schedule.c:238` does not look at `runnable`); `fork` copies
`num_children` to the child (`schedule.c:362`); a woken task stays on the
available list (`schedule.c:281`); a wait for a child that has already exited, or
a traversal of a list that has become cyclic, does not end
(`syscall_handler.c:61`, `schedule.c:147`); a refused `brk` has moved the break
(`syscall_handler.c:318`); a second takes one interrupt more than its limit, so
the clock is about five percent slow (`ktime.c:26`); the char that counts lines
can wrap (`kprintf.c:287`); after a `fork` the first `close` frees the file under the other
task (`schedule.c:362`), and `LostOnlyToRelative` says that this is the only way to
lose one; erasing a key that was not shown moves the cursor back over other output
(`kprintf.c:203`), and a program's backspace above the first row takes it off the screen
(`kprintf.c:381`), so the two screen properties exclude both; a failed read leaves the
pattern of block 0 in the buffer (`ahci.c:475`), so `VerdictSound` excludes that
block.

Plain from the code, with no property: a path opens the first file whose name
begins with it (`tarfs.c:109`); listing a directory that has a subdirectory does
not end (`tarfs.c:252`); every `execve` loses the page of the object it opens
(`elf64.c:38`); `malloc`'s test for a negative size never holds (`memory.c:45`); a
disk command of more than 16 sectors asks for the remainder only (`ahci.c:73`).

### Fairness

`Schedule`: `GetNextTask` and `SwitchTo` are kernel code that runs to its end,
and a program calls `yield` or `exit` in the end, which cooperative scheduling
has to assume (nothing preempts a program). `Sbush`: the same for the kernel; a
command ends and the shell goes on to `wait`, but nobody need type a command.
`Terminal`: the reader's statements execute, and the timer ends every `hlt`; no
fairness for keys. `Ahci`: the driver runs alone on the processor, and the controller
answers a reset, follows its switches and works on its commands in the end; a busy
device need never become ready, and no failure is forced.

## 4. Proofs

`AllocatorProofs` proves of `Pmap`, for every number of pages, memory map and kernel placement
(assumption `PmapAssumption`: bases are distinct, the first page is not the
kernel's):

- `TypeCorrect`: `Spec => []TypeOK`;
- `FreeListCorrect`: `Spec => []FreeListExact`;
- `HeadIsFree`: `Spec => []NeverCorrupt`;
- `RefinesPageAlloc`: `Spec => ImplementsPageAlloc`.

`FreeListExact` is an existential statement about a sequence. It is made
inductive by naming the length and the sequence of the chain and by adding what
holds in the middle of `pmap_init`: the tail pointer `prev` is the last element,
descriptors not yet reached have null pointers, and no page of the kernel is on
the list. Every action keeps the chain: a release puts a page in front, an
allocation drops the first, a step of `pmap_init` appends one. The refinement
follows, as "out of memory" means an empty chain and so no page with count 0.

`VmProofs` proves for any finite set of processes, any set of pages, any page size, any
break and every program layout (assumption `VmAssumption`: segments lie below the heap
and the heap begins below the stack):

- `VmInvariant`: `Spec => []IInv`;
- `VmTyped`: `Spec => []TypeOK`, in which the heap ends at the latest where the stack
  begins, although the code compares with the stack before it rounds up;
- `MappedPagesCounted`: `Spec => []MappedIsCounted`;
- `WritablePagesPrivate`: `Spec => []WritableIsPrivate`;
- `VmRefines`: `Spec => ImplementsPrivateMemory`, with the hypothesis `StackBuffers` that
  system calls store into stack pages only. Section 3 says why it is needed.

`IInv` is the type invariant with four more facts. `Counted` and `Private` are the two
invariants as operators on a table and its counts, so that one lemma can be applied to
the states before, in the middle of and after a step. `StackIsOwn` says that a process
that runs has its top stack page and that `fork` has never shared a stack page;
`InAreas` says that mapped pages lie in a segment, in the heap or in the stack, so that
the visits of `fork_process` to areas find every mapped page. Without it a page could be
shared and not counted. Each step is one of three changes of tables: entries for free
pages (`Fresh`: loading and demand faults), second entries without the write bit
(`Share`: the first half of fork), and an entry that moves to a copy (`Copy`: the
copy-on-write fault). Fork is `Share` and then `Fresh` for the stack. A page that two
segments have in common is visited twice and counted twice, which `Counted` allows as it
asks only that the count is not too small.

For the refinement the memory of a process is what its entries lead to. A store goes to
a page with no other entry by `Private`, or to a stack page by `StackBuffers` and
`StackIsOwn`, so no other process sees it.

`ScheduleProofs` proves for any number of tasks, any length of sleep and every order of
calls:

- `SchedulerInvariant`: `Spec => []IInv`;
- `SchedulerTyped`: `Spec => []TypeOK`;
- `PidsAreUnique`: `Spec => []UniquePid`;
- `SleepersStay`: `Spec => []NoSleeperRuns`, with the hypothesis `NoWaits` that no program
  calls wait4. It is needed, as section 3 says: the search of the waiting list looks at
  `waiting` only, and the shared pointers can lead it to a sleeper;
- `WaitsAreAnswered`: `Spec /\ [][NoExecAfterExit]_vars => WaitReturnsChild`, with the
  hypothesis `NoSleeps`. `NoExecAfterExit` says that a task which has exited does not call
  execve: a task can be resumed after its exit (section 3), and the hypothesis is one on
  programs, that none is written to go on and call execve. The proof needs it, as execve
  would take pid and parent away from the child that answered. TLC found no violation without it on four tasks;
- `PromptComesLast`: `ShellSpec => []PromptAfterCompletion`.

The lists are recursive functions over stale pointers, so `IInv` says nothing of their
shape. It says that no head, link or parent leads to a task not yet made, that a task is
made exactly when its number is below the next pid, and that pids of running tasks
differ. Whatever a search returns is then a task there is, for which it tested its
condition. That a walk along `next` stays among the tasks there are is an induction over
its length, done by the least step that leaves them (lemma `Least`; `WalkExists` shows
that the recursive function of the walk exists). For sleep, `SleepInv` adds that the
waiting list is empty and that who is chosen has slept its time, which a tick between
choice and switch cannot undo. For wait, `WaitInv` adds that the sleeping list is empty,
that who is chosen does not wait, and that a call of wait4 which waits no longer has its
answer. For the shell, `ShellInv` says that at most one command is on its way, and that
the shell then waits for it or is about to.

`QueueProofs` proves, for any number of tasks:

- `QueueIsRoundRobin`: `Spec /\ [][NoForkAfterExit]_vars => ImplementsRoundRobin`, with the
  hypothesis `OnlyYields` that programs only yield, fork and exit.

So no ready task is lost, none runs before one that has waited longer, and idle runs
only when no other task is ready. Both hypotheses are needed: a fork after an exit loses a
task (`sched_lost`), and sleep and wait put a task on two lists. They are what
`sched_fixed` checks. The refinement mapping `Ready` is the runnable tasks along the
available list and then the one that is to be put back on it (`Keep`).

Here the shape of the lists matters, so `QInv` describes it, stale pointers included. A
task leaves the available list by a move of the head and keeps its pointer, so that the
list may go on, behind its tasks, to tasks that have exited, to idle and even to the task
that runs. `QInv` says that pointers lead to a task of higher rank (hence no list is
cyclic; the rank is an existential witness), that every runnable task other than the one
that runs is on the list (`QueueOK`), and that what lies behind the task that runs, where
the list comes to it, is not runnable (`Behind`): when that task is put at the end, the
link that is cut loses nobody. Before the first exit more is true (`RunningEarly`,
`ChosenEarly`), and a fork needs it: the child copies its parent's pointers, which is
harmless only while the parent's pointer is clear or leads to the head of a list with two
runnable tasks. After an exit it is false, which is why a fork is then fatal. The list as
a sequence comes from the recursive function of the walk by `Least`; that a list without
repetitions is no longer than there are tasks is a pigeonhole argument (`Pigeonholes`,
`DistinctShort`).

`DeviceProofs` proves for every machine, any number of command slots, blocks and
failures, and a controller that answers at any time (assumption `AhciAssumption`: a block
fits in one PRDT entry and the sectors tested have numbers of four bytes, as those of
`ahciTest` do; PCI addresses are those of the slots walked):

- `DriverInvariant`: `Spec => []IInv`;
- `DriverTyped`: `Spec => []TypeOK`;
- `WalkFindsController`: `Spec => []ControllerFound`;
- `WritesAreStored`: `Spec => []WrittenIsStored`;
- `VerdictIsSound`: `Spec => []VerdictSound`;
- `RebasesWhileStopped`: `Spec => RebaseWhileStopped`, an action property;
- `TablesAreKept`: `Spec => TablesKept`, an action property.

`IInv` is the type invariant with the walk's result (`PciOK`), how far `stop_cmd` has
come (`EngineOK`), the place in `ahciTest`'s loops (`LoopOK`), the slots and the data.
`SlotsOK` is what the rest turns on: the controller works on the command of the call
that waits and on no other, because bits that failed calls left in `ci` belong to
commands it has given up, and `find_cmdslot` takes a slot without a bit. So a transfer is
always the one of the current call, and `DataOK` can say what it brought: the pattern of
block `k` to sector `Sectors * k`, or that block to the second buffer. That the sector
comes out of the six bytes of the FIS as it went in is lemma `LbaOfBytes`, and that a
walk which asks only functions 0 to 8 of a slot with a function 0 misses nothing is
`WalkAsks`.

For the clock the module proves `ClockCorrect`: `ClockSpec => []ClocksAgree`, from
`KtimeAssumption`, with the type invariant as the strengthening, for every length of
the day.

Of `Malloc` the module `AllocatorProofs` proves, from `MallocAssumption` (positive sizes,
heap below the stack on page boundaries, no request wraps around), for every number of
blocks:

- `Disjoint`: `HeapSpec => []BlocksDisjoint`;
- `InHeap`: `HeapSpec => []BlocksInHeap`;
- `RefinesAllocator`: `HeapSpec => ImplementsAllocator`.

The strengthening relates the list to the break: every block ends at or below it,
whether or not `sys_brk` refused, because the break moves first. A new block starts
at the old break and so behind all others. The type invariant is part of it, as it is
of the invariants of the two before.

`FilesProofs` proves four properties of `Process`, for every archive in
which a directory has size 0 (`FilesAssumption`), any number of tasks, descriptors and
objects, and every order of file and process calls:

- `ReadsCorrect`: `Spec => []ReadsInOrder`;
- `ClosesCorrect`: `Spec => []LostOnlyToRelative`;
- `ListingsComplete`: `Spec => []ListingComplete`, with the hypothesis `DepthFirst` that
  what a directory holds comes directly behind it in the archive, as `find` gives the
  names to `tar` in the `Makefile`. It is needed, as `tfs_readdir` ends at the first name
  that does not begin with the directory's;
- `ProcessTyped`: `Spec => []TypeOK`.

For `ReadsInOrder` the strengthening `IInv` says that descriptors point to objects there
are, and that an object of the root that is not freed has an offset other than 0: this is
what keeps `tfs_read` away from the size of a header that is not in the archive. A read
appends the bytes after the offset and moves the offset by as many. For
`LostOnlyToRelative` the strengthening `JInv` adds that a task has an object at one
descriptor only, and that `get_task` never gives a structure out twice: the free list of
the task pool only rises, and every task that runs or has closed something is below its
head. So a child cannot be a task that closed the object before. For `ListingComplete`
the strengthening `LInv` says that what an object has delivered are the headers behind its
directory, in order and without a gap, up to the one that its offset names. The type
invariant of `Process` puts the invariants of files and pools together and adds that an
object is freed exactly when a close of it is on record.

`PoolProofs` proves of the structures of `Process`, for any number of them, of pages and of
tasks:

- `PoolInvariant`: `Spec => []PInv`;
- `ListsStay`: `Spec => []ListsKept`;
- `StructuresNotShared`: `Spec => []NotSharedTwice`.

`PInv` says that the free list of every pool is an interval of structures, from its head
to the last one of a page, that nobody uses any of them, and that a task that runs has a
list of vmas without repetitions, the one it was given. The interval is what makes the
pools simple enough to reason about: `get_*` takes from the front, `reload_*` is called
for an empty pool only and links a fresh page, and structures come back to the vma pool
alone, by `replace_task`, which links the list it gives back through `next` where the pool
reads `free`. So the pool gets one structure, with nothing behind it, and loses the others
of both lists; this is a leak and never a structure with two owners. What the recursive
functions `ListFrom` and the repeated `get_*` return is found by the least index at which
they differ from the list that is meant.

`TerminalProofs` proves for every size of the ring, of the counting
char and of the screen, any number of keys, and an interrupt between any two statements
of the reader:

- `TerminalInvariant`: `ScreenSpec => []IInv`;
- `NothingIsLost`: `ScreenSpec => []NothingLost`;
- `ErasesInLine`: `ScreenSpec => []EraseInLine`;
- `ReadsWholeLines`: `ScreenSpec => WholeLines`, an action property;
- `ScreenTyped`: `ScreenSpec => []ScreenTypeOK`;
- `CursorStays`: `ScreenSpec => []CursorOnScreen`;
- `EchoShowsLine`: `ScreenSpec => []EchoIsLine`.

All of them have the hypothesis `OneKey`: at most one key arrives between two statements
of `term_pop`. It is needed. When the ring is full, `term_pop` advances `start` and only
then clears `full`; a first key in between fills the slot, and a second one finds `full`
still set or sets it again, after which `full = 0` makes a full ring look empty. One key
is what the time between two statements allows.

`IInv` says that the slots from `start` hold the characters typed and not read
(`Ring`); that `backspace` counts the characters behind the last newline and that none
of them was read (`InLine`); that `full` is right except between the two assignments,
where it is what one key can have made of it (`FullOK`); and that `count` is, in the
width of a char, a number from what the reader was told to the number of newlines in the
ring and one that is popped but not yet taken off (`CountOK`). The last is an interval
and not an equation because `count--` can lose an increment. It is enough for the reader
never to find the ring empty or to run into the line being typed. The modular arithmetic
of the indices is reduced to one lemma (`Around`). For the cursor, `ScreenInv` adds that
the cells before the cursor are at least as many as the characters a backspace can
erase, unless `astray`; output of a program keeps that if it moves the cursor forward, and
if it moves it back when there is nothing to erase. For the echo, `EchoIsLine` is inductive with `ScreenInv`: a visible character of
the line is as many cells before the cursor as there are visible characters from it to
the end of the line. Putting a character or erasing one moves the cursor by one and
changes that number by one for every character; scrolling moves cells and cursor
together; output of a program sets `mixed` unless no line is being typed.

Only model-checked are the liveness properties (`ReadyRuns`, `ExitedIsRemoved`,
`PromptReturns`, `LineIsRead`, `TestEnds`): the prover has no fairness. Every invariant,
action property and refinement that a run checks is a theorem, under the hypotheses given
with it.

## 5. Not modelled

Descriptor tables, boot, most of the C library and the programs are straight-line
code. `syspipe` returns before it makes a pipe, so that no state of `sys/kpipe.c` is
reachable. Nothing calls the pools of file and dirent structures, `release_*` or
`tfs_closedir`.

Inside modelled parts:

- registers saved by `switch_to`, the status word of `wait4`, `sys_ps`;
- the levels of the page tables, in particular a heap that reaches a region without
  a table;
- `sys_chdir`'s `kfree` of the page that holds the name (`syscall_handler.c:574`),
  which takes a page of the caller's memory away. `Files` has no user memory, and
  `Vm` with this call was too large for TLC;
- the octal size field and the fields of a directory entry in `sys/tarfs.c`;
- kprintf's formatting, the clock and key display;
- arguments and environment on a new program's stack;
- what `ahciTest` does with an uninitialised address when there is no controller,
  transfers of more than 16 sectors, PCI buses other than one, `check_type`;
- the shell's parsing, cd, export, pipes and scripts.

## 6. Plan

1. The argument layout of the ELF loader; the choice of regions in `pmap_init`.
2. The shell's parser.
