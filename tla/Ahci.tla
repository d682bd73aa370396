-------------------------------- MODULE Ahci ---------------------------------
(***************************************************************************)
(* The disk driver, sys/ahci.c and sys/pci.c, and the controller it polls. *)
(* ahciTest looks for the controller, resets it, sets up port 0, writes a  *)
(* pattern to every block of the disk's start and reads it back.  The      *)
(* controller runs beside the driver: it answers the reset and the switches*)
(* of its engine late, moves a command's data at some time after the issue *)
(* and completes or fails it.  After a failure the command's bit in ci may *)
(* stay set, and the engine may have stopped, which the driver never looks *)
(* at.  (The call of ahciTest in main.c is commented out.)                 *)
(***************************************************************************)
EXTENDS Integers, Sequences, FiniteSets, FiniteSetsExt

CONSTANTS
  Addresses,  \* PCI functions a machine may have, as 8 * slot + function
  MaxSlot,    \* the last PCI slot; odd, 31 in the code
  CmdSlots,   \* MAX_CMD_SLOT_CNT
  MaxSpin,    \* 3000000
  Blocks,     \* blocks tested, 100
  Sectors,    \* sectors per block, 8
  PerEntry,   \* sectors per PRDT entry, 16
  ByteMod,    \* the number of values of a byte
  MaxFaults   \* bound on the commands that fail

\* a request larger than a PRDT entry would put only its remainder in the FIS; the
\* sectors tested have numbers of four bytes
ASSUME AhciAssumption ==
  /\ {MaxSlot, CmdSlots, MaxSpin, Blocks, MaxFaults} \subseteq Nat \ {0}
  /\ PerEntry \in Nat \ {0} /\ Sectors \in 1..PerEntry
  /\ ByteMod \in Nat \ {0} /\ Sectors * Blocks <= ByteMod * ByteMod * ByteMod * ByteMod
  /\ Addresses \subseteq 0..(8 * MaxSlot + 7)

VARIABLES
  funcs, hba,                 \* the PCI functions there are, and the AHCI one
  bar,                        \* the function whose BAR5 was set
  pc, op, k, slot, spin,      \* the driver; k is ahciTest's loop counter
  hr, st, cr, fre, fr,        \* ghc.HR and the port's cmd bits
  based,                      \* the port's clb, fb and ctba are set up
  ci, tfes, busy,             \* registers; busy is BSY or DRQ in tfd
  cmd,                        \* the command table of each slot
  moved, aborted, stopped,    \* the controller: data moved, failed slots, engine stopped
  mem, disk,
  error,                      \* ahciTest's count
  acked, faults               \* history: blocks whose write returned 1; failures

pci == <<funcs, hba, bar>>
engine == <<hr, st, cr, fre, fr, based>>
port == <<ci, tfes, busy>>
hidden == <<moved, aborted, stopped, faults>>
vars == <<pci, pc, op, k, slot, spin, engine, port, cmd, hidden, mem, disk, error, acked>>

None == -1
Blank == -1   \* contents other than a test pattern

Commands ==
  [w : BOOLEAN, lba : [1..6 -> 0..(ByteMod - 1)], count : Nat, prdt : Seq(Nat), buf : {"buf1", "buf2"}]

NoCommand ==
  [w |-> FALSE, lba |-> [i \in 1..6 |-> 0], count |-> 0, prdt |-> <<>>, buf |-> "buf1"]

TypeOK ==
  /\ pc \in {"walk", "lost", "reset", "resetting", "stop", "stop_cr", "stop_fr", "rebase", "start",
             "next", "spin", "wait", "poll", "check", "compare", "done"}
  /\ op \in {"write", "read"}
  /\ k \in 0..Blocks
  /\ slot \in 0..(CmdSlots - 1) /\ spin \in 0..MaxSpin
  /\ {hr, st, cr, fre, fr, based, tfes, busy, stopped} \subseteq BOOLEAN
  /\ {ci, moved, aborted} \subseteq SUBSET (0..(CmdSlots - 1))
  /\ cmd \in [0..(CmdSlots - 1) -> Commands]
  /\ error \in 0..Blocks
  /\ acked \subseteq 0..(Blocks - 1)

\* a slot that is used has a function 0
Machine(fs) == \A f \in fs : 8 * (f \div 8) \in fs

Init ==
  /\ funcs \in {fs \in SUBSET Addresses : Machine(fs)}
  /\ hba \in funcs \cup {None}
  /\ bar = None
  /\ pc = "walk" /\ op = "write" /\ k = 0 /\ slot = 0 /\ spin = 0
  /\ hr = FALSE /\ st \in BOOLEAN /\ cr = st /\ fre = st /\ fr = st /\ based = FALSE
  /\ ci = {} /\ tfes = FALSE /\ busy = FALSE
  /\ cmd = [s \in 0..(CmdSlots - 1) |-> NoCommand]
  /\ moved = {} /\ aborted = {} /\ stopped = FALSE /\ faults = 0
  /\ mem = [buf1 |-> Blank, buf2 |-> Blank]
  /\ disk = [b \in {Sectors * j : j \in 0..(Blocks - 1)} |-> Blank]
  /\ error = 0 /\ acked = {}

-----------------------------------------------------------------------------
(* pciWalk_bf *)

\* the address of a function; function 8, which the walk asks for first, is or-ed
\* into the slot's lowest bit
ConfigAddress(j, f) == IF f < 8 THEN 8 * j + f ELSE 8 * (2 * (j \div 2) + 1)

\* pciCheckModel: some function 0 answers; the vendor and device are not compared
CheckModel(j) == ConfigAddress(j, 0) \in funcs

\* mutant: function 0 is not tried
FunctionsButFirst(j) == IF \E f \in funcs : f \div 8 = j /\ f % 8 # 0 THEN 1..8 ELSE 1..1

Functions(j) == IF \E f \in funcs : f \div 8 = j /\ f % 8 # 0 THEN 0..8 ELSE 0..1

\* the functions the walk tries, slot by slot, that have the class of an AHCI controller
Found ==
  {p \in (0..MaxSlot) \X (0..8) :
     CheckModel(p[1]) /\ p[2] \in Functions(p[1]) /\ ConfigAddress(p[1], p[2]) = hba}

PciWalk ==
  /\ pc = "walk"
  /\ IF Found = {}
     THEN pc' = "lost" /\ UNCHANGED bar
     ELSE LET j == Min({p[1] : p \in Found})
              f == Max({p[2] : p \in {q \in Found : q[1] = j}})
          IN bar' = ConfigAddress(j, f) /\ pc' = "reset"
  /\ UNCHANGED <<funcs, hba, op, k, slot, spin, engine, port, cmd, hidden, mem, disk, error, acked>>

-----------------------------------------------------------------------------
(* probe_port and port_rebase *)

Goto(from, to) == pc = from /\ pc' = to

\* what set-up leaves alone
Setup == UNCHANGED <<pci, op, k, slot, spin, port, cmd, hidden, mem, disk, error, acked>>

ProbeReset == Goto("reset", "resetting") /\ hr' = TRUE /\ Setup /\ UNCHANGED <<st, cr, fre, fr, based>>

\* the types of the ports are only printed
ProbeDone == Goto("resetting", "stop") /\ ~hr /\ Setup /\ UNCHANGED engine

StopCmd == Goto("stop", "stop_cr") /\ st' = FALSE /\ Setup /\ UNCHANGED <<hr, cr, fre, fr, based>>

\* mutant: does not wait for the command engine
StopFreEarly == Goto("stop_cr", "stop_fr") /\ fre' = FALSE /\ Setup /\ UNCHANGED <<hr, st, cr, fr, based>>

StopFre == Goto("stop_cr", "stop_fr") /\ ~cr /\ fre' = FALSE /\ Setup /\ UNCHANGED <<hr, st, cr, fr, based>>

StopWait == Goto("stop_fr", "rebase") /\ ~fr /\ Setup /\ UNCHANGED engine

Rebase == Goto("rebase", "start") /\ based' = TRUE /\ Setup /\ UNCHANGED <<hr, st, cr, fre, fr>>

StartCmd ==
  /\ Goto("start", "next")
  /\ ~cr
  /\ fre' = TRUE /\ st' = TRUE
  /\ Setup /\ UNCHANGED <<hr, cr, fr, based>>

PortSetup ==
  ProbeReset \/ ProbeDone \/ StopCmd \/ StopFre \/ StopWait \/ Rebase \/ StartCmd

-----------------------------------------------------------------------------
(* ahci_write and ahci_read; they differ in the direction and the buffer *)

Entries(count) == (count - 1) \div PerEntry + 1

Prdt(count) ==
  [i \in 1..Entries(count) |->
     IF i < Entries(count) THEN PerEntry ELSE count - PerEntry * (Entries(count) - 1)]

\* count as the loop over the full entries leaves it
FisCount(count) == count - PerEntry * (Entries(count) - 1)

\* a shift by one byte
Shift(x) == x \div ByteMod

LbaBytes(startl, starth) ==
  <<startl % ByteMod, Shift(startl) % ByteMod, Shift(Shift(startl)) % ByteMod,
    Shift(Shift(Shift(startl))) % ByteMod, starth % ByteMod, Shift(starth) % ByteMod>>

Command ==
  [w |-> op = "write", lba |-> LbaBytes(Sectors * k, 0), count |-> FisCount(Sectors),
   prdt |-> Prdt(Sectors), buf |-> IF op = "write" THEN "buf1" ELSE "buf2"]

\* mutant: only the active bits of queued commands are looked at
FreeSlotsAll == 0..(CmdSlots - 1)

\* find_cmdslot; sact stays 0, as no queued command is issued
FreeSlots == (0..(CmdSlots - 1)) \ ci

Device == UNCHANGED <<pci, engine, hidden, disk>>

\* the end of a call with its result, and what ahciTest does with it: after a write,
\* the next block
Return(r) ==
  IF op = "write"
  THEN /\ pc' = "next"
       /\ op' = IF k + 1 = Blocks THEN "read" ELSE "write"
       /\ k' = (k + 1) % Blocks
       /\ acked' = IF r = 1 THEN acked \cup {k} ELSE acked
  ELSE pc' = "compare" /\ UNCHANGED <<op, k, acked>>

\* ahciTest fills the buffer, 0 before a read; then the call up to its wait
Begin ==
  /\ pc = "next" /\ k < Blocks
  /\ mem' = IF op = "write" THEN [mem EXCEPT !.buf1 = k] ELSE [mem EXCEPT !.buf2 = 0]
  /\ tfes' = FALSE
  /\ IF FreeSlots = {}
     THEN Return(-1) /\ UNCHANGED <<slot, cmd, spin>>
     ELSE /\ slot' = Min(FreeSlots)
          /\ cmd' = [cmd EXCEPT ![slot'] = Command]
          /\ spin' = 0
          /\ pc' = "spin"
          /\ UNCHANGED <<op, k, acked>>
  /\ UNCHANGED <<ci, busy, error>> /\ Device

\* mutant: one turn too many, which the test for a hung port then misses
SpinPast ==
  /\ pc = "spin" /\ busy /\ spin <= MaxSpin
  /\ spin' = spin + 1
  /\ UNCHANGED <<pc, op, k, slot, port, cmd, mem, error, acked>> /\ Device

\* mutant: no limit
SpinForever ==
  /\ pc = "spin" /\ busy
  /\ UNCHANGED <<pc, op, k, slot, spin, port, cmd, mem, error, acked>> /\ Device

Spin ==
  /\ pc = "spin" /\ busy /\ spin < MaxSpin
  /\ spin' = spin + 1
  /\ UNCHANGED <<pc, op, k, slot, port, cmd, mem, error, acked>> /\ Device

\* "Port is hung", also if busy has just gone
Hung ==
  /\ pc = "spin" /\ spin = MaxSpin
  /\ Return(0)
  /\ UNCHANGED <<slot, spin, port, cmd, mem, error>> /\ Device

Issue ==
  /\ Goto("spin", "wait")
  /\ ~busy /\ spin < MaxSpin
  /\ ci' = ci \cup {slot}
  /\ UNCHANGED <<op, k, slot, spin, tfes, busy, cmd, mem, error, acked>> /\ Device

\* the two tests of the loop read two registers
Wait ==
  /\ Goto("wait", IF slot \in ci THEN "poll" ELSE "check")
  /\ UNCHANGED <<op, k, slot, spin, port, cmd, mem, error, acked>> /\ Device

Poll ==
  /\ pc = "poll"
  /\ IF tfes THEN Return(0) ELSE pc' = "wait" /\ UNCHANGED <<op, k, acked>>
  /\ UNCHANGED <<slot, spin, port, cmd, mem, error>> /\ Device

\* mutant: the error bit is not looked at again after the loop
CheckNot ==
  /\ pc = "check"
  /\ Return(1)
  /\ UNCHANGED <<slot, spin, port, cmd, mem, error>> /\ Device

Check ==
  /\ pc = "check"
  /\ Return(IF tfes THEN 0 ELSE 1)
  /\ UNCHANGED <<slot, spin, port, cmd, mem, error>> /\ Device

\* mutant: the buffer is not compared with the pattern
CompareNot ==
  /\ Goto("compare", IF k + 1 = Blocks THEN "done" ELSE "next")
  /\ error' = IF mem.buf2 = Blank THEN error + 1 ELSE error
  /\ k' = k + 1
  /\ UNCHANGED <<op, slot, spin, port, cmd, mem, acked>> /\ Device

Compare ==
  /\ Goto("compare", IF k + 1 = Blocks THEN "done" ELSE "next")
  /\ error' = IF mem.buf2 # k THEN error + 1 ELSE error
  /\ k' = k + 1
  /\ UNCHANGED <<op, slot, spin, port, cmd, mem, acked>> /\ Device

Driver ==
  PciWalk \/ PortSetup \/ Begin \/ Spin \/ Hung \/ Issue \/ Wait \/ Poll \/ Check \/ Compare

-----------------------------------------------------------------------------
(* The controller, external *)

Quiet == UNCHANGED <<pci, pc, op, k, slot, spin, based, cmd, error, acked>>

ResetDone ==
  /\ hr /\ hr' = FALSE
  /\ st' = FALSE /\ fre' = FALSE
  /\ ci' = {} /\ tfes' = FALSE /\ busy' \in BOOLEAN
  /\ UNCHANGED <<cr, fr, hidden, mem, disk>> /\ Quiet

\* CR follows ST and FR follows FRE
Engine ==
  /\ \/ cr # st /\ cr' = st /\ UNCHANGED fr
     \/ fr # fre /\ fr' = fre /\ UNCHANGED cr
  /\ UNCHANGED <<hr, st, fre, port, hidden, mem, disk>> /\ Quiet

Settle ==
  /\ busy /\ busy' = FALSE
  /\ UNCHANGED <<hr, st, cr, fre, fr, ci, tfes, hidden, mem, disk>> /\ Quiet

\* the commands the engine works on
Active == IF cr /\ ~stopped THEN ci \ aborted ELSE {}

Lba(bytes) == bytes[1] + ByteMod * (bytes[2] + ByteMod * (bytes[3] + ByteMod * bytes[4]))

\* a transfer of fewer sectors, or with less memory, than the block has leaves no pattern
Data(d, v) == IF d.count = Sectors /\ d.prdt = <<Sectors>> THEN v ELSE Blank

Move(s) ==
  LET d == cmd[s]
      b == Lba(d.lba)
  IN IF d.w
     THEN /\ disk' = [x \in DOMAIN disk |-> IF x = b THEN Data(d, mem[d.buf]) ELSE disk[x]]
          /\ UNCHANGED mem
     ELSE /\ mem' = [mem EXCEPT ![d.buf] = IF b \in DOMAIN disk THEN Data(d, disk[b]) ELSE Blank]
          /\ UNCHANGED disk

Transfer(s) ==
  /\ s \in Active \ moved
  /\ Move(s)
  /\ moved' = moved \cup {s}
  /\ UNCHANGED <<hr, st, cr, fre, fr, port, aborted, stopped, faults>> /\ Quiet

Complete(s) ==
  /\ s \in Active \cap moved
  /\ ci' = ci \ {s} /\ moved' = moved \ {s}
  /\ busy' \in BOOLEAN
  /\ UNCHANGED <<hr, st, cr, fre, fr, tfes, aborted, stopped, faults, mem, disk>> /\ Quiet

\* before or after the data moved; the bit in ci is cleared, or stays and the engine
\* may be stopped
FailCommand(s) ==
  /\ faults < MaxFaults /\ faults' = faults + 1
  /\ s \in Active
  /\ tfes' = TRUE
  /\ moved' = moved \ {s}
  /\ busy' \in BOOLEAN
  /\ \/ ci' = ci \ {s} /\ UNCHANGED <<aborted, stopped>>
     \/ UNCHANGED ci /\ aborted' = aborted \cup {s} /\ stopped' \in BOOLEAN
  /\ UNCHANGED <<hr, st, cr, fre, fr, mem, disk>> /\ Quiet

Execute == \E s \in Active : Transfer(s) \/ Complete(s)

Next ==
  \/ Driver
  \/ ResetDone \/ Engine \/ Settle
  \/ Execute
  \/ \E s \in Active : FailCommand(s)

Spec ==
  /\ Init /\ [][Next]_vars
  /\ WF_vars(Driver) /\ WF_vars(ResetDone) /\ WF_vars(Engine) /\ WF_vars(Execute)

-----------------------------------------------------------------------------

\* The walk finds the controller wherever it is, and sets the BAR of no other
\* function, although it also asks for a function 8, whose address is another slot's
ControllerFound == (pc = "lost" => hba = None) /\ (bar # None => bar = hba)

\* A write that returned 1 is on the disk and stays there: no later command, retry
\* in another slot or reuse of the buffer changes the block
WrittenIsStored == \A j \in acked : disk[Sectors * j] = j

\* "all read tests passed" means that every block, but the first, whose pattern is
\* what a failed read leaves in the buffer, is on the disk
VerdictSound == pc = "done" /\ error = 0 => \A j \in 1..(Blocks - 1) : disk[Sectors * j] = j

\* The port's memory is moved only while the controller uses neither the command list
\* nor the received FIS (port_rebase after stop_cmd)
RebaseWhileStopped == [][based' # based => ~cr /\ ~fr]_vars

\* A command table is never overwritten while the controller may still read it, also
\* when calls that failed have left their bits in ci
TablesKept == [][\A s \in ci : cmd'[s] = cmd[s]]_vars

\* The test ends, unless a failure stopped the engine (no call restarts it, and the
\* wait for ci has no limit) or the walk found no controller
TestEnds == <>(pc \in {"done", "lost"} \/ stopped)
==============================================================================
