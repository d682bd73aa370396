----------------------------- MODULE DeviceProofs -----------------------------
(***************************************************************************)
(* Two devices and their drivers: the disk of sys/ahci.c, beside a         *)
(* controller that is slow and fails, for any number of blocks, command    *)
(* slots and failures and for every machine; and the timer of sys/ktime.c, *)
(* for every length of the day.                                            *)
(***************************************************************************)
EXTENDS Ahci, Ktime, WellFoundedInduction, TLAPS

-----------------------------------------------------------------------------
(* Numbers *)

\* A set of numbers that is not empty has a least one
LEMMA Least ==
  ASSUME NEW S \in SUBSET Nat, S # {} PROVE \E i \in S : \A j \in S : i <= j
<1> DEFINE R == OpToRel(<, Nat)
<1>1. IsWellFoundedOn(R, Nat)
  BY NatLessThanWellFounded, Zenon
<1>2. \A x, y \in Nat : x < y => <<x, y>> \in R
  BY Zenon DEF OpToRel
<1> HIDE DEF R
<1>3. PICK x \in S : \A y \in S : ~ (<<y, x>> \in R)
  BY <1>1, WFMin, Zenon
<1>4. ASSUME NEW j \in S PROVE x <= j
  <2>1. j \in Nat /\ x \in Nat
    BY Zenon
  <2>2. ~ (j < x)
    BY <1>2, <1>3, <2>1, Zenon
  <2> QED  BY <2>1, <2>2
<1> QED  BY <1>4, Zenon

\* The lowest free slot that find_cmdslot takes, or the first slot of the bus, is there
LEMMA MinIn == ASSUME NEW S \in SUBSET Nat, S # {} PROVE Min(S) \in S
  BY Least, Zenon DEF Min

\* The last function that answers is there
LEMMA MaxIn == ASSUME NEW m \in Nat, NEW S \in SUBSET (0..m), S # {} PROVE Max(S) \in S
<1> DEFINE T == {m - x : x \in S}
<1>1. T \in SUBSET Nat
  OBVIOUS
<1>0. T # {}
  <2>1. PICK x \in S : TRUE
    BY Zenon
  <2>2. m - x \in T
    BY Zenon
  <2> QED  BY <2>2, Zenon
<1>2. PICK i \in T : \A j \in T : i <= j
  BY <1>0, <1>1, Least, Zenon
<1>3. PICK x \in S : i = m - x
  BY Zenon
<1>4. \A y \in S : m - x <= m - y
  BY <1>2, <1>3, Zenon
<1>5. \A y \in S : x >= y
  BY <1>4
<1> QED  BY <1>5, Zenon DEF Max

\* A number is its lowest byte and what a shift leaves
LEMMA Bytes ==
  ASSUME NEW x \in Nat
  PROVE  x % ByteMod \in 0..(ByteMod - 1) /\ Shift(x) \in Nat /\ x = (x % ByteMod) + ByteMod * Shift(x)
<1>1. ByteMod \in Nat \ {0}
  BY AhciAssumption, Zenon
<1> QED  BY <1>1 DEF Shift

\* A shift of a number of n + 1 bytes leaves one of n
LEMMA ShiftBelow ==
  ASSUME NEW x \in Nat, NEW y \in Nat, x < ByteMod * y PROVE Shift(x) < y
<1> DEFINE q == Shift(x)
           r == x % ByteMod
<1>1. ByteMod \in Nat \ {0} /\ q \in Nat /\ r \in 0..(ByteMod - 1) /\ x = r + ByteMod * q
  BY AhciAssumption, Bytes, Zenon
<1> HIDE DEF q, r
<1>2. SUFFICES ASSUME q >= y PROVE FALSE
  BY <1>1 DEF q
<1>3. ByteMod * q >= ByteMod * y
  BY <1>1, <1>2
<1> QED  BY <1>1, <1>3

\* What is below the number of bytes is its own lowest byte
LEMMA ByteBelow ==
  ASSUME NEW x \in Nat, x < ByteMod PROVE x % ByteMod = x
<1>1. ByteMod \in Nat \ {0}
  BY AhciAssumption, Zenon
<1>2. Shift(x) < 1
  BY <1>1, ShiftBelow
<1> DEFINE q == Shift(x)
           r == x % ByteMod
<1>3. q \in Nat /\ r \in 0..(ByteMod - 1) /\ x = r + ByteMod * q /\ q < 1
  BY <1>2, Bytes, Zenon
<1> HIDE DEF q, r
<1>4. q = 0
  BY <1>3
<1>5. r = x
  BY <1>1, <1>3, <1>4
<1> QED  BY <1>5, Zenon DEF r

\* Four bytes hold the number of every sector that is tested
LEMMA SectorNumber ==
  ASSUME NEW j \in 0..(Blocks - 1)
  PROVE  Sectors * j \in Nat /\ Sectors * j < ByteMod * (ByteMod * (ByteMod * ByteMod))
<1>1. Blocks \in Nat \ {0} /\ Sectors \in Nat \ {0} /\ ByteMod \in Nat \ {0} /\ j \in Nat /\ j < Blocks
  BY AhciAssumption
<1>2. Sectors * Blocks <= ByteMod * ByteMod * ByteMod * ByteMod
  BY AhciAssumption, Zenon
<1>3. Sectors * j \in Nat /\ Sectors * j < Sectors * Blocks
  BY <1>1
<1>4. ByteMod * ByteMod * ByteMod * ByteMod = ByteMod * (ByteMod * (ByteMod * ByteMod))
  BY <1>1
<1>5. ByteMod * (ByteMod * (ByteMod * ByteMod)) \in Nat /\ Sectors * Blocks \in Nat
  BY <1>1
<1> QED  BY <1>2, <1>3, <1>4, <1>5

\* The bytes that ahci_write puts in the FIS are the sector the controller takes from it
LEMMA LbaOfBytes ==
  ASSUME NEW j \in 0..(Blocks - 1)
  PROVE  /\ LbaBytes(Sectors * j, 0) \in [1..6 -> 0..(ByteMod - 1)]
         /\ Lba(LbaBytes(Sectors * j, 0)) = Sectors * j
<1> DEFINE a == Sectors * j
           b == Shift(a)
           c == Shift(b)
           d == Shift(c)
<1>0. ByteMod \in Nat \ {0}
  BY AhciAssumption, Zenon
<1>1. a \in Nat /\ a < ByteMod * (ByteMod * (ByteMod * ByteMod))
  BY SectorNumber, Zenon
<1> HIDE DEF a
<1>2. b \in Nat /\ a % ByteMod \in 0..(ByteMod - 1) /\ a = (a % ByteMod) + ByteMod * b
  BY <1>1, Bytes, Zenon
<1>3. b < ByteMod * (ByteMod * ByteMod)
  <2>1. ByteMod * (ByteMod * ByteMod) \in Nat
    BY <1>0
  <2> QED  BY <1>1, <2>1, ShiftBelow, Zenon
<1> HIDE DEF b
<1>4. c \in Nat /\ b % ByteMod \in 0..(ByteMod - 1) /\ b = (b % ByteMod) + ByteMod * c
  BY <1>2, Bytes, Zenon
<1>5. c < ByteMod * ByteMod
  <2>1. ByteMod * ByteMod \in Nat
    BY <1>0
  <2> QED  BY <1>2, <1>3, <2>1, ShiftBelow, Zenon
<1> HIDE DEF c
<1>6. d \in Nat /\ c % ByteMod \in 0..(ByteMod - 1) /\ c = (c % ByteMod) + ByteMod * d
  BY <1>4, Bytes, Zenon
<1>7. d < ByteMod
  BY <1>0, <1>4, <1>5, ShiftBelow, Zenon
<1> HIDE DEF d
<1>8. d % ByteMod = d /\ d % ByteMod \in 0..(ByteMod - 1)
  BY <1>6, <1>7, ByteBelow, Bytes, Zenon
<1>9. 0 % ByteMod \in 0..(ByteMod - 1) /\ Shift(0) % ByteMod \in 0..(ByteMod - 1)
  BY Bytes, Zenon
<1>10. LbaBytes(a, 0) = <<a % ByteMod, b % ByteMod, c % ByteMod, d % ByteMod,
                          0 % ByteMod, Shift(0) % ByteMod>>
  BY Zenon DEF LbaBytes, b, c, d
<1>11. LbaBytes(a, 0) \in [1..6 -> 0..(ByteMod - 1)]
  BY <1>2, <1>4, <1>6, <1>8, <1>9, <1>10
<1>12. Lba(LbaBytes(a, 0)) = (a % ByteMod) + ByteMod * ((b % ByteMod) + ByteMod * ((c % ByteMod) + ByteMod * d))
  BY <1>8, <1>10 DEF Lba
<1>13. Lba(LbaBytes(a, 0)) = a
  BY <1>2, <1>4, <1>6, <1>12, Zenon
<1> QED  BY <1>11, <1>13, Zenon DEF a

\* Blocks do not overlap
LEMMA BlocksApart == ASSUME NEW i \in Nat, NEW j \in Nat, Sectors * i = Sectors * j PROVE i = j
<1>1. Sectors \in Nat \ {0}
  BY AhciAssumption
<1>2. Sectors * (i - j) = 0
  BY <1>1
<1> QED  BY <1>1, <1>2

\* A block of the test fits in one PRDT entry, so that the command asks for all of it
LEMMA OneEntry ==
  /\ Entries(Sectors) = 1 /\ FisCount(Sectors) = Sectors /\ Prdt(Sectors) = <<Sectors>>
<1>1. PerEntry \in Nat \ {0} /\ Sectors \in Nat \ {0} /\ Sectors <= PerEntry
  BY AhciAssumption
<1>2. (Sectors - 1) \div PerEntry = 0
  BY <1>1
<1>3. Entries(Sectors) = 1
  BY <1>2 DEF Entries
<1>4. FisCount(Sectors) = Sectors
  BY <1>1, <1>3 DEF FisCount
<1>5. Prdt(Sectors) = <<Sectors>>
  BY <1>1, <1>3 DEF Prdt
<1> QED  BY <1>3, <1>4, <1>5, Zenon

-----------------------------------------------------------------------------
(* The invariant *)

BlockSectors == {Sectors * j : j \in 0..(Blocks - 1)}

Before == {"walk", "lost", "reset", "resetting", "stop", "stop_cr", "stop_fr", "rebase", "start"}

\* inside ahci_write or ahci_read, and there after the issue
InCall == {"spin", "wait", "poll", "check"}
Issued == {"wait", "poll", "check"}

Loop == InCall \cup {"next", "compare", "done"}

StoreOK == mem \in [buf1 : Int, buf2 : Int] /\ disk \in [BlockSectors -> Int]

PciOK ==
  /\ funcs \subseteq Addresses /\ Machine(funcs) /\ hba \in funcs \cup {None}
  /\ pc = "lost" => hba = None
  /\ bar # None => bar = hba

\* How far the engines of the port have been stopped
EngineOK ==
  /\ hr => pc = "resetting"
  /\ pc \in {"stop_cr", "stop_fr", "rebase", "start"} => ~ st
  /\ pc \in {"stop_fr", "rebase", "start"} => ~ cr /\ ~ fre
  /\ pc \in {"rebase", "start"} => ~ fr

\* ahciTest's two loops
LoopOK ==
  /\ IF pc = "done" THEN k = Blocks ELSE k < Blocks
  /\ pc \in Before => op = "write" /\ acked = {}
  /\ pc \in {"compare", "done"} => op = "read"
  /\ error <= k /\ (op = "write" => error = 0)

\* The controller works on the command of the call that waits for it and on no other:
\* the bits that failed calls left in ci are of commands it has given up
SlotsOK ==
  /\ pc \in Before => ci = {}
  /\ aborted \subseteq ci /\ moved \subseteq ci \ aborted
  /\ ci \ aborted \subseteq {slot}
  /\ ci \ aborted # {} => pc \in {"wait", "poll"} /\ ~ tfes
  /\ pc = "spin" => slot \notin ci /\ ~ tfes
  /\ pc \in Issued /\ slot \in aborted => tfes

OnDisk(j) == disk[Sectors * j] = j

\* What the call has put in its table, what the controller has moved, and what earlier
\* calls have left on the disk and found there
DataOK ==
  /\ pc \in InCall => cmd[slot] = Command /\ (op = "write" => mem.buf1 = k)
  /\ pc \in Issued /\ op = "write" /\ ~ tfes /\ (slot \in moved \/ slot \notin ci) => OnDisk(k)
  /\ \A j \in acked : OnDisk(j)
  /\ pc \in InCall \cup {"compare"} /\ op = "read" => mem.buf2 \in {0, disk[Sectors * k]}
  /\ op = "read" /\ error = 0 => \A j \in 1..(k - 1) : OnDisk(j)

IInv == TypeOK /\ StoreOK /\ PciOK /\ EngineOK /\ LoopOK /\ SlotsOK /\ DataOK

\* It holds before the walk over the bus
LEMMA InvInit == Init => IInv
<1> SUFFICES ASSUME Init PROVE IInv
  BY Zenon
<1>1. /\ Blocks \in Nat \ {0} /\ CmdSlots \in Nat \ {0} /\ MaxSpin \in Nat \ {0} /\ ByteMod \in Nat \ {0}
  BY AhciAssumption, Zenon
<1>2. NoCommand \in Commands
  BY <1>1 DEF NoCommand, Commands
<1>3. TypeOK
  <2>1. {hr, st, cr, fre, fr, based, tfes, busy, stopped} \subseteq BOOLEAN
    BY Zenon DEF Init
  <2>2. {ci, moved, aborted} \subseteq SUBSET (0..(CmdSlots - 1))
    BY Zenon DEF Init
  <2>3. cmd \in [0..(CmdSlots - 1) -> Commands]
    BY <1>2, Zenon DEF Init
  <2>4. /\ pc = "walk" /\ op = "write" /\ k \in 0..Blocks /\ slot \in 0..(CmdSlots - 1)
        /\ spin \in 0..MaxSpin /\ error \in 0..Blocks /\ acked \subseteq 0..(Blocks - 1)
    BY <1>1 DEF Init
  <2> QED  BY <2>1, <2>2, <2>3, <2>4, Zenon DEF TypeOK
<1>4. StoreOK
  BY DEF Init, StoreOK, BlockSectors, Blank
<1>5. PciOK
  BY Zenon DEF Init, PciOK
<1>6. EngineOK /\ LoopOK /\ SlotsOK
  BY <1>1 DEF Init, EngineOK, LoopOK, SlotsOK, Before, Issued
<1>7. DataOK
  BY Zenon DEF Init, DataOK, InCall, Issued
<1> QED  BY <1>3, <1>4, <1>5, <1>6, <1>7, Zenon DEF IInv

-----------------------------------------------------------------------------
(* pciWalk_bf *)

\* Where the controller is, the walk asks
LEMMA WalkAsks ==
  ASSUME PciOK, hba # None PROVE <<hba \div 8, hba % 8>> \in Found
<1> DEFINE j == hba \div 8
           f == hba % 8
<1>1. hba \in funcs /\ hba \in 0..(8 * MaxSlot + 7) /\ MaxSlot \in Nat
  BY AhciAssumption, Zenon DEF PciOK
<1>2. j \in 0..MaxSlot /\ f \in 0..7 /\ hba = 8 * j + f
  BY <1>1
<1>3. 8 * j \in funcs
  BY <1>1, Zenon DEF PciOK, Machine
<1>4. f # 0 => \E g \in funcs : g \div 8 = j /\ g % 8 # 0
  BY <1>1, Zenon
<1> HIDE DEF j, f
<1>5. ConfigAddress(j, f) = hba /\ ConfigAddress(j, 0) = 8 * j
  BY <1>2 DEF ConfigAddress
<1>6. f \in Functions(j)
  BY <1>2, <1>4 DEF Functions
<1>7. <<j, f>> \in Found
  BY <1>2, <1>3, <1>5, <1>6 DEF Found, CheckModel
<1> QED  BY <1>7, Zenon DEF j, f

\* What the walk takes has the class of the controller
LEMMA WalkTakes ==
  ASSUME Found # {}
  PROVE  LET j == Min({p[1] : p \in Found})
             f == Max({p[2] : p \in {q \in Found : q[1] = j}})
         IN ConfigAddress(j, f) = hba
<1> DEFINE J == {p[1] : p \in Found}
           j == Min(J)
           F == {p[2] : p \in {q \in Found : q[1] = j}}
           f == Max(F)
<1>1. \A p \in Found : p[1] \in 0..MaxSlot /\ p[2] \in 0..8 /\ ConfigAddress(p[1], p[2]) = hba
  BY Zenon DEF Found
<1>2. MaxSlot \in Nat
  BY AhciAssumption, Zenon
<1>3. J \in SUBSET Nat /\ J # {}
  BY <1>1, <1>2
<1>4. j \in J
  <2> HIDE DEF J
  <2> QED  BY <1>3, MinIn, Zenon
<1>5. PICK p \in Found : p[1] = j
  BY <1>4, Zenon
<1> HIDE DEF j
<1>6. F \in SUBSET (0..8) /\ F # {}
  BY <1>1, <1>5, Zenon
<1>7. f \in F
  <2> HIDE DEF F
  <2> QED  BY <1>6, MaxIn, Zenon
<1>8. PICK q \in Found : q[1] = j /\ q[2] = f
  BY <1>7, Zenon
<1> HIDE DEF f
<1>9. ConfigAddress(j, f) = hba
  BY <1>1, <1>8, Zenon
<1> QED  BY <1>9, Zenon DEF j, f

\* The walk sets the BAR of the controller, or there is none
LEMMA WalkStep == ASSUME IInv, PciWalk PROVE IInv'
<1>1. /\ pc = "walk" /\ pc' \in {"lost", "reset"}
      /\ UNCHANGED <<funcs, hba, op, k, slot, spin, hr, st, cr, fre, fr, based, ci, tfes, busy, cmd,
                     moved, aborted, stopped, faults, mem, disk, error, acked>>
  BY Zenon DEF PciWalk, engine, port, hidden
<1>2. (pc' = "lost" => hba = None) /\ (bar' # None => bar' = hba)
  <2>1. CASE Found = {}
    BY <2>1, WalkAsks, Zenon DEF PciWalk, IInv, PciOK
  <2>2. CASE Found # {}
    BY <2>2, WalkTakes, Zenon DEF PciWalk
  <2> QED  BY <2>1, <2>2, Zenon
<1>3. TypeOK' /\ StoreOK'
  BY <1>1, Zenon DEF IInv, TypeOK, StoreOK
<1>4. PciOK'
  BY <1>1, <1>2, Zenon DEF IInv, PciOK, Machine
<1>5. EngineOK' /\ LoopOK' /\ SlotsOK'
  BY <1>1, Zenon DEF IInv, EngineOK, LoopOK, SlotsOK, Before, Issued
<1>6. DataOK'
  BY <1>1, Zenon DEF IInv, LoopOK, DataOK, InCall, Issued, Before
<1> QED  BY <1>3, <1>4, <1>5, <1>6, Zenon DEF IInv

-----------------------------------------------------------------------------
(* probe_port and port_rebase *)

\* The engines stop one after the other, and the port's memory is moved when both have
LEMMA SetupStep == ASSUME IInv, PortSetup PROVE IInv'
<1>1. /\ pc \in Before \ {"walk", "lost"} /\ pc' \in (Before \ {"walk", "lost"}) \cup {"next"}
      /\ UNCHANGED <<funcs, hba, bar, op, k, slot, spin, ci, tfes, busy, cmd,
                     moved, aborted, stopped, faults, mem, disk, error, acked>>
  BY Zenon DEF PortSetup, ProbeReset, ProbeDone, StopCmd, StopFre, StopWait, Rebase, StartCmd, Setup, Goto,
         pci, port, hidden, Before
<1>2. {hr', st', cr', fre', fr', based'} \subseteq BOOLEAN
  BY Zenon DEF PortSetup, ProbeReset, ProbeDone, StopCmd, StopFre, StopWait, Rebase, StartCmd, engine,
         IInv, TypeOK
<1>3. EngineOK'
  BY DEF PortSetup, ProbeReset, ProbeDone, StopCmd, StopFre, StopWait, Rebase, StartCmd, engine, Goto,
         IInv, EngineOK
<1>4. TypeOK' /\ StoreOK'
  BY <1>1, <1>2, Zenon DEF IInv, TypeOK, StoreOK, Before
<1>5. PciOK'
  BY <1>1, Zenon DEF IInv, PciOK, Machine, Before
<1>6. LoopOK' /\ SlotsOK'
  BY <1>1, Zenon DEF IInv, LoopOK, SlotsOK, Before, Issued
<1>7. DataOK'
  BY <1>1, Zenon DEF IInv, LoopOK, DataOK, InCall, Issued, Before
<1> QED  BY <1>3, <1>4, <1>5, <1>6, <1>7, Zenon DEF IInv

-----------------------------------------------------------------------------
(* ahci_write and ahci_read *)

\* The types of the driver's variables
LEMMA Types ==
  ASSUME TypeOK
  PROVE  /\ Blocks \in Nat \ {0} /\ CmdSlots \in Nat \ {0} /\ MaxSpin \in Nat \ {0}
         /\ k \in Nat /\ k <= Blocks /\ op \in {"write", "read"} /\ error \in Nat /\ spin \in Nat
         /\ acked \subseteq 0..(Blocks - 1) /\ slot \in 0..(CmdSlots - 1) /\ slot \in Nat
  BY AhciAssumption DEF TypeOK

\* The command that a call puts in its table
LEMMA CommandIs ==
  ASSUME TypeOK, k < Blocks
  PROVE  /\ Command \in Commands
         /\ Command.w = (op = "write") /\ Command.buf = IF op = "write" THEN "buf1" ELSE "buf2"
         /\ Command.count = Sectors /\ Command.prdt = <<Sectors>>
         /\ Lba(Command.lba) = Sectors * k
<1>1. k \in 0..(Blocks - 1) /\ Sectors \in Nat
  BY Types, AhciAssumption
<1>2. /\ LbaBytes(Sectors * k, 0) \in [1..6 -> 0..(ByteMod - 1)]
      /\ Lba(LbaBytes(Sectors * k, 0)) = Sectors * k
  BY <1>1, LbaOfBytes, Zenon
<1>3. <<Sectors>> \in Seq(Nat) /\ FisCount(Sectors) = Sectors /\ Prdt(Sectors) = <<Sectors>>
  BY <1>1, OneEntry
<1>4. /\ Command.w = (op = "write") /\ Command.buf = (IF op = "write" THEN "buf1" ELSE "buf2")
      /\ Command.count = Sectors /\ Command.prdt = <<Sectors>> /\ Command.lba = LbaBytes(Sectors * k, 0)
  BY <1>3, Zenon DEF Command
<1>5. Command \in Commands
  BY <1>1, <1>2, <1>3, Zenon DEF Command, Commands
<1> QED  BY <1>2, <1>4, <1>5, Zenon

\* In the loops of ahciTest the driver leaves the bus and the engines alone
LEMMA LoopLeaves ==
  ASSUME IInv, Device, pc \in Loop, pc' \in Loop
  PROVE  PciOK' /\ EngineOK' /\ {hr', st', cr', fre', fr', based', stopped'} \subseteq BOOLEAN
         /\ moved' = moved /\ aborted' = aborted /\ disk' = disk
<1>1. /\ UNCHANGED <<funcs, hba, bar, hr, st, cr, fre, fr, based, moved, aborted, stopped, disk>>
      /\ pc \notin Before /\ pc' \notin Before
  BY Zenon DEF Device, pci, engine, hidden, Loop, InCall, Before
<1>2. PciOK'
  BY <1>1, Zenon DEF IInv, PciOK, Machine, Before
<1>3. EngineOK'
  BY <1>1, Zenon DEF IInv, EngineOK, Before
<1> QED  BY <1>1, <1>2, <1>3, Zenon DEF IInv, TypeOK

\* Where ahciTest is after a call
LEMMA ReturnLoop ==
  ASSUME IInv, pc \in InCall \cup {"next"}, NEW r, Return(r), UNCHANGED error
  PROVE  /\ pc' \in {"next", "compare"} /\ op' \in {"write", "read"}
         /\ k' \in 0..(Blocks - 1) /\ acked' \subseteq 0..(Blocks - 1)
         /\ acked' = IF op = "write" /\ r = 1 THEN acked \cup {k} ELSE acked
         /\ op' = "read" => k' = 0 \/ (op = "read" /\ k' = k)
         /\ pc' = "compare" => op = "read" /\ op' = "read" /\ k' = k
         /\ LoopOK'
<1>1. TypeOK /\ pc # "done" /\ k < Blocks /\ error <= k /\ (op = "write" => error = 0)
  BY Zenon DEF IInv, LoopOK, InCall
<1>2. Blocks \in Nat \ {0} /\ k \in Nat /\ op \in {"write", "read"} /\ error \in Nat /\ acked \subseteq 0..(Blocks - 1)
  BY <1>1, Types, Zenon
<1>3. CASE op = "write"
  <2>1. /\ pc' = "next" /\ op' = (IF k + 1 = Blocks THEN "read" ELSE "write")
        /\ k' = (k + 1) % Blocks /\ acked' = IF r = 1 THEN acked \cup {k} ELSE acked
    BY <1>3, Zenon DEF Return
  <2>2. k' = IF k + 1 = Blocks THEN 0 ELSE k + 1
    <3>1. k + 1 < Blocks => (k + 1) % Blocks = k + 1
      BY <1>2
    <3>2. Blocks % Blocks = 0
      BY <1>2
    <3> QED  BY <1>1, <1>2, <2>1, <3>1, <3>2
  <2>3. k' \in 0..(Blocks - 1)
    BY <1>1, <1>2, <2>2
  <2>4. LoopOK'
    BY <1>1, <1>2, <1>3, <2>1, <2>3 DEF LoopOK, Before
  <2> QED  BY <1>1, <1>2, <1>3, <2>1, <2>2, <2>3, <2>4
<1>4. CASE op = "read"
  <2>1. pc' = "compare" /\ op' = op /\ k' = k /\ acked' = acked
    BY <1>4, Zenon DEF Return
  <2> QED  BY <1>1, <1>2, <1>4, <2>1 DEF LoopOK, Before
<1> QED  BY <1>2, <1>3, <1>4, Zenon

\* The end of a call: a write that returns 1 has its block on the disk, a read leaves 0
\* or the block in the buffer
LEMMA ReturnStep ==
  ASSUME IInv, pc \in InCall \cup {"next"}, NEW r, Return(r), Device,
         UNCHANGED <<slot, spin, ci, cmd, error>>, {tfes', busy'} \subseteq BOOLEAN,
         mem' \in [buf1 : Int, buf2 : Int], ci \ aborted = {},
         op = "write" /\ r = 1 => OnDisk(k),
         op = "read" => mem'.buf2 \in {0, disk[Sectors * k]}
  PROVE  IInv'
<1>1. /\ pc' \in {"next", "compare"} /\ op' \in {"write", "read"}
      /\ k' \in 0..(Blocks - 1) /\ acked' \subseteq 0..(Blocks - 1)
      /\ acked' = IF op = "write" /\ r = 1 THEN acked \cup {k} ELSE acked
      /\ op' = "read" => k' = 0 \/ (op = "read" /\ k' = k)
      /\ pc' = "compare" => op = "read" /\ op' = "read" /\ k' = k
      /\ LoopOK'
  BY ReturnLoop, Zenon
<1>2. /\ PciOK' /\ EngineOK' /\ {hr', st', cr', fre', fr', based', stopped'} \subseteq BOOLEAN
      /\ moved' = moved /\ aborted' = aborted /\ disk' = disk
  BY <1>1, LoopLeaves, Zenon DEF Loop
<1>3. TypeOK'
  <2>1. Blocks \in Nat
    BY AhciAssumption, Zenon
  <2> QED  BY <1>1, <1>2, <2>1 DEF IInv, TypeOK
<1>4. StoreOK'
  BY <1>2, Zenon DEF IInv, StoreOK
<1>5. SlotsOK'
  BY <1>1, <1>2, Zenon DEF IInv, SlotsOK, Before, Issued
<1>6. DataOK'
  <2>1. \A j : OnDisk(j)' <=> OnDisk(j)
    BY <1>2, Zenon DEF OnDisk
  <2>2. \A j \in acked' : OnDisk(j)
    BY <1>1, Zenon DEF IInv, DataOK
  <2>3. op' = "read" /\ error' = 0 => \A j \in 1..(k' - 1) : OnDisk(j)
    <3>1. k' = 0 => 1..(k' - 1) = {}
      OBVIOUS
    <3>2. op = "read" /\ error = 0 => \A j \in 1..(k - 1) : OnDisk(j)
      BY Zenon DEF IInv, DataOK
    <3> HIDE DEF OnDisk
    <3> QED  BY <1>1, <3>1, <3>2, Zenon
  <2>4. pc' = "compare" => mem'.buf2 \in {0, disk'[Sectors * k']}
    BY <1>1, <1>2, Zenon
  <2> HIDE DEF OnDisk
  <2> QED  BY <1>1, <2>1, <2>2, <2>3, <2>4, Zenon DEF DataOK, InCall, Issued
<1> QED  BY <1>1, <1>2, <1>3, <1>4, <1>5, <1>6, Zenon DEF IInv

\* What the buffers are after ahciTest has filled one
LEMMA Filled ==
  ASSUME IInv, Begin
  PROVE  /\ mem' \in [buf1 : Int, buf2 : Int]
         /\ op = "write" => mem'.buf1 = k
         /\ op = "read" => mem'.buf2 = 0
  BY Types DEF IInv, StoreOK, Begin

\* A call up to its wait: the slot it takes is used by no command that still has its bit
LEMMA BeginStep == ASSUME IInv, Begin PROVE IInv'
<1>1. /\ pc = "next" /\ k < Blocks /\ tfes' = FALSE /\ UNCHANGED <<ci, busy, error>> /\ Device
  BY Zenon DEF Begin
<1>2. TypeOK /\ ci \ aborted = {}
  BY <1>1, Zenon DEF IInv, SlotsOK
<1>3. mem' \in [buf1 : Int, buf2 : Int] /\ (op = "write" => mem'.buf1 = k) /\ (op = "read" => mem'.buf2 = 0)
  BY Filled, Zenon
<1>4. CASE FreeSlots = {}
  <2>1. Return(-1) /\ UNCHANGED <<slot, cmd, spin>>
    BY <1>4, Zenon DEF Begin
  <2>2. {tfes', busy'} \subseteq BOOLEAN
    BY <1>1, <1>2, Zenon DEF TypeOK
  <2> QED  BY <1>1, <1>2, <1>3, <2>1, <2>2, ReturnStep
<1>5. CASE FreeSlots # {}
  <2>1. /\ slot' = Min(FreeSlots) /\ cmd' = [cmd EXCEPT ![slot'] = Command] /\ spin' = 0
        /\ pc' = "spin" /\ UNCHANGED <<op, k, acked>>
    BY <1>5, Zenon DEF Begin
  <2>2. slot' \in 0..(CmdSlots - 1) /\ slot' \notin ci
    <3>1. FreeSlots \in SUBSET Nat
      BY DEF FreeSlots
    <3>2. slot' \in FreeSlots
      BY <1>5, <2>1, <3>1, MinIn, Zenon
    <3> QED  BY <3>2, Zenon DEF FreeSlots
  <2>3. Command \in Commands
    BY <1>1, <1>2, CommandIs, Zenon
  <2>4. /\ PciOK' /\ EngineOK' /\ {hr', st', cr', fre', fr', based', stopped'} \subseteq BOOLEAN
        /\ moved' = moved /\ aborted' = aborted /\ disk' = disk
    BY <1>1, <2>1, LoopLeaves, Zenon DEF Loop, InCall
  <2>5. TypeOK'
    <3>1. cmd' \in [0..(CmdSlots - 1) -> Commands]
      BY <1>2, <2>1, <2>2, <2>3, Zenon DEF TypeOK
    <3>2. spin' \in 0..MaxSpin
      BY <2>1, AhciAssumption
    <3> QED  BY <1>1, <1>2, <2>1, <2>2, <2>4, <3>1, <3>2, Zenon DEF TypeOK
  <2>6. StoreOK'
    BY <1>3, <2>4, Zenon DEF IInv, StoreOK
  <2>7. LoopOK'
    BY <1>1, <2>1, Zenon DEF IInv, LoopOK, Before
  <2>8. SlotsOK'
    BY <1>1, <1>2, <2>1, <2>2, <2>4, Zenon DEF IInv, SlotsOK, Before, Issued
  <2>9. DataOK'
    <3>1. \A j : OnDisk(j)' <=> OnDisk(j)
      BY <2>4, Zenon DEF OnDisk
    <3>2. Command' = Command
      BY <2>1, Zenon DEF Command
    <3>3. cmd'[slot'] = Command'
      <4> HIDE DEF Command
      <4> QED  BY <1>2, <2>1, <2>2, <3>2, Zenon DEF TypeOK
    <3>4. /\ \A j \in acked : OnDisk(j)
          /\ op = "read" /\ error = 0 => \A j \in 1..(k - 1) : OnDisk(j)
      BY Zenon DEF IInv, DataOK
    <3> HIDE DEF OnDisk, Command
    <3> QED  BY <1>1, <1>3, <2>1, <3>1, <3>3, <3>4, Zenon DEF DataOK, Issued
  <2> QED  BY <2>4, <2>5, <2>6, <2>7, <2>8, <2>9, Zenon DEF IInv
<1> QED  BY <1>4, <1>5, Zenon

\* A turn of the loop that waits for the port, and of the loop that waits for ci
LEMMA TurnStep ==
  ASSUME IInv, Device, UNCHANGED <<op, k, slot, ci, tfes, busy, cmd, mem, error, acked>>,
         spin' \in 0..MaxSpin,
         \/ pc = "spin" /\ pc' = "spin"
         \/ pc = "wait" /\ pc' = IF slot \in ci THEN "poll" ELSE "check"
         \/ pc = "poll" /\ pc' = "wait"
  PROVE  IInv'
<1>1. pc \in InCall /\ pc' \in InCall
  BY Zenon DEF InCall
<1>2. /\ PciOK' /\ EngineOK' /\ {hr', st', cr', fre', fr', based', stopped'} \subseteq BOOLEAN
      /\ moved' = moved /\ aborted' = aborted /\ disk' = disk
  BY <1>1, LoopLeaves, Zenon DEF Loop
<1>3. TypeOK' /\ StoreOK'
  BY <1>1, <1>2, Zenon DEF IInv, TypeOK, StoreOK, InCall
<1>4. LoopOK'
  BY <1>1, Zenon DEF IInv, LoopOK, InCall, Before
<1>5. SlotsOK'
  BY <1>1, <1>2, Zenon DEF IInv, SlotsOK, InCall, Before, Issued
<1>6. DataOK'
  <2>1. \A j : OnDisk(j)' <=> OnDisk(j)
    BY <1>2, Zenon DEF OnDisk
  <2>2. Command' = Command
    BY Zenon DEF Command
  <2>3. DataOK
    BY Zenon DEF IInv
  <2> HIDE DEF OnDisk, Command
  <2> QED  BY <1>1, <1>2, <2>1, <2>2, <2>3, Zenon DEF DataOK, InCall, Issued
<1> QED  BY <1>2, <1>3, <1>4, <1>5, <1>6, Zenon DEF IInv

\* The command's bit goes into ci
LEMMA IssueStep == ASSUME IInv, Issue PROVE IInv'
<1>1. /\ pc = "spin" /\ pc' = "wait" /\ ci' = ci \cup {slot} /\ Device
      /\ UNCHANGED <<op, k, slot, spin, tfes, busy, cmd, mem, error, acked>>
  BY Zenon DEF Issue, Goto
<1>2. /\ PciOK' /\ EngineOK' /\ {hr', st', cr', fre', fr', based', stopped'} \subseteq BOOLEAN
      /\ moved' = moved /\ aborted' = aborted /\ disk' = disk
  BY <1>1, LoopLeaves, Zenon DEF Loop, InCall
<1>3. /\ slot \notin ci /\ ~ tfes /\ aborted \subseteq ci /\ moved \subseteq ci \ aborted /\ ci \ aborted = {}
  BY <1>1, Zenon DEF IInv, SlotsOK
<1>4. TypeOK' /\ StoreOK'
  BY <1>1, <1>2, Zenon DEF IInv, TypeOK, StoreOK
<1>5. LoopOK'
  BY <1>1, Zenon DEF IInv, LoopOK, Before
<1>6. SlotsOK'
  BY <1>1, <1>2, <1>3, Zenon DEF SlotsOK, Before, Issued
<1>7. DataOK'
  <2>1. \A j : OnDisk(j)' <=> OnDisk(j)
    BY <1>2, Zenon DEF OnDisk
  <2>2. Command' = Command
    BY <1>1, Zenon DEF Command
  <2>3. DataOK
    BY Zenon DEF IInv
  <2> HIDE DEF OnDisk, Command
  <2> QED  BY <1>1, <1>2, <1>3, <2>1, <2>2, <2>3, Zenon DEF DataOK, InCall, Issued
<1> QED  BY <1>2, <1>4, <1>5, <1>6, <1>7, Zenon DEF IInv

\* The comparison: a buffer that holds the pattern holds the block, but for block 0
LEMMA CompareStep == ASSUME IInv, Compare PROVE IInv'
<1>1. /\ pc = "compare" /\ pc' = (IF k + 1 = Blocks THEN "done" ELSE "next")
      /\ error' = (IF mem.buf2 # k THEN error + 1 ELSE error) /\ k' = k + 1 /\ Device
      /\ UNCHANGED <<op, slot, spin, ci, tfes, busy, cmd, mem, acked>>
  BY Zenon DEF Compare, Goto, port
<1>2. /\ PciOK' /\ EngineOK' /\ {hr', st', cr', fre', fr', based', stopped'} \subseteq BOOLEAN
      /\ moved' = moved /\ aborted' = aborted /\ disk' = disk
  BY <1>1, LoopLeaves, Zenon DEF Loop, InCall
<1>3. op = "read" /\ k < Blocks /\ error <= k /\ TypeOK
  BY <1>1, Zenon DEF IInv, LoopOK
<1>4. Blocks \in Nat \ {0} /\ k \in Nat /\ error \in Nat
  BY <1>3, Types, Zenon
<1>5. error' \in Nat /\ error' <= k' /\ k' \in 0..Blocks
  BY <1>1, <1>3, <1>4
<1>6. TypeOK' /\ StoreOK'
  <2>1. error' \in 0..Blocks
    BY <1>4, <1>5
  <2>2. pc' \in {"next", "done"}
    BY <1>1, Zenon
  <2> QED  BY <1>1, <1>2, <1>5, <2>1, <2>2, Zenon DEF IInv, TypeOK, StoreOK
<1>7. LoopOK'
  <2>1. IF pc' = "done" THEN k' = Blocks ELSE k' < Blocks
    BY <1>1, <1>3, <1>4
  <2> QED  BY <1>1, <1>3, <1>5, <2>1, Zenon DEF LoopOK, Before
<1>8. SlotsOK'
  BY <1>1, <1>2, Zenon DEF IInv, SlotsOK, Before, Issued
<1>9. DataOK'
  <2>1. \A j : OnDisk(j)' <=> OnDisk(j)
    BY <1>2, Zenon DEF OnDisk
  <2>2. ASSUME error' = 0, NEW j \in 1..(k' - 1) PROVE OnDisk(j)
    <3>1. error = 0 /\ mem.buf2 = k
      BY <1>1, <1>4, <2>2
    <3>2. CASE j = k
      <4>1. mem.buf2 \in {0, disk[Sectors * k]}
        BY <1>1, <1>3, Zenon DEF IInv, DataOK
      <4>2. k # 0
        BY <3>2
      <4> QED  BY <3>1, <3>2, <4>1, <4>2, Zenon DEF OnDisk
    <3>3. CASE j # k
      <4>1. j \in 1..(k - 1)
        BY <1>1, <1>4, <3>3
      <4> QED  BY <1>3, <3>1, <4>1, Zenon DEF IInv, DataOK
    <3> QED  BY <3>2, <3>3, Zenon
  <2>3. \A j \in acked : OnDisk(j)
    BY Zenon DEF IInv, DataOK
  <2> HIDE DEF OnDisk
  <2> QED  BY <1>1, <2>1, <2>2, <2>3, Zenon DEF DataOK, InCall, Issued
<1> QED  BY <1>2, <1>6, <1>7, <1>8, <1>9, Zenon DEF IInv

\* Every step of a call of ahci_write or ahci_read and of the loops around it
LEMMA CallStep ==
  ASSUME IInv, Begin \/ Spin \/ Hung \/ Issue \/ Wait \/ Poll \/ Check \/ Compare
  PROVE  IInv'
<1>1. TypeOK /\ {tfes, busy} \subseteq BOOLEAN /\ spin \in 0..MaxSpin /\ MaxSpin \in Nat
  BY Types, Zenon DEF IInv, TypeOK
<1>2. mem \in [buf1 : Int, buf2 : Int]
  BY Zenon DEF IInv, StoreOK
<1>3. pc \in InCall /\ op = "read" => mem.buf2 \in {0, disk[Sectors * k]}
  BY Zenon DEF IInv, DataOK
<1>4. CASE Spin
  <2>1. spin' \in 0..MaxSpin
    BY <1>1, <1>4 DEF Spin
  <2> QED  BY <1>4, <2>1, TurnStep, Zenon DEF Spin, port
<1>5. CASE Hung
  <2>1. pc = "spin" /\ Return(0) /\ UNCHANGED <<slot, spin, ci, tfes, busy, cmd, mem, error>> /\ Device
    BY <1>5, Zenon DEF Hung, port
  <2>2. ci \ aborted = {}
    BY <2>1, Zenon DEF IInv, SlotsOK
  <2> QED  BY <1>1, <1>2, <1>3, <2>1, <2>2, ReturnStep DEF InCall
<1>6. CASE Wait
  BY <1>1, <1>6, TurnStep, Zenon DEF Wait, Goto, port
<1>7. CASE Poll
  <2>1. pc = "poll" /\ UNCHANGED <<slot, spin, ci, tfes, busy, cmd, mem, error>> /\ Device
    BY <1>7, Zenon DEF Poll, port
  <2>2. CASE tfes
    <3>1. Return(0)
      BY <1>7, <2>2, Zenon DEF Poll
    <3>2. ci \ aborted = {}
      BY <2>2, Zenon DEF IInv, SlotsOK
    <3> QED  BY <1>1, <1>2, <1>3, <2>1, <3>1, <3>2, ReturnStep DEF InCall
  <2>3. CASE ~ tfes
    <3>1. pc' = "wait" /\ UNCHANGED <<op, k, acked>>
      BY <1>7, <2>3, Zenon DEF Poll
    <3> QED  BY <1>1, <2>1, <3>1, TurnStep, Zenon
  <2> QED  BY <2>2, <2>3, Zenon
<1>8. CASE Check
  <2> DEFINE r == IF tfes THEN 0 ELSE 1
  <2>1. pc = "check" /\ Return(r) /\ UNCHANGED <<slot, spin, ci, tfes, busy, cmd, mem, error>> /\ Device
    BY <1>8, Zenon DEF Check, port
  <2>2. ci \ aborted = {}
    BY <2>1, Zenon DEF IInv, SlotsOK
  <2>3. op = "write" /\ r = 1 => OnDisk(k)
    <3>1. ~ tfes => slot \notin ci
      BY <2>1, <2>2, Zenon DEF IInv, SlotsOK, Issued
    <3> QED  BY <2>1, <3>1 DEF IInv, DataOK, Issued
  <2> HIDE DEF r, OnDisk
  <2> QED  BY <1>1, <1>2, <1>3, <2>1, <2>2, <2>3, ReturnStep, Zenon DEF InCall
<1> QED  BY <1>4, <1>5, <1>6, <1>7, <1>8, BeginStep, IssueStep, CompareStep, Zenon

-----------------------------------------------------------------------------
(* The controller *)

\* It does not touch the bus or the driver
LEMMA QuietLeaves ==
  ASSUME IInv, Quiet
  PROVE  /\ UNCHANGED <<funcs, hba, bar, pc, op, k, slot, spin, based, cmd, error, acked>>
         /\ PciOK' /\ LoopOK' /\ Command' = Command
<1>1. UNCHANGED <<funcs, hba, bar, pc, op, k, slot, spin, based, cmd, error, acked>>
  BY Zenon DEF Quiet, pci
<1> QED  BY <1>1, Zenon DEF IInv, PciOK, Machine, LoopOK, Command

\* The reset, the engines and the device's busy bits
LEMMA ControlStep == ASSUME IInv, ResetDone \/ Engine \/ Settle PROVE IInv'
<1>1. /\ UNCHANGED <<funcs, hba, bar, pc, op, k, slot, spin, based, cmd, error, acked>>
      /\ PciOK' /\ LoopOK' /\ Command' = Command
  BY QuietLeaves, Zenon DEF ResetDone, Engine, Settle
<1>2. UNCHANGED <<moved, aborted, stopped, mem, disk>>
  BY Zenon DEF ResetDone, Engine, Settle, hidden
<1>3. \/ UNCHANGED <<ci, tfes>>
      \/ pc = "resetting" /\ ci' = {} /\ tfes' = FALSE
  BY Zenon DEF ResetDone, Engine, Settle, port, IInv, EngineOK
<1>4. ci' = ci
  BY <1>3, Zenon DEF IInv, SlotsOK, Before
<1>5. TypeOK'
  <2>1. {hr, st, cr, fre, fr, tfes, busy} \subseteq BOOLEAN
    BY Zenon DEF IInv, TypeOK
  <2>2. {hr', st', cr', fre', fr', tfes', busy'} \subseteq BOOLEAN
    BY <2>1, Zenon DEF ResetDone, Engine, Settle, port
  <2> QED  BY <1>1, <1>2, <1>4, <2>2, Zenon DEF IInv, TypeOK
<1>6. StoreOK'
  BY <1>2, Zenon DEF IInv, StoreOK
<1>7. EngineOK'
  BY <1>1 DEF ResetDone, Engine, Settle, IInv, EngineOK
<1>8. SlotsOK'
  BY <1>1, <1>2, <1>3, <1>4 DEF IInv, SlotsOK, Before, Issued
<1>9. DataOK'
  <2>1. \A j : OnDisk(j)' <=> OnDisk(j)
    BY <1>2, Zenon DEF OnDisk
  <2>2. DataOK
    BY Zenon DEF IInv
  <2> HIDE DEF OnDisk, Command
  <2> QED  BY <1>1, <1>2, <1>3, <1>4, <2>1, <2>2, Zenon DEF DataOK, InCall, Issued
<1> QED  BY <1>1, <1>5, <1>6, <1>7, <1>8, <1>9, Zenon DEF IInv

\* The only command the controller works on is the one that the driver waits for
LEMMA ActiveIs ==
  ASSUME IInv, NEW s \in Active
  PROVE  /\ s = slot /\ slot \in ci /\ slot \notin aborted /\ pc \in {"wait", "poll"} /\ ~ tfes
         /\ cmd[slot] = Command /\ k < Blocks /\ k \in 0..(Blocks - 1) /\ TypeOK
<1>1. s \in ci \ aborted
  BY Zenon DEF Active
<1>2. s = slot /\ pc \in {"wait", "poll"} /\ ~ tfes
  BY <1>1, Zenon DEF IInv, SlotsOK
<1>3. cmd[slot] = Command /\ k < Blocks /\ TypeOK
  BY <1>2, Zenon DEF IInv, DataOK, LoopOK, InCall
<1>4. k \in 0..(Blocks - 1)
  BY <1>3, Types
<1> QED  BY <1>1, <1>2, <1>3, <1>4, Zenon

\* A transfer brings the pattern to the block of its call, or the block to its buffer
LEMMA MoveIs ==
  ASSUME IInv, NEW s \in Active, Move(s)
  PROVE  /\ Sectors * k \in BlockSectors
         /\ op = "write" => /\ UNCHANGED mem
                            /\ disk' = [x \in BlockSectors |-> IF x = Sectors * k THEN k ELSE disk[x]]
         /\ op = "read" => /\ UNCHANGED disk
                           /\ mem' = [mem EXCEPT !.buf2 = disk[Sectors * k]]
<1>1. s = slot /\ pc \in InCall /\ cmd[slot] = Command /\ k < Blocks /\ k \in 0..(Blocks - 1) /\ TypeOK
  BY ActiveIs, Zenon DEF InCall
<1>2. /\ Command.w = (op = "write") /\ Command.buf = IF op = "write" THEN "buf1" ELSE "buf2"
      /\ Command.count = Sectors /\ Command.prdt = <<Sectors>>
      /\ Lba(Command.lba) = Sectors * k
  BY <1>1, CommandIs, Zenon
<1>3. DOMAIN disk = BlockSectors /\ Sectors * k \in BlockSectors
  BY <1>1, Zenon DEF IInv, StoreOK, BlockSectors
<1>4. \A v : Data(cmd[s], v) = v
  BY <1>1, <1>2, Zenon DEF Data
<1> HIDE DEF Command
<1>5. CASE op = "write"
  <2>1. mem.buf1 = k
    BY <1>1, <1>5, Zenon DEF IInv, DataOK
  <2>2. cmd[s].w /\ cmd[s].buf = "buf1" /\ Lba(cmd[s].lba) = Sectors * k
    BY <1>1, <1>2, <1>5, Zenon
  <2>3. mem["buf1"] = k
    BY <2>1, Zenon
  <2> QED  BY <1>3, <1>4, <1>5, <2>2, <2>3 DEF Move
<1>6. CASE op = "read"
  <2>1. ~ cmd[s].w /\ cmd[s].buf = "buf2" /\ Lba(cmd[s].lba) = Sectors * k
    BY <1>1, <1>2, <1>6, Zenon
  <2>2. UNCHANGED disk /\ mem' = [mem EXCEPT !["buf2"] = disk[Sectors * k]]
    BY <1>3, <1>4, <2>1, Zenon DEF Move
  <2> QED  BY <1>3, <1>6, <2>2, Zenon
<1> QED  BY <1>1, <1>5, <1>6, Types, Zenon

\* A transfer keeps what earlier calls stored
LEMMA TransferStep == ASSUME IInv, NEW s \in Active, Transfer(s) PROVE IInv'
<1>1. /\ UNCHANGED <<funcs, hba, bar, pc, op, k, slot, spin, based, cmd, error, acked>>
      /\ PciOK' /\ LoopOK' /\ Command' = Command
  BY QuietLeaves, Zenon DEF Transfer
<1>2. /\ Move(s) /\ moved' = moved \cup {s}
      /\ UNCHANGED <<hr, st, cr, fre, fr, ci, tfes, busy, aborted, stopped>>
  BY Zenon DEF Transfer, port
<1>3. /\ s = slot /\ slot \in ci /\ slot \notin aborted /\ pc \in {"wait", "poll"} /\ ~ tfes
      /\ cmd[slot] = Command /\ k < Blocks /\ k \in 0..(Blocks - 1) /\ TypeOK
  BY ActiveIs, Zenon
<1>4. /\ Sectors * k \in BlockSectors
      /\ op = "write" => /\ UNCHANGED mem
                         /\ disk' = [x \in BlockSectors |-> IF x = Sectors * k THEN k ELSE disk[x]]
      /\ op = "read" => /\ UNCHANGED disk
                        /\ mem' = [mem EXCEPT !.buf2 = disk[Sectors * k]]
  BY <1>2, MoveIs, Zenon
<1>5. k \in Nat /\ op \in {"write", "read"} /\ acked \subseteq 0..(Blocks - 1) /\ Blocks \in Nat
  BY <1>3, Types, Zenon
<1>6. StoreOK
  BY Zenon DEF IInv
<1>7. TypeOK'
  BY <1>1, <1>2, <1>3, Zenon DEF TypeOK
<1>8. StoreOK'
  BY <1>4, <1>5, <1>6 DEF StoreOK
<1>9. EngineOK'
  BY <1>1, <1>2, Zenon DEF IInv, EngineOK
<1>10. SlotsOK'
  BY <1>1, <1>2, <1>3, Zenon DEF IInv, SlotsOK, Before, Issued
<1>11. \A j \in 0..(Blocks - 1) : OnDisk(j) => OnDisk(j)'
  <2> SUFFICES ASSUME NEW j \in 0..(Blocks - 1), OnDisk(j) PROVE OnDisk(j)'
    BY Zenon
  <2>1. Sectors * j \in BlockSectors
    BY Zenon DEF BlockSectors
  <2>2. Sectors * j = Sectors * k => j = k
    BY <1>5, BlocksApart
  <2> QED  BY <1>1, <1>4, <1>5, <2>1, <2>2, Zenon DEF OnDisk
<1>12. op = "write" => OnDisk(k)'
  BY <1>1, <1>4, Zenon DEF OnDisk
<1>13. op = "read" => mem'.buf2 = disk'[Sectors * k]
  BY <1>4, <1>6, Zenon DEF StoreOK
<1>14. op = "write" => mem' = mem
  BY <1>4, Zenon
<1>15. DataOK'
  <2>1. DataOK
    BY Zenon DEF IInv
  <2>2. \A j \in acked' : OnDisk(j)'
    BY <1>1, <1>5, <1>11, <2>1, Zenon DEF DataOK
  <2>3. op' = "read" /\ error' = 0 => \A j \in 1..(k' - 1) : OnDisk(j)'
    <3>1. \A j \in 1..(k - 1) : j \in 0..(Blocks - 1)
      BY <1>3, <1>5
    <3> QED  BY <1>1, <1>11, <2>1, <3>1, Zenon DEF DataOK
  <2> HIDE DEF OnDisk, Command
  <2> QED  BY <1>1, <1>2, <1>3, <1>12, <1>13, <1>14, <2>1, <2>2, <2>3, Zenon DEF DataOK, InCall, Issued
<1> QED  BY <1>1, <1>7, <1>8, <1>9, <1>10, <1>15, Zenon DEF IInv

\* The end of a command, and a failure
LEMMA EndStep ==
  ASSUME IInv, NEW s \in Active, Complete(s) \/ FailCommand(s)
  PROVE  IInv'
<1>1. /\ UNCHANGED <<funcs, hba, bar, pc, op, k, slot, spin, based, cmd, error, acked>>
      /\ PciOK' /\ LoopOK' /\ Command' = Command
  BY QuietLeaves, Zenon DEF Complete, FailCommand
<1>2. /\ UNCHANGED <<hr, st, cr, fre, fr, mem, disk>> /\ busy' \in BOOLEAN /\ moved' = moved \ {s}
      /\ \/ s \in moved /\ ci' = ci \ {s} /\ UNCHANGED <<tfes, aborted, stopped>>
         \/ tfes' = TRUE /\ ci' = ci \ {s} /\ UNCHANGED <<aborted, stopped>>
         \/ tfes' = TRUE /\ UNCHANGED ci /\ aborted' = aborted \cup {s} /\ stopped' \in BOOLEAN
  BY Zenon DEF Complete, FailCommand
<1>3. /\ s = slot /\ slot \in ci /\ slot \notin aborted /\ pc \in {"wait", "poll"} /\ ~ tfes
  BY ActiveIs, Zenon
<1>4. TypeOK'
  <2>1. {tfes', stopped'} \subseteq BOOLEAN
    <3>1. tfes \in BOOLEAN /\ stopped \in BOOLEAN
      BY Zenon DEF IInv, TypeOK
    <3>2. (tfes' = tfes \/ tfes' = TRUE) /\ (stopped' = stopped \/ stopped' \in BOOLEAN)
      BY <1>2, Zenon
    <3> QED  BY <3>1, <3>2, Zenon
  <2>2. {ci', moved', aborted'} \subseteq SUBSET (0..(CmdSlots - 1))
    <3> DEFINE Slots == 0..(CmdSlots - 1)
    <3>1. {ci, moved, aborted} \subseteq SUBSET Slots /\ slot \in Slots
      BY Zenon DEF IInv, TypeOK
    <3>2. ci' \subseteq ci /\ moved' \subseteq moved /\ aborted' \subseteq aborted \cup {s}
      BY <1>2, Zenon
    <3> HIDE DEF Slots
    <3>3. {ci', moved', aborted'} \subseteq SUBSET Slots
      BY <1>3, <3>1, <3>2, Zenon
    <3> QED  BY <3>3, Zenon DEF Slots
  <2> QED  BY <1>1, <1>2, <2>1, <2>2, Zenon DEF IInv, TypeOK
<1>5. StoreOK'
  BY <1>2, Zenon DEF IInv, StoreOK
<1>6. EngineOK'
  BY <1>1, <1>2, Zenon DEF IInv, EngineOK
<1>7. SlotsOK'
  BY <1>1, <1>2, <1>3, Zenon DEF IInv, SlotsOK, Before, Issued
<1>8. DataOK'
  <2>1. \A j : OnDisk(j)' <=> OnDisk(j)
    BY <1>2, Zenon DEF OnDisk
  <2>2. DataOK
    BY Zenon DEF IInv
  <2> HIDE DEF OnDisk, Command
  <2> QED  BY <1>1, <1>2, <1>3, <2>1, <2>2, Zenon DEF DataOK, InCall, Issued
<1> QED  BY <1>1, <1>4, <1>5, <1>6, <1>7, <1>8, Zenon DEF IInv

-----------------------------------------------------------------------------
(* Theorems *)

\* Every step of the driver and of the controller keeps the invariant
LEMMA InvNext == IInv /\ [Next]_vars => IInv'
<1> SUFFICES ASSUME IInv, [Next]_vars PROVE IInv'
  BY Zenon
<1>1. CASE Driver
  BY <1>1, WalkStep, SetupStep, CallStep, Zenon DEF Driver
<1>2. CASE ResetDone \/ Engine \/ Settle
  BY <1>2, ControlStep, Zenon
<1>3. CASE Execute
  BY <1>3, TransferStep, EndStep, Zenon DEF Execute
<1>4. CASE \E s \in Active : FailCommand(s)
  BY <1>4, EndStep, Zenon
<1>5. CASE UNCHANGED vars
  <2>1. /\ UNCHANGED <<funcs, hba, bar, pc, op, k, slot, spin, hr, st, cr, fre, fr, based, ci, tfes, busy>>
        /\ UNCHANGED <<cmd, moved, aborted, stopped, mem, disk, error, acked>>
    BY <1>5, Zenon DEF vars, pci, engine, port, hidden
  <2>2. PciOK' /\ EngineOK' /\ LoopOK' /\ SlotsOK' /\ Command' = Command
    BY <2>1, Zenon DEF IInv, PciOK, Machine, EngineOK, LoopOK, SlotsOK, Command
  <2>3. TypeOK' /\ StoreOK'
    BY <2>1, Zenon DEF IInv, TypeOK, StoreOK
  <2>4. DataOK'
    <3>1. \A j : OnDisk(j)' <=> OnDisk(j)
      BY <2>1, Zenon DEF OnDisk
    <3>2. DataOK
      BY Zenon DEF IInv
    <3> HIDE DEF OnDisk, Command
    <3> QED  BY <2>1, <2>2, <3>1, <3>2, Zenon DEF DataOK
  <2> QED  BY <2>2, <2>3, <2>4, Zenon DEF IInv
<1> QED  BY <1>1, <1>2, <1>3, <1>4, <1>5, Zenon DEF Next

\* The driver's place in its calls, the controller's registers and the data of the test
\* satisfy the inductive invariant, however late the controller answers and whichever
\* commands fail
THEOREM DriverInvariant == Spec => []IInv
  BY InvInit, InvNext, PTL DEF Spec

\* The registers, tables and counters of the driver stay in their ranges
THEOREM DriverTyped == Spec => []TypeOK
<1>1. IInv => TypeOK
  BY Zenon DEF IInv
<1> QED  BY <1>1, DriverInvariant, PTL

\* pciWalk_bf finds the controller of every machine that has one, and sets the BAR of no
\* other function, although it also asks for a function 8
THEOREM WalkFindsController == Spec => []ControllerFound
<1>1. IInv => ControllerFound
  BY Zenon DEF IInv, PciOK, ControllerFound
<1> QED  BY <1>1, DriverInvariant, PTL

\* A block whose ahci_write returned 1 is on the disk and stays there, whatever failed
\* before and after
THEOREM WritesAreStored == Spec => []WrittenIsStored
<1>1. IInv => WrittenIsStored
  BY Zenon DEF IInv, DataOK, OnDisk, WrittenIsStored
<1> QED  BY <1>1, DriverInvariant, PTL

\* When ahciTest counts no error, every block but the first is on the disk
THEOREM VerdictIsSound == Spec => []VerdictSound
<1>1. IInv => VerdictSound
  <2> SUFFICES ASSUME IInv, pc = "done", error = 0, NEW j \in 1..(Blocks - 1)
               PROVE  disk[Sectors * j] = j
    BY Zenon DEF VerdictSound
  <2>1. op = "read" /\ k = Blocks
    BY Zenon DEF IInv, LoopOK
  <2>2. OnDisk(j)
    BY <2>1, Zenon DEF IInv, DataOK
  <2> QED  BY <2>2, Zenon DEF OnDisk
<1> QED  BY <1>1, DriverInvariant, PTL

\* port_rebase moves the port's memory only when stop_cmd has stopped both engines
THEOREM RebasesWhileStopped == Spec => RebaseWhileStopped
<1>1. IInv /\ [Next]_vars => [based' # based => ~ cr /\ ~ fr]_vars
  <2> SUFFICES ASSUME IInv, Next, based' # based PROVE ~ cr /\ ~ fr
    BY Zenon DEF vars, engine
  <2>1. pc = "rebase"
    BY Zenon DEF Next, Driver, PciWalk, PortSetup, ProbeReset, ProbeDone, StopCmd, StopFre, StopWait, Rebase,
           StartCmd, Goto, Begin, Spin, Hung, Issue, Wait, Poll, Check, Compare, Device, engine,
           ResetDone, Engine, Settle, Execute, Transfer, Complete, FailCommand, Quiet
  <2> QED  BY <2>1, Zenon DEF IInv, EngineOK
<1> QED  BY <1>1, DriverInvariant, PTL DEF Spec, RebaseWhileStopped

\* A call never writes into a command table whose bit in ci is still set, also when calls
\* that failed have left theirs
THEOREM TablesAreKept == Spec => TablesKept
<1>1. IInv /\ [Next]_vars => [\A s \in ci : cmd'[s] = cmd[s]]_vars
  <2> SUFFICES ASSUME IInv, Next, NEW s \in ci PROVE cmd'[s] = cmd[s]
    BY Zenon
  <2>1. CASE Begin /\ FreeSlots # {}
    <3>1. slot' = Min(FreeSlots) /\ cmd' = [cmd EXCEPT ![slot'] = Command]
      BY <2>1, Zenon DEF Begin
    <3>2. slot' \in FreeSlots
      <4>1. FreeSlots \in SUBSET Nat
        BY DEF FreeSlots
      <4> QED  BY <2>1, <3>1, <4>1, MinIn, Zenon
    <3>3. slot' # s
      BY <3>2, Zenon DEF FreeSlots
    <3>4. cmd \in [0..(CmdSlots - 1) -> Commands] /\ s \in 0..(CmdSlots - 1)
      BY Zenon DEF IInv, TypeOK
    <3> HIDE DEF Command
    <3> QED  BY <3>1, <3>3, <3>4, Zenon
  <2>2. CASE ~ (Begin /\ FreeSlots # {})
    <3>1. cmd' = cmd
      BY <2>2, Zenon DEF Next, Driver, PciWalk, PortSetup, ProbeReset, ProbeDone, StopCmd, StopFre, StopWait, Rebase,
           StartCmd, Setup, Begin, Spin, Hung, Issue, Wait, Poll, Check, Compare,
           ResetDone, Engine, Settle, Execute, Transfer, Complete, FailCommand, Quiet
    <3> QED  BY <3>1, Zenon
  <2> QED  BY <2>1, <2>2, Zenon
<1> QED  BY <1>1, DriverInvariant, PTL DEF Spec, TablesKept

-----------------------------------------------------------------------------
(* The timer *)

\* both hold of the zeroed clock at boot
LEMMA InitClock == ClockInit => ClockTypeOK /\ ClocksAgree
  BY KtimeAssumption DEF ClockInit, ClockTypeOK, ClocksAgree

\* a day that rolls over stands for as many seconds as before
LEMMA RolloverKeeps ==
  ASSUME NEW s \in Nat, s <= DayLength, day \in Nat, Rollover(s)
  PROVE  /\ day' \in Nat /\ second' \in 0..(DayLength - 1)
         /\ DayLength * day' + second' = DayLength * day + s
<1>1. DayLength \in Nat \ {0}
  BY KtimeAssumption, Zenon
<1>2. CASE s >= DayLength
  <2>1. s = DayLength /\ day' = day + 1 /\ second' = 0
    BY <1>1, <1>2 DEF Rollover
  <2>2. DayLength * (day + 1) = DayLength * day + DayLength
    BY <1>1
  <2> QED  BY <1>1, <2>1, <2>2
<1>3. CASE ~(s >= DayLength)
  BY <1>1, <1>3 DEF Rollover
<1> QED  BY <1>2, <1>3, Zenon

\* the invariant is inductive: one case per kind of second and per tick of it
LEMMA ClockInductive ==
  ClockTypeOK /\ ClocksAgree /\ [addTick]_clockVars => (ClockTypeOK /\ ClocksAgree)'
<1> SUFFICES ASSUME ClockTypeOK, ClocksAgree, [addTick]_clockVars
             PROVE  (ClockTypeOK /\ ClocksAgree)'
  BY Zenon
<1>1. CASE UNCHANGED clockVars
  BY <1>1 DEF clockVars, ClockTypeOK, ClocksAgree
<1>2. CASE addTick
  <2> DEFINE T  == DayLength * day + second
             T1 == DayLength * day' + second'
  <2>1. /\ DayLength \in Nat \ {0} /\ day \in Nat /\ second \in Nat /\ ms \in Nat /\ irqs \in Nat
        /\ second + 1 <= DayLength /\ second <= DayLength
    BY KtimeAssumption DEF ClockTypeOK
  <2>2. irqs' \in Nat
    BY <1>2, <2>1 DEF addTick
  <2>3. T \in Nat /\ DayLength * day + (second + 1) = T + 1
    BY <2>1
  <2>4. ms = 1000 * T + (IF s_cnt < 4 THEN 55 ELSE 52) * ticks
    BY Zenon DEF ClocksAgree
  <2>5. SUFFICES /\ s_cnt' \in 0..4
                 /\ ticks' \in 0..(IF s_cnt' < 4 THEN 18 ELSE 19)
                 /\ day' \in Nat /\ second' \in 0..(DayLength - 1)
                 /\ ms' = 1000 * T1 + (IF s_cnt' < 4 THEN 55 ELSE 52) * ticks'
                 /\ ms' \in Nat
    BY <2>2, Zenon DEF ClockTypeOK, ClocksAgree
  <2>6. CASE s_cnt < 4 /\ ticks < 18
    <3>1. ticks' = ticks + 1 /\ ms' = ms + 55 /\ s_cnt' = s_cnt /\ Rollover(second)
      BY <1>2, <2>6, Zenon DEF addTick, Count
    <3>2. day' \in Nat /\ second' \in 0..(DayLength - 1) /\ T1 = T
      BY <2>1, <3>1, RolloverKeeps, Zenon
    <3> HIDE DEF T, T1
    <3> QED  BY <2>1, <2>3, <2>4, <2>6, <3>1, <3>2 DEF ClockTypeOK
  <2>7. CASE s_cnt < 4 /\ ~(ticks < 18)
    <3>1. ticks' = 0 /\ ms' = ms + 10 /\ s_cnt' = s_cnt + 1 /\ Rollover(second + 1)
      BY <1>2, <2>7, Zenon DEF addTick, Count
    <3>2. day' \in Nat /\ second' \in 0..(DayLength - 1) /\ T1 = DayLength * day + (second + 1)
      BY <2>1, <3>1, RolloverKeeps
    <3>3. T1 = T + 1
      BY <2>3, <3>2, Zenon
    <3> HIDE DEF T, T1
    <3> QED  BY <2>1, <2>3, <2>4, <2>7, <3>1, <3>2, <3>3 DEF ClockTypeOK
  <2>8. CASE ~(s_cnt < 4) /\ ticks < 19
    <3>1. ticks' = ticks + 1 /\ ms' = ms + 52 /\ s_cnt' = s_cnt /\ Rollover(second)
      BY <1>2, <2>8, Zenon DEF addTick, Count
    <3>2. day' \in Nat /\ second' \in 0..(DayLength - 1) /\ T1 = T
      BY <2>1, <3>1, RolloverKeeps, Zenon
    <3> HIDE DEF T, T1
    <3> QED  BY <2>1, <2>3, <2>4, <2>8, <3>1, <3>2 DEF ClockTypeOK
  <2>9. CASE ~(s_cnt < 4) /\ ~(ticks < 19)
    <3>1. ticks' = 0 /\ ms' = ms + 12 /\ s_cnt' = 0 /\ Rollover(second + 1)
      BY <1>2, <2>9, Zenon DEF addTick, Count
    <3>2. day' \in Nat /\ second' \in 0..(DayLength - 1) /\ T1 = DayLength * day + (second + 1)
      BY <2>1, <3>1, RolloverKeeps
    <3>3. T1 = T + 1
      BY <2>3, <3>2, Zenon
    <3> HIDE DEF T, T1
    <3> QED  BY <2>1, <2>3, <2>4, <2>9, <3>1, <3>2, <3>3 DEF ClockTypeOK
  <2> QED  BY <2>6, <2>7, <2>8, <2>9, Zenon
<1> QED  BY <1>1, <1>2, Zenon

\* addTick keeps ms, the clock of sleep, equal to the day and second it shows, and
\* the second below the length of a day, for ever and for every length of the day
THEOREM ClockCorrect == ClockSpec => []ClocksAgree
<1>1. ClockSpec => [](ClockTypeOK /\ ClocksAgree)
  BY InitClock, ClockInductive, PTL DEF ClockSpec
<1> QED  BY <1>1, PTL
==============================================================================
