----------------------------- MODULE FilesProofs -----------------------------
(***************************************************************************)
(* Reading through shared file objects, losing them to a close, listing a  *)
(* directory and the types of processes, for every archive, any number of  *)
(* tasks and descriptors, and every order of file and process calls.       *)
(***************************************************************************)
EXTENDS PoolProofs

Objects == [hdr : 0..Len(Tar), offset : Nat, count : 0..1]

\* NULL, the terminal or an object
Handles == {n \in Int : n >= Terminal}

\* what is true of one object and what it has delivered
Good(b, d) ==
  /\ b.hdr = 0 /\ b.count = 1 => b.offset # 0
  /\ ~ IsDir(b.hdr) => b.offset <= SizeOf(b.hdr) /\ d = [i \in 1..b.offset |-> i]

\* The descriptors of tasks point to objects that there are
HandlesOK ==
  /\ live \subseteq Task
  /\ fdarr \in [Task -> [Fds -> Handles]]
  /\ \A t \in Task, fd \in Fds : fdarr[t][fd] <= Len(objs)

\* The objects are what tfs_open and tfs_read make of them
ObjectsOK ==
  /\ objs \in Seq(Objects)
  /\ out \in Seq(Seq(Nat)) /\ Len(out) = Len(objs)
  /\ \A o \in 1..Len(objs) : Good(objs[o], out[o])

IInv == HandlesOK /\ ObjectsOK

-----------------------------------------------------------------------------

\* a header is the root, a directory of size 0, or a file
LEMMA HeaderKinds ==
  ASSUME NEW h \in 0..Len(Tar)
  PROVE  /\ h = 0 => IsDir(h)
         /\ h # 0 => SizeOf(h) \in Nat /\ (IsDir(h) => SizeOf(h) = 0)
<1> DEFINE H == [name : Seq(STRING), dir : BOOLEAN, size : Nat, elf : Nat]
<1>1. Tar \in Seq(H) /\ \A k \in DOMAIN Tar : Tar[k].dir => Tar[k].size = 0
  BY FilesAssumption, Zenon
<1>2. DOMAIN Tar = 1..Len(Tar) /\ \A k \in 1..Len(Tar) : Tar[k] \in H
  <2> HIDE DEF H
  <2> QED  BY <1>1
<1>3. h = 0 => IsDir(h)
  BY Zenon DEF IsDir
<1>4. ASSUME h # 0 PROVE SizeOf(h) \in Nat /\ (IsDir(h) => SizeOf(h) = 0)
  <2>1. h \in 1..Len(Tar)
    <3>1. Len(Tar) \in Nat
      <4> HIDE DEF H
      <4> QED  BY <1>1
    <3> QED  BY <1>4, <3>1
  <2>2. Tar[h].size \in Nat
    BY <1>2, <2>1, Zenon
  <2>3. IsDir(h) => Tar[h].dir
    BY <1>4, Zenon DEF IsDir
  <2> QED  BY <1>1, <1>2, <2>1, <2>2, <2>3, Zenon DEF SizeOf
<1> QED  BY <1>3, <1>4, Zenon

\* replacing one object by a good one keeps the objects good
LEMMA ReplaceKeeps ==
  ASSUME ObjectsOK, NEW o \in 1..Len(objs), NEW b \in Objects, NEW d \in Seq(Nat), Good(b, d),
         objs' = [objs EXCEPT ![o] = b], out' = [out EXCEPT ![o] = d]
  PROVE  ObjectsOK' /\ Len(objs') = Len(objs)
<1>1. objs \in Seq(Objects) /\ out \in Seq(Seq(Nat)) /\ Len(out) = Len(objs)
  BY Zenon DEF ObjectsOK
<1> DEFINE S == Seq(Nat)
<1>2. /\ objs' \in Seq(Objects) /\ Len(objs') = Len(objs)
      /\ \A k \in 1..Len(objs) : objs'[k] = IF k = o THEN b ELSE objs[k]
  BY <1>1
<1>3. /\ out' \in Seq(S) /\ Len(out') = Len(out)
      /\ \A k \in 1..Len(objs) : out'[k] = IF k = o THEN d ELSE out[k]
  <2>1. out \in Seq(S) /\ d \in S
    BY <1>1, Zenon
  <2> HIDE DEF S
  <2> QED  BY <1>1, <2>1
<1>4. ASSUME NEW k \in 1..Len(objs) PROVE Good(objs'[k], out'[k])
  BY <1>2, <1>3, <1>4, Zenon DEF ObjectsOK
<1> QED  BY <1>1, <1>2, <1>3, <1>4, Zenon DEF ObjectsOK, Good, IsDir, SizeOf, Headers

\* a new good object at the end keeps the objects good
LEMMA AppendKeeps ==
  ASSUME ObjectsOK, NEW b \in Objects, Good(b, <<>>),
         objs' = Append(objs, b), out' = Append(out, <<>>)
  PROVE  ObjectsOK' /\ Len(objs') = Len(objs) + 1
<1>1. objs \in Seq(Objects) /\ out \in Seq(Seq(Nat)) /\ Len(out) = Len(objs)
  BY Zenon DEF ObjectsOK
<1> DEFINE S == Seq(Nat)
<1>2. /\ objs' \in Seq(Objects) /\ Len(objs') = Len(objs) + 1
      /\ \A k \in 1..Len(objs) : objs'[k] = objs[k]
      /\ objs'[Len(objs) + 1] = b
  BY <1>1
<1>3. /\ out' \in Seq(S) /\ Len(out') = Len(objs) + 1
      /\ \A k \in 1..Len(objs) : out'[k] = out[k]
      /\ out'[Len(objs) + 1] = <<>>
  <2>1. out \in Seq(S) /\ <<>> \in S
    BY <1>1
  <2> HIDE DEF S
  <2> QED  BY <1>1, <2>1
<1>4. ASSUME NEW k \in 1..Len(objs') PROVE Good(objs'[k], out'[k])
  <2>0. Len(objs) \in Nat
    BY <1>1
  <2>1. k \in 1..Len(objs) \/ k = Len(objs) + 1
    BY <1>2, <1>4, <2>0
  <2>2. CASE k \in 1..Len(objs)
    BY <1>2, <1>3, <2>2, Zenon DEF ObjectsOK
  <2>3. CASE k = Len(objs) + 1
    BY <1>2, <1>3, <2>3, Zenon
  <2> QED  BY <2>1, <2>2, <2>3, Zenon
<1> QED  BY <1>1, <1>2, <1>3, <1>4, Zenon DEF ObjectsOK, Good, IsDir, SizeOf, Headers

-----------------------------------------------------------------------------

\* tfs_open starts a file at byte 0 with nothing delivered, and the root past the archive
LEMMA NewIsGood ==
  ASSUME NEW h \in 0..Len(Tar)
  PROVE  LET b == [hdr |-> h, offset |-> FirstOffset(h), count |-> 1]
         IN b \in Objects /\ Good(b, <<>>)
<1> DEFINE b == [hdr |-> h, offset |-> FirstOffset(h), count |-> 1]
<1>1. Len(Tar) \in Nat
  BY FilesAssumption
<1>2. FirstOffset(h) \in Nat /\ (h = 0 => FirstOffset(h) # 0) /\ (~ IsDir(h) => FirstOffset(h) = 0)
  BY <1>1, HeaderKinds DEF FirstOffset, GetTfsNext, Wild
<1>3. b \in Objects
  BY <1>2 DEF Objects
<1>4. ASSUME ~ IsDir(h) PROVE 0 <= SizeOf(h) /\ <<>> = [i \in 1..0 |-> i]
  <2>1. h # 0 /\ SizeOf(h) \in Nat
    BY <1>4, HeaderKinds, Zenon
  <2> QED  BY <2>1
<1> QED  BY <1>2, <1>3, <1>4, Zenon DEF Good

\* new descriptors for one task, with the objects still there
LEMMA HandlesKeep ==
  ASSUME HandlesOK, NEW t \in Task, NEW r \in [Fds -> Handles],
         \A fd \in Fds : r[fd] <= Len(objs'),
         Len(objs) \in Nat, Len(objs') \in Nat, Len(objs) <= Len(objs'),
         fdarr' = [fdarr EXCEPT ![t] = r], live' \subseteq Task
  PROVE  HandlesOK'
<1>1. fdarr' \in [Task -> [Fds -> Handles]]
  BY Zenon DEF HandlesOK
<1>2. ASSUME NEW u \in Task, NEW fd \in Fds PROVE fdarr'[u][fd] <= Len(objs')
  <2>1. CASE u = t
    BY <2>1, Zenon DEF HandlesOK
  <2>2. CASE u # t
    <3>1. fdarr'[u][fd] = fdarr[u][fd] /\ fdarr[u][fd] \in Int /\ fdarr[u][fd] <= Len(objs)
      BY <2>2, Zenon DEF HandlesOK, Handles
    <3> QED  BY <3>1
  <2> QED  BY <2>1, <2>2, Zenon
<1> QED  BY <1>1, <1>2, Zenon DEF HandlesOK, Fds

\* sys_open: the new object is the last one and nothing has been read through it
LEMMA OpenKeeps ==
  ASSUME IInv, NEW t \in Task, NEW name, NEW flags, SysOpen(t, name, flags), UNCHANGED live
  PROVE  IInv'
<1>1. PICK fd \in GetFreeFd(t), h \in TfsOpen(SubSeq(name, 1, Len(name) - 1), flags) :
        NewObject(h) /\ fdarr' = [fdarr EXCEPT ![t][fd] = Len(objs')]
  BY Zenon DEF SysOpen
<1>2. h \in 0..Len(Tar)
  <2>1. Len(Tar) \in Nat /\ Headers = 1..Len(Tar)
    BY FilesAssumption DEF Headers
  <2>2. h \in {0} \cup Headers
    BY Zenon DEF TfsOpen, Lookup
  <2> QED  BY <2>1, <2>2
<1>3. ObjectsOK' /\ Len(objs') = Len(objs) + 1
  <2> DEFINE b == [hdr |-> h, offset |-> FirstOffset(h), count |-> 1]
  <2>1. b \in Objects /\ Good(b, <<>>)
    BY <1>2, NewIsGood, Zenon
  <2>2. objs' = Append(objs, b) /\ out' = Append(out, <<>>)
    BY <1>1, Zenon DEF NewObject
  <2> HIDE DEF b
  <2> QED  BY <2>1, <2>2, AppendKeeps, Zenon DEF IInv
<1>4. fd \in Fds /\ Len(objs) \in Nat
  BY DEF GetFreeFd, IInv, ObjectsOK
<1>5. HandlesOK'
  <2> DEFINE r == [fdarr[t] EXCEPT ![fd] = Len(objs')]
  <2>1. HandlesOK /\ fdarr[t] \in [Fds -> Handles] /\ Len(objs') \in Nat /\ live' \subseteq Task
    BY <1>3, <1>4 DEF IInv, HandlesOK
  <2>2. r \in [Fds -> Handles] /\ fdarr' = [fdarr EXCEPT ![t] = r]
    BY <1>1, <1>4, <2>1 DEF Handles, Terminal
  <2>3. ASSUME NEW k \in Fds PROVE r[k] <= Len(objs')
    <3>1. fdarr[t][k] \in Int /\ fdarr[t][k] <= Len(objs)
      BY <2>1, Zenon DEF HandlesOK, Handles
    <3> QED  BY <3>1, <2>1, <1>3, <1>4
  <2>4. Len(objs) <= Len(objs')
    BY <1>3, <1>4
  <2> HIDE DEF r
  <2> QED  BY <1>4, <2>1, <2>2, <2>3, <2>4, HandlesKeep, Zenon
<1> QED  BY <1>3, <1>5, Zenon DEF IInv

\* a descriptor with an object above 0 has one of the objects
LEMMA ObjectIs ==
  ASSUME IInv, NEW t \in Task, NEW fd \in Fds, Object(t, fd) > 0
  PROVE  /\ Object(t, fd) \in 1..Len(objs)
         /\ objs[Object(t, fd)] \in Objects /\ out[Object(t, fd)] \in Seq(Nat)
         /\ Good(objs[Object(t, fd)], out[Object(t, fd)])
<1> DEFINE o == Object(t, fd)
           S == Seq(Nat)
<1>1. o \in Int /\ o <= Len(objs) /\ o > 0
  BY Zenon DEF IInv, HandlesOK, Object, Handles
<1>2. objs \in Seq(Objects) /\ out \in Seq(S) /\ Len(out) = Len(objs) /\ Len(objs) \in Nat
  BY DEF IInv, ObjectsOK
<1>3. o \in 1..Len(objs)
  BY <1>1, <1>2
<1> HIDE DEF o, S
<1>4. objs[o] \in Objects /\ out[o] \in S
  BY <1>2, <1>3
<1> QED  BY <1>3, <1>4, Zenon DEF IInv, ObjectsOK, o, S

\* objects that stay with descriptors that stay
LEMMA SameHandles ==
  ASSUME HandlesOK, UNCHANGED <<fdarr, live>>, Len(objs') = Len(objs)
  PROVE  HandlesOK'
  BY Zenon DEF HandlesOK, Fds

\* A call that leaves the objects alone keeps what holds of them
LEMMA SameObjects ==
  ASSUME ObjectsOK, NoObject
  PROVE  ObjectsOK' /\ Len(objs') = Len(objs) /\ Len(objs) \in Nat
  BY DEF ObjectsOK, NoObject, Good, IsDir, SizeOf, Headers

\* A kernel that has stopped keeps its objects and descriptors
LEMMA HaltKeeps == ASSUME IInv, Halt, UNCHANGED live PROVE IInv'
<1>1. NoObject /\ UNCHANGED <<fdarr, live>>
  BY Zenon DEF Halt, NoObject
<1> QED  BY <1>1, SameObjects, SameHandles, Zenon DEF IInv

\* tfs_close clears the object, which the model shows as the root without a count
LEMMA CloseKeeps ==
  ASSUME IInv, NEW t \in Task, NEW fd \in Fds, SysClose(t, fd), UNCHANGED live
  PROVE  IInv'
<1> DEFINE o == Object(t, fd)
           r == [fdarr[t] EXCEPT ![fd] = 0]
<1>1. CASE Dangling(o)
  BY <1>1, HaltKeeps, Zenon DEF SysClose
<1>2. CASE ~ Dangling(o)
  <2>1. fdarr' = [fdarr EXCEPT ![t] = r] /\ o # 0
    BY <1>2, Zenon DEF SysClose
  <2>2. HandlesOK /\ fdarr[t] \in [Fds -> Handles] /\ Len(objs) \in Nat /\ live' \subseteq Task
    BY DEF IInv, HandlesOK, ObjectsOK
  <2>3. ObjectsOK' /\ Len(objs') = Len(objs)
    <3>1. CASE o = Terminal
      BY <1>2, <3>1, SameObjects, Zenon DEF SysClose, IInv
    <3>2. CASE o # Terminal
      <4> DEFINE b == [hdr |-> 0, offset |-> 0, count |-> 0]
      <4>1. TfsClose(o, t)
        BY <1>2, <3>2, Zenon DEF SysClose
      <4>2. o \in Int /\ o > 0
        <5>1. o \in Handles
          BY <2>2, Zenon DEF Object
        <5> QED  BY <5>1, <2>1, <3>2 DEF Handles, Terminal
      <4>3. o \in 1..Len(objs) /\ objs[o] \in Objects
        BY <4>2, ObjectIs, Zenon
      <4>4. objs[o].count = 1
        BY <1>2, <4>2, <4>3 DEF Dangling, Objects
      <4>5. objs' = [objs EXCEPT ![o] = b] /\ out' = [out EXCEPT ![o] = <<>>]
        BY <4>1, <4>4 DEF TfsClose
      <4>6. b \in Objects /\ Good(b, <<>>) /\ <<>> \in Seq(Nat)
        <5>1. Len(Tar) \in Nat
          BY FilesAssumption
        <5>2. IsDir(0)
          BY Zenon DEF IsDir
        <5> QED  BY <5>1, <5>2 DEF Objects, Good
      <4>7. ObjectsOK
        BY Zenon DEF IInv
      <4> HIDE DEF b, o
      <4> QED  BY <4>3, <4>5, <4>6, <4>7, ReplaceKeeps, Zenon
    <3> QED  BY <3>1, <3>2, Zenon
  <2>4. r \in [Fds -> Handles]
    BY <2>2 DEF Handles, Terminal
  <2>5. ASSUME NEW k \in Fds PROVE r[k] <= Len(objs')
    <3>1. fdarr[t][k] \in Int /\ fdarr[t][k] <= Len(objs)
      BY <2>2, Zenon DEF HandlesOK, Handles
    <3> QED  BY <3>1, <2>2, <2>3
  <2>6. Len(objs') \in Nat /\ Len(objs) <= Len(objs')
    BY <2>2, <2>3
  <2> HIDE DEF r
  <2>7. HandlesOK'
    BY <2>1, <2>2, <2>4, <2>5, <2>6, HandlesKeep, Zenon
  <2> QED  BY <2>3, <2>7, Zenon DEF IInv
<1> QED  BY <1>1, <1>2, Zenon

-----------------------------------------------------------------------------

\* An interval from 1 has one end
LEMMA IntervalEnd == ASSUME NEW m \in Nat, NEW n \in Nat, 1..m = 1..n PROVE m = n
<1>1. m <= n
  <2>1. m # 0 => m \in 1..n
    <3>1. m # 0 => m \in 1..m
      OBVIOUS
    <3> QED  BY <3>1, Zenon
  <2> QED  BY <2>1
<1>2. n <= m
  <2>1. n # 0 => n \in 1..m
    <3>1. n # 0 => n \in 1..n
      OBVIOUS
    <3> QED  BY <3>1, Zenon
  <2> QED  BY <2>1
<1> QED  BY <1>1, <1>2

\* a numbers from k + 1 on behind the numbers up to k are the numbers up to k + a
LEMMA CountOn ==
  ASSUME NEW k \in Nat, NEW a \in Nat, NEW s \in Seq(Nat)
  PROVE  LET e == [i \in 1..a |-> k + i]
         IN /\ s \o e \in Seq(Nat)
            /\ s = [i \in 1..k |-> i] => s \o e = [i \in 1..(k + a) |-> i]
<1> DEFINE e == [i \in 1..a |-> k + i]
           u == [i \in 1..(k + a) |-> i]
           w == s \o e
<1>1. e \in Seq(Nat) /\ Len(e) = a
  <2>1. \A i \in 1..a : k + i \in Nat
    OBVIOUS
  <2>2. e \in Seq(Nat)
    BY <2>1
  <2>3. DOMAIN e = 1..a
    BY Zenon
  <2> HIDE DEF e
  <2> QED  BY <2>2, <2>3, SeqIs
<1>2. w \in Seq(Nat) /\ Len(w) = Len(s) + a
  <2> HIDE DEF e
  <2> QED  BY <1>1
<1>3. \A i \in 1..Len(w) : w[i] = IF i <= Len(s) THEN s[i] ELSE e[i - Len(s)]
  <2> HIDE DEF e
  <2> QED  BY <1>1
<1>4. ASSUME s = [i \in 1..k |-> i] PROVE w = u
  <2>1. DOMAIN s = 1..k /\ \A i \in 1..k : s[i] = i
    BY <1>4, Zenon
  <2>2. Len(s) = k
    <3>1. Len(s) \in Nat /\ DOMAIN s = 1..Len(s)
      BY SeqIs, Zenon
    <3>2. 1..Len(s) = 1..k
      BY <3>1, <2>1, Zenon
    <3> QED  BY <3>1, <3>2, IntervalEnd, Zenon
  <2>3. DOMAIN w = 1..(k + a)
    <3> HIDE DEF w
    <3> QED  BY <1>2, <2>2, SeqIs, Zenon
  <2>4. ASSUME NEW i \in 1..(k + a) PROVE w[i] = i
    <3>0. w[i] = IF i <= k THEN s[i] ELSE e[i - k]
      <4> HIDE DEF w, e
      <4> QED  BY <1>2, <1>3, <2>2, Zenon
    <3>1. CASE i <= k
      <4>1. i \in 1..k /\ s[i] = i
        BY <2>1, <3>1
      <4> HIDE DEF w, e, u
      <4> QED  BY <3>0, <3>1, <4>1, Zenon
    <3>2. CASE i > k
      <4>1. i - k \in 1..a /\ e[i - k] = i
        BY <3>2
      <4> HIDE DEF w, e, u
      <4> QED  BY <3>0, <3>2, <4>1
    <3> HIDE DEF w, e, u
    <3> QED  BY <3>1, <3>2
  <2>5. w = [i \in DOMAIN w |-> w[i]]
    <3> HIDE DEF w
    <3> QED  BY <1>2
  <2> HIDE DEF w
  <2> QED  BY <2>3, <2>4, <2>5, Zenon
<1> HIDE DEF w
<1>5. s = [i \in 1..k |-> i] => w = u
  BY <1>4, Zenon
<1> QED  BY <1>2, <1>5, Zenon DEF w

\* an object that is not freed and is not the root, and what it delivers: the bytes of a
\* file from the offset on, or nothing from a directory at its end
LEMMA ReadKeeps ==
  ASSUME IInv, NEW t \in Task, NEW fd \in Fds, NEW n \in Nat, SysRead(t, fd, n), UNCHANGED live
  PROVE  IInv'
<1> DEFINE o == Object(t, fd)
           a == TfsRead(o, n)
           k == objs[o].offset
           z == SizeOf(objs[o].hdr)
           b == [objs[o] EXCEPT !.offset = k + a]
           e == [i \in 1..a |-> k + i]
           d == out[o] \o e
<1>1. CASE ReadHalts(o)
  BY <1>1, HaltKeeps, Zenon DEF SysRead
<1>2. CASE ~ ReadHalts(o)
  <2>1. o > 0 /\ objs' = [objs EXCEPT ![o] = b] /\ out' = [out EXCEPT ![o] = d] /\ UNCHANGED fdarr
    BY <1>2, Zenon DEF SysRead
  <2>2. /\ o \in 1..Len(objs) /\ objs[o] \in Objects /\ out[o] \in Seq(Nat)
        /\ Good(objs[o], out[o])
    BY <2>1, ObjectIs, Zenon
  <2>3. ~ Dangling(o) /\ (IsDir(objs[o].hdr) => k = 0)
    BY <1>2, Zenon DEF ReadHalts
  <2>4. objs[o].count = 1 /\ objs[o].hdr \in 0..Len(Tar) /\ k \in Nat
    BY <2>1, <2>2, <2>3 DEF Dangling, Objects
  <2>5. objs[o].hdr # 0
    <3>1. objs[o].hdr = 0 => k = 0
      BY <2>3, Zenon DEF IsDir
    <3> QED  BY <3>1, <2>2, <2>4, Zenon DEF Good
  <2>6. z \in Nat /\ (IsDir(objs[o].hdr) => z = 0)
    BY <2>4, <2>5, HeaderKinds, Zenon
  <2>7. k <= z
    <3>1. CASE IsDir(objs[o].hdr)
      BY <2>3, <2>6, <3>1
    <3>2. CASE ~ IsDir(objs[o].hdr)
      BY <2>2, <3>2, Zenon DEF Good
    <3> QED  BY <3>1, <3>2, Zenon
  <2>8. a \in Nat /\ k + a <= z
    <3>1. a = IF n < z - k THEN n ELSE z - k
      BY Zenon DEF TfsRead
    <3> HIDE DEF a, k, z
    <3> QED  BY <3>1, <2>4, <2>6, <2>7
  <2>9. b \in Objects /\ b.hdr = objs[o].hdr /\ b.offset = k + a
    <3>1. k + a \in Nat
      BY <2>4, <2>8
    <3> HIDE DEF a
    <3> QED  BY <2>2, <3>1, Zenon DEF Objects
  <2>10. d \in Seq(Nat) /\ (out[o] = [i \in 1..k |-> i] => d = [i \in 1..(k + a) |-> i])
    <3> HIDE DEF a, k
    <3> QED  BY <2>2, <2>4, <2>8, CountOn, Zenon DEF k
  <2>11. Good(b, d)
    <3>1. ASSUME ~ IsDir(b.hdr) PROVE b.offset <= SizeOf(b.hdr) /\ d = [i \in 1..b.offset |-> i]
      <4>1. out[o] = [i \in 1..k |-> i]
        BY <2>2, <2>9, <3>1, Zenon DEF Good
      <4> HIDE DEF a, d
      <4> QED  BY <4>1, <2>8, <2>9, <2>10, Zenon
    <3> HIDE DEF b, d
    <3> QED  BY <3>1, <2>5, <2>9, Zenon DEF Good
  <2>12. ObjectsOK /\ HandlesOK
    BY Zenon DEF IInv
  <2>13. ObjectsOK' /\ Len(objs') = Len(objs)
    <3> HIDE DEF o, b, d
    <3> QED  BY <2>1, <2>2, <2>9, <2>10, <2>11, <2>12, ReplaceKeeps, Zenon
  <2> QED  BY <2>1, <2>12, <2>13, SameHandles, Zenon DEF IInv
<1> QED  BY <1>1, <1>2, Zenon

\* a file only gets to the end of a listing, and only at byte 0, which it stays at
LEMMA GetdentsKeeps ==
  ASSUME IInv, NEW t \in Task, NEW fd \in Fds, SysGetdents(t, fd), UNCHANGED live
  PROVE  IInv'
<1> DEFINE o == Object(t, fd)
           h == objs[o].offset
<1>1. CASE ReaddirHalts(o)
  BY <1>1, HaltKeeps, Zenon DEF SysGetdents
<1>2. CASE ~ ReaddirHalts(o)
  <2>1. o > 0 /\ TfsReaddir(o) /\ UNCHANGED fdarr
    BY <1>2, Zenon DEF SysGetdents
  <2>2. /\ o \in 1..Len(objs) /\ objs[o] \in Objects /\ out[o] \in Seq(Nat)
        /\ Good(objs[o], out[o])
    BY <2>1, ObjectIs, Zenon
  <2>3. ~ Dangling(o) /\ (h # 0 => objs[o].hdr # 0 /\ IsDir(objs[o].hdr))
    BY <1>2, Zenon DEF ReaddirHalts
  <2>4. objs[o].count = 1 /\ objs[o].hdr \in 0..Len(Tar) /\ h \in Nat
    BY <2>1, <2>2, <2>3 DEF Dangling, Objects
  <2>5. objs[o].hdr # 0
    BY <2>2, <2>3, <2>4, Zenon DEF Good
  <2>6. ObjectsOK /\ HandlesOK
    BY Zenon DEF IInv
  <2>7. ObjectsOK' /\ Len(objs') = Len(objs)
    <3>1. CASE h # 0 /\ Lists(objs[o].hdr, h)
      <4> DEFINE b == [objs[o] EXCEPT !.offset = GetTfsNext(h)]
                 d == Append(out[o], h)
      <4>1. objs' = [objs EXCEPT ![o] = b] /\ out' = [out EXCEPT ![o] = d]
        BY <2>1, <3>1, Zenon DEF TfsReaddir
      <4>2. GetTfsNext(h) \in Nat
        BY <2>4 DEF GetTfsNext
      <4>3. b \in Objects /\ b.hdr = objs[o].hdr /\ d \in Seq(Nat)
        BY <2>2, <2>4, <4>2 DEF Objects
      <4>4. Good(b, d)
        <5> HIDE DEF b, d
        <5> QED  BY <2>3, <2>5, <3>1, <4>3, Zenon DEF Good
      <4> HIDE DEF o, b, d
      <4> QED  BY <2>2, <2>6, <4>1, <4>3, <4>4, ReplaceKeeps, Zenon
    <3>2. CASE ~ (h # 0 /\ Lists(objs[o].hdr, h))
      <4> DEFINE b == [objs[o] EXCEPT !.offset = 0]
                 d == out[o]
      <4>1. objs' = [objs EXCEPT ![o] = b]
        BY <2>1, <3>2, Zenon DEF TfsReaddir
      <4>2. out' = [out EXCEPT ![o] = d]
        BY <2>1, <2>2, <2>6, <3>2 DEF TfsReaddir, ObjectsOK
      <4>3. b \in Objects /\ b.hdr = objs[o].hdr /\ b.offset = 0 /\ d \in Seq(Nat)
        BY <2>2, Zenon DEF Objects
      <4>4. Good(b, d)
        <5>1. CASE h = 0
          <6>1. b.offset = h
            BY <4>3, <5>1, Zenon
          <6> HIDE DEF b
          <6> QED  BY <2>2, <2>5, <4>3, <6>1, Zenon DEF Good
        <5>2. CASE h # 0
          <6> HIDE DEF b
          <6> QED  BY <2>3, <2>5, <4>3, <5>2, Zenon DEF Good
        <5> QED  BY <5>1, <5>2, Zenon
      <4> HIDE DEF o, b, d
      <4> QED  BY <2>2, <2>6, <4>1, <4>2, <4>3, <4>4, ReplaceKeeps, Zenon
    <3> QED  BY <3>1, <3>2, Zenon
  <2> QED  BY <2>1, <2>6, <2>7, SameHandles, Zenon DEF IInv
<1> QED  BY <1>1, <1>2, Zenon

-----------------------------------------------------------------------------

\* the descriptors of a new task and of none
LEMMA Rows ==
  ASSUME NEW n \in Nat
  PROVE  /\ NewFiles \in [Fds -> Handles] /\ NoFiles \in [Fds -> Handles]
         /\ \A fd \in Fds : NewFiles[fd] <= n /\ NoFiles[fd] <= n
<1>1. \A fd \in Fds : NewFiles[fd] \in {-1, 0} /\ NoFiles[fd] = 0
  BY Zenon DEF NewFiles, NoFiles, Terminal
<1>2. NewFiles \in [Fds -> Handles] /\ NoFiles \in [Fds -> Handles]
  BY DEF NewFiles, NoFiles, Handles, Terminal
<1> QED  BY <1>1, <1>2

\* a call that makes no object and gives one task other descriptors
LEMMA RowKeeps ==
  ASSUME IInv, NoObject, NEW t \in Task, NEW r \in [Fds -> Handles],
         \A fd \in Fds : r[fd] <= Len(objs),
         fdarr' = [fdarr EXCEPT ![t] = r], live' \subseteq Task
  PROVE  IInv'
<1>1. ObjectsOK' /\ Len(objs') = Len(objs) /\ Len(objs) \in Nat
  BY SameObjects, Zenon DEF IInv
<1>2. /\ HandlesOK /\ \A fd \in Fds : r[fd] <= Len(objs')
      /\ Len(objs') \in Nat /\ Len(objs) <= Len(objs')
  BY <1>1 DEF IInv
<1>3. HandlesOK'
  BY <1>1, <1>2, HandlesKeep, Zenon
<1> QED  BY <1>1, <1>3, Zenon DEF IInv

\* create_elf_process at boot keeps the invariant of reading
LEMMA BootKeeps == ASSUME IInv, NEW path, NEW t \in Task, Boot(path, t) PROVE IInv'
<1>1. NoObject /\ fdarr' = [fdarr EXCEPT ![t] = NewFiles] /\ live' \subseteq Task
  BY Zenon DEF Boot, CreateTask, IInv, HandlesOK
<1>2. Len(objs) \in Nat
  BY DEF IInv, ObjectsOK
<1> QED  BY <1>1, <1>2, Rows, RowKeeps, Zenon

\* sys_fork keeps it: the child's descriptors are the parent's
LEMMA ForkKeeps == ASSUME IInv, NEW p \in Task, NEW t \in Task, Fork(p, t) PROVE IInv'
<1>1. NoObject /\ fdarr' = [fdarr EXCEPT ![t] = fdarr[p]] /\ live' \subseteq Task
  BY Zenon DEF Fork, ForkTask, IInv, HandlesOK
<1>2. fdarr[p] \in [Fds -> Handles] /\ \A fd \in Fds : fdarr[p][fd] <= Len(objs)
  BY Zenon DEF IInv, HandlesOK
<1> QED  BY <1>1, <1>2, RowKeeps, Zenon

\* sys_exit keeps it: the descriptors of the task are dropped
LEMMA ExitKeeps == ASSUME IInv, NEW p \in Task, Exit(p) PROVE IInv'
<1>1. NoObject /\ fdarr' = [fdarr EXCEPT ![p] = NoFiles] /\ live' \subseteq Task
  BY Zenon DEF Exit, ExitTask, IInv, HandlesOK
<1>2. Len(objs) \in Nat
  BY DEF IInv, ObjectsOK
<1> QED  BY <1>1, <1>2, Rows, RowKeeps, Zenon

\* sys_execve keeps it: the new task has the terminal only
LEMMA ExecKeeps ==
  ASSUME IInv, NEW p \in Task, NEW path, NEW t \in Task, Exec(p, path, t)
  PROVE  IInv'
<1>1. /\ NoObject /\ live' \subseteq Task
      /\ fdarr' = [fdarr EXCEPT ![p] = NoFiles, ![t] = NewFiles]
  BY Zenon DEF Exec, ExecTask, IInv, HandlesOK
<1>2. ObjectsOK' /\ Len(objs') = Len(objs) /\ Len(objs) \in Nat
  BY <1>1, SameObjects, Zenon DEF IInv
<1>3. /\ NewFiles \in [Fds -> Handles] /\ NoFiles \in [Fds -> Handles]
      /\ \A fd \in Fds : NewFiles[fd] <= Len(objs) /\ NoFiles[fd] <= Len(objs)
  BY <1>2, Rows, Zenon
<1>4. fdarr' \in [Task -> [Fds -> Handles]]
  BY <1>1, <1>3, Zenon DEF IInv, HandlesOK
<1>5. ASSUME NEW u \in Task, NEW fd \in Fds PROVE fdarr'[u][fd] <= Len(objs')
  <2>1. fdarr'[u] \in {NewFiles, NoFiles, fdarr[u]}
    BY <1>1, Zenon DEF IInv, HandlesOK
  <2> QED  BY <2>1, <1>2, <1>3, Zenon DEF IInv, HandlesOK
<1> QED  BY <1>1, <1>2, <1>4, <1>5, Zenon DEF IInv, HandlesOK, Fds

\* A call that changes neither objects nor descriptors keeps it
LEMMA StutterKeeps == ASSUME IInv, NoObject, UNCHANGED <<fdarr, live>> PROVE IInv'
  BY SameObjects, SameHandles, Zenon DEF IInv

\* one system call on files
LEMMA FileCallKeeps ==
  ASSUME IInv, NEW t \in Task, FileCall(t), UNCHANGED live
  PROVE  IInv'
<1>0. FdArgs \subseteq Fds /\ Counts \subseteq Nat
  BY FilesAssumption, Zenon DEF Fds
<1>1. CASE \E name \in Paths, flags \in Flags : SysOpen(t, name, flags)
  BY <1>1, OpenKeeps, Zenon
<1>2. CASE \E fd \in FdArgs : SysClose(t, fd)
  BY <1>0, <1>2, CloseKeeps, Zenon
<1>3. CASE \E fd \in FdArgs : SysGetdents(t, fd)
  BY <1>0, <1>3, GetdentsKeeps, Zenon
<1>4. CASE \E fd \in FdArgs : SysWrite(t, fd)
  BY <1>4, HaltKeeps, Zenon DEF SysWrite
<1>5. CASE \E fd \in FdArgs, n \in Counts : SysRead(t, fd, n)
  BY <1>0, <1>5, ReadKeeps, Zenon
<1>6. CASE \E path \in Dirs : SysChdir(t, path)
  BY <1>6, StutterKeeps, Zenon DEF SysChdir, NoObject
<1> QED  BY <1>1, <1>2, <1>3, <1>4, <1>5, <1>6, Zenon DEF FileCall

\* It holds before the first task: there are no objects
LEMMA InitKeeps == ASSUME Init PROVE IInv
<1>1. HandlesOK
  BY DEF Init, PoolInit, FilesInit, HandlesOK, NoFiles, Handles, Terminal
<1>2. ObjectsOK
  <2>1. objs = <<>> /\ out = <<>>
    BY Zenon DEF Init, FilesInit
  <2> DEFINE S == Seq(Nat)
  <2>2. <<>> \in Seq(Objects) /\ <<>> \in Seq(S) /\ Len(<<>>) = 0
    OBVIOUS
  <2> HIDE DEF S
  <2> QED  BY <2>1, <2>2 DEF ObjectsOK, S
<1> QED  BY <1>1, <1>2, Zenon DEF IInv

\* Every step of a file or process call keeps it
LEMMA StepKeeps == ASSUME IInv, [Next]_vars PROVE IInv'
<1>0. live \subseteq Task
  BY Zenon DEF IInv, HandlesOK
<1>1. CASE \E path \in Paths, t \in Task : Boot(path, t)
  BY <1>1, BootKeeps, Zenon
<1>2. CASE \E p \in live, t \in Task : Fork(p, t)
  BY <1>0, <1>2, ForkKeeps, Zenon
<1>3. CASE \E p \in live, t \in Task, path \in Paths : Exec(p, path, t)
  BY <1>0, <1>3, ExecKeeps, Zenon
<1>4. CASE \E p \in live : Exit(p)
  BY <1>0, <1>4, ExitKeeps, Zenon
<1>5. CASE \E p \in live : FileCall(p) /\ UNCHANGED poolVars
  BY <1>0, <1>5, FileCallKeeps, Zenon DEF poolVars
<1>6. CASE UNCHANGED vars
  BY <1>6, StutterKeeps, Zenon DEF vars, poolVars, fileVars, NoObject
<1> QED  BY <1>1, <1>2, <1>3, <1>4, <1>5, <1>6, Zenon DEF Next

\* Tasks that share a file object by fork, and read, list, close and exec in any order,
\* get every byte of the file once and in order, up to its end (sys_read, tfs_read)
THEOREM ReadsCorrect == Spec => []ReadsInOrder
<1>1. Init => IInv
  BY InitKeeps, Zenon
<1>2. IInv /\ [Next]_vars => IInv'
  BY StepKeeps, Zenon
<1>3. IInv => ReadsInOrder
  <2> SUFFICES ASSUME IInv PROVE ReadsInOrder
    BY Zenon
  <2>1. DOMAIN objs = 1..Len(objs) /\ \A o \in 1..Len(objs) : Good(objs[o], out[o])
    BY DEF IInv, ObjectsOK
  <2> QED  BY <2>1, Zenon DEF Good, ReadsInOrder
<1> QED  BY <1>1, <1>2, <1>3, PTL DEF Spec

-----------------------------------------------------------------------------
(* Who loses a file to a close.  The task that closed an object is told    *)
(* from the ones that have it by its task_struct, so that the argument     *)
(* needs the pool of task_structs: get_task never gives one out a second   *)
(* time.                                                                   *)

TaskPools == [head : Nat, free : [Struct -> Nat], made : Nat]

\* the free list of the pool p goes up to the last structure made, and nothing is linked
\* behind that one
Rising(p) ==
  /\ p \in TaskPools /\ p.head <= p.made
  /\ \A i \in Struct : i > p.made => p.free[i] = 0
  /\ p.head # 0 =>
       \A i \in Struct : p.head <= i /\ i <= p.made => p.free[i] = IF i = p.made THEN 0 ELSE i + 1

\* the task_struct that get_task gives out next
NextTask == IF pool["task"].head = 0 THEN pool["task"].made + 1 ELSE pool["task"].head

\* Tasks that run, and tasks that closed something, have been given out before
TakenOK ==
  /\ live \subseteq Nat /\ \A t \in live : t < NextTask
  /\ closer \in Seq(Nat) /\ Len(closer) = Len(objs)
  /\ \A o \in 1..Len(objs) : closer[o] < NextTask

\* the descriptors r of task t have an object once, and none that t closed itself
Own(t, r) ==
  \A fd \in Fds :
    r[fd] > 0 => /\ \A k \in Fds : k # fd => r[k] # r[fd]
                 /\ objs[r[fd]].count = 0 => closer[r[fd]] # t

OwnOK == \A t \in Task : Own(t, fdarr[t])

JInv == IInv /\ Rising(pool["task"]) /\ TakenOK /\ OwnOK

-----------------------------------------------------------------------------

\* the one call of get_task in Make
LEMMA OneGet ==
  LET g == GetMany("task", 1)
      p == pool["task"]
  IN g.pool = Get("task", p) /\ g.got[1] = Ready("task", p).head
<1> DEFINE p == pool["task"]
           w == [i \in 0..1 |-> IF i = 0 THEN p ELSE Get("task", p)]
           after == CHOOSE f : f = [i \in 0..1 |-> IF i = 0 THEN p ELSE Get("task", f[i - 1])]
<1>1. w = [i \in 0..1 |-> IF i = 0 THEN p ELSE Get("task", w[i - 1])]
  <2>1. \A i \in 0..1 : i # 0 => w[i - 1] = p
    OBVIOUS
  <2> QED  BY <2>1, Zenon
<1>2. after = [i \in 0..1 |-> IF i = 0 THEN p ELSE Get("task", after[i - 1])]
  <2> HIDE DEF w
  <2> QED  BY <1>1, Zenon
<1>3. after[0] = p
  <2> HIDE DEF after
  <2> QED  BY <1>2
<1>4. after[1] = Get("task", after[0])
  <2> HIDE DEF after
  <2> QED  BY <1>2
<1>5. GetMany("task", 1) = [pool |-> after[1], got |-> [i \in 1..1 |-> Ready("task", after[i - 1]).head]]
  BY Zenon DEF GetMany
<1> HIDE DEF after
<1> QED  BY <1>3, <1>4, <1>5

\* get_task on a rising pool: what it gives out rises, and the pool stays as it is
LEMMA GetRises ==
  ASSUME NEW p, Rising(p), p.made + 1 + PerPage["task"] <= MaxStruct
  PROVE  LET q == Get("task", p)
             first == IF p.head = 0 THEN p.made + 1 ELSE p.head
             second == IF q.head = 0 THEN q.made + 1 ELSE q.head
         IN /\ Rising(q) /\ Ready("task", p).head = first
            /\ first \in Nat /\ second \in Nat /\ first < second
<1> DEFINE r == Ready("task", p)
           k == PerPage["task"]
           q == Get("task", p)
           first == IF p.head = 0 THEN p.made + 1 ELSE p.head
           second == IF q.head = 0 THEN q.made + 1 ELSE q.head
<1>1. k \in Nat /\ k > 0 /\ MaxStruct \in Nat
  BY TaskPoolAssumption DEF Kinds
<1>2. p.head \in Nat /\ p.made \in Nat /\ p.free \in [Struct -> Nat] /\ p.head <= p.made
  BY Zenon DEF Rising, TaskPools
<1>3. /\ r \in TaskPools /\ r.head = first /\ r.head > 0 /\ r.head <= r.made /\ r.made <= MaxStruct
      /\ \A i \in Struct : i > r.made => r.free[i] = 0
      /\ \A i \in Struct : r.head <= i /\ i <= r.made => r.free[i] = IF i = r.made THEN 0 ELSE i + 1
  <2>1. CASE p.head # 0
    <3>1. r = p
      BY <2>1, Zenon DEF Ready
    <3> HIDE DEF r, k
    <3> QED  BY <1>1, <1>2, <2>1, <3>1 DEF Rising, k
  <2>2. CASE p.head = 0
    <3> DEFINE f == [i \in Struct |-> IF i \in (p.made + 1)..(p.made + k - 1) THEN i + 1 ELSE p.free[i]]
    <3>1. r = [head |-> p.made + 1, free |-> f, made |-> p.made + k]
      BY <2>2, Zenon DEF Ready, Reload
    <3>2. f \in [Struct -> Nat] /\ \A i \in Struct :
             f[i] = IF i \in (p.made + 1)..(p.made + k - 1) THEN i + 1 ELSE p.free[i]
      <4> HIDE DEF k
      <4> QED  BY <1>1, <1>2 DEF Struct
    <3> HIDE DEF r, k, f
    <3>3. r.head = p.made + 1 /\ r.made = p.made + k /\ r.free = f /\ r \in TaskPools
      BY <1>1, <1>2, <3>1, <3>2 DEF TaskPools
    <3>4. \A i \in Struct : i \in Nat /\ (i > p.made => p.free[i] = 0)
      BY <1>1 DEF Rising, Struct
    <3>5. r.made <= MaxStruct
      BY <1>1, <1>2, <3>3 DEF k
    <3> QED  BY <1>1, <1>2, <2>2, <3>2, <3>3, <3>4, <3>5
  <2> QED  BY <2>1, <2>2, Zenon
<1>4. r.head \in Struct /\ r.head \in Nat /\ r.made \in Nat /\ r.free \in [Struct -> Nat]
  <2> HIDE DEF r
  <2> QED  BY <1>1, <1>3 DEF TaskPools, Struct
<1>5. q = [r EXCEPT !.head = r.free[r.head], !.free = [r.free EXCEPT ![r.head] = 0]]
  BY Zenon DEF Get
<1> HIDE DEF r
<1>6. /\ q.head = r.free[r.head] /\ q.made = r.made /\ q \in TaskPools
      /\ \A i \in Struct : q.free[i] = IF i = r.head THEN 0 ELSE r.free[i]
  <2> DEFINE f == [r.free EXCEPT ![r.head] = 0]
             h == r.free[r.head]
  <2>1. /\ f \in [Struct -> Nat] /\ h \in Nat
        /\ \A i \in Struct : f[i] = IF i = r.head THEN 0 ELSE r.free[i]
    BY <1>4, Zenon
  <2>2. q = [r EXCEPT !.head = h, !.free = f]
    BY <1>5, Zenon
  <2> HIDE DEF f, h, q
  <2>3. q.head = h /\ q.made = r.made /\ q.free = f /\ q \in TaskPools
    BY <1>3, <2>1, <2>2, Zenon DEF TaskPools
  <2> QED  BY <2>1, <2>3, Zenon DEF h
<1> HIDE DEF q
<1>7. q.head = IF r.head = r.made THEN 0 ELSE r.head + 1
  BY <1>3, <1>4, <1>6
<1>8. q.head \in Nat /\ q.head <= q.made /\ first \in Nat /\ second \in Nat /\ first < second
  BY <1>2, <1>3, <1>4, <1>6, <1>7
<1>9. Rising(q)
  <2>1. \A i \in Struct : i \in Nat
    BY <1>1 DEF Struct
  <2>2. \A i \in Struct : i > q.made => q.free[i] = 0
    BY <1>3, <1>6, <2>1, Zenon
  <2>3. ASSUME q.head # 0, NEW i \in Struct, q.head <= i, i <= q.made
        PROVE  q.free[i] = IF i = q.made THEN 0 ELSE i + 1
    BY <1>3, <1>4, <1>6, <1>7, <2>1, <2>3
  <2> QED  BY <1>6, <1>8, <2>2, <2>3, Zenon DEF Rising
<1> QED  BY <1>3, <1>8, <1>9, Zenon DEF r, q

\* a new task has a task_struct that no task has had
LEMMA TaskIsNew ==
  ASSUME Rising(pool["task"]), NEW t, Within("task", 1),
         t = GetMany("task", 1).got[1], pool'["task"] = GetMany("task", 1).pool
  PROVE  /\ Rising(pool["task"])' /\ t = NextTask /\ NextTask \in Nat
         /\ NextTask' \in Nat /\ NextTask < NextTask'
<1>1. pool["task"].made + 1 + PerPage["task"] <= MaxStruct
  BY Zenon DEF Within
<1>2. pool'["task"] = Get("task", pool["task"]) /\ t = Ready("task", pool["task"]).head
  BY OneGet, Zenon
<1> DEFINE p == pool["task"]
           q == Get("task", p)
           first == IF p.head = 0 THEN p.made + 1 ELSE p.head
           second == IF q.head = 0 THEN q.made + 1 ELSE q.head
<1>3. /\ Rising(q) /\ Ready("task", p).head = first
      /\ first \in Nat /\ second \in Nat /\ first < second
  BY <1>1, GetRises, Zenon
<1>4. NextTask = first /\ NextTask' = second
  BY <1>2, Zenon DEF NextTask
<1>5. Rising(pool["task"])'
  BY <1>2, <1>3, Zenon DEF Rising, TaskPools, Struct
<1> QED  BY <1>2, <1>3, <1>4, <1>5, Zenon

-----------------------------------------------------------------------------

\* a call that makes a task and no object
LEMMA NewTaskTaken ==
  ASSUME TakenOK, NoObject, NEW t, t = NextTask, NextTask \in Nat, NextTask' \in Nat,
         NextTask < NextTask', live' \subseteq live \cup {t}
  PROVE  TakenOK'
<1>1. closer \in Seq(Nat) /\ Len(closer) = Len(objs) /\ \A o \in 1..Len(objs) : closer[o] \in Nat
  BY DEF TakenOK
<1>2. \A u \in live' : u \in Nat /\ u < NextTask'
  BY DEF TakenOK
<1>3. \A o \in 1..Len(objs) : closer[o] < NextTask'
  BY <1>1 DEF TakenOK
<1> QED  BY <1>1, <1>2, <1>3, Zenon DEF TakenOK, NoObject

\* a call that gives one task other descriptors and makes no object
LEMMA RowOwn ==
  ASSUME IInv, OwnOK, NoObject, NEW t \in Task, NEW r, Own(t, r), fdarr' = [fdarr EXCEPT ![t] = r]
  PROVE  OwnOK'
<1>1. \A u \in Task : fdarr'[u] = IF u = t THEN r ELSE fdarr[u]
  BY Zenon DEF IInv, HandlesOK
<1>2. ASSUME NEW u \in Task PROVE Own(u, fdarr'[u])
  BY <1>1, Zenon DEF OwnOK
<1>3. ASSUME NEW u \in Task PROVE Own(u, fdarr[u])'
  BY <1>2, Zenon DEF Own, NoObject, Fds
<1> QED  BY <1>3, Zenon DEF OwnOK

\* the descriptors of a new task and of none hold no object
LEMMA NoneOwned == ASSUME NEW t PROVE Own(t, NewFiles) /\ Own(t, NoFiles)
<1>1. \A fd \in Fds : NewFiles[fd] \in {-1, 0} /\ NoFiles[fd] = 0
  BY Zenon DEF NewFiles, NoFiles, Terminal
<1> QED  BY <1>1 DEF Own

\* create_elf_process at boot keeps the invariant of closing
LEMMA BootClose == ASSUME JInv, NEW path, NEW t \in Task, Boot(path, t), IInv' PROVE JInv'
<1>1. /\ Within("task", 1) /\ t = GetMany("task", 1).got[1] /\ pool'["task"] = GetMany("task", 1).pool
      /\ live' \subseteq live \cup {t} /\ NoObject /\ fdarr' = [fdarr EXCEPT ![t] = NewFiles]
  BY DEF Boot, CreateTask, Make
<1>2. /\ Rising(pool["task"])' /\ t = NextTask /\ NextTask \in Nat
      /\ NextTask' \in Nat /\ NextTask < NextTask'
  BY <1>1, TaskIsNew, Zenon DEF JInv
<1>3. TakenOK'
  BY <1>1, <1>2, NewTaskTaken, Zenon DEF JInv
<1>4. OwnOK'
  BY <1>1, NoneOwned, RowOwn, Zenon DEF JInv
<1> QED  BY <1>2, <1>3, <1>4, Zenon DEF JInv

\* the child has closed nothing yet, whatever its parent has open
LEMMA ForkClose == ASSUME JInv, NEW p \in Task, NEW t \in Task, Fork(p, t), IInv' PROVE JInv'
<1>1. /\ Within("task", 1) /\ t = GetMany("task", 1).got[1] /\ pool'["task"] = GetMany("task", 1).pool
      /\ live' \subseteq live \cup {t} /\ NoObject /\ fdarr' = [fdarr EXCEPT ![t] = fdarr[p]]
  BY Zenon DEF Fork, ForkTask, Make
<1>2. /\ Rising(pool["task"])' /\ t = NextTask /\ NextTask \in Nat
      /\ NextTask' \in Nat /\ NextTask < NextTask'
  BY <1>1, TaskIsNew, Zenon DEF JInv
<1>3. TakenOK'
  BY <1>1, <1>2, NewTaskTaken, Zenon DEF JInv
<1>4. Own(t, fdarr[p])
  <2>1. Own(p, fdarr[p])
    BY Zenon DEF JInv, OwnOK
  <2>2. ASSUME NEW fd \in Fds, fdarr[p][fd] > 0 PROVE closer[fdarr[p][fd]] # t
    <3>1. fdarr[p][fd] \in 1..Len(objs)
      BY <2>2, ObjectIs, Zenon DEF Object, JInv
    <3>2. closer[fdarr[p][fd]] \in Nat /\ closer[fdarr[p][fd]] < NextTask
      BY <3>1 DEF JInv, TakenOK
    <3> QED  BY <1>2, <3>2
  <2> QED  BY <2>1, <2>2, Zenon DEF Own
<1>5. OwnOK'
  BY <1>1, <1>4, RowOwn, Zenon DEF JInv
<1> QED  BY <1>2, <1>3, <1>5, Zenon DEF JInv

\* sys_execve keeps it: the new task has no object and the old one loses its own
LEMMA ExecClose ==
  ASSUME JInv, NEW p \in Task, NEW path, NEW t \in Task, Exec(p, path, t), IInv'
  PROVE  JInv'
<1>1. /\ Within("task", 1) /\ t = GetMany("task", 1).got[1] /\ pool'["task"] = GetMany("task", 1).pool
      /\ live' \subseteq live \cup {t} /\ NoObject
      /\ fdarr' = [fdarr EXCEPT ![p] = NoFiles, ![t] = NewFiles]
  BY DEF Exec, ExecTask, Make
<1>2. /\ Rising(pool["task"])' /\ t = NextTask /\ NextTask \in Nat
      /\ NextTask' \in Nat /\ NextTask < NextTask'
  BY <1>1, TaskIsNew, Zenon DEF JInv
<1>3. TakenOK'
  BY <1>1, <1>2, NewTaskTaken, Zenon DEF JInv
<1>4. ASSUME NEW u \in Task PROVE Own(u, fdarr[u])'
  <2>1. fdarr'[u] \in {NewFiles, NoFiles, fdarr[u]}
    BY <1>1, Zenon DEF JInv, IInv, HandlesOK
  <2>2. Own(u, fdarr'[u])
    BY <2>1, NoneOwned, Zenon DEF JInv, OwnOK
  <2> QED  BY <1>1, <2>2, Zenon DEF Own, NoObject, Fds
<1>5. OwnOK'
  BY <1>4, Zenon DEF OwnOK
<1> QED  BY <1>2, <1>3, <1>5, Zenon DEF JInv

\* calls that leave the pool alone
LEMMA SamePool ==
  ASSUME JInv, UNCHANGED pool
  PROVE  Rising(pool["task"])' /\ NextTask' = NextTask /\ NextTask \in Nat
<1>1. Rising(pool["task"])'
  BY Zenon DEF JInv, Rising, TaskPools, Struct
<1>2. NextTask' = NextTask
  BY Zenon DEF NextTask
<1>3. NextTask \in Nat
  BY DEF JInv, Rising, TaskPools, NextTask
<1> QED  BY <1>1, <1>2, <1>3, Zenon

\* sys_exit keeps it: a task that is gone has no descriptors
LEMMA ExitClose == ASSUME JInv, NEW p \in Task, Exit(p), IInv' PROVE JInv'
<1>1. /\ UNCHANGED pool /\ live' \subseteq live /\ NoObject
      /\ fdarr' = [fdarr EXCEPT ![p] = NoFiles]
  BY Zenon DEF Exit, ExitTask
<1>2. Rising(pool["task"])' /\ NextTask' = NextTask
  BY <1>1, SamePool, Zenon
<1>3. TakenOK'
  BY <1>1, <1>2, Zenon DEF JInv, TakenOK, NoObject
<1>4. OwnOK'
  BY <1>1, NoneOwned, RowOwn, Zenon DEF JInv
<1> QED  BY <1>2, <1>3, <1>4, Zenon DEF JInv

-----------------------------------------------------------------------------

\* calls that free no object and change no descriptor
LEMMA SameCounts ==
  ASSUME JInv, IInv', UNCHANGED <<pool, live, fdarr, closer>>, Len(objs') = Len(objs),
         \A o \in 1..Len(objs) : objs'[o].count = objs[o].count
  PROVE  JInv'
<1>1. Rising(pool["task"])' /\ NextTask' = NextTask
  BY SamePool, Zenon
<1>2. TakenOK'
  BY <1>1, Zenon DEF JInv, TakenOK
<1>3. ASSUME NEW u \in Task, NEW fd \in Fds, fdarr[u][fd] > 0
      PROVE  objs'[fdarr[u][fd]].count = objs[fdarr[u][fd]].count
  BY <1>3, ObjectIs, Zenon DEF JInv, Object
<1>4. ASSUME NEW u \in Task PROVE Own(u, fdarr[u])'
  <2>1. Own(u, fdarr[u])
    BY Zenon DEF JInv, OwnOK
  <2> QED  BY <1>3, <2>1, Zenon DEF Own, Fds
<1> QED  BY <1>1, <1>2, <1>4, Zenon DEF JInv, OwnOK

\* A call that changes none of its state keeps it
LEMMA StutterClose ==
  ASSUME JInv, IInv', NoObject, UNCHANGED <<pool, live, fdarr>>
  PROVE  JInv'
  BY SameCounts, Zenon DEF NoObject

\* A kernel that has stopped keeps it
LEMMA HaltClose == ASSUME JInv, IInv', Halt, UNCHANGED <<pool, live>> PROVE JInv'
  BY StutterClose, Zenon DEF Halt, NoObject

\* sys_read keeps it: only an offset moves
LEMMA ReadClose ==
  ASSUME JInv, IInv', NEW t \in Task, NEW fd \in Fds, NEW n, SysRead(t, fd, n), UNCHANGED <<pool, live>>
  PROVE  JInv'
<1> DEFINE o == Object(t, fd)
<1>1. CASE ReadHalts(o)
  BY <1>1, HaltClose, Zenon DEF SysRead
<1>2. CASE ~ ReadHalts(o)
  <2> DEFINE x == objs[o].offset + TfsRead(o, n)
  <2>1. o > 0 /\ objs' = [objs EXCEPT ![o] = [@ EXCEPT !.offset = x]] /\ UNCHANGED <<fdarr, closer>>
    BY <1>2, Zenon DEF SysRead
  <2>2. objs \in Seq(Objects) /\ o \in 1..Len(objs)
    BY <2>1, ObjectIs, Zenon DEF JInv, IInv, ObjectsOK
  <2> HIDE DEF x, o
  <2>3. Len(objs') = Len(objs)
    BY <2>1, <2>2
  <2>4. \A k \in 1..Len(objs) : objs'[k].count = objs[k].count
    BY <2>1, <2>2 DEF Objects
  <2> QED  BY <2>1, <2>3, <2>4, SameCounts, Zenon
<1> QED  BY <1>1, <1>2, Zenon

\* sys_getdents keeps it: only an offset moves
LEMMA GetdentsClose ==
  ASSUME JInv, IInv', NEW t \in Task, NEW fd \in Fds, SysGetdents(t, fd), UNCHANGED <<pool, live>>
  PROVE  JInv'
<1> DEFINE o == Object(t, fd)
<1>1. CASE ReaddirHalts(o)
  BY <1>1, HaltClose, Zenon DEF SysGetdents
<1>2. CASE ~ ReaddirHalts(o)
  <2>1. /\ o > 0 /\ UNCHANGED <<fdarr, closer>>
        /\ \E x : objs' = [objs EXCEPT ![o] = [@ EXCEPT !.offset = x]]
    BY <1>2, Zenon DEF SysGetdents, TfsReaddir
  <2>2. objs \in Seq(Objects) /\ o \in 1..Len(objs)
    BY <2>1, ObjectIs, Zenon DEF JInv, IInv, ObjectsOK
  <2> HIDE DEF o
  <2>3. PICK x : objs' = [objs EXCEPT ![o] = [@ EXCEPT !.offset = x]]
    BY <2>1, Zenon
  <2>4. Len(objs') = Len(objs)
    BY <2>3, <2>2
  <2>5. \A k \in 1..Len(objs) : objs'[k].count = objs[k].count
    BY <2>3, <2>2 DEF Objects
  <2> QED  BY <2>1, <2>4, <2>5, SameCounts, Zenon
<1> QED  BY <1>1, <1>2, Zenon

\* the new object has a count, and no descriptor has it yet
LEMMA OpenClose ==
  ASSUME JInv, IInv', NEW t \in live, t \in Task, NEW name, NEW flags, SysOpen(t, name, flags),
         UNCHANGED <<pool, live>>
  PROVE  JInv'
<1>1. PICK fd \in Fds, h \in TfsOpen(SubSeq(name, 1, Len(name) - 1), flags) :
        /\ objs' = Append(objs, [hdr |-> h, offset |-> FirstOffset(h), count |-> 1])
        /\ closer' = Append(closer, 0)
        /\ fdarr' = [fdarr EXCEPT ![t][fd] = Len(objs')]
  BY Zenon DEF SysOpen, NewObject, GetFreeFd
<1> DEFINE n == Len(objs) + 1
           new == [hdr |-> h, offset |-> FirstOffset(h), count |-> 1]
<1>2. /\ objs \in Seq(Objects) /\ closer \in Seq(Nat) /\ Len(closer) = Len(objs) /\ Len(objs) \in Nat
      /\ fdarr \in [Task -> [Fds -> Handles]]
      /\ \A u \in Task, k \in Fds : fdarr[u][k] <= Len(objs)
  BY DEF JInv, IInv, HandlesOK, ObjectsOK, TakenOK
<1>3. /\ Len(objs') = n /\ objs'[n].count = 1
      /\ \A o \in 1..Len(objs) : objs'[o] = objs[o]
  <2>1. objs' = Append(objs, new) /\ new.count = 1
    BY <1>1, Zenon
  <2> HIDE DEF new
  <2> QED  BY <2>1, <1>2
<1>4. /\ closer' \in Seq(Nat) /\ Len(closer') = n /\ closer'[n] = 0
      /\ \A o \in 1..Len(objs) : closer'[o] = closer[o]
  BY <1>1, <1>2
<1>5. Rising(pool["task"])' /\ NextTask' = NextTask /\ NextTask \in Nat
  BY SamePool, Zenon
<1>6. NextTask > 0
  BY <1>5 DEF JInv, TakenOK
<1>7. TakenOK'
  <2>1. ASSUME NEW o \in 1..n PROVE closer'[o] < NextTask
    <3>1. o \in 1..Len(objs) \/ o = n
      BY <1>2
    <3> QED  BY <3>1, <1>4, <1>5, <1>6, Zenon DEF JInv, TakenOK
  <2> QED  BY <2>1, <1>3, <1>4, <1>5, Zenon DEF JInv, TakenOK
<1>8. ASSUME NEW u \in Task PROVE Own(u, fdarr[u])'
  <2>1. \A k \in Fds : fdarr'[u][k] = IF u = t /\ k = fd THEN n ELSE fdarr[u][k]
    BY <1>1, <1>2, <1>3, Zenon
  <2>2. \A k \in Fds : fdarr[u][k] \in Int /\ fdarr[u][k] <= Len(objs) /\ fdarr[u][k] # n
    BY <1>2 DEF Handles
  <2>3. ASSUME NEW k \in Fds, fdarr'[u][k] > 0
        PROVE  /\ \A j \in Fds : j # k => fdarr'[u][j] # fdarr'[u][k]
               /\ objs'[fdarr'[u][k]].count = 0 => closer'[fdarr'[u][k]] # u
    <3>1. CASE u = t /\ k = fd
      BY <3>1, <2>1, <2>2, <1>3
    <3>2. CASE ~ (u = t /\ k = fd)
      <4>1. fdarr'[u][k] = fdarr[u][k] /\ fdarr[u][k] \in 1..Len(objs)
        BY <3>2, <2>1, <2>2, <2>3
      <4>2. /\ \A j \in Fds : j # k => fdarr[u][j] # fdarr[u][k]
            /\ objs[fdarr[u][k]].count = 0 => closer[fdarr[u][k]] # u
        BY <4>1, <2>3, Zenon DEF JInv, OwnOK, Own
      <4>3. objs'[fdarr'[u][k]] = objs[fdarr[u][k]] /\ closer'[fdarr'[u][k]] = closer[fdarr[u][k]]
        BY <4>1, <1>3, <1>4
      <4>4. \A j \in Fds : j # k => fdarr'[u][j] # fdarr'[u][k]
        BY <4>1, <4>2, <2>1, <2>2, Zenon
      <4> QED  BY <4>2, <4>3, <4>4, Zenon
    <3> QED  BY <3>1, <3>2, Zenon
  <2> QED  BY <2>3, Zenon DEF Own, Fds
<1> QED  BY <1>5, <1>7, <1>8, Zenon DEF JInv, OwnOK

\* close takes the object from the task that calls it, which had it once
LEMMA CloseClose ==
  ASSUME JInv, IInv', NEW t \in live, t \in Task, NEW fd \in Fds, SysClose(t, fd),
         UNCHANGED <<pool, live>>
  PROVE  JInv'
<1> DEFINE o == Object(t, fd)
<1>1. CASE Dangling(o)
  BY <1>1, HaltClose, Zenon DEF SysClose
<1>2. CASE ~ Dangling(o)
  <2>1. /\ fdarr' = [fdarr EXCEPT ![t][fd] = 0] /\ o # 0
        /\ IF o = Terminal THEN NoObject ELSE TfsClose(o, t)
    BY <1>2, Zenon DEF SysClose
  <2>2. /\ objs \in Seq(Objects) /\ closer \in Seq(Nat) /\ Len(closer) = Len(objs) /\ Len(objs) \in Nat
        /\ fdarr \in [Task -> [Fds -> Handles]] /\ t \in Nat /\ t < NextTask
        /\ \A u \in Task, k \in Fds : fdarr[u][k] <= Len(objs)
    BY DEF JInv, IInv, HandlesOK, ObjectsOK, TakenOK
  <2>3. Rising(pool["task"])' /\ NextTask' = NextTask /\ NextTask \in Nat
    BY SamePool, Zenon
  <2>4. \A u \in Task, k \in Fds : fdarr'[u][k] = IF u = t /\ k = fd THEN 0 ELSE fdarr[u][k]
    BY <2>1, <2>2, Zenon
  <2>5. CASE o = Terminal
    <3>1. TakenOK'
      BY <2>1, <2>3, <2>5, Zenon DEF JInv, TakenOK, NoObject
    <3>2. ASSUME NEW u \in Task PROVE Own(u, fdarr[u])'
      <4>1. Own(u, fdarr[u])
        BY Zenon DEF JInv, OwnOK
      <4>2. ASSUME NEW k \in Fds, fdarr'[u][k] > 0
            PROVE  /\ \A j \in Fds : j # k => fdarr'[u][j] # fdarr'[u][k]
                   /\ objs'[fdarr'[u][k]].count = 0 => closer'[fdarr'[u][k]] # u
        BY <4>1, <4>2, <2>1, <2>4, <2>5 DEF Own, NoObject
      <4> QED  BY <4>2, Zenon DEF Own, Fds
    <3> QED  BY <2>3, <3>1, <3>2, Zenon DEF JInv, OwnOK
  <2>6. CASE o # Terminal
    <3>1. o > 0
      <4>1. o \in Handles
        BY <2>2, Zenon DEF Object
      <4> QED  BY <4>1, <2>1, <2>6 DEF Handles, Terminal
    <3>2. o \in 1..Len(objs)
      BY <3>1, ObjectIs, Zenon DEF JInv
    <3>3. TfsClose(o, t)
      BY <2>1, <2>6, Zenon
    <3>4. Own(t, fdarr[t])
      BY Zenon DEF JInv, OwnOK
    <3>5. \A k \in Fds : k # fd => fdarr[t][k] # o
      BY <3>1, <3>4, Zenon DEF Own, Object
    <3> HIDE DEF o
    <3>6. Len(objs') = Len(objs) /\ \A k \in 1..Len(objs) : k # o => objs'[k] = objs[k]
      BY <2>2, <3>2, <3>3 DEF TfsClose
    <3>7. /\ closer' \in Seq(Nat) /\ Len(closer') = Len(objs)
          /\ \A k \in 1..Len(objs) : closer'[k] = IF k = o THEN t ELSE closer[k]
      BY <2>2, <3>2, <3>3 DEF TfsClose
    <3>8. TakenOK'
      BY <2>2, <2>3, <3>6, <3>7, Zenon DEF JInv, TakenOK
    <3>9. ASSUME NEW u \in Task PROVE Own(u, fdarr[u])'
      <4>1. Own(u, fdarr[u])
        BY Zenon DEF JInv, OwnOK
      <4>2. ASSUME NEW k \in Fds, fdarr'[u][k] > 0
            PROVE  /\ \A j \in Fds : j # k => fdarr'[u][j] # fdarr'[u][k]
                   /\ objs'[fdarr'[u][k]].count = 0 => closer'[fdarr'[u][k]] # u
        <5>1. ~ (u = t /\ k = fd) /\ fdarr'[u][k] = fdarr[u][k] /\ fdarr[u][k] > 0
          BY <2>4, <4>2
        <5>2. fdarr[u][k] \in 1..Len(objs)
          BY <5>1, ObjectIs, Zenon DEF JInv, Object
        <5>3. \A j \in Fds : j # k => fdarr'[u][j] # fdarr'[u][k]
          BY <2>4, <4>1, <5>1 DEF Own
        <5>4. CASE fdarr[u][k] = o
          BY <5>1, <5>2, <5>3, <5>4, <3>5, <3>7, Zenon
        <5>5. CASE fdarr[u][k] # o
          BY <5>1, <5>2, <5>3, <5>5, <4>1, <3>6, <3>7, Zenon DEF Own
        <5> QED  BY <5>4, <5>5, Zenon
      <4> QED  BY <4>2, Zenon DEF Own, Fds
    <3> QED  BY <2>3, <3>8, <3>9, Zenon DEF JInv, OwnOK
  <2> QED  BY <2>5, <2>6, Zenon
<1> QED  BY <1>1, <1>2, Zenon

\* Every file call keeps it
LEMMA FileCallClose ==
  ASSUME JInv, IInv', NEW t \in live, t \in Task, FileCall(t), UNCHANGED <<pool, live>>
  PROVE  JInv'
<1>0. FdArgs \subseteq Fds
  BY FilesAssumption, Zenon DEF Fds
<1>1. CASE \E name \in Paths, flags \in Flags : SysOpen(t, name, flags)
  BY <1>1, OpenClose, Zenon
<1>2. CASE \E fd \in FdArgs : SysClose(t, fd)
  BY <1>0, <1>2, CloseClose, Zenon
<1>3. CASE \E fd \in FdArgs : SysGetdents(t, fd)
  BY <1>0, <1>3, GetdentsClose, Zenon
<1>4. CASE \E fd \in FdArgs : SysWrite(t, fd)
  BY <1>4, HaltClose, Zenon DEF SysWrite
<1>5. CASE \E fd \in FdArgs, n \in Counts : SysRead(t, fd, n)
  BY <1>0, <1>5, ReadClose, Zenon
<1>6. CASE \E path \in Dirs : SysChdir(t, path)
  BY <1>6, StutterClose, Zenon DEF SysChdir, NoObject
<1> QED  BY <1>1, <1>2, <1>3, <1>4, <1>5, <1>6, Zenon DEF FileCall

\* It holds before the first task
LEMMA InitClose == ASSUME Init PROVE JInv
<1>1. IInv
  BY InitKeeps, Zenon
<1>2. Rising(pool["task"])
  BY DEF Init, PoolInit, Kinds, Rising, TaskPools
<1>3. TakenOK
  BY DEF Init, PoolInit, FilesInit, TakenOK
<1>4. OwnOK
  BY DEF Init, FilesInit, NoFiles, OwnOK, Own
<1> QED  BY <1>1, <1>2, <1>3, <1>4, Zenon DEF JInv

\* Every step of a file or process call keeps it
LEMMA StepClose == ASSUME JInv, [Next]_vars PROVE JInv'
<1>0. live \subseteq Task
  BY Zenon DEF JInv, IInv, HandlesOK
<1>1. IInv'
  BY StepKeeps, Zenon DEF JInv
<1>2. CASE \E path \in Paths, t \in Task : Boot(path, t)
  BY <1>1, <1>2, BootClose, Zenon
<1>3. CASE \E p \in live, t \in Task : Fork(p, t)
  BY <1>0, <1>1, <1>3, ForkClose, Zenon
<1>4. CASE \E p \in live, t \in Task, path \in Paths : Exec(p, path, t)
  BY <1>0, <1>1, <1>4, ExecClose, Zenon
<1>5. CASE \E p \in live : Exit(p)
  BY <1>0, <1>1, <1>5, ExitClose, Zenon
<1>6. CASE \E p \in live : FileCall(p) /\ UNCHANGED poolVars
  BY <1>0, <1>1, <1>6, FileCallClose, Zenon DEF poolVars
<1>7. CASE UNCHANGED vars
  BY <1>1, <1>7, StutterClose, Zenon DEF vars, poolVars, fileVars, NoObject
<1> QED  BY <1>2, <1>3, <1>4, <1>5, <1>6, <1>7, Zenon DEF Next

\* A task loses a file it has open only to the close of another task that fork gave the
\* same object to, never to its own (sys_close, tfs_close)
THEOREM ClosesCorrect == Spec => []LostOnlyToRelative
<1>1. Init => JInv
  BY InitClose, Zenon
<1>2. JInv /\ [Next]_vars => JInv'
  BY StepClose, Zenon
<1>3. JInv => LostOnlyToRelative
  BY Zenon DEF JInv, OwnOK, Own, LostOnlyToRelative, Dangling, Object
<1> QED  BY <1>1, <1>2, <1>3, PTL DEF Spec

-----------------------------------------------------------------------------
(* Listings *)

\* the archive is written depth first, as find gives the names: what a directory holds
\* comes directly behind it
DepthFirst ==
  \A d \in Headers : IsDir(d) =>
    \A h \in Inside(d) : d < h /\ \A k \in Headers : d < k /\ k < h => k \in Inside(d)

\* the headers s of the directory d were delivered, and h is the next one to look at
Upto(d, s, h) ==
  /\ \A i \in 1..Len(s) : s[i] = d + i /\ d + i \in Inside(d)
  /\ h # 0 => h = d + Len(s) + 1 /\ h \in Headers
  /\ h = 0 => d + Len(s) + 1 \notin Inside(d)

\* what is true of one object and what it has delivered
Listed(b, s) == b.hdr # 0 /\ IsDir(b.hdr) => Upto(b.hdr, s, b.offset)

LInv == IInv /\ \A o \in 1..Len(objs) : Listed(objs[o], out[o])

\* headers are numbers
LEMMA HeadersAre == Len(Tar) \in Nat /\ Headers = 1..Len(Tar)
  BY FilesAssumption DEF Headers

\* the names of the archive do not change
LEMMA ListedStays ==
  ASSUME LInv, IInv', Len(objs') \in Nat,
         \A o \in 1..Len(objs') :
           \/ o \in 1..Len(objs) /\ objs'[o] = objs[o] /\ out'[o] = out[o]
           \/ Listed(objs'[o], out'[o])
  PROVE  LInv'
<1> SUFFICES ASSUME NEW o \in 1..Len(objs') PROVE Listed(objs'[o], out'[o])
  BY Zenon DEF LInv, Listed, Upto, Inside, IsDir, Headers
<1> QED  BY Zenon DEF LInv

\* one object changes
LEMMA ListedReplaced ==
  ASSUME LInv, IInv', NEW o \in 1..Len(objs), NEW b, NEW s, Listed(b, s),
         objs' = [objs EXCEPT ![o] = b], out' = [out EXCEPT ![o] = s]
  PROVE  LInv'
<1>1. objs \in Seq(Objects) /\ Len(out) = Len(objs) /\ Len(objs) \in Nat
  BY DEF LInv, IInv, ObjectsOK
<1>2. DOMAIN objs = 1..Len(objs) /\ DOMAIN out = 1..Len(objs)
  <2>1. out \in Seq(Seq(Nat))
    BY Zenon DEF LInv, IInv, ObjectsOK
  <2> DEFINE S == Seq(Nat)
  <2> HIDE DEF S
  <2>2. out \in Seq(S)
    BY <2>1, Zenon DEF S
  <2> QED  BY <1>1, <2>2
<1>3. Len(objs') = Len(objs)
  <2>1. Len(objs') \in Nat /\ DOMAIN objs' = 1..Len(objs')
    <3>1. objs' \in Seq(Objects)
      BY Zenon DEF IInv, ObjectsOK
    <3> QED  BY <3>1, SeqIs, Zenon
  <2>2. DOMAIN objs' = 1..Len(objs)
    BY <1>2, Zenon
  <2>3. 1..Len(objs') = 1..Len(objs)
    BY <2>1, <2>2, Zenon
  <2> QED  BY <1>1, <2>1, <2>3, IntervalEnd, Zenon
<1>4. objs'[o] = b /\ \A k \in 1..Len(objs) : k # o => objs'[k] = objs[k]
  BY <1>2, Zenon
<1>5. out'[o] = s /\ \A k \in 1..Len(objs) : k # o => out'[k] = out[k]
  BY <1>2, Zenon
<1>6. ASSUME NEW k \in 1..Len(objs')
      PROVE  \/ k \in 1..Len(objs) /\ objs'[k] = objs[k] /\ out'[k] = out[k]
             \/ Listed(objs'[k], out'[k])
  <2>1. k \in 1..Len(objs)
    BY <1>3, Zenon
  <2>2. CASE k = o
    <3>1. Listed(objs'[o], out'[o])
      BY <1>4, <1>5, Zenon
    <3> QED  BY <2>2, <3>1, Zenon
  <2>3. CASE k # o
    BY <1>4, <1>5, <2>1, <2>3, Zenon
  <2> QED  BY <2>2, <2>3, Zenon
<1>7. Len(objs') \in Nat
  BY <1>1, <1>3, Zenon
<1> QED  BY <1>6, <1>7, ListedStays, Zenon

\* nothing changes
LEMMA ListedSame == ASSUME LInv, IInv', UNCHANGED <<objs, out>> PROVE LInv'
<1>1. Len(objs') \in Nat
  BY DEF IInv, ObjectsOK
<1> QED  BY <1>1, ListedStays, Zenon

\* sys_open: a directory starts behind its own header
LEMMA ListedOpen ==
  ASSUME LInv, IInv', NEW t \in Task, NEW name, NEW flags, SysOpen(t, name, flags)
  PROVE  LInv'
<1>1. PICK h \in TfsOpen(SubSeq(name, 1, Len(name) - 1), flags) : NewObject(h)
  BY Zenon DEF SysOpen
<1> DEFINE b == [hdr |-> h, offset |-> FirstOffset(h), count |-> 1]
<1>2. objs' = Append(objs, b) /\ out' = Append(out, <<>>)
  BY <1>1, Zenon DEF NewObject
<1>3. Listed(b, <<>>)
  <2> SUFFICES ASSUME h # 0, IsDir(h) PROVE Upto(h, <<>>, GetTfsNext(h))
    BY Zenon DEF Listed, FirstOffset
  <2>1. h \in 1..Len(Tar)
    BY HeadersAre, Zenon DEF IsDir
  <2>2. h = Len(Tar) => h + 1 \notin Headers
    BY HeadersAre, <2>1
  <2>3. h # Len(Tar) => h + 1 \in Headers /\ h + 1 # 0
    BY HeadersAre, <2>1
  <2> QED  BY HeadersAre, <2>1, <2>2, <2>3 DEF Upto, GetTfsNext, Inside
<1> HIDE DEF b
<1>4. objs \in Seq(Objects) /\ Len(out) = Len(objs) /\ Len(objs) \in Nat /\ objs' \in Seq(Objects)
  BY DEF LInv, IInv, ObjectsOK
<1>5. Len(objs') = Len(objs) + 1 /\ \A k \in 1..Len(objs) : objs'[k] = objs[k]
  BY <1>2, <1>4
<1>6. objs'[Len(objs) + 1] = b
  BY <1>2, <1>4
<1>7. out'[Len(objs) + 1] = <<>> /\ \A k \in 1..Len(objs) : out'[k] = out[k]
  <2> DEFINE S == Seq(Nat)
  <2>1. out \in Seq(S)
    BY Zenon DEF LInv, IInv, ObjectsOK
  <2> HIDE DEF S
  <2> QED  BY <1>2, <1>4, <2>1
<1>8. ASSUME NEW k \in 1..Len(objs')
      PROVE  \/ k \in 1..Len(objs) /\ objs'[k] = objs[k] /\ out'[k] = out[k]
             \/ Listed(objs'[k], out'[k])
  <2>1. k \in 1..Len(objs) \/ k = Len(objs) + 1
    BY <1>4, <1>5
  <2> QED  BY <1>3, <1>5, <1>6, <1>7, <2>1, Zenon
<1>9. Len(objs') \in Nat
  BY <1>4, <1>5
<1> QED  BY <1>8, <1>9, ListedStays, Zenon

\* sys_close: what is left of the object is no directory
LEMMA ListedClose ==
  ASSUME LInv, IInv', NEW t \in Task, NEW fd \in Fds, SysClose(t, fd)
  PROVE  LInv'
<1> DEFINE o == Object(t, fd)
<1>1. CASE Dangling(o) \/ o = Terminal
  BY <1>1, ListedSame, Zenon DEF SysClose, Halt, NoObject
<1>2. CASE ~ Dangling(o) /\ o # Terminal
  <2> DEFINE b == [hdr |-> 0, offset |-> 0, count |-> objs[o].count - 1]
  <2>1. objs' = [objs EXCEPT ![o] = b] /\ out' = [out EXCEPT ![o] = <<>>] /\ o # 0
    BY <1>2, Zenon DEF SysClose, TfsClose
  <2>2. o \in Int /\ o > 0
    BY <1>2, <2>1 DEF LInv, IInv, HandlesOK, Handles, Object, Terminal
  <2>3. o \in 1..Len(objs)
    BY <2>2, ObjectIs, Zenon DEF LInv
  <2>4. Listed(b, <<>>)
    BY Zenon DEF Listed
  <2> HIDE DEF b, o
  <2> QED  BY <2>1, <2>3, <2>4, ListedReplaced, Zenon
<1> QED  BY <1>1, <1>2, Zenon

\* sys_read: nothing is read from a directory
LEMMA ListedRead ==
  ASSUME LInv, IInv', NEW t \in Task, NEW fd \in Fds, NEW n \in Nat, SysRead(t, fd, n)
  PROVE  LInv'
<1> DEFINE o == Object(t, fd)
           a == TfsRead(o, n)
           k == objs[o].offset
           b == [objs[o] EXCEPT !.offset = k + a]
           s == out[o] \o [i \in 1..a |-> k + i]
<1>1. CASE ReadHalts(o)
  BY <1>1, ListedSame, Zenon DEF SysRead, Halt
<1>2. CASE ~ ReadHalts(o)
  <2>1. o > 0 /\ objs' = [objs EXCEPT ![o] = b] /\ out' = [out EXCEPT ![o] = s]
    BY <1>2, Zenon DEF SysRead
  <2>2. o \in 1..Len(objs) /\ objs[o] \in Objects /\ out[o] \in Seq(Nat)
    BY <2>1, ObjectIs, Zenon DEF LInv
  <2>3. Listed(b, s)
    <3> SUFFICES ASSUME b.hdr # 0, IsDir(b.hdr) PROVE Upto(b.hdr, s, b.offset)
      BY Zenon DEF Listed
    <3>1. b.hdr = objs[o].hdr /\ b.offset = k + a /\ b.hdr \in 0..Len(Tar)
      <4> HIDE DEF a, k
      <4> QED  BY <2>2, Zenon DEF Objects
    <3>2. k = 0 /\ SizeOf(b.hdr) = 0
      BY <1>2, <3>1, HeaderKinds, Zenon DEF ReadHalts
    <3>3. a = 0
      <4>1. a = IF n < SizeOf(b.hdr) - k THEN n ELSE SizeOf(b.hdr) - k
        BY <3>1, Zenon DEF TfsRead
      <4> HIDE DEF a, b, k
      <4> QED  BY <3>2, <4>1
    <3>4. s = out[o]
      <4> DEFINE e == [i \in 1..a |-> k + i]
      <4>1. e = <<>>
        <5> HIDE DEF a, k
        <5> QED  BY <3>3
      <4>2. s = out[o] \o <<>>
        BY <4>1, Zenon
      <4> HIDE DEF s, e
      <4> QED  BY <2>2, <4>2
    <3>5. Upto(objs[o].hdr, out[o], k)
      BY <2>2, <3>1, Zenon DEF LInv, Listed
    <3> HIDE DEF b, s, a, k
    <3> QED  BY <3>1, <3>2, <3>3, <3>4, <3>5
  <2> HIDE DEF b, s, o
  <2> QED  BY <2>1, <2>2, <2>3, ListedReplaced, Zenon
<1> QED  BY <1>1, <1>2, Zenon

\* sys_getdents: one entry more, or the end at the first header that is none
LEMMA ListedGetdents ==
  ASSUME LInv, IInv', NEW t \in Task, NEW fd \in Fds, SysGetdents(t, fd)
  PROVE  LInv'
<1> DEFINE o == Object(t, fd)
           d == objs[o].hdr
           h == objs[o].offset
<1>1. CASE ReaddirHalts(o)
  BY <1>1, ListedSame, Zenon DEF SysGetdents, Halt
<1>2. CASE ~ ReaddirHalts(o)
  <2>1. o > 0 /\ TfsReaddir(o)
    BY <1>2, Zenon DEF SysGetdents
  <2>2. /\ o \in 1..Len(objs) /\ objs[o] \in Objects /\ out[o] \in Seq(Nat)
        /\ d \in 0..Len(Tar) /\ h \in Nat
    BY <2>1, ObjectIs, Zenon DEF LInv, Objects
  <2>3. d # 0 /\ IsDir(d) => Upto(d, out[o], h)
    BY <2>2, Zenon DEF LInv, Listed
  <2>4. CASE h # 0 /\ Lists(d, h)
    <3> DEFINE b == [objs[o] EXCEPT !.offset = GetTfsNext(h)]
               s == Append(out[o], h)
    <3>1. objs' = [objs EXCEPT ![o] = b] /\ out' = [out EXCEPT ![o] = s]
      BY <2>1, <2>4, Zenon DEF TfsReaddir
    <3>2. b.hdr = d /\ b.offset = GetTfsNext(h)
      BY <2>2, Zenon DEF Objects
    <3>3. ASSUME d # 0, IsDir(d) PROVE Upto(d, s, GetTfsNext(h))
      <4>0. Upto(d, out[o], h) /\ h # 0
        BY <2>3, <2>4, <3>3, Zenon
      <4>1. h = d + Len(out[o]) + 1 /\ h \in 1..Len(Tar) /\ Len(out[o]) \in Nat
        <5> HIDE DEF d, h
        <5>1. Len(out[o]) \in Nat
          BY <2>2
        <5> QED  BY <4>0, <5>1, HeadersAre, Zenon DEF Upto
      <4>2. h \in Inside(d)
        <5>1. h # d
          <6> HIDE DEF d, h
          <6> QED  BY <2>2, <4>1
        <5> QED  BY <2>4, <4>1, <5>1, HeadersAre, Zenon DEF Inside, Lists
      <4>3. Len(s) = Len(out[o]) + 1 /\ s[Len(out[o]) + 1] = h /\ \A i \in 1..Len(out[o]) : s[i] = out[o][i]
        <5> HIDE DEF h
        <5> QED  BY <2>2
      <4>4. \A i \in 1..Len(s) : s[i] = d + i /\ d + i \in Inside(d)
        <5> SUFFICES ASSUME NEW i \in 1..Len(s) PROVE s[i] = d + i /\ d + i \in Inside(d)
          BY Zenon
        <5>1. i \in 1..Len(out[o]) \/ i = Len(out[o]) + 1
          <6> HIDE DEF s
          <6> QED  BY <4>1, <4>3
        <5>2. CASE i \in 1..Len(out[o])
          BY <2>3, <3>3, <4>3, <5>2, Zenon DEF Upto
        <5>3. CASE i = Len(out[o]) + 1
          <6>1. d + i = h
            <7> HIDE DEF d, h
            <7> QED  BY <2>2, <4>1, <5>3
          <6> QED  BY <4>2, <4>3, <5>3, <6>1, Zenon
        <5> QED  BY <5>1, <5>2, <5>3, Zenon
      <4>5. h + 1 = d + Len(s) + 1
        <5> HIDE DEF d, h, s
        <5> QED  BY <2>2, <4>1, <4>3
      <4> HIDE DEF d, h, s
      <4>6. CASE h = Len(Tar)
        <5>1. GetTfsNext(h) = 0 /\ h + 1 \notin Headers
          BY <4>6, HeadersAre DEF GetTfsNext
        <5> QED  BY <4>4, <4>5, <5>1, Zenon DEF Upto, Inside
      <4>7. CASE h # Len(Tar)
        <5>1. GetTfsNext(h) = h + 1 /\ h + 1 \in Headers /\ h + 1 # 0
          BY <4>1, <4>7, HeadersAre DEF GetTfsNext
        <5> QED  BY <4>4, <4>5, <5>1, Zenon DEF Upto
      <4> QED  BY <4>6, <4>7, Zenon
    <3>4. Listed(b, s)
      <4> HIDE DEF b, s, d, h
      <4> QED  BY <3>2, <3>3, Zenon DEF Listed
    <3> HIDE DEF b, s, o
    <3> QED  BY <2>2, <3>1, <3>4, ListedReplaced, Zenon
  <2>5. CASE ~ (h # 0 /\ Lists(d, h))
    <3> DEFINE b == [objs[o] EXCEPT !.offset = 0]
    <3>1. objs' = [objs EXCEPT ![o] = b] /\ UNCHANGED out
      BY <2>1, <2>5, Zenon DEF TfsReaddir
    <3>2. b.hdr = d /\ b.offset = 0
      BY <2>2, Zenon DEF Objects
    <3>3. ASSUME d # 0, IsDir(d) PROVE Upto(d, out[o], 0)
      <4>1. h # 0 => d + Len(out[o]) + 1 \notin Inside(d)
        BY <2>3, <2>5, <3>3, Zenon DEF Upto, Inside, Lists
      <4> HIDE DEF d, h
      <4> QED  BY <2>3, <3>3, <4>1, Zenon DEF Upto
    <3>4. Listed(b, out[o])
      <4> HIDE DEF b, d, h
      <4> QED  BY <3>2, <3>3, Zenon DEF Listed
    <3>5. out' = [out EXCEPT ![o] = out[o]]
      <4> DEFINE S == Seq(Nat)
      <4>1. out \in Seq(S)
        BY Zenon DEF LInv, IInv, ObjectsOK
      <4> HIDE DEF S, o
      <4> QED  BY <3>1, <4>1
    <3> HIDE DEF b, o
    <3> QED  BY <2>2, <3>1, <3>4, <3>5, ListedReplaced, Zenon
  <2> QED  BY <2>4, <2>5, Zenon
<1> QED  BY <1>1, <1>2, Zenon

\* Process calls leave the objects alone
LEMMA ListedNext == ASSUME LInv, [Next]_vars PROVE LInv'
<1>1. IInv /\ IInv'
  BY StepKeeps, Zenon DEF LInv
<1>2. CASE \E p \in live : FileCall(p)
  <2>1. PICK p \in live : FileCall(p)
    BY <1>2, Zenon
  <2>2. p \in Task
    BY <1>1, Zenon DEF IInv, HandlesOK
  <2>3. FdArgs \subseteq Fds /\ Counts \subseteq Nat
    BY FilesAssumption, Zenon DEF Fds
  <2>4. CASE \E name \in Paths, flags \in Flags : SysOpen(p, name, flags)
    BY <1>1, <2>2, <2>4, ListedOpen, Zenon
  <2>5. ASSUME NEW fd \in FdArgs, SysClose(p, fd) \/ SysGetdents(p, fd) PROVE LInv'
    BY <1>1, <2>2, <2>3, <2>5, ListedClose, ListedGetdents, Zenon
  <2>6. ASSUME NEW fd \in FdArgs, SysWrite(p, fd) PROVE LInv'
    BY <1>1, <2>6, ListedSame, Zenon DEF SysWrite, Halt
  <2>7. ASSUME NEW fd \in FdArgs, NEW n \in Counts, SysRead(p, fd, n) PROVE LInv'
    BY <1>1, <2>2, <2>3, <2>7, ListedRead, Zenon
  <2>8. CASE \E path \in Dirs : SysChdir(p, path)
    BY <1>1, <2>8, ListedSame, Zenon DEF SysChdir
  <2> QED  BY <2>1, <2>4, <2>5, <2>6, <2>7, <2>8, Zenon DEF FileCall
<1>3. CASE UNCHANGED <<objs, out>>
  BY <1>1, <1>3, ListedSame, Zenon
<1>4. (\E p \in live : FileCall(p)) \/ UNCHANGED <<objs, out>>
  BY Zenon DEF Next, Boot, Fork, Exec, Exit, NoObject, vars, fileVars
<1> QED  BY <1>2, <1>3, <1>4, Zenon

\* Everything between the first and the last delivered header is in the directory, and
\* nothing behind it, if the archive is depth first
LEMMA ListedComplete == ASSUME DepthFirst, LInv PROVE ListingComplete
<1> SUFFICES ASSUME NEW o \in DOMAIN objs, objs[o].hdr # 0, IsDir(objs[o].hdr)
             PROVE  /\ Delivered(o) \subseteq Inside(objs[o].hdr)
                    /\ \A i, j \in DOMAIN out[o] : i < j => out[o][i] < out[o][j]
                    /\ objs[o].offset = 0 => Delivered(o) = Inside(objs[o].hdr)
  BY Zenon DEF ListingComplete
<1> DEFINE d == objs[o].hdr
           s == out[o]
<1>1. o \in 1..Len(objs) /\ objs[o] \in Objects
  BY DEF LInv, IInv, ObjectsOK
<1>2. s \in Seq(Nat)
  <2> DEFINE S == Seq(Nat)
  <2>1. out \in Seq(S) /\ Len(out) = Len(objs)
    BY Zenon DEF LInv, IInv, ObjectsOK
  <2> HIDE DEF S
  <2>2. out[o] \in S
    BY <1>1, <2>1
  <2> QED  BY <2>2, Zenon DEF S
<1>3. d \in 1..Len(Tar) /\ d \in Headers /\ IsDir(d)
  BY <1>1, HeadersAre DEF Objects
<1>4. Upto(d, s, objs[o].offset)
  BY <1>1, <1>3, Zenon DEF LInv, Listed
<1> HIDE DEF d, s
<1>5. DOMAIN s = 1..Len(s) /\ Len(s) \in Nat
  BY <1>2
<1>6. Delivered(o) = {s[i] : i \in 1..Len(s)}
  BY <1>5, Zenon DEF Delivered, s
<1>7. Delivered(o) \subseteq Inside(d)
  BY <1>4, <1>6, Zenon DEF Upto
<1>8. \A i, j \in DOMAIN s : i < j => s[i] < s[j]
  BY <1>3, <1>4, <1>5 DEF Upto
<1>9. ASSUME objs[o].offset = 0, NEW h \in Inside(d) PROVE h \in Delivered(o)
  <2>1. h \in 1..Len(Tar) /\ d < h
    BY <1>3, HeadersAre, Zenon DEF DepthFirst, Inside
  <2>2. d + Len(s) + 1 \notin Inside(d)
    BY <1>4, <1>9, Zenon DEF Upto
  <2>3. ~ d + Len(s) + 1 < h /\ h # d + Len(s) + 1
    <3>1. d + Len(s) + 1 < h => d + Len(s) + 1 \in Headers /\ d < d + Len(s) + 1
      BY <1>3, <1>5, <2>1, HeadersAre
    <3> QED  BY <1>3, <2>2, <3>1, Zenon DEF DepthFirst
  <2>4. h - d \in 1..Len(s) /\ d + (h - d) = h
    BY <1>3, <1>5, <2>1, <2>3
  <2>5. s[h - d] = d + (h - d)
    BY <1>4, <2>4, Zenon DEF Upto
  <2> QED  BY <1>6, <2>4, <2>5, Zenon
<1> QED  BY <1>7, <1>8, <1>9, Zenon DEF d, s

\* A listing delivers what the directory holds, once and in order, and at its end all of
\* it, for every archive that is written depth first and with any number of tasks that
\* list, read and close through the same object
THEOREM ListingsComplete == ASSUME DepthFirst PROVE Spec => []ListingComplete
<1>1. Init => LInv
  <2> SUFFICES ASSUME Init PROVE LInv
    BY Zenon
  <2>1. IInv
    BY InitKeeps, Zenon
  <2>2. Len(objs) = 0
    BY Zenon DEF Init, FilesInit
  <2> QED  BY <2>1, <2>2 DEF LInv
<1>2. LInv /\ [Next]_vars => LInv'
  BY ListedNext, Zenon
<1>3. LInv => ListingComplete
  BY ListedComplete, Zenon
<1> QED  BY <1>1, <1>2, <1>3, PTL DEF Spec

-----------------------------------------------------------------------------
(* Types.  What the invariants before leave open is that an object is      *)
(* freed exactly when a close is on record for it, that the objects do not *)
(* exceed their bound, and the length of a directory's name.               *)

\* the object b is freed exactly when c closed it
Closed(b, c) == b.count = 0 <=> c # 0

ClosedOK == Len(objs) <= MaxObjects /\ \A o \in 1..Len(objs) : Closed(objs[o], closer[o])

CwdOK == DOMAIN cwd = Task /\ \A t \in Task : Len(cwd[t]) <= MaxPathLen

\* a task that goes to another directory
LEMMA CwdKeeps ==
  ASSUME CwdOK, NEW t \in Task, NEW d, Len(d) <= MaxPathLen, cwd' = [cwd EXCEPT ![t] = d]
  PROVE  CwdOK'
  BY Zenon DEF CwdOK

\* a name of no length is short enough
LEMMA NoDirectory == Len(<<>>) <= MaxPathLen
<1>1. MaxPathLen \in Nat
  BY FilesAssumption, Zenon
<1> QED  BY ONLY <1>1

\* objects are made open, and a close leaves its mark
LEMMA OpenClosed ==
  ASSUME JInv, ClosedOK, NEW t \in Task, NEW name, NEW flags, SysOpen(t, name, flags)
  PROVE  ClosedOK'
<1>1. PICK h : NewObject(h)
  BY Zenon DEF SysOpen
<1> DEFINE b == [hdr |-> h, offset |-> FirstOffset(h), count |-> 1]
           m == Len(objs)
<1>2. m < MaxObjects /\ objs' = Append(objs, b) /\ closer' = Append(closer, 0)
  BY <1>1, Zenon DEF NewObject
<1>3. objs \in Seq(Objects) /\ closer \in Seq(Nat) /\ Len(closer) = m /\ m \in Nat /\ MaxObjects \in Nat
  BY FilesAssumption DEF JInv, IInv, ObjectsOK, TakenOK
<1>4. b.count = 1
  BY Zenon
<1> HIDE DEF b
<1>5. Len(objs') = m + 1 /\ objs'[m + 1] = b /\ \A o \in 1..m : objs'[o] = objs[o]
  BY <1>2, <1>3
<1>6. closer'[m + 1] = 0 /\ \A o \in 1..m : closer'[o] = closer[o]
  BY <1>2, <1>3
<1>7. \A o \in 1..(m + 1) : o \in 1..m \/ o = m + 1
  BY <1>3
<1>8. m + 1 <= MaxObjects
  BY <1>2, <1>3
<1>9. Closed(b, 0)
  BY <1>4 DEF Closed
<1>10. ASSUME NEW o \in 1..(m + 1) PROVE Closed(objs'[o], closer'[o])
  <2>1. CASE o \in 1..m
    BY <1>5, <1>6, <2>1, Zenon DEF ClosedOK
  <2>2. CASE o = m + 1
    BY <1>5, <1>6, <1>9, <2>2, Zenon
  <2> QED  BY <1>7, <2>1, <2>2, Zenon
<1> HIDE DEF m
<1>11. Len(objs') <= MaxObjects
  BY <1>5, <1>8, Zenon
<1>12. \A o \in 1..Len(objs') : objs'[o].count = 0 <=> closer'[o] # 0
  BY <1>5, <1>10, Zenon DEF Closed
<1> QED  BY <1>11, <1>12, Zenon DEF ClosedOK, Closed

\* an object that changes, with the task that closed it
LEMMA ReplaceClosed ==
  ASSUME JInv, ClosedOK, NEW o \in 1..Len(objs), NEW b, NEW c \in Nat, Closed(b, c),
         objs' = [objs EXCEPT ![o] = b], closer' = [closer EXCEPT ![o] = c]
  PROVE  ClosedOK'
<1>1. objs \in Seq(Objects) /\ closer \in Seq(Nat) /\ Len(closer) = Len(objs) /\ Len(objs) \in Nat
  BY DEF JInv, IInv, ObjectsOK, TakenOK
<1>2. DOMAIN objs = 1..Len(objs) /\ DOMAIN closer = 1..Len(objs)
  BY <1>1, SeqIs, Zenon
<1>3. /\ \A k \in 1..Len(objs) : objs'[k] = IF k = o THEN b ELSE objs[k]
      /\ \A k \in 1..Len(objs) : closer'[k] = IF k = o THEN c ELSE closer[k]
  BY <1>2, Zenon
<1>4. Len(objs') = Len(objs)
  BY <1>1, <1>2
<1>5. ASSUME NEW k \in 1..Len(objs) PROVE Closed(objs'[k], closer'[k])
  <2>1. CASE k = o
    <3>1. objs'[k] = b /\ closer'[k] = c
      BY <1>3, <2>1, Zenon
    <3> QED  BY <3>1, Zenon
  <2>2. CASE k # o
    <3>1. objs'[k] = objs[k] /\ closer'[k] = closer[k]
      BY <1>3, <2>2, Zenon
    <3>2. Closed(objs[k], closer[k])
      BY Zenon DEF ClosedOK
    <3> QED  BY <3>1, <3>2, Zenon
  <2> QED  BY <2>1, <2>2, Zenon
<1>6. \A k \in 1..Len(objs') : objs'[k].count = 0 <=> closer'[k] # 0
  BY <1>4, <1>5, Zenon DEF Closed
<1>7. Len(objs') <= MaxObjects
  BY <1>4, Zenon DEF ClosedOK
<1> QED  BY <1>6, <1>7, Zenon DEF ClosedOK, Closed

\* an object whose offset changes
LEMMA OffsetClosed ==
  ASSUME JInv, ClosedOK, NEW o \in 1..Len(objs), NEW x,
         objs' = [objs EXCEPT ![o] = [@ EXCEPT !.offset = x]], UNCHANGED closer
  PROVE  ClosedOK'
<1> DEFINE b == [objs[o] EXCEPT !.offset = x]
<1>1. objs \in Seq(Objects) /\ closer \in Seq(Nat) /\ Len(closer) = Len(objs) /\ Len(objs) \in Nat
  BY DEF JInv, IInv, ObjectsOK, TakenOK
<1>2. objs[o] \in Objects /\ closer[o] \in Nat /\ DOMAIN closer = 1..Len(objs)
  BY <1>1
<1>3. b.count = objs[o].count
  BY <1>2 DEF Objects
<1>4. Closed(b, closer[o])
  BY <1>3, Zenon DEF ClosedOK, Closed
<1>5. closer' = [closer EXCEPT ![o] = closer[o]]
  BY <1>1
<1>6. objs' = [objs EXCEPT ![o] = b]
  BY Zenon
<1> HIDE DEF b
<1> QED  BY <1>2, <1>4, <1>5, <1>6, ReplaceClosed, Zenon

LEMMA SameClosed == ASSUME ClosedOK, NoObject PROVE ClosedOK'
  BY Zenon DEF ClosedOK, NoObject, Closed

\* one system call on files
LEMMA FileCallTyped ==
  ASSUME JInv, ClosedOK, CwdOK, NEW t \in Task, t \in Struct, FileCall(t)
  PROVE  ClosedOK' /\ CwdOK'
<1>0. FdArgs \subseteq Fds
  BY FilesAssumption, Zenon DEF Fds
<1>1. ASSUME UNCHANGED cwd PROVE CwdOK'
  BY <1>1, Zenon DEF CwdOK
<1>2. ASSUME Halt PROVE ClosedOK' /\ CwdOK'
  BY <1>1, <1>2, SameClosed, Zenon DEF Halt, NoObject
<1>3. ASSUME NEW fd \in Fds PROVE Object(t, fd) > 0 => Object(t, fd) \in 1..Len(objs)
  BY ObjectIs, Zenon DEF JInv
<1>4. CASE \E name \in Paths, flags \in Flags : SysOpen(t, name, flags)
  BY <1>1, <1>4, OpenClosed, Zenon DEF SysOpen
<1>5. ASSUME NEW fd \in FdArgs, SysClose(t, fd) PROVE ClosedOK' /\ CwdOK'
  <2> DEFINE o == Object(t, fd)
  <2>1. CASE Dangling(o)
    BY <1>2, <1>5, <2>1, Zenon DEF SysClose
  <2>2. CASE ~ Dangling(o)
    <3>1. o # 0 /\ UNCHANGED cwd /\ IF o = Terminal THEN NoObject ELSE TfsClose(o, t)
      BY <1>5, <2>2, Zenon DEF SysClose
    <3>2. CASE o = Terminal
      BY <1>1, <3>1, <3>2, SameClosed, Zenon
    <3>3. CASE o # Terminal
      <4> DEFINE b == [hdr |-> 0, offset |-> 0, count |-> objs[o].count - 1]
      <4>1. o \in Handles
        BY <1>0, <1>5, Zenon DEF Object, JInv, IInv, HandlesOK
      <4>2. o > 0
        BY <3>1, <3>3, <4>1 DEF Handles, Terminal
      <4>3. o \in 1..Len(objs) /\ objs[o] \in Objects
        BY <1>0, <1>5, <4>2, ObjectIs, Zenon DEF JInv
      <4>4. objs[o].count = 1
        BY <2>2, <4>2, <4>3 DEF Dangling, Objects
      <4>5. b.count = 0 /\ t \in Nat /\ t # 0
        BY <4>4 DEF Struct
      <4>6. Closed(b, t)
        BY <4>5, Zenon DEF Closed
      <4>7. objs' = [objs EXCEPT ![o] = b] /\ closer' = [closer EXCEPT ![o] = t]
        BY <3>1, <3>3, Zenon DEF TfsClose
      <4> HIDE DEF b, o
      <4> QED  BY <1>1, <3>1, <4>3, <4>5, <4>6, <4>7, ReplaceClosed, Zenon
    <3> QED  BY <3>2, <3>3, Zenon
  <2> QED  BY <2>1, <2>2, Zenon
<1>6. ASSUME NEW fd \in FdArgs, SysGetdents(t, fd) PROVE ClosedOK' /\ CwdOK'
  <2> DEFINE o == Object(t, fd)
  <2>1. CASE ReaddirHalts(o)
    BY <1>2, <1>6, <2>1, Zenon DEF SysGetdents
  <2>2. CASE ~ ReaddirHalts(o)
    <3>1. o > 0 /\ TfsReaddir(o) /\ UNCHANGED <<cwd, closer>>
      BY <1>6, <2>2, Zenon DEF SysGetdents
    <3>2. PICK x : objs' = [objs EXCEPT ![o] = [@ EXCEPT !.offset = x]]
      BY <3>1, Zenon DEF TfsReaddir
    <3>3. o \in 1..Len(objs)
      BY <1>0, <1>3, <1>6, <3>1, Zenon
    <3> HIDE DEF o
    <3> QED  BY <1>1, <3>1, <3>2, <3>3, OffsetClosed, Zenon
  <2> QED  BY <2>1, <2>2, Zenon
<1>7. ASSUME NEW fd \in FdArgs, NEW n \in Counts, SysRead(t, fd, n) PROVE ClosedOK' /\ CwdOK'
  <2> DEFINE o == Object(t, fd)
  <2>1. CASE ReadHalts(o)
    BY <1>2, <1>7, <2>1, Zenon DEF SysRead
  <2>2. CASE ~ ReadHalts(o)
    <3>1. o > 0 /\ UNCHANGED <<cwd, closer>>
      BY <1>7, <2>2, Zenon DEF SysRead
    <3>2. PICK x : objs' = [objs EXCEPT ![o] = [@ EXCEPT !.offset = x]]
      BY <1>7, <2>2, Zenon DEF SysRead
    <3>3. o \in 1..Len(objs)
      BY <1>0, <1>3, <1>7, <3>1, Zenon
    <3> HIDE DEF o
    <3> QED  BY <1>1, <3>1, <3>2, <3>3, OffsetClosed, Zenon
  <2> QED  BY <2>1, <2>2, Zenon
<1>8. CASE \E fd \in FdArgs : SysWrite(t, fd)
  BY <1>2, <1>8, Zenon DEF SysWrite
<1>9. CASE \E path \in Dirs : SysChdir(t, path)
  BY <1>9, SameClosed, CwdKeeps, Zenon DEF SysChdir, NoObject
<1> QED  BY <1>4, <1>5, <1>6, <1>7, <1>8, <1>9, Zenon DEF FileCall

\* Every step
LEMMA StepTyped ==
  ASSUME JInv, PInv, ClosedOK, CwdOK, [Next]_vars
  PROVE  ClosedOK' /\ CwdOK'
<1>0. live \subseteq Task /\ live \subseteq Struct
  BY Zenon DEF JInv, IInv, HandlesOK, PInv, TasksOK
<1>1. ASSUME NoObject, UNCHANGED cwd PROVE ClosedOK' /\ CwdOK'
  BY <1>1, SameClosed, Zenon DEF CwdOK
<1>2. CASE \E path \in Paths, t \in Task : Boot(path, t)
  BY <1>1, <1>2, Zenon DEF Boot
<1>3. ASSUME NEW p \in live, NEW t \in Task, Fork(p, t) PROVE ClosedOK' /\ CwdOK'
  <2>1. NoObject /\ cwd' = [cwd EXCEPT ![t] = cwd[p]] /\ Len(cwd[p]) <= MaxPathLen
    BY <1>0, <1>3, Zenon DEF Fork, CwdOK
  <2> QED  BY <2>1, SameClosed, CwdKeeps, Zenon
<1>4. ASSUME NEW p \in live, NEW t \in Task, NEW path \in Paths, Exec(p, path, t) PROVE ClosedOK' /\ CwdOK'
  <2>1. NoObject /\ cwd' = [cwd EXCEPT ![p] = <<>>]
    BY <1>4, Zenon DEF Exec
  <2> QED  BY <1>0, <2>1, NoDirectory, SameClosed, CwdKeeps, Zenon
<1>5. ASSUME NEW p \in live, Exit(p) PROVE ClosedOK' /\ CwdOK'
  <2>1. NoObject /\ cwd' = [cwd EXCEPT ![p] = <<>>]
    BY <1>5, Zenon DEF Exit
  <2> QED  BY <1>0, <2>1, NoDirectory, SameClosed, CwdKeeps, Zenon
<1>6. CASE \E p \in live : FileCall(p) /\ UNCHANGED poolVars
  BY <1>0, <1>6, FileCallTyped, Zenon
<1>7. CASE UNCHANGED vars
  BY <1>1, <1>7, Zenon DEF vars, fileVars, NoObject
<1> QED  BY <1>2, <1>3, <1>4, <1>5, <1>6, <1>7, Zenon DEF Next

\* Pools, descriptors, directories and objects stay in their types: in particular an
\* object is freed exactly when a task is on record that closed it (tfs_close), and no
\* descriptor leads past the objects there are
THEOREM ProcessTyped == Spec => []TypeOK
<1> DEFINE TInv == JInv /\ PInv /\ ClosedOK /\ CwdOK
<1>1. Init => TInv
  <2> SUFFICES ASSUME Init PROVE TInv
    OBVIOUS
  <2>1. ClosedOK
    <3>1. objs = <<>> /\ MaxObjects \in Nat
      BY FilesAssumption, Zenon DEF Init, FilesInit
    <3> QED  BY <3>1 DEF ClosedOK
  <2>2. CwdOK
    BY NoDirectory, Zenon DEF Init, FilesInit, CwdOK
  <2> QED  BY <2>1, <2>2, InitClose, PoolStarts, Zenon DEF Init
<1>2. TInv /\ [Next]_vars => TInv'
  BY StepTyped, StepClose, PoolNext, Zenon
<1>3. TInv => TypeOK
  <2> SUFFICES ASSUME TInv PROVE TypeOK
    OBVIOUS
  <2>1. PoolTypeOK
    BY Zenon DEF PInv, PoolsOK, TasksOK, Sound, PoolTypeOK
  <2>2. /\ objs \in Seq(Objects) /\ closer \in Seq(Nat) /\ out \in Seq(Seq(Nat))
        /\ Len(closer) = Len(objs) /\ Len(out) = Len(objs)
    BY Zenon DEF JInv, IInv, ObjectsOK, TakenOK
  <2>3. /\ Len(objs) \in Nat /\ DOMAIN objs = 1..Len(objs)
        /\ DOMAIN closer = 1..Len(objs) /\ DOMAIN out = 1..Len(objs)
    BY <2>2, SeqIs, Zenon
  <2>4. \A t \in Task, fd \in Fds : fdarr[t][fd] \in Int /\ fdarr[t][fd] >= Terminal /\ fdarr[t][fd] <= Len(objs)
    BY Zenon DEF JInv, IInv, HandlesOK, Handles
  <2>5. fdarr \in [Task -> [Fds -> Terminal..MaxObjects]]
    <3>1. ASSUME NEW n \in Int, n >= Terminal, n <= Len(objs) PROVE n \in Terminal..MaxObjects
      <4>1. Len(objs) <= MaxObjects /\ MaxObjects \in Nat
        BY FilesAssumption, Zenon DEF ClosedOK
      <4> QED  BY <2>3, <3>1, <4>1 DEF Terminal
    <3>2. \A t \in Task, fd \in Fds : fdarr[t][fd] \in Terminal..MaxObjects
      BY <2>4, <3>1, Zenon
    <3> QED  BY <3>2, Zenon DEF JInv, IInv, HandlesOK
  <2>6. ASSUME NEW o \in 1..Len(objs)
        PROVE  /\ objs[o].hdr \in 0..Len(Tar) /\ objs[o].count \in 0..1 /\ objs[o].offset \in Nat
               /\ (objs[o].count = 0) = (closer[o] # 0)
    <3>1. objs[o] \in Objects
      BY <2>2
    <3>2. Closed(objs[o], closer[o])
      BY Zenon DEF ClosedOK
    <3> QED  BY <3>1, <3>2, Zenon DEF Objects, Closed
  <2> QED  BY <2>1, <2>3, <2>4, <2>5, <2>6, Zenon DEF TypeOK, FilesTypeOK, CwdOK
<1> QED  BY <1>1, <1>2, <1>3, PTL DEF Spec
==============================================================================
