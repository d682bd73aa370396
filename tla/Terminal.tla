------------------------------ MODULE Terminal ------------------------------
(***************************************************************************)
(* The terminal, sys/kprintf.c: a ring buffer that the keyboard interrupt  *)
(* fills (term_putchar) and one reader empties (sys_read, term_read,       *)
(* term_pop).  sys_read starts with interrupts off; its sti; hlt leaves    *)
(* them on, and from then on a key can arrive between any two statements   *)
(* of term_pop.  count-- on a volatile char is a load and a store.         *)
(* A character is the delimiter, a printable character or one that is not  *)
(* printed: kbtb has 0 for the arrow and function keys.  It has no tab and *)
(* no EOT, so newline is the only delimiter and four spaces are never      *)
(* pushed.                                                                 *)
(***************************************************************************)
EXTENDS Integers, Sequences, FiniteSets

CONSTANTS
  Size,      \* TERMBUF_SIZE
  CharMod,   \* the number of values of a char; 256, as Size is, in the code
  ReadSizes, \* sizes passed to read
  MaxKeys,   \* bound on the keys typed
  MaxBurst   \* keys that arrive between two statements of term_pop

ASSUME TerminalAssumption ==
  /\ Size \in Nat \ {0} /\ CharMod \in Nat \ {0}
  /\ ReadSizes \subseteq Nat \ {0}
  /\ MaxKeys \in Nat /\ MaxBurst \in Nat

VARIABLES
  start, end, full, count, backspace, buf,
  pc,     \* the reader's place; "user": outside the kernel
  size,   \* the size it asked for
  got,    \* what it has of this line
  c,      \* term_pop's c
  tmp,    \* the value of term.count it has loaded
  irq,    \* whether interrupts are on
  keys, burst,
  typed,  \* history: the characters accepted and not erased
  read    \* history: the characters popped

term == <<start, end, full, backspace, buf>>
reader == <<pc, size, got, c, tmp, irq>>
vars == <<term, count, reader, keys, burst, typed, read>>

Char == {"a", "b", "nul", "nl"}
Delim(a) == a = "nl"

TypeOK ==
  /\ start \in 0..(Size - 1) /\ end \in 0..(Size - 1)
  /\ full \in BOOLEAN
  /\ count \in 0..(CharMod - 1) /\ tmp \in 0..(CharMod - 1)
  /\ backspace \in 0..MaxKeys
  /\ buf \in [0..(Size - 1) -> Char]
  /\ pc \in {"user", "test", "halt", "pop", "advance", "unfull", "load", "store"}
  /\ size \in ReadSizes \cup {0}
  /\ {got, typed, read} \subseteq Seq(Char)
  /\ c \in Char
  /\ irq \in BOOLEAN
  /\ keys \in 0..MaxKeys /\ burst \in 0..MaxKeys

Init ==
  /\ start = 0 /\ end = 0 /\ full = FALSE
  /\ count = 0 /\ backspace = 0
  /\ buf = [i \in 0..(Size - 1) |-> "a"]
  /\ pc = "user" /\ size = 0 /\ got = <<>> /\ c = "a" /\ tmp = 0
  /\ irq = TRUE
  /\ keys = 0 /\ burst = 0
  /\ typed = <<>> /\ read = <<>>

-----------------------------------------------------------------------------
(* The keyboard interrupt *)

\* mutant: no wrap-around
EraseUnwrapped ==
  IF backspace > 0
  THEN /\ end' = end - 1
       /\ full' = FALSE
       /\ backspace' = backspace - 1
       /\ typed' = SubSeq(typed, 1, Len(typed) - 1)
       /\ UNCHANGED <<start, buf, count>>
  ELSE UNCHANGED <<term, count, typed>>

\* term_poplast and the decrement of backspace; nothing to erase: refused
Erase ==
  IF backspace > 0
  THEN /\ end' = (end + Size - 1) % Size
       /\ full' = FALSE
       /\ backspace' = backspace - 1
       /\ typed' = SubSeq(typed, 1, Len(typed) - 1)
       /\ UNCHANGED <<start, buf, count>>
  ELSE UNCHANGED <<term, count, typed>>

\* mutant: a full ring is overwritten
PushOver(a) ==
  /\ buf' = [buf EXCEPT ![end] = a]
  /\ end' = (end + 1) % Size
  /\ full' = (start = end')
  /\ count' = IF Delim(a) THEN (count + 1) % CharMod ELSE count
  /\ backspace' = IF Delim(a) THEN 0 ELSE backspace + 1
  /\ typed' = Append(typed, a)
  /\ UNCHANGED start

\* mutant: a delimiter does not end what backspace may erase
PushKeeps(a) ==
  IF full
  THEN UNCHANGED <<term, count, typed>>
  ELSE /\ buf' = [buf EXCEPT ![end] = a]
       /\ end' = (end + 1) % Size
       /\ full' = (start = end')
       /\ count' = IF Delim(a) THEN (count + 1) % CharMod ELSE count
       /\ backspace' = backspace + 1
       /\ typed' = Append(typed, a)
       /\ UNCHANGED start

\* term_push; refused when full
Push(a) ==
  IF full
  THEN UNCHANGED <<term, count, typed>>
  ELSE /\ buf' = [buf EXCEPT ![end] = a]
       /\ end' = (end + 1) % Size
       /\ full' = (start = end')
       /\ count' = IF Delim(a) THEN (count + 1) % CharMod ELSE count
       /\ backspace' = IF Delim(a) THEN 0 ELSE backspace + 1
       /\ typed' = Append(typed, a)
       /\ UNCHANGED start

Key ==
  /\ irq
  /\ keys < MaxKeys
  /\ pc \in {"advance", "unfull", "load", "store"} => burst < MaxBurst
  /\ Erase \/ \E a \in Char : Push(a)
  /\ keys' = keys + 1
  /\ burst' = burst + 1
  /\ UNCHANGED <<reader, read>>

-----------------------------------------------------------------------------
(* The reader *)

\* every step of the reader ends a burst
Step(from, to) == pc = from /\ pc' = to /\ burst' = 0 /\ UNCHANGED keys

SysRead(s) ==
  /\ Step("user", "test")
  /\ size' = s
  /\ got' = <<>>
  /\ irq' = FALSE
  /\ UNCHANGED <<term, count, c, tmp, typed, read>>

\* mutant: one line is not enough
NoLineYet ==
  /\ Step("test", "halt")
  /\ count <= 1
  /\ irq' = TRUE
  /\ UNCHANGED <<term, count, size, got, c, tmp, typed, read>>

\* term_read without a line: -1, and sys_read halts
NoLine ==
  /\ Step("test", "halt")
  /\ count = 0
  /\ irq' = TRUE
  /\ UNCHANGED <<term, count, size, got, c, tmp, typed, read>>

\* the timer, if no key, ends the hlt
Wake == Step("halt", "test") /\ UNCHANGED <<term, count, size, got, c, tmp, irq, typed, read>>

\* mutant: reads whatever is in the ring
LineAny ==
  /\ Step("test", "pop")
  /\ start # end \/ full
  /\ UNCHANGED <<term, count, size, got, c, tmp, irq, typed, read>>

Line ==
  /\ Step("test", "pop")
  /\ count # 0
  /\ UNCHANGED <<term, count, size, got, c, tmp, irq, typed, read>>

Empty == start = end /\ ~full

\* an empty ring: term_pop returns -1 and term_read what it has
PopChar ==
  /\ Step("pop", IF Empty THEN "user" ELSE "advance")
  /\ c' = IF Empty THEN c ELSE buf[start]
  /\ irq' = (irq \/ Empty)
  /\ UNCHANGED <<term, count, size, got, tmp, typed, read>>

PopAdvance ==
  /\ Step("advance", "unfull")
  /\ start' = (start + 1) % Size
  /\ read' = Append(read, c)
  /\ UNCHANGED <<end, full, backspace, buf, count, size, got, c, tmp, irq, typed>>

\* term_read's loop, after term_pop: return, or pop again while count <= size
More == ~Delim(c) /\ Len(got) + 1 <= size

Deliver(from) ==
  /\ Step(from, IF More THEN "pop" ELSE "user")
  /\ got' = Append(got, c)
  /\ irq' = (irq \/ ~More)

PopUnfull ==
  /\ ~Delim(c)
  /\ Deliver("unfull")
  /\ full' = FALSE
  /\ UNCHANGED <<start, end, backspace, buf, count, size, c, tmp, typed, read>>

PopUnfullDelim ==
  /\ Delim(c)
  /\ Step("unfull", "load")
  /\ full' = FALSE
  /\ UNCHANGED <<start, end, backspace, buf, count, size, got, c, tmp, irq, typed, read>>

LoadCount ==
  /\ Step("load", "store")
  /\ tmp' = count
  /\ UNCHANGED <<term, count, size, got, c, irq, typed, read>>

StoreCount ==
  /\ Deliver("store")
  /\ count' = (tmp + CharMod - 1) % CharMod
  /\ UNCHANGED <<term, size, c, tmp, typed, read>>

Reader ==
  \/ NoLine
  \/ Wake
  \/ Line
  \/ PopChar
  \/ PopAdvance
  \/ PopUnfull
  \/ PopUnfullDelim
  \/ LoadCount
  \/ StoreCount

Next == Key \/ Reader \/ \E s \in ReadSizes : SysRead(s)

Spec == Init /\ [][Next]_vars /\ WF_vars(Reader)

-----------------------------------------------------------------------------

\* the characters between start and end
Window ==
  LET w == IF full THEN Size ELSE (end + Size - start) % Size
  IN [i \in 1..w |-> buf[(start + i - 1) % Size]]

\* the characters after the last delimiter
Partial ==
  LET nls == {i \in DOMAIN typed : Delim(typed[i])}
  IN {i \in DOMAIN typed : \A k \in nls : k < i}

\* No character is lost, repeated or reordered: what was popped and what the ring
\* holds is what was typed, with backspaces and wrap-around and with keys that
\* arrive inside term_pop (between its two assignments full may be stale)
NothingLost == pc # "unfull" => read \o Window = typed

\* Backspace erases only the line being typed, never a line that a reader may have
\* begun to pop
EraseInLine == backspace = Cardinality(Partial) /\ backspace <= Len(Window)

\* read returns a whole line, or a part of one that fills its buffer: never the part of
\* a line that is still being typed, and never more than one character beyond the size
\* it was given (the loop's count <= size lets that one through)
WholeLines ==
  [][pc # "user" /\ pc' = "user" =>
       /\ Len(got') <= size + 1
       /\ Len(got') >= size \/ (got' # <<>> /\ Delim(got'[Len(got')]))]_vars

\* a reader that is halted when count announces a line gets one, unless count
\* wraps to 0 before the hlt ends
LineIsRead == pc = "halt" /\ count # 0 ~> pc = "user" \/ count = 0
==============================================================================
