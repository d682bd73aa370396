------------------------------- MODULE Screen --------------------------------
(***************************************************************************)
(* The screen of sys/kprintf.c below the terminal: kputchar prints what    *)
(* programs write and echoes what the terminal accepts.  BASE and arr are  *)
(* always written together and are one array.  A system call runs with     *)
(* interrupts off, so the output of a program is not mixed with an echo    *)
(* inside kputchar; it is mixed with a line that is being typed.           *)
(***************************************************************************)
EXTENDS Terminal

CONSTANTS
  Width, Height,   \* WIDTH, HEIGHT
  MaxOut           \* bound on the characters programs write

ASSUME ScreenAssumption ==
  /\ Width \in Nat \ {0} /\ Height \in Nat \ {0} /\ MaxOut \in Nat
  /\ Size <= Width * (Height - 1)    \* 256 and 80 * 23 in the code

VARIABLES
  scr,      \* x, y and arr
  outs,
  tabbing,  \* a program is in kputchar's loop for a tab
  mixed,    \* history: a program has written while a line was being typed
  astray    \* history: since the last newline key the cursor has gone back without the
            \* line, by ErasesUnseen or Strays

screenVars == <<vars, scr, outs, tabbing, mixed, astray>>

\* what a program may write: "o" stands for the characters from the space on; to write
\* one below it that is none of these changes nothing, and is no step
OutChar == {"o", "nl", "cr", "bs", "tab"}

Blank == " "
Cells == 0..(Width * Height - 1)

ScreenTypeOK ==
  /\ TypeOK
  /\ scr.x \in 0..(Width - 1) /\ scr.y \in Int
  /\ scr.arr \in [Cells -> {Blank, "a", "b", "o"}]
  /\ outs \in 0..MaxOut
  /\ {tabbing, mixed, astray} \subseteq BOOLEAN

\* clr
ScreenInit ==
  /\ Init
  /\ scr = [x |-> 0, y |-> 0, arr |-> [i \in Cells |-> Blank]]
  /\ outs = 0 /\ tabbing = FALSE /\ mixed = FALSE /\ astray = FALSE

-----------------------------------------------------------------------------
(* kputchar *)

At(s) == s.x + s.y * Width

\* the model stops printing after a store outside of arr, at a negative y
Store(s, a) == [i \in Cells |-> IF i = At(s) THEN a ELSE s.arr[i]]

Newline(s) == [s EXCEPT !.x = 0, !.y = @ + 1]

Return(s) == [s EXCEPT !.x = 0]

Show(s, a) == [s EXCEPT !.arr = Store(s, a), !.x = @ + 1]

Back(s) ==
  LET b == IF s.x = 0 THEN [s EXCEPT !.x = Width - 1, !.y = @ - 1] ELSE [s EXCEPT !.x = @ - 1]
  IN [b EXCEPT !.arr = Store(b, Blank)]

\* every row moves up by one, and the cursor to the start of the last
Scroll(s) ==
  IF s.y < Height THEN s
  ELSE [x |-> 0, y |-> Height - 1,
        arr |-> [i \in Cells |-> IF i + Width \in Cells THEN s.arr[i + Width] ELSE Blank]]

Wrap(s) == IF s.x >= Width THEN Newline(s) ELSE s

\* mutant: backspace at the start of a row stays in the row
kputcharBack(s, a) ==
  IF a \in {"nul", "tab"} THEN s
  ELSE Scroll(Wrap(CASE a = "nl" -> Newline(s)
                     [] a = "cr" -> Return(s)
                     [] a = "bs" -> IF s.x = 0 THEN s ELSE Back(s)
                     [] OTHER -> Show(s, a)))

\* a character below the space that is none of these: no change; what a tab does is
\* TabLoop
kputchar(s, a) ==
  IF a \in {"nul", "tab"} THEN s
  ELSE Scroll(Wrap(CASE a = "nl" -> Newline(s)
                     [] a = "cr" -> Return(s)
                     [] a = "bs" -> Back(s)
                     [] OTHER -> Show(s, a)))

-----------------------------------------------------------------------------

\* mutant: the echo does not look at whether the character was accepted
EchoAlways ==
  IF Len(typed') > Len(typed) THEN kputchar(scr, typed'[Len(typed')])
  ELSE kputchar(scr, "bs")

\* term_putchar echoes what it has pushed, and a backspace that has erased something
Echo ==
  IF Len(typed') > Len(typed) THEN kputchar(scr, typed'[Len(typed')])
  ELSE IF Len(typed') < Len(typed) THEN kputchar(scr, "bs")
  ELSE scr

\* the backspace key takes the cursor over a character that was not printed
ErasesUnseen == Len(typed') < Len(typed) /\ typed[Len(typed)] = "nul"

EndsLine == Len(typed') > Len(typed) /\ backspace' = 0

\* a program takes the cursor back into the line being typed, or off the screen
Strays(a) == (a \in {"bs", "cr"} /\ backspace > 0) \/ (a = "bs" /\ At(scr) = 0)

ScreenKey ==
  /\ Key
  /\ ~ tabbing /\ scr.y >= 0
  /\ scr' = Echo
  /\ astray' = ((astray \/ ErasesUnseen) /\ ~ EndsLine)
  /\ mixed' = (mixed /\ backspace' > 0)
  /\ UNCHANGED <<outs, tabbing>>

\* term_write, a character at a time; kprintf in a system call prints the same way
Write(a) ==
  /\ pc = "user" /\ ~ tabbing /\ scr.y >= 0
  /\ outs < MaxOut
  /\ outs' = outs + 1
  /\ scr' = kputchar(scr, a)
  /\ tabbing' = (a = "tab")
  /\ astray' = (astray \/ Strays(a))
  /\ mixed' = (backspace > 0)
  /\ UNCHANGED vars

\* one round of kputchar's loop for a tab.  Nothing counts the rounds, and interrupts
\* are off: it prints blanks for ever
TabLoop ==
  /\ tabbing
  /\ scr' = kputchar(scr, Blank)
  /\ mixed' = (backspace > 0)
  /\ UNCHANGED <<vars, outs, tabbing, astray>>

ScreenReader ==
  /\ ~ tabbing
  /\ Reader \/ \E s \in ReadSizes : SysRead(s)
  /\ UNCHANGED <<scr, outs, tabbing, mixed, astray>>

ScreenNext == ScreenKey \/ ScreenReader \/ TabLoop \/ \E a \in OutChar : Write(a)

ScreenSpec ==
  /\ ScreenInit /\ [][ScreenNext]_screenVars
  /\ WF_screenVars(Reader /\ UNCHANGED <<scr, outs, tabbing, mixed, astray>>)

-----------------------------------------------------------------------------

\* The cursor stays on the screen, so that kputchar writes inside arr: the backspace key
\* cannot take it above the first row, however the output of programs (control characters
\* included), wrapping and scrolling have moved the line, as long as everything that was
\* erased had been printed and no program has itself moved the cursor back over the line
\* being typed or above the first row
CursorOnScreen == ~ astray => scr.y \in 0..(Height - 1)

\* the characters of the line being typed that were printed, from the one at k on
Seen(k) == {i \in k..Len(typed) : typed[i] # "nul"}

\* What the user sees before the cursor is the line the reader will get, after wrapping,
\* scrolling and backspace over the start of a row, unless a program wrote into it
EchoIsLine ==
  ~ astray /\ ~ mixed =>
    \A k \in Seen(Len(typed) - backspace + 1) : scr.arr[At(scr) - Cardinality(Seen(k))] = typed[k]
==============================================================================
