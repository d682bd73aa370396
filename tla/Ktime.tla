-------------------------------- MODULE Ktime --------------------------------
(***************************************************************************)
(* The clock, sys/ktime.c: addTick, called by every timer interrupt.       *)
(***************************************************************************)
EXTENDS Integers

CONSTANTS
  DayLength,   \* seconds per day, 86400 in the code
  MaxTicks     \* bound on the number of interrupts

ASSUME KtimeAssumption == DayLength \in Nat \ {0} /\ MaxTicks \in Nat

VARIABLES
  ticks, s_cnt, second, day, ms,
  irqs   \* timer interrupts so far

clockVars == <<ticks, s_cnt, second, day, ms, irqs>>

ClockTypeOK ==
  /\ s_cnt \in 0..4
  /\ ticks \in 0..(IF s_cnt < 4 THEN 18 ELSE 19)
  /\ second \in 0..(DayLength - 1)
  /\ day \in Nat /\ ms \in Nat /\ irqs \in Nat

ClockInit ==
  /\ ticks = 0 /\ s_cnt = 0
  /\ second = 0 /\ day = 0 /\ ms = 0
  /\ irqs = 0

\* the rollover at the end of addTick
Rollover(s) ==
  IF s >= DayLength
  THEN day' = day + 1 /\ second' = 0
  ELSE day' = day /\ second' = s

\* mutant: the last tick of a second is worth as much as the others
CountEven(limit, step, rest, nextCnt) ==
  /\ ticks' = IF ticks < limit THEN ticks + 1 ELSE 0
  /\ ms' = ms + step
  /\ s_cnt' = IF ticks < limit THEN s_cnt ELSE nextCnt
  /\ Rollover(IF ticks < limit THEN second ELSE second + 1)

\* a second of limit ticks of step ms each, and one of rest ms
Count(limit, step, rest, nextCnt) ==
  IF ticks < limit
  THEN /\ ticks' = ticks + 1
       /\ ms' = ms + step
       /\ s_cnt' = s_cnt
       /\ Rollover(second)
  ELSE /\ ms' = ms + rest
       /\ ticks' = 0
       /\ s_cnt' = nextCnt
       /\ Rollover(second + 1)

addTick ==
  /\ irqs < MaxTicks
  /\ irqs' = irqs + 1
  /\ IF s_cnt < 4 THEN Count(18, 55, 10, s_cnt + 1) ELSE Count(19, 52, 12, 0)

ClockSpec == ClockInit /\ [][addTick]_clockVars

\* The two clocks agree: the milliseconds that sleep uses are those of the day and
\* second shown on the screen, across the uneven seconds and the end of a day
ClocksAgree ==
  ms = 1000 * (DayLength * day + second) + (IF s_cnt < 4 THEN 55 ELSE 52) * ticks
==============================================================================
