------------------------------ MODULE Calendar -------------------------------
(***************************************************************************)
(* The time of day: plat_init_sys_time() of the PC, which reads the clock  *)
(* chip field by field while it runs on, and mktime() and localtime() of   *)
(* libc.c, which answers in one structure for all tasks.                   *)
(*                                                                         *)
(* Careful use is where the code is right.  bcd_to_num() masks the sum, so *)
(* every field read must be below 16; localtime() is used by one task at a *)
(* time, and for days that its division by 365 puts into the right year,   *)
(* not in a leap year.                                                     *)
(***************************************************************************)
EXTENDS Integers, Sequences, FiniteSets, Functions

CONSTANTS
  Tasks,
  Starts,       \* seconds since 1970 that the chip shows when the system starts
  Times,        \* arguments of localtime() besides the time now
  MaxSeconds,   \* bound on the seconds a run takes
  Careful

Day == 60 * 60 * 24
days_in_months == <<31, 28, 31, 30, 31, 30, 31, 31, 30, 31, 30, 31>>

VARIABLES
  rtc,          \* what the chip shows, in seconds since 1970
  seconds,      \* since the start (history)
  read,         \* the fields read so far
  system_time,  \* 0 before it is set
  tm,           \* the structure localtime() answers in
  using         \* the time whose answer a task is about to read, or -1

vars == <<rtc, seconds, read, system_time, tm, using>>
-----------------------------------------------------------------------------
(* The calendar, from 1970 to 2099.                                        *)
IsLeap(year) == year % 4 = 0
LeapsBefore(year) == Cardinality({y \in 70 .. year - 1 : IsLeap(y)})
FirstDay(year) == 365 * (year - 70) + LeapsBefore(year)
YearOf(day) == CHOOSE y \in 70 .. 140 : FirstDay(y) <= day /\ day < FirstDay(y + 1)
Length(year, mon) == days_in_months[mon] + (IF IsLeap(year) /\ mon = 2 THEN 1 ELSE 0)
\* the days of a year before its month "mon", which counts from 1
FirstOf(year, mon) == FoldFunctionOnSet(LAMBDA a, b : a + b, 0, [m \in 1 .. 12 |-> Length(year, m)], 1 .. mon - 1)
Date(t) ==
  LET day == t \div Day
      y == YearOf(day)
      yday == day - FirstDay(y)
      m == CHOOSE k \in 1 .. 12 : FirstOf(y, k) <= yday /\ yday < FirstOf(y, k) + Length(y, k)
  IN [wday |-> (day + 4) % 7, year |-> y, yday |-> yday, mon |-> m - 1, mday |-> yday - FirstOf(y, m) + 1,
      hour |-> (t % Day) \div 3600, min |-> (t % 3600) \div 60, sec |-> t % 60]
-----------------------------------------------------------------------------
(* localtime(); the months' days are taken off, and what falls below zero,  *)
(* being unsigned, fits no month.                                          *)
localtime(t) ==
  LET d == t \div Day
      year == d \div 365 + 70
      day == IF year > 72 THEN d - ((year - 73) \div 4 + 1) ELSE d
      yday == day % (IF IsLeap(year) THEN 366 ELSE 365)
      left[m \in 0 .. 12] == IF m = 0 THEN yday
        ELSE LET prev == left[m - 1] IN
             prev - days_in_months[m] - (IF IsLeap(year) /\ m = 2 THEN 1 ELSE 0)
      fits == {m \in 0 .. 11 : left[m] \in 0 .. days_in_months[m + 1] - 1}
      mon == IF fits = {} THEN 12 ELSE CHOOSE m \in fits : \A k \in fits : m <= k
  IN [wday |-> (d + 4) % 7, year |-> year, yday |-> yday, mon |-> mon, mday |-> left[mon] + 1,
      hour |-> (t % Day) \div 3600, min |-> (t % 3600) \div 60, sec |-> t % 60]

(* mktime()                                                                *)
mktime(f) ==
  LET year == IF f.year < 70 THEN f.year + 100 ELSE f.year
      years == 365 * (year - 70) + (IF year > 72 THEN (year - 73) \div 4 + 1 ELSE 0)
      months == FoldFunctionOnSet(LAMBDA a, b : a + b, 0, days_in_months, 1 .. f.mon)
                + (IF year % 4 = 0 /\ f.mon > 1 THEN 1 ELSE 0)
  IN (years + months + f.mday - 1) * Day + f.hour * 3600 + f.min * 60 + f.sec
-----------------------------------------------------------------------------
(* The clock chip answers in two decimal digits.                           *)
Bcd(n) == 16 * (n \div 10) + (n % 10)
bcd_to_num(bcd) == ((bcd \div 16) * 10 + bcd) % 16

Fields == <<"sec", "min", "hour", "mday", "mon", "year">>
Shown(field) == CASE field = "mon" -> Date(rtc).mon + 1
                  [] field = "year" -> Date(rtc).year % 100
                  [] OTHER -> Date(rtc)[field]

Init ==
  /\ rtc \in Starts
  /\ seconds = 0 /\ read = <<>> /\ system_time = 0
  /\ tm = Date(0)
  /\ using = [t \in Tasks |-> -1]

ReadField ==
  /\ Len(read) < Len(Fields)
  /\ LET n == Shown(Fields[Len(read) + 1]) IN
     /\ Careful => n < 16
     /\ read' = Append(read, bcd_to_num(Bcd(n)))
  /\ UNCHANGED <<rtc, seconds, system_time, tm, using>>

(* plat_init_sys_time(), when all six are read.                            *)
SetSystemTime ==
  /\ Len(read) = Len(Fields) /\ system_time = 0
  /\ LET made == mktime([sec |-> read[1], min |-> read[2], hour |-> read[3], mday |-> read[4],
                         mon |-> read[5] - 1, year |-> read[6]])
     IN system_time' = made /\ tm' = localtime(made)
  /\ UNCHANGED <<rtc, seconds, read, using>>

(* A second goes by; timer_isr() counts it once the time is set.           *)
Second ==
  /\ seconds < MaxSeconds
  /\ seconds' = seconds + 1 /\ rtc' = rtc + 1
  /\ system_time' = IF system_time = 0 THEN 0 ELSE system_time + 1
  /\ UNCHANGED <<read, tm, using>>

(* Days localtime() puts right.                                            *)
RightDay(day) == ~IsLeap(YearOf(day)) /\ day + LeapsBefore(YearOf(day)) < FirstDay(YearOf(day) + 1)
Ask(t, time) ==
  /\ system_time # 0 /\ using[t] = -1
  /\ Careful => RightDay(time \div Day) /\ \A u \in Tasks : using[u] = -1
  /\ tm' = localtime(time)
  /\ using' = [using EXCEPT ![t] = time]
  /\ UNCHANGED <<rtc, seconds, read, system_time>>

Use(t) ==
  /\ using[t] # -1
  /\ using' = [using EXCEPT ![t] = -1]
  /\ UNCHANGED <<rtc, seconds, read, system_time, tm>>

Next ==
  \/ ReadField \/ SetSystemTime \/ Second
  \/ \E t \in Tasks, time \in Times \cup {system_time} : Ask(t, time)
  \/ \E t \in Tasks : Use(t)

Spec == Init /\ [][Next]_vars
-----------------------------------------------------------------------------
TypeOK ==
  /\ rtc \in Nat /\ seconds \in 0 .. MaxSeconds /\ Len(read) <= Len(Fields)
  /\ system_time \in Nat /\ tm.mon \in 0 .. 11

(* The system's time is the chip's, less the seconds the chip went on while*)
(* it was read (plat_init_sys_time), and a task that reads localtime()'s   *)
(* answer reads the date it asked for.                                     *)
ClockAgrees ==
  /\ system_time # 0 => rtc - seconds <= system_time /\ system_time <= rtc
  /\ \A t \in Tasks : using[t] # -1 => tm = Date(using[t])
=============================================================================
