--------------------------------- MODULE Clock ---------------------------------
(***************************************************************************)
(* The real-time clock (rtc.c) and the stamps that write and delete make   *)
(* with it (fat32.c:206-213): get_date, then get_time, and each of them    *)
(* reads the seven registers of get_date_time one after the other while    *)
(* the clock ticks.                                                        *)
(*                                                                         *)
(* A time is a tuple over the registers, the century first.  The clock     *)
(* shows BCD digits and changes all of its registers at once.              *)
(***************************************************************************)
EXTENDS Integers

CONSTANTS
  Starts,         \* what the clock may show first
  MaxTicks        \* bound on the seconds that go by

Century == 1
Year    == 2
Month   == 3
Day     == 4
Hour    == 5
Minute  == 6
Second  == 7

Registers == 1 .. 7

\* A register has two digits.
Times == [Registers -> 0 .. 99]

UINT16 == 65536

-----------------------------------------------------------------------------
(* The device.                                                             *)

IsLeap(t) ==
  LET year == t[Century] * 100 + t[Year] IN
    year % 4 = 0 /\ (year % 100 # 0 \/ year % 400 = 0)

DaysIn(t) ==
  CASE t[Month] = 2 -> IF IsLeap(t) THEN 29 ELSE 28
    [] t[Month] \in {4, 6, 9, 11} -> 30
    [] OTHER -> 31

Lowest(r) == IF r \in {Month, Day} THEN 1 ELSE 0

Highest(t, r) ==
  CASE r \in {Century, Year}  -> 99
    [] r = Month             -> 12
    [] r = Day               -> DaysIn(t)
    [] r = Hour              -> 23
    [] r \in {Minute, Second} -> 59

\* A time that the calendar has.
IsTime(t) ==
  /\ t \in Times
  /\ \A r \in Registers : t[r] \in Lowest(r) .. Highest(t, r)

ASSUME ClockAssumption ==
  /\ \A t \in Starts : IsTime(t)
  /\ MaxTicks \in Nat

\* Register r is the one that goes up, those below it start over.
Carries(t, r) ==
  /\ t[r] < Highest(t, r)
  /\ \A q \in Registers : q > r => t[q] = Highest(t, q)

Advanced(t, r) ==
  [q \in Registers |-> CASE q < r -> t[q]
                         [] q = r -> t[q] + 1
                         [] q > r -> Lowest(q)]

Bcd(n) == (n \div 10) * 16 + (n % 10)

VARIABLES
  now, ticks,     \* the clock
  call,           \* none, date, time (get_date, then get_time), stamped
  register,       \* the next register of get_date_time, from 7 down to 1
  bytes,          \* what has been read of them
  date, time,     \* the stamp
  start,          \* now, when the call began; not in the code
  begun           \* now, when get_date began; not in the code

clock == <<now, ticks>>
clockVars == <<clock, call, register, bytes, date, time, start, begun>>

-----------------------------------------------------------------------------
(* rtc.c *)

\* A mutation: the byte is taken as it is.
BCD_TO_BIN_Forgotten(val) == val

BCD_TO_BIN(val) == (val % 16) + (val \div 16) * 10

\* What get_date_time hands out.
Result == [r \in Registers |-> BCD_TO_BIN(bytes[r])]

\* A mutation: the digits HHMMSS that rtc.h describes, in a wider integer.
PackTimeDigits(t) == t[Hour] * 10000 + t[Minute] * 100 + t[Second]

\* The date of get_date and the time of get_time, sixteen bits each.
PackDate(t) ==
  (((t[Century] * 100 + t[Year]) % 100) * 512 + t[Month] * 32 + t[Day]) % UINT16

PackTime(t) == (t[Hour] * 256 + t[Minute]) % UINT16

NoBytes == [r \in Registers |-> 0]

ClockInit ==
  /\ now \in Starts /\ ticks = 0
  /\ call = "none" /\ register = 7 /\ bytes = NoBytes
  /\ date = 0 /\ time = 0
  /\ start = now /\ begun = now

Tick ==
  /\ ticks < MaxTicks
  /\ \E r \in Registers : Carries(now, r) /\ now' = Advanced(now, r)
  /\ ticks' = ticks + 1
  /\ UNCHANGED <<call, register, bytes, date, time, start, begun>>

\* write or delete asks for the date.
Stamp ==
  /\ call = "none"
  /\ call' = "date"
  /\ start' = now /\ begun' = now
  /\ UNCHANGED <<clock, register, bytes, date, time>>

\* A mutation: the registers in the order of the calendar.
InFromCentury ==
  /\ call \in {"date", "time"} /\ register > 0
  /\ bytes' = [bytes EXCEPT ![8 - register] = Bcd(now[8 - register])]
  /\ register' = register - 1
  /\ UNCHANGED <<clock, call, date, time, start, begun>>

\* The next register of get_date_time.
In ==
  /\ call \in {"date", "time"} /\ register > 0
  /\ bytes' = [bytes EXCEPT ![register] = Bcd(now[register])]
  /\ register' = register - 1
  /\ UNCHANGED <<clock, call, date, time, start, begun>>

\* get_date returns, and get_time is called.
GetDate ==
  /\ call = "date" /\ register = 0
  /\ date' = PackDate(Result)
  /\ call' = "time" /\ register' = 7 /\ bytes' = NoBytes
  /\ start' = now
  /\ UNCHANGED <<clock, time, begun>>

\* get_time returns: the stamp goes into the entry.
GetTime ==
  /\ call = "time" /\ register = 0
  /\ time' = PackTime(Result)
  /\ call' = "stamped" /\ register' = 7 /\ bytes' = NoBytes
  /\ UNCHANGED <<clock, date, start, begun>>

Stamped ==
  /\ call = "stamped"
  /\ call' = "none"
  /\ date' = 0 /\ time' = 0 /\ start' = now /\ begun' = now
  /\ UNCHANGED <<clock, register, bytes>>

ClockNext == Tick \/ Stamp \/ In \/ GetDate \/ GetTime \/ Stamped

ClockSpec == ClockInit /\ [][ClockNext]_clockVars

-----------------------------------------------------------------------------
(* Properties.                                                             *)

ClockTypeOK ==
  /\ now \in Times /\ ticks \in 0 .. MaxTicks
  /\ call \in {"none", "date", "time", "stamped"}
  /\ register \in 0 .. 7
  /\ bytes \in [Registers -> 0 .. 255]
  /\ date \in 0 .. (UINT16 - 1) /\ time \in 0 .. (UINT16 - 1)
  /\ start \in Times /\ begun \in Times

Earlier(s, t) ==
  \E k \in Registers : s[k] < t[k] /\ \A j \in Registers : j < k => s[j] = t[j]

\* Whatever ticks between the reads of rtc.c:6-19, get_date_time never hands
\* out a time before the one at which it was called: it reads the seconds
\* first and the century last.  (It may hand out a later one than there is.)
NeverBehind ==
  call \in {"date", "time"} /\ register = 0 => ~Earlier(Result, start)

\* No register above or at k changed while the stamp was made.
SteadySince(k) == \A r \in Registers : r =< k => now[r] = begun[r]

\* The stamp reads as the time at which it was made, unless a minute went by
\* meanwhile: two digits of the year, month, day, hour and minute.
StampExact ==
  call = "stamped" /\ SteadySince(Minute) =>
    /\ date \div 512 = now[Year]
    /\ (date \div 32) % 16 = now[Month]
    /\ date % 32 = now[Day]
    /\ time \div 256 = now[Hour]
    /\ time % 256 = now[Minute]

\* write and delete ask for the date first and then for the time, and nothing
\* keeps the two together (fat32.c:206-212): only when the day ends meanwhile
\* may a stamp lie before the moment it was asked for.
StampBehindOnlyAtMidnight ==
  call = "stamped" /\ SteadySince(Day) =>
    date = PackDate(begun) /\ time >= PackTime(begun)
=============================================================================
