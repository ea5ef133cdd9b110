------------------------------ MODULE ClockProofs ------------------------------
(***************************************************************************)
(* Proofs about module Clock, for every time at which the clock may start  *)
(* and however long it runs.                                               *)
(***************************************************************************)
EXTENDS Clock, TLAPS

-----------------------------------------------------------------------------
(* The calendar and the digits.                                            *)

LEMMA BinOfBcd ==
  ASSUME NEW n \in 0 .. 99
  PROVE  BCD_TO_BIN(Bcd(n)) = n /\ Bcd(n) \in 0 .. 255
BY SMT DEF BCD_TO_BIN, Bcd

LEMMA BinBounded ==
  ASSUME NEW b \in 0 .. 255
  PROVE  BCD_TO_BIN(b) \in 0 .. 165
BY SMT DEF BCD_TO_BIN

LEMMA DaysBounded ==
  ASSUME NEW t \in Times
  PROVE  DaysIn(t) \in 28 .. 31
BY DEF DaysIn

\* The clock goes from one time of the calendar to another.
LEMMA AdvancedAt ==
  ASSUME NEW t, NEW k \in Registers, NEW r \in Registers
  PROVE  /\ r < k => Advanced(t, k)[r] = t[r]
         /\ r = k => Advanced(t, k)[r] = t[k] + 1
         /\ r > k => Advanced(t, k)[r] = Lowest(r)
BY DEF Advanced, Registers

LEMMA HighestBounded ==
  ASSUME NEW t \in Times, NEW r \in Registers
  PROVE  /\ r # Day => Highest(t, r) \in {12, 23, 59, 99}
         /\ r = Day => Highest(t, r) = DaysIn(t)
         /\ Highest(t, r) \in 12 .. 99
         /\ Lowest(r) \in {0, 1}
BY DaysBounded DEF Highest, Lowest, Registers, Century, Year, Month, Day, Hour,
   Minute, Second

\* The clock goes from one time of the calendar to another.
LEMMA AdvancedIsTime ==
  ASSUME NEW t, IsTime(t), NEW k \in Registers, Carries(t, k)
  PROVE  IsTime(Advanced(t, k))
<1>. DEFINE u == Advanced(t, k)
<1>0. t \in Times /\ \A r \in Registers : t[r] \in Int
  BY DEF IsTime, Times
<1>1. u \in Times
  <2>1. ASSUME NEW r \in Registers PROVE u[r] \in 0 .. 99
    <3>1. t[r] \in 0 .. 99 /\ t[k] \in 0 .. 99
      BY <1>0, <2>1 DEF Times
    <3>2. t[k] < Highest(t, k) /\ Highest(t, k) \in 12 .. 99
      BY <1>0, HighestBounded DEF Carries
    <3>3. Lowest(r) \in {0, 1}
      BY <1>0, <2>1, HighestBounded
    <3>4. /\ r < k => u[r] = t[r]
          /\ r = k => u[r] = t[k] + 1
          /\ r > k => u[r] = Lowest(r)
      BY <2>1, AdvancedAt
    <3>. HIDE DEF u
    <3>. QED  BY <3>1, <3>2, <3>3, <3>4, <2>1 DEF Registers
  <2>. QED  BY <2>1 DEF Advanced, Times
<1>2. ASSUME NEW r \in Registers PROVE u[r] \in Lowest(r) .. Highest(u, r)
  <2>1. /\ r < k => u[r] = t[r]
        /\ r = k => u[r] = t[k] + 1
        /\ r > k => u[r] = Lowest(r)
    BY <1>2, AdvancedAt
  <2>2. DaysIn(u) \in 28 .. 31
    BY <1>1, DaysBounded
  <2>3. t[r] \in Lowest(r) .. Highest(t, r)
    BY <1>2 DEF IsTime
  <2>4. Lowest(r) \in {0, 1} /\ Highest(u, r) \in 12 .. 99
    BY <1>1, <1>2, HighestBounded
  <2>5. r = k => t[r] < Highest(t, r)
    BY DEF Carries
  <2>6. Highest(u, r) = Highest(t, r) \/ r > k \/ (r = Day /\ r < k)
    <3>1. CASE r # Day
      BY <3>1 DEF Highest, Century, Year, Month, Day, Hour, Minute, Second
    <3>2. CASE r = Day /\ r = k
      <4>1. u[Century] = t[Century] /\ u[Year] = t[Year] /\ u[Month] = t[Month]
        BY <3>2, AdvancedAt DEF Registers, Century, Year, Month, Day
      <4>2. DaysIn(u) = DaysIn(t)
        BY <4>1 DEF DaysIn, IsLeap
      <4>. QED  BY <3>2, <4>2, <1>0, <1>1, <1>2, HighestBounded
    <3>. QED  BY <3>1, <3>2, <1>2 DEF Registers
  <2>7. r = Day /\ r < k => Highest(u, r) = Highest(t, r)
    <3>1. SUFFICES ASSUME r = Day, r < k PROVE Highest(u, r) = Highest(t, r)
      OBVIOUS
    <3>2. u[Century] = t[Century] /\ u[Year] = t[Year] /\ u[Month] = t[Month]
      BY <3>1, AdvancedAt DEF Registers, Century, Year, Month, Day
    <3>3. DaysIn(u) = DaysIn(t)
      BY <3>2 DEF DaysIn, IsLeap
    <3>. QED  BY <3>1, <3>3, <1>0, <1>1, <1>2, HighestBounded
  <2>8. t[r] \in Int /\ Highest(t, r) \in Int
    BY <1>0, <1>2, HighestBounded
  <2>. HIDE DEF u
  <2>. QED  BY <2>1, <2>3, <2>4, <2>5, <2>6, <2>7, <2>8, <1>2 DEF Registers
<1>. QED  BY <1>1, <1>2 DEF IsTime

-----------------------------------------------------------------------------
(* Types.                                                                  *)

TypeInv ==
  /\ ClockTypeOK
  /\ IsTime(now) /\ IsTime(start) /\ IsTime(begun)
  /\ call \in {"none", "stamped"} => register = 7

LEMMA ResultType == ClockTypeOK => Result \in [Registers -> 0 .. 165]
<1>. SUFFICES ASSUME ClockTypeOK PROVE Result \in [Registers -> 0 .. 165]
  OBVIOUS
<1>1. ASSUME NEW r \in Registers PROVE BCD_TO_BIN(bytes[r]) \in 0 .. 165
  <2>1. bytes[r] \in 0 .. 255
    BY DEF ClockTypeOK
  <2>. QED  BY <2>1, BinBounded
<1>. QED  BY <1>1 DEF Result

LEMMA ModRange ==
  ASSUME NEW n \in Nat, NEW k \in Nat \ {0}
  PROVE  n % k \in 0 .. (k - 1)
OBVIOUS

LEMMA PackType ==
  ASSUME NEW t \in [Registers -> 0 .. 165]
  PROVE  PackDate(t) \in 0 .. (UINT16 - 1) /\ PackTime(t) \in 0 .. (UINT16 - 1)
<1>1. \A r \in 1 .. 6 : t[r] \in Nat
  BY DEF Registers
<1>2. ASSUME NEW n \in Nat PROVE n % UINT16 \in 0 .. (UINT16 - 1)
  <2>1. UINT16 \in Nat \ {0}
    BY DEF UINT16
  <2>. QED  BY <2>1, ModRange
<1>3. ((t[Century] * 100 + t[Year]) % 100) * 512 + t[Month] * 32 + t[Day] \in Nat
  <2>1. (t[Century] * 100 + t[Year]) % 100 \in Nat
    BY <1>1 DEF Century, Year
  <2>. QED  BY <1>1, <2>1 DEF Month, Day
<1>4. t[Hour] * 256 + t[Minute] \in Nat
  BY <1>1 DEF Hour, Minute
<1>. QED  BY <1>2, <1>3, <1>4 DEF PackDate, PackTime

LEMMA ZeroFits == 0 \in 0 .. (UINT16 - 1)
BY DEF UINT16

LEMMA TimesAreInt == ASSUME NEW t \in Times PROVE t \in [Registers -> Int]
BY DEF Times

LEMMA TypeInit == ClockInit => TypeInv
BY ClockAssumption
DEF ClockInit, TypeInv, ClockTypeOK, NoBytes, IsTime, UINT16, Registers

LEMMA TypeStep == TypeInv /\ [ClockNext]_clockVars => TypeInv'
<1>. SUFFICES ASSUME TypeInv, [ClockNext]_clockVars PROVE TypeInv'
  OBVIOUS
<1>. USE DEF TypeInv, ClockTypeOK
<1>1. CASE Tick
  <2>1. PICK k \in Registers : Carries(now, k) /\ now' = Advanced(now, k)
    BY <1>1 DEF Tick
  <2>2. IsTime(now')
    BY <2>1, AdvancedIsTime
  <2>3. ticks' \in 0 .. MaxTicks
    BY <1>1, ClockAssumption DEF Tick
  <2>. QED  BY <1>1, <2>2, <2>3 DEF Tick, IsTime
<1>2. CASE Stamp
  BY <1>2 DEF Stamp, clock
<1>3. CASE In
  <2>0. register \in Registers /\ register - 1 \in 0 .. 7
    BY <1>3 DEF In, Registers
  <2>1. Bcd(now[register]) \in 0 .. 255
    <3>1. now[register] \in 0 .. 99
      BY <2>0 DEF Times
    <3>. QED  BY <3>1, BinOfBcd
  <2>2. bytes' \in [Registers -> 0 .. 255]
    BY <1>3, <2>1 DEF In
  <2>. QED  BY <1>3, <2>0, <2>2 DEF In, clock
<1>4. CASE GetDate
  <2>1. date' \in 0 .. (UINT16 - 1)
    BY <1>4, ResultType, PackType DEF GetDate
  <2>. QED  BY <1>4, <2>1 DEF GetDate, clock, NoBytes
<1>5. CASE GetTime
  <2>1. time' \in 0 .. (UINT16 - 1)
    BY <1>5, ResultType, PackType DEF GetTime
  <2>. QED  BY <1>5, <2>1 DEF GetTime, clock, NoBytes
<1>6. CASE Stamped
  BY <1>6, ZeroFits DEF Stamped, clock
<1>7. CASE UNCHANGED clockVars
  BY <1>7 DEF clockVars, clock
<1>. QED  BY <1>1, <1>2, <1>3, <1>4, <1>5, <1>6, <1>7 DEF ClockNext

\* Every register holds two digits and every stamp fits sixteen bits.
THEOREM TypeCorrect == ClockSpec => []ClockTypeOK
<1>1. TypeInv => ClockTypeOK
  BY DEF TypeInv
<1>. QED  BY <1>1, TypeInit, TypeStep, PTL DEF ClockSpec

-----------------------------------------------------------------------------
(* The order of times.                                                     *)

\* A tick only makes a time later: what is not earlier before is not after,
\* whichever of the registers from r on downwards take part in it.
LEMMA LaterStaysLater ==
  ASSUME NEW s \in [Registers -> Int], NEW t \in [Registers -> Int],
         NEW u \in [Registers -> Int], ~Earlier(s, u), NEW k \in Registers,
         t[k] > s[k], \A r \in Registers : r < k => t[r] = s[r]
  PROVE  ~Earlier(t, u)
<1>. SUFFICES ASSUME NEW j \in Registers, t[j] < u[j],
                     \A r \in Registers : r < j => t[r] = u[r]
              PROVE  FALSE
  BY DEF Earlier
<1>1. CASE j < k
  <2>1. s[j] < u[j] /\ \A r \in Registers : r < j => s[r] = u[r]
    BY <1>1 DEF Registers
  <2>. QED  BY <2>1 DEF Earlier
<1>2. CASE j >= k
  <2>1. s[k] < u[k] /\ \A r \in Registers : r < k => s[r] = u[r]
    BY <1>2 DEF Registers
  <2>. QED  BY <2>1 DEF Earlier
<1>. QED  BY <1>1, <1>2 DEF Registers

LEMMA NotEarlierThanItself ==
  ASSUME NEW t \in [Registers -> Int]
  PROVE  ~Earlier(t, t)
BY DEF Earlier

\* What get_date_time would hand out if the rest of its reads were made now.
View ==
  [r \in Registers |-> IF r =< register THEN now[r] ELSE BCD_TO_BIN(bytes[r])]

LEMMA ViewTyped ==
  ASSUME NEW t \in Times, NEW b \in [Registers -> 0 .. 255], NEW g \in 0 .. 7
  PROVE  [r \in Registers |-> IF r =< g THEN t[r] ELSE BCD_TO_BIN(b[r])]
           \in [Registers -> Int]
<1>1. ASSUME NEW r \in Registers
      PROVE  t[r] \in Int /\ BCD_TO_BIN(b[r]) \in Int
  <2>1. b[r] \in 0 .. 255
    BY <1>1
  <2>2. BCD_TO_BIN(b[r]) \in 0 .. 165
    BY <2>1, BinBounded
  <2>3. t[r] \in 0 .. 99
    BY <1>1 DEF Times
  <2>. QED  BY <2>2, <2>3
<1>. QED  BY <1>1

LEMMA ViewType == TypeInv => View \in [Registers -> Int] /\ now \in [Registers -> Int]
BY TimesAreInt, ViewTyped DEF TypeInv, ClockTypeOK, View

\* The clock never goes back, and nor does what is read of it.
OrderInv ==
  /\ ~Earlier(now, begun)
  /\ call \in {"date", "time"} => ~Earlier(View, start) /\ ~Earlier(View, begun)

LEMMA OrderInit == ClockInit /\ TypeInv => OrderInv
<1>. SUFFICES ASSUME ClockInit, TypeInv PROVE OrderInv
  OBVIOUS
<1>1. ~Earlier(now, begun)
  BY ViewType, NotEarlierThanItself DEF ClockInit
<1>. QED  BY <1>1 DEF ClockInit, OrderInv

LEMMA ViewInTick ==
  ASSUME TypeInv, TypeInv', NEW k \in Registers, Carries(now, k),
         now' = Advanced(now, k), UNCHANGED <<register, bytes>>,
         NEW u \in [Registers -> Int], ~Earlier(View, u)
  PROVE  ~Earlier(View', u)
<1>1. View \in [Registers -> Int] /\ View' \in [Registers -> Int]
  BY ViewTyped DEF TypeInv, ClockTypeOK, View
<1>2. \A r \in Registers :
         View'[r] = IF r =< register THEN now'[r] ELSE BCD_TO_BIN(bytes[r])
  BY DEF View
<1>3. \A r \in Registers :
         View[r] = IF r =< register THEN now[r] ELSE BCD_TO_BIN(bytes[r])
  BY DEF View
<1>4. register \in 0 .. 7 /\ now[k] \in Int
  BY DEF TypeInv, ClockTypeOK, Times
<1>5. \A r \in Registers : r < k => now'[r] = now[r]
  BY AdvancedAt
<1>6. now'[k] = now[k] + 1
  BY AdvancedAt
<1>7. CASE k > register
  <2>1. \A r \in Registers : View'[r] = View[r]
    BY <1>2, <1>3, <1>4, <1>5, <1>7 DEF Registers
  <2>. QED  BY <2>1 DEF Earlier
<1>8. CASE k =< register
  <2>1. View'[k] > View[k]
    BY <1>2, <1>3, <1>4, <1>6, <1>8
  <2>2. \A r \in Registers : r < k => View'[r] = View[r]
    BY <1>2, <1>3, <1>5
  <2>. QED  BY <1>1, <2>1, <2>2, LaterStaysLater
<1>. QED  BY <1>4, <1>7, <1>8 DEF Registers

LEMMA ViewInRead ==
  ASSUME TypeInv, In
  PROVE  View' = View
<1>1. register \in Registers
  BY DEF In, TypeInv, ClockTypeOK, Registers
<1>2. BCD_TO_BIN(Bcd(now[register])) = now[register]
  <2>1. now[register] \in 0 .. 99
    BY <1>1 DEF TypeInv, ClockTypeOK, Times
  <2>. QED  BY <2>1, BinOfBcd
<1>3. ASSUME NEW r \in Registers
      PROVE  (IF r =< register' THEN now'[r] ELSE BCD_TO_BIN(bytes'[r]))
               = IF r =< register THEN now[r] ELSE BCD_TO_BIN(bytes[r])
  <2>1. /\ bytes'[register] = Bcd(now[register])
        /\ r # register => bytes'[r] = bytes[r]
        /\ register' = register - 1 /\ now' = now
    BY <1>1, <1>3 DEF In, clock, TypeInv, ClockTypeOK
  <2>2. CASE r = register
    BY <1>1, <1>2, <2>1, <2>2 DEF Registers
  <2>3. CASE r # register
    BY <1>1, <1>3, <2>1, <2>3 DEF Registers
  <2>. QED  BY <2>2, <2>3
<1>. QED  BY <1>3 DEF View

LEMMA OrderStep == TypeInv /\ TypeInv' /\ OrderInv /\ [ClockNext]_clockVars => OrderInv'
<1>. SUFFICES ASSUME TypeInv, TypeInv', OrderInv, [ClockNext]_clockVars
              PROVE  OrderInv'
  OBVIOUS
<1>0. /\ now \in [Registers -> Int] /\ now' \in [Registers -> Int]
      /\ start \in [Registers -> Int] /\ begun \in [Registers -> Int]
  BY TimesAreInt DEF TypeInv, ClockTypeOK
<1>1. CASE Tick
  <2>1. PICK k \in Registers : Carries(now, k) /\ now' = Advanced(now, k)
    BY <1>1 DEF Tick
  <2>2. UNCHANGED <<call, register, bytes, start, begun>>
    BY <1>1 DEF Tick
  <2>3. now'[k] > now[k] /\ \A r \in Registers : r < k => now'[r] = now[r]
    BY <1>0, <2>1, AdvancedAt
  <2>4. ~Earlier(now', begun)
    BY <1>0, <2>3, LaterStaysLater DEF OrderInv
  <2>5. ASSUME call \in {"date", "time"}
        PROVE  ~Earlier(View', start) /\ ~Earlier(View', begun)
    BY <1>0, <2>1, <2>2, <2>5, ViewInTick DEF OrderInv
  <2>. QED  BY <2>2, <2>4, <2>5 DEF OrderInv
<1>2. CASE Stamp
  <2>1. register = 7 /\ View' = now
    BY <1>0, <1>2 DEF Stamp, clock, TypeInv, View, Registers
  <2>. QED  BY <1>0, <1>2, <2>1, NotEarlierThanItself DEF Stamp, clock, OrderInv
<1>3. CASE In
  BY <1>3, ViewInRead DEF In, clock, OrderInv
<1>4. CASE GetDate
  <2>1. View' = now
    BY <1>0, <1>4 DEF GetDate, clock, View, Registers
  <2>. QED  BY <1>0, <1>4, <2>1, NotEarlierThanItself DEF GetDate, clock, OrderInv
<1>5. CASE GetTime
  BY <1>5 DEF GetTime, clock, OrderInv
<1>6. CASE Stamped
  BY <1>0, <1>6, NotEarlierThanItself DEF Stamped, clock, OrderInv
<1>7. CASE UNCHANGED clockVars
  BY <1>7 DEF clockVars, clock, OrderInv, View
<1>. QED  BY <1>1, <1>2, <1>3, <1>4, <1>5, <1>6, <1>7 DEF ClockNext

\* Whatever ticks between its reads, get_date_time hands out no time before
\* the one at which it was called.
THEOREM TimeNeverBehind == ClockSpec => []NeverBehind
<1>1. TypeInv /\ OrderInv => NeverBehind
  <2>. SUFFICES ASSUME TypeInv, OrderInv, call \in {"date", "time"}, register = 0
                PROVE  ~Earlier(Result, start)
    BY DEF NeverBehind
  <2>1. View = Result
    BY DEF View, Result, Registers
  <2>. QED  BY <2>1 DEF OrderInv
<1>2. ClockInit => TypeInv /\ OrderInv
  BY TypeInit, OrderInit
<1>3. (TypeInv /\ OrderInv) /\ [ClockNext]_clockVars => (TypeInv /\ OrderInv)'
  BY TypeStep, OrderStep
<1>. QED  BY <1>1, <1>2, <1>3, PTL DEF ClockSpec

-----------------------------------------------------------------------------
(* The stamp.                                                              *)

\* The registers read so far, down to k, are those of the moment the stamp was
\* asked for.
Kept(k) ==
  SteadySince(k) =>
    \A r \in Registers : register < r /\ r =< k => BCD_TO_BIN(bytes[r]) = begun[r]

StampInv ==
  /\ call \in {"date", "time"} => \A k \in Registers : Kept(k)
  /\ call \in {"time", "stamped"} /\ SteadySince(Day) => date = PackDate(begun)
  /\ call = "stamped" /\ SteadySince(Minute) => time = PackTime(begun)
  /\ call = "stamped" /\ SteadySince(Day) => time >= PackTime(begun)

LEMMA StampInit == ClockInit => StampInv
BY DEF ClockInit, StampInv

\* A clock that shows the registers down to k as they were has not changed
\* them in between.
LEMMA SteadyBefore ==
  ASSUME TypeInv, OrderInv, NEW k \in Registers, Tick, SteadySince(k)'
  PROVE  SteadySince(k)
<1>1. PICK c \in Registers : Carries(now, c) /\ now' = Advanced(now, c)
  BY DEF Tick
<1>2. \A r \in Registers : r =< k => now'[r] = begun[r]
  BY DEF SteadySince, Tick
<1>3. \A r \in Registers : r < c => now'[r] = now[r]
  BY <1>1, AdvancedAt
<1>4. now'[c] = now[c] + 1 /\ now[c] \in Int
  <2>1. now[c] \in 0 .. 99
    BY DEF TypeInv, ClockTypeOK, Times
  <2>. QED  BY <1>1, <2>1, AdvancedAt
<1>5. CASE c =< k
  <2>1. now[c] < begun[c] /\ \A r \in Registers : r < c => now[r] = begun[r]
    BY <1>2, <1>3, <1>4, <1>5 DEF Registers
  <2>. QED  BY <2>1 DEF Earlier, OrderInv
<1>6. CASE c > k
  BY <1>2, <1>3, <1>6 DEF SteadySince, Registers
<1>. QED  BY <1>5, <1>6 DEF Registers

LEMMA KeptInRead ==
  ASSUME TypeInv, In, NEW k \in Registers, Kept(k)
  PROVE  Kept(k)'
<1>. SUFFICES ASSUME SteadySince(k)', NEW r \in Registers, register' < r, r =< k
              PROVE  BCD_TO_BIN(bytes'[r]) = begun'[r]
  BY DEF Kept
<1>0. register \in Registers
  BY DEF In, TypeInv, ClockTypeOK, Registers
<1>1. /\ bytes'[register] = Bcd(now[register])
      /\ r # register => bytes'[r] = bytes[r]
      /\ register' = register - 1 /\ now' = now /\ begun' = begun
  BY <1>0 DEF In, clock, TypeInv, ClockTypeOK
<1>2. SteadySince(k)
  BY <1>1 DEF SteadySince
<1>3. CASE r = register
  <2>1. now[r] \in 0 .. 99 /\ now[r] = begun[r]
    BY <1>2 DEF TypeInv, ClockTypeOK, Times, SteadySince
  <2>2. BCD_TO_BIN(Bcd(now[r])) = now[r]
    BY <2>1, BinOfBcd
  <2>. QED  BY <1>1, <1>3, <2>1, <2>2
<1>4. CASE r # register
  <2>1. register < r
    BY <1>0, <1>1, <1>4 DEF Registers
  <2>. QED  BY <1>1, <1>2, <1>4, <2>1 DEF Kept
<1>. QED  BY <1>3, <1>4

\* All registers are read.
LEMMA ResultKept ==
  ASSUME TypeInv, NEW k \in Registers, register = 0, SteadySince(k), Kept(k)
  PROVE  \A r \in Registers : r =< k => Result[r] = begun[r]
BY DEF Kept, Result, Registers

LEMMA PackTimeIs ==
  ASSUME NEW t, t[Hour] \in 0 .. 165, t[Minute] \in 0 .. 165
  PROVE  /\ PackTime(t) = t[Hour] * 256 + t[Minute]
         /\ PackTime(t) \div 256 = t[Hour] /\ PackTime(t) % 256 = t[Minute]
<1>. DEFINE h == t[Hour]  m == t[Minute]  n == h * 256 + m
<1>1. h \in Nat /\ m \in Nat /\ h =< 165 /\ m =< 165
  OBVIOUS
<1>2. PackTime(t) = n % UINT16
  BY DEF PackTime
<1>. HIDE DEF h, m
<1>3. n % UINT16 = n
  BY <1>1, SMTT(30) DEF UINT16
<1>4. n \div 256 = h
  BY <1>1, SMTT(30)
<1>5. n % 256 = m
  BY <1>1, SMTT(30)
<1>. HIDE DEF n
<1>6. PackTime(t) = n
  BY <1>2, <1>3
<1>7. PackTime(t) \div 256 = h /\ PackTime(t) % 256 = m
  BY <1>4, <1>5, <1>6
<1>. QED  BY <1>6, <1>7 DEF h, m, n

\* A later time has a later hour and minute, when the day is the same.
LEMMA PackInOrder ==
  ASSUME NEW t \in [Registers -> 0 .. 165], NEW u \in Times, ~Earlier(t, u),
         \A r \in Registers : r =< Day => t[r] = u[r]
  PROVE  PackTime(t) >= PackTime(u)
<1>1. /\ t[Hour] \in 0 .. 165 /\ t[Minute] \in 0 .. 165
      /\ u[Hour] \in 0 .. 99 /\ u[Minute] \in 0 .. 99
  BY DEF Registers, Times, Hour, Minute
<1>2. ~(t[Hour] < u[Hour])
  <2>1. \A r \in Registers : r < Hour => t[r] = u[r]
    BY DEF Registers, Day, Hour
  <2>. QED  BY <2>1 DEF Earlier, Registers, Hour
<1>3. ~(t[Hour] = u[Hour] /\ t[Minute] < u[Minute])
  <2>1. t[Hour] = u[Hour] => \A r \in Registers : r < Minute => t[r] = u[r]
    BY DEF Registers, Day, Hour, Minute
  <2>. QED  BY <2>1 DEF Earlier, Registers, Minute
<1>4. t[Hour] * 256 + t[Minute] >= u[Hour] * 256 + u[Minute]
  <2>. DEFINE h == t[Hour]  m == t[Minute]  hour == u[Hour]  minute == u[Minute]
  <2>1. /\ h \in Nat /\ m \in Nat /\ hour \in Nat /\ minute \in Nat
        /\ minute =< 99 /\ ~(h < hour) /\ ~(h = hour /\ m < minute)
    BY <1>1, <1>2, <1>3
  <2>. HIDE DEF h, m, hour, minute
  <2>2. h * 256 + m >= hour * 256 + minute
    BY <2>1
  <2>. QED  BY <2>2 DEF h, m, hour, minute
<1>5. u[Hour] \in 0 .. 165 /\ u[Minute] \in 0 .. 165
  BY <1>1
<1>6. PackTime(t) = t[Hour] * 256 + t[Minute]
  BY <1>1, PackTimeIs
<1>7. PackTime(u) = u[Hour] * 256 + u[Minute]
  BY <1>5, PackTimeIs
<1>. QED  BY <1>4, <1>6, <1>7

LEMMA StampStep ==
  TypeInv /\ OrderInv /\ StampInv /\ [ClockNext]_clockVars => StampInv'
<1>. SUFFICES ASSUME TypeInv, OrderInv, StampInv, [ClockNext]_clockVars
              PROVE  StampInv'
  OBVIOUS
<1>0. Day \in Registers /\ Minute \in Registers
  BY DEF Day, Minute, Registers
<1>1. CASE Tick
  <2>1. UNCHANGED <<call, register, bytes, date, time, begun>>
    BY <1>1 DEF Tick
  <2>2. \A k \in Registers : SteadySince(k)' => SteadySince(k)
    BY <1>1, SteadyBefore
  <2>3. \A k \in Registers : Kept(k) => Kept(k)'
    BY <2>1, <2>2 DEF Kept
  <2>. QED  BY <1>0, <2>1, <2>2, <2>3 DEF StampInv
<1>2. CASE Stamp
  <2>1. register' = 7 /\ call' = "date"
    BY <1>2 DEF Stamp, TypeInv
  <2>. QED  BY <2>1 DEF StampInv, Kept, Registers
<1>3. CASE In
  <2>1. UNCHANGED <<now, call, date, time, begun>> /\ call \in {"date", "time"}
    BY <1>3 DEF In, clock
  <2>2. \A k \in Registers : Kept(k)'
    BY <1>3, <2>1, KeptInRead DEF StampInv
  <2>3. \A k \in Registers : SteadySince(k)' <=> SteadySince(k)
    BY <2>1 DEF SteadySince
  <2>. QED  BY <1>0, <2>1, <2>2, <2>3 DEF StampInv
<1>4. CASE GetDate
  <2>1. /\ register = 0 /\ register' = 7 /\ call = "date" /\ call' = "time"
        /\ UNCHANGED <<now, begun>> /\ date' = PackDate(Result)
    BY <1>4 DEF GetDate, clock
  <2>2. ASSUME SteadySince(Day)' PROVE date' = PackDate(begun')
    <3>1. SteadySince(Day)
      BY <2>1, <2>2 DEF SteadySince
    <3>2. \A r \in Registers : r =< Day => Result[r] = begun[r]
      BY <1>0, <2>1, <3>1, ResultKept DEF StampInv
    <3>3. /\ Result[Century] = begun[Century] /\ Result[Year] = begun[Year]
          /\ Result[Month] = begun[Month] /\ Result[Day] = begun[Day]
      BY <3>2 DEF Registers, Century, Year, Month, Day
    <3>. QED  BY <2>1, <3>3 DEF PackDate
  <2>. QED  BY <2>1, <2>2 DEF StampInv, Kept, Registers
<1>5. CASE GetTime
  <2>1. /\ register = 0 /\ call = "time" /\ call' = "stamped"
        /\ UNCHANGED <<now, begun, date>> /\ time' = PackTime(Result)
    BY <1>5 DEF GetTime, clock
  <2>2. \A k \in Registers : SteadySince(k)' => SteadySince(k)
    BY <2>1 DEF SteadySince
  <2>3. ASSUME SteadySince(Minute) PROVE time' = PackTime(begun)
    <3>1. \A r \in Registers : r =< Minute => Result[r] = begun[r]
      BY <1>0, <2>1, <2>3, ResultKept DEF StampInv
    <3>2. Result[Hour] = begun[Hour] /\ Result[Minute] = begun[Minute]
      BY <3>1 DEF Registers, Hour, Minute
    <3>. QED  BY <2>1, <3>2 DEF PackTime
  <2>4. ASSUME SteadySince(Day) PROVE time' >= PackTime(begun)
    <3>1. \A r \in Registers : r =< Day => Result[r] = begun[r]
      BY <1>0, <2>1, <2>4, ResultKept DEF StampInv
    <3>2. View = Result
      BY <2>1 DEF View, Result, Registers
    <3>3. ~Earlier(Result, begun)
      BY <2>1, <3>2 DEF OrderInv
    <3>4. Result \in [Registers -> 0 .. 165] /\ begun \in Times
      BY ResultType DEF TypeInv, ClockTypeOK
    <3>. QED  BY <2>1, <3>1, <3>3, <3>4, PackInOrder
  <2>. QED  BY <1>0, <2>1, <2>2, <2>3, <2>4 DEF StampInv
<1>6. CASE Stamped
  BY <1>6 DEF Stamped, StampInv
<1>7. CASE UNCHANGED clockVars
  BY <1>7 DEF clockVars, clock, StampInv, Kept, SteadySince
<1>. QED  BY <1>1, <1>2, <1>3, <1>4, <1>5, <1>6, <1>7 DEF ClockNext

LEMMA ClockInductive ==
  ClockSpec => [](TypeInv /\ OrderInv /\ StampInv)
<1>1. ClockInit => TypeInv /\ OrderInv /\ StampInv
  BY TypeInit, OrderInit, StampInit
<1>2. (TypeInv /\ OrderInv /\ StampInv) /\ [ClockNext]_clockVars
        => (TypeInv /\ OrderInv /\ StampInv)'
  BY TypeStep, OrderStep, StampStep
<1>. QED  BY <1>1, <1>2, PTL DEF ClockSpec

\* A stamp lies before the moment it was asked for only if the day ended while
\* it was made: the date is then that of one day and the time that of the next.
THEOREM StampsInOrder == ClockSpec => []StampBehindOnlyAtMidnight
<1>1. StampInv => StampBehindOnlyAtMidnight
  BY DEF StampInv, StampBehindOnlyAtMidnight
<1>. QED  BY <1>1, ClockInductive, PTL

\* The fields of a date that the calendar has do not run into each other.
LEMMA DateFields ==
  ASSUME NEW t, IsTime(t)
  PROVE  /\ PackDate(t) \div 512 = t[Year]
         /\ (PackDate(t) \div 32) % 16 = t[Month]
         /\ PackDate(t) % 32 = t[Day]
<1>1. t[Century] \in 0 .. 99 /\ t[Year] \in 0 .. 99
  BY DEF IsTime, Times, Registers, Century, Year
<1>2. t[Month] \in 1 .. 12
  <2>1. Lowest(Month) = 1 /\ Highest(t, Month) = 12 /\ Month \in Registers
    BY DEF Lowest, Highest, Registers, Century, Year, Month, Day, Hour, Minute, Second
  <2>. QED  BY <2>1 DEF IsTime
<1>3. t[Day] \in 1 .. 31
  <2>1. Lowest(Day) = 1 /\ Highest(t, Day) = DaysIn(t) /\ Day \in Registers
    BY DEF Lowest, Highest, Registers, Century, Year, Month, Day, Hour, Minute, Second
  <2>2. DaysIn(t) \in 28 .. 31
    BY DaysBounded DEF IsTime
  <2>3. t[Day] \in Lowest(Day) .. Highest(t, Day)
    BY <2>1 DEF IsTime
  <2>. QED  BY <2>1, <2>2, <2>3
<1>. DEFINE c == t[Century]  y == t[Year]  m == t[Month]  d == t[Day]
            n == y * 512 + m * 32 + d
<1>4. PackDate(t) = (((c * 100 + y) % 100) * 512 + m * 32 + d) % UINT16
  BY DEF PackDate
<1>5. /\ c \in Nat /\ y \in Nat /\ m \in Nat /\ d \in Nat
      /\ y =< 99 /\ m =< 12 /\ d =< 31
  BY <1>1, <1>2, <1>3
<1>. HIDE DEF c, y, m, d
<1>6. (c * 100 + y) % 100 = y
  BY <1>5, SMTT(30)
<1>7. PackDate(t) = n % UINT16
  BY <1>4, <1>6
<1>8. n % UINT16 = n
  BY <1>5, SMTT(30) DEF UINT16
<1>9. n \div 512 = y
  BY <1>5, SMTT(30)
<1>10. n \div 32 = y * 16 + m
  BY <1>5, SMTT(30)
<1>11. (y * 16 + m) % 16 = m
  BY <1>5, SMTT(30)
<1>12. n % 32 = d
  BY <1>5, SMTT(30)
<1>. HIDE DEF n
<1>13. PackDate(t) = n
  BY <1>7, <1>8
<1>14. (PackDate(t) \div 32) % 16 = m
  BY <1>10, <1>11, <1>13
<1>. QED  BY <1>9, <1>12, <1>13, <1>14 DEF y, m, d

LEMMA TimeFields ==
  ASSUME NEW t, IsTime(t)
  PROVE  PackTime(t) \div 256 = t[Hour] /\ PackTime(t) % 256 = t[Minute]
<1>1. t[Hour] \in 0 .. 99 /\ t[Minute] \in 0 .. 99
  BY DEF IsTime, Times, Registers, Hour, Minute
<1>2. t[Hour] \in 0 .. 165 /\ t[Minute] \in 0 .. 165
  BY <1>1
<1>. QED  BY <1>2, PackTimeIs

\* A stamp that no minute interrupted reads as the time at which it was made.
THEOREM StampsExact == ClockSpec => []StampExact
<1>1. TypeInv /\ StampInv => StampExact
  <2>. SUFFICES ASSUME TypeInv, StampInv, call = "stamped", SteadySince(Minute)
                PROVE  /\ date \div 512 = now[Year]
                       /\ (date \div 32) % 16 = now[Month]
                       /\ date % 32 = now[Day]
                       /\ time \div 256 = now[Hour]
                       /\ time % 256 = now[Minute]
    BY DEF StampExact
  <2>1. SteadySince(Day)
    BY DEF SteadySince, Day, Minute, Registers
  <2>2. date = PackDate(begun) /\ time = PackTime(begun)
    BY <2>1 DEF StampInv
  <2>3. IsTime(begun)
    BY DEF TypeInv
  <2>4. /\ now[Year] = begun[Year] /\ now[Month] = begun[Month]
        /\ now[Day] = begun[Day] /\ now[Hour] = begun[Hour]
        /\ now[Minute] = begun[Minute]
    BY DEF SteadySince, Registers, Year, Month, Day, Hour, Minute
  <2>. QED  BY <2>2, <2>3, <2>4, DateFields, TimeFields
<1>. QED  BY <1>1, ClockInductive, PTL
=============================================================================
