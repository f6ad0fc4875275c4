-------------------------- MODULE StripControlProofs --------------------------
(***************************************************************************)
(* Proofs about StripControl: the clock arithmetic of the schedule and the *)
(* interleavings of the tasks that share the port and the status byte, for *)
(* every length of minute, day and week, every set of commands and any     *)
(* number of them.                                                         *)
(***************************************************************************)
EXTENDS StripControl, TLAPS

(* Clock arithmetic. *)

\* Quotient and remainder, and the only pair of numbers that are these.
LEMMA DivMod ==
    ASSUME NEW a \in Nat, NEW n \in Nat \ {0}
    PROVE  /\ a \div n \in Nat /\ a % n \in 0..(n - 1)
           /\ (a \div n) * n \in Nat /\ a = (a \div n) * n + (a % n)
<1>1. a \div n \in Nat /\ a % n \in 0..(n - 1)
  BY SMT
<1>2. a = n * (a \div n) + (a % n)
  BY SMT
<1>3. \A x, y \in Nat : x * y = y * x /\ x * y \in Nat
  BY SMT
<1> QED
  BY <1>1, <1>2, <1>3

LEMMA Products ==
    /\ \A x, y \in Nat : x * y \in Nat
    /\ \A x, y, z \in Nat : (x + y) * z = x * z + y * z
    /\ \A x, y, z \in Nat : x <= y => x * z <= y * z
    /\ \A x, y \in Nat : x > 0 /\ y > 0 => x * y > 0
BY SMT

LEMMA DivModUnique ==
    ASSUME NEW n \in Nat \ {0}, NEW q \in Nat, NEW r \in 0..(n - 1)
    PROVE  (q * n + r) \div n = q /\ (q * n + r) % n = r
<1> DEFINE a == q * n + r
           p == a \div n
<1>1. q * n \in Nat /\ a \in Nat
  BY Products
<1>2. p \in Nat /\ a % n \in 0..(n - 1) /\ p * n \in Nat /\ a = p * n + (a % n)
  BY <1>1, DivMod
<1>3. \A x, y \in Nat : x < y => (x * n) + n <= y * n
  <2> TAKE x, y \in Nat
  <2> HAVE x < y
  <2>1. (x + 1) * n <= y * n
    BY Products
  <2>2. (x + 1) * n = x * n + 1 * n /\ 1 * n = n
    BY Products
  <2> QED
    BY <2>1, <2>2
<1> HIDE DEF p
<1>4. ~(p < q)
  BY <1>1, <1>2, <1>3
<1>5. ~(q < p)
  BY <1>1, <1>2, <1>3
<1>6. p = q
  BY <1>2, <1>4, <1>5
<1>7. a % n = r
  BY <1>1, <1>2, <1>6
<1> QED
  BY <1>6, <1>7 DEF p

\* Whole units pass, the rest stays.
LEMMA Shift ==
    ASSUME NEW a \in Nat, NEW n \in Nat \ {0}, NEW q \in Nat
    PROVE  (a + q * n) \div n = (a \div n) + q /\ (a + q * n) % n = a % n
<1> DEFINE p == a \div n
           r == a % n
<1>1. p \in Nat /\ r \in 0..(n - 1) /\ p * n \in Nat /\ a = p * n + r /\ q * n \in Nat
  BY DivMod, Products
<1> HIDE DEF p, r
<1>2. (p + q) * n = p * n + q * n
  BY <1>1, Products
<1>3. a + q * n = (p + q) * n + r
  BY <1>1, <1>2
<1>4. p + q \in Nat
  BY <1>1
<1>5. (a + q * n) \div n = p + q /\ (a + q * n) % n = r
  BY <1>1, <1>3, <1>4, DivModUnique
<1> QED
  BY <1>5 DEF p, r

\* The parameters of the clock.
LEMMA ClockUnits ==
    /\ OS_TICKS_PER_SEC \in Nat \ {0} /\ MinuteSecs \in Nat \ {0}
    /\ DayMinutes \in Nat \ {0} /\ ClockStart \in Nat /\ TickWrap \in Nat \ {0}
    /\ DayTicks \in Nat \ {0}
<1>1. /\ OS_TICKS_PER_SEC \in Nat \ {0} /\ MinuteSecs \in Nat \ {0}
      /\ DayMinutes \in Nat \ {0} /\ ClockStart \in Nat /\ TickWrap \in Nat \ {0}
  BY StripConstants
<1>2. DayMinutes * MinuteSecs \in Nat /\ DayMinutes * MinuteSecs > 0
  BY <1>1, Products
<1>3. DayTicks \in Nat /\ DayTicks > 0
  BY <1>1, <1>2, Products DEF DayTicks
<1> QED
  BY <1>1, <1>3

LEMMA ClockTypes ==
    ASSUME NEW ticks \in Nat
    PROVE  SystemSec(ticks) \in Nat /\ SystemMinute(ticks) \in Minutes
<1>1. ticks \div OS_TICKS_PER_SEC \in Nat
  BY ClockUnits, DivMod
<1>2. SystemSec(ticks) \in Nat
  BY <1>1, ClockUnits DEF SystemSec
<1>3. SystemSec(ticks) \div MinuteSecs \in Nat
  BY <1>2, ClockUnits, DivMod
<1>4. (SystemSec(ticks) \div MinuteSecs) % DayMinutes \in 0..(DayMinutes - 1)
  BY <1>3, ClockUnits, DivMod
<1> QED
  BY <1>2, <1>4 DEF SystemMinute, Minutes

LEMMA SecondsPass ==
    ASSUME NEW ticks \in Nat, NEW v \in Nat
    PROVE  SystemSec(ticks + v * OS_TICKS_PER_SEC) = SystemSec(ticks) + v
<1>1. (ticks + v * OS_TICKS_PER_SEC) \div OS_TICKS_PER_SEC
        = (ticks \div OS_TICKS_PER_SEC) + v
  BY ClockUnits, Shift
<1>2. ticks \div OS_TICKS_PER_SEC \in Nat
  BY ClockUnits, DivMod
<1> QED
  BY <1>1, <1>2, ClockUnits DEF SystemSec

\* When some seconds bring the clock to minute a + d of its count, the day
\* shows the minute that is d on from now.
LEMMA MinutesPass ==
    ASSUME NEW ticks \in Nat, NEW v \in Nat, NEW d \in Nat, NEW b \in 0..(MinuteSecs - 1),
           SystemSec(ticks) + v = ((SystemSec(ticks) \div MinuteSecs) + d) * MinuteSecs + b
    PROVE  SystemMinute(ticks + v * OS_TICKS_PER_SEC)
             = ((SystemSec(ticks) \div MinuteSecs) + d) % DayMinutes
<1> DEFINE s == SystemSec(ticks)
           a == s \div MinuteSecs
<1>1. s \in Nat /\ a \in Nat /\ a + d \in Nat
  <2>1. s \in Nat
    BY ClockTypes
  <2>2. a \in Nat
    BY <2>1, ClockUnits, DivMod
  <2> QED
    BY <2>1, <2>2
<1>2. SystemSec(ticks + v * OS_TICKS_PER_SEC) = s + v
  BY SecondsPass
<1> HIDE DEF s, a
<1>3. s + v = (a + d) * MinuteSecs + b
  BY DEF s, a
<1>4. (s + v) \div MinuteSecs = a + d
  BY <1>1, <1>3, ClockUnits, DivModUnique
<1>5. SystemMinute(ticks + v * OS_TICKS_PER_SEC) = (a + d) % DayMinutes
  BY <1>2, <1>4 DEF SystemMinute
<1> QED
  BY <1>5 DEF a, s

\* A day later the clock shows the same minute: the timer that timer_on_task
\* starts again runs out in the minute of the first day.
LEMMA DayPasses ==
    ASSUME NEW ticks \in Nat
    PROVE  SystemMinute(ticks + DayTicks) = SystemMinute(ticks)
<1> DEFINE v == DayMinutes * MinuteSecs
           s == SystemSec(ticks)
           a == s \div MinuteSecs
           b == s % MinuteSecs
<1>1. v \in Nat
  BY ClockUnits, Products
<1>2. s \in Nat
  BY ClockTypes
<1>3. a \in Nat /\ b \in 0..(MinuteSecs - 1) /\ a * MinuteSecs \in Nat
      /\ s = a * MinuteSecs + b
  BY <1>2, ClockUnits, DivMod
<1>4. DayTicks = v * OS_TICKS_PER_SEC
  BY DEF DayTicks
<1>5. (a + DayMinutes) * MinuteSecs = a * MinuteSecs + v
  BY <1>3, ClockUnits, Products
<1> HIDE DEF v
<1>6. s + v = (a + DayMinutes) * MinuteSecs + b
  BY <1>1, <1>3, <1>5
<1>7. SystemMinute(ticks + v * OS_TICKS_PER_SEC) = (a + DayMinutes) % DayMinutes
  BY <1>1, <1>3, <1>6, ClockUnits, MinutesPass
<1>8. (a + DayMinutes) % DayMinutes = a % DayMinutes
  <2>1. (a + 1 * DayMinutes) % DayMinutes = a % DayMinutes
    BY <1>3, ClockUnits, Shift
  <2>2. 1 * DayMinutes = DayMinutes
    BY ClockUnits
  <2> QED
    BY <2>1, <2>2
<1> QED
  BY <1>4, <1>7, <1>8 DEF SystemMinute

\* timing_value brings the clock to the minute it is asked for, unless that
\* is the minute that is running.
LEMMA TimingValueIsRight ==
    ASSUME NEW ticks \in Nat, NEW m \in Minutes
    PROVE  /\ TimingValue(m, ticks) \in Nat \ {0}
           /\ SystemMinute(ticks) = m => TimingValue(m, ticks) = 1
           /\ SystemMinute(ticks) # m =>
                SystemMinute(ticks + TimingValue(m, ticks)) = m
<1> DEFINE s == SystemSec(ticks)
           a == s \div MinuteSecs
           b == s % MinuteSecs
           now == SystemMinute(ticks)
           c == a \div DayMinutes
<1>1. s \in Nat /\ now \in Minutes
  BY ClockTypes
<1>2. a \in Nat /\ b \in 0..(MinuteSecs - 1) /\ a * MinuteSecs \in Nat
      /\ s = a * MinuteSecs + b
  BY <1>1, ClockUnits, DivMod
<1>3. c \in Nat /\ c * DayMinutes \in Nat /\ a = c * DayMinutes + now
  BY <1>2, ClockUnits, DivMod DEF SystemMinute
<1>4. m \in Nat /\ now \in Nat /\ m < DayMinutes /\ now < DayMinutes
  BY <1>1, ClockUnits DEF Minutes
<1>5. CASE now = m
  <2>1. TimingValue(m, ticks) = 1
    BY <1>4, <1>5 DEF TimingValue
  <2> QED
    BY <1>5, <2>1
<1>6. CASE now < m
  <2> DEFINE d == m - now
             v == d * MinuteSecs - b
  <2>1. d \in Nat /\ d > 0
    BY <1>4, <1>6
  <2>2. 1 * MinuteSecs <= d * MinuteSecs /\ d * MinuteSecs \in Nat
    BY <2>1, ClockUnits, Products
  <2>3. v \in Nat /\ v > 0
    <3>1. 1 * MinuteSecs = MinuteSecs /\ MinuteSecs \in Nat
      BY ClockUnits
    <3> HIDE DEF b, d
    <3> QED
      BY <1>2, <2>2, <3>1
  <2>4. TimingValue(m, ticks) = v * OS_TICKS_PER_SEC
    BY <1>4, <1>6 DEF TimingValue
  <2>5. v * OS_TICKS_PER_SEC \in Nat /\ v * OS_TICKS_PER_SEC > 0
    BY <2>3, ClockUnits, Products
  <2>6. (a + d) * MinuteSecs = a * MinuteSecs + d * MinuteSecs
    BY <1>2, <2>1, ClockUnits, Products
  <2>7. s + v = (a + d) * MinuteSecs + 0
    BY <1>2, <2>2, <2>6
  <2>8. SystemMinute(ticks + v * OS_TICKS_PER_SEC) = (a + d) % DayMinutes
    <3> HIDE DEF d, v, b
    <3>1. 0 \in 0..(MinuteSecs - 1)
      BY ClockUnits
    <3> QED
      BY <2>1, <2>3, <2>7, <3>1, MinutesPass
  <2>9. a + d = c * DayMinutes + m
    BY <1>3, <1>4
  <2>10. (c * DayMinutes + m) % DayMinutes = m
    BY <1>3, <1>4, ClockUnits, DivModUnique DEF Minutes
  <2> HIDE DEF d, v
  <2> QED
    BY <1>4, <1>6, <2>4, <2>5, <2>8, <2>9, <2>10
<1>7. CASE now > m
  <2> DEFINE d == DayMinutes - (now - m)
             v == d * MinuteSecs
  <2>1. d \in Nat /\ d > 0
    BY <1>4, <1>7, ClockUnits
  <2>2. v \in Nat /\ v > 0
    BY <2>1, ClockUnits, Products
  <2>3. TimingValue(m, ticks) = v * OS_TICKS_PER_SEC
    BY <1>4, <1>7 DEF TimingValue
  <2>4. v * OS_TICKS_PER_SEC \in Nat /\ v * OS_TICKS_PER_SEC > 0
    BY <2>2, ClockUnits, Products
  <2>5. (a + d) * MinuteSecs = a * MinuteSecs + v
    BY <1>2, <2>1, ClockUnits, Products
  <2>6. SystemMinute(ticks + v * OS_TICKS_PER_SEC) = (a + d) % DayMinutes
    <3> HIDE DEF d, v
    <3>1. s + v = (a + d) * MinuteSecs + b
      BY <1>2, <2>2, <2>5
    <3> QED
      BY <1>2, <2>1, <2>2, <3>1, MinutesPass
  <2>7. a + d = (c + 1) * DayMinutes + m
    <3>1. (c + 1) * DayMinutes = c * DayMinutes + 1 * DayMinutes
      BY <1>3, ClockUnits, Products
    <3> QED
      BY <1>3, <1>4, <3>1, ClockUnits
  <2>8. ((c + 1) * DayMinutes + m) % DayMinutes = m
    <3>1. c + 1 \in Nat /\ m \in 0..(DayMinutes - 1)
      BY <1>3 DEF Minutes
    <3> QED
      BY <3>1, ClockUnits, DivModUnique
  <2> HIDE DEF d, v
  <2> QED
    BY <1>4, <1>7, <2>3, <2>4, <2>6, <2>7, <2>8
<1> QED
  BY <1>4, <1>5, <1>6, <1>7

\* Whatever minute is asked for, the timer is started for some ticks.
LEMMA TimingValueType ==
    ASSUME NEW ticks \in Nat, NEW m \in Nat
    PROVE  TimingValue(m, ticks) \in Nat \ {0}
<1> DEFINE now == SystemMinute(ticks)
           b == SystemSec(ticks) % MinuteSecs
<1>1. now \in Nat /\ now < DayMinutes
  BY ClockTypes, ClockUnits DEF Minutes
<1>2. b \in 0..(MinuteSecs - 1)
  BY ClockTypes, ClockUnits, DivMod
<1>3. CASE now = m
  BY <1>1, <1>3 DEF TimingValue
<1>4. CASE now < m
  <2> DEFINE p == (m - now) * MinuteSecs
             v == p - b
  <2>1. m - now \in Nat /\ 1 <= m - now
    BY <1>1, <1>4
  <2>2. 1 * MinuteSecs <= p /\ p \in Nat
    BY <2>1, ClockUnits, Products
  <2>3. 1 * MinuteSecs = MinuteSecs /\ MinuteSecs \in Nat
    BY ClockUnits
  <2>4. TimingValue(m, ticks) = v * OS_TICKS_PER_SEC
    BY <1>1, <1>4 DEF TimingValue
  <2>5. v \in Nat /\ v > 0
    <3> HIDE DEF p, b
    <3> QED
      BY <1>2, <2>2, <2>3
  <2> HIDE DEF v
  <2> QED
    BY <2>4, <2>5, ClockUnits, Products
<1>5. CASE now > m
  <2> DEFINE d == DayMinutes - (now - m)
             v == d * MinuteSecs
  <2>1. d \in Nat /\ d > 0
    BY <1>1, <1>5, ClockUnits
  <2>2. v \in Nat /\ v > 0
    BY <2>1, ClockUnits, Products
  <2>3. TimingValue(m, ticks) = v * OS_TICKS_PER_SEC
    BY <1>1, <1>5 DEF TimingValue
  <2> HIDE DEF v
  <2> QED
    BY <2>2, <2>3, ClockUnits, Products
<1> QED
  BY <1>1, <1>3, <1>4, <1>5
-----------------------------------------------------------------------------
(* The inductive invariant. *)

\* The minutes the status can show.
Asked == {0} \union UNION {{c[t] : t \in Timers \intersect DOMAIN c} : c \in Commands}

\* Accesses.
Ops == [op : {"readPort", "readOnoff", "repeatIfDays", "noRepeat", "repeatAsDays"}]
         \union [op : {"writePort"}, bit : {"relay", "led"}, v : {0, 1}]
         \union [op : {"writeOnoff"}, bit : {"socket", "time", "count"}, v : {0, 1}]
         \union [op : {"week"}, days : SUBSET Days]
         \union [op : {"minute"}, t : Timers, m : Asked]
         \union [op : {"arm"}, t : Timers, by : {"time", "minute"}]
         \union [op : {"cancel"}, t : Timers]

Relay(a)      == a.op = "writePort" /\ a.bit = "relay"
Socket(a)     == a.op = "writeOnoff" /\ a.bit = "socket"
Time(a)       == a.op = "writeOnoff" /\ a.bit = "time"
Arms(a, t)    == a.op = "arm" /\ a.t = t
ByTime(a, t)  == a.op = "arm" /\ a.t = t /\ a.by = "time"
Cancels(a, t) == a.op = "cancel" /\ a.t = t

\* How far before it the schedule is switched on.
Gap(t) == IF t = "on" THEN 2 ELSE 3

\* A minute that is stored is used for its timer at once.
MinutesArmed(s) == \A i \in 1..Len(s) :
    s[i].op = "minute" => i + 1 <= Len(s) /\ Arms(s[i + 1], s[i].t)

\* A switch of the relay is entered in the status four accesses later.
RelaysTold(s) == \A i \in 1..Len(s) :
    Relay(s[i]) =>
        /\ i + 4 <= Len(s) /\ Socket(s[i + 4]) /\ s[i + 4].v = s[i].v
        /\ \A d \in 1..3 : ~Socket(s[i + d])

\* A schedule that is switched on is armed, one switched off is cancelled.
SwitchesDone(s) == \A i \in 1..Len(s) :
    Time(s[i]) =>
        /\ i + 3 <= Len(s)
        /\ s[i].v # 1 => Cancels(s[i + 1], "on") /\ Cancels(s[i + 2], "off")
        /\ \A d \in 1..3, t \in Timers :
              ByTime(s[i + d], t) => s[i].v = 1 /\ d >= Gap(t)

\* A write is of what was just read.
ReadsFirst(s) == \A i \in 2..Len(s) :
    /\ s[i].op = "writePort" => s[i - 1].op = "readPort"
    /\ s[i].op = "writeOnoff" => s[i - 1].op = "readOnoff"

\* What is entered in the status was done before, if not yet done.
RelaysFirst(s) == \A i \in 5..Len(s) : Socket(s[i]) => Relay(s[i - 4])

SwitchesFirst(s) == \A i \in 1..Len(s), t \in Timers :
    ByTime(s[i], t) /\ i > Gap(t) => Time(s[i - Gap(t)]) /\ s[i - Gap(t)].v = 1

Shape(s) ==
    /\ s \in Seq(Ops)
    /\ MinutesArmed(s) /\ RelaysTold(s) /\ SwitchesDone(s)
    /\ ReadsFirst(s) /\ RelaysFirst(s) /\ SwitchesFirst(s)

\* A task that has not begun has nothing behind it.
Fresh(s) == \A i \in 1..Len(s) :
    /\ i = 1 => s[i].op \notin {"writePort", "writeOnoff"}
    /\ i <= 4 => ~Socket(s[i])
    /\ \A t \in Timers : i <= Gap(t) => ~ByTime(s[i], t)

\* What a task is still to do.
Relays(s)     == \E i \in 1..Len(s) : Relay(s[i])
Sockets(s)    == \E i \in 1..Len(s) : Socket(s[i])
Times(s)      == \E i \in 1..Len(s) : Time(s[i])
Stops(s, t)   == \E i \in 1..Len(s) : Cancels(s[i], t)

\* It is to write a bit of the status, or the relay.
Updates(s, b) == \/ b = "socket" /\ (Relays(s) \/ Sockets(s))
                 \/ b = "time" /\ Times(s)

\* Two lists of accesses, one after the other.
IsJoin(q, s, r) ==
    /\ {q, s, r} \subseteq Seq(Ops) /\ Len(s) \in Nat /\ Len(r) \in Nat
    /\ Len(q) = Len(s) + Len(r)
    /\ \A i \in 1..Len(s) : q[i] = s[i]
    /\ \A i \in 1..Len(r) : q[Len(s) + i] = r[i]

\* A list of accesses without the first.
IsTail(q, s) ==
    /\ {q, s} \subseteq Seq(Ops) /\ Len(q) \in Nat /\ Len(s) = Len(q) + 1
    /\ \A i \in 1..Len(q) : q[i] = s[i + 1]

\* A part of what a command asks for, and the bits of the status it writes.
Part(s, bits) ==
    /\ Shape(s) /\ Fresh(s)
    /\ Sockets(s) <=> "socket" \in bits
    /\ Relays(s) <=> "socket" \in bits
    /\ Times(s) <=> "time" \in bits

\* A task has not finished.
Works(k) == Len(todo[k]) > 0

\* Delays, with the minute they are for and the tick they count from.
Delays == [ticks : Nat, minute : Asked \union {None}, from : Int]

Types ==
    /\ minute \in [Timers -> Asked] /\ armedFor \in [Timers -> Asked \union {None}]
    /\ at \in [Rank -> {"call", "set", "start"}] /\ late \in [Timers -> Int]
    /\ timing \in [Rank -> Delays] /\ OSTmrDly \in [Timers -> Delays]
    /\ remaining \in [Timers -> Nat] /\ due \subseteq Timers
    /\ OSTime \in 0..(TickWrap - 1)
    /\ DOMAIN todo = Rank /\ DOMAIN reg = Rank

Shapes == \A k \in Rank : Shape(todo[k])

\* A bit that no two updates met in has one writer, which all others preempt.
OneWriter == \A b \in {"socket", "time"}, k \in Rank :
    b \notin torn /\ Updates(todo[k], b) => \A j \in Rank : Works(j) => j <= k

\* What a task has read is still true of the bits it will not write.
PortRead == "socket" \notin torn =>
    \A k \in Rank :
        Works(k) /\ todo[k][1].op = "writePort" /\ todo[k][1].bit # "relay"
            => ("relay" \in reg[k] <=> "relay" \in port)

OnoffRead == \A b \in {"socket", "time"}, k \in Rank :
    b \notin torn /\ Works(k) /\ todo[k][1].op = "writeOnoff" /\ todo[k][1].bit # b
        => (b \in reg[k] <=> b \in onoff)

\* The relay has been switched for what the status will say next.
RelayDone == "socket" \notin torn =>
    \A k \in Rank : \A i \in 1..Len(todo[k]) :
        i <= 4 /\ Socket(todo[k][i]) => ("relay" \in port <=> todo[k][i].v = 1)

\* If nothing more is to be told, the status is true.
AllTold == "socket" \notin torn =>
    ((\A k \in Rank : ~Sockets(todo[k])) => ("relay" \in port <=> "socket" \in onoff))

\* The schedule has been switched on for a timer it is going to start.
SwitchDone == "time" \notin torn =>
    \A k \in Rank, t \in Timers : \A i \in 1..Len(todo[k]) :
        i <= Gap(t) /\ ByTime(todo[k][i], t) => "time" \in onoff

\* While a timer runs that was not started by its minute, the schedule is on,
\* or will be switched, or the timer will be stopped.
Allowed == "time" \notin torn =>
    \A t \in Timers :
        (remaining[t] > 0 \/ t \in due) /\ t \notin byMinute =>
           \/ "time" \in onoff
           \/ \E k \in Rank : Times(todo[k]) \/ Stops(todo[k], t)

\* A task that is setting a timer has that before it.
Setting == \A k \in Rank : at[k] # "call" => Works(k) /\ todo[k][1].op = "arm"

\* A timer that no two tasks are setting at once has one setter.
OneSetter == \A t \in Timers, j, k \in Rank :
    t \notin crossed /\ SetsTimer(todo[j], t) /\ SetsTimer(todo[k], t) => j = k

\* A timer is for the minute of the status, or is still being set.
Current == \A t \in Timers : t \notin crossed =>
    \/ armedFor[t] \in {None, minute[t]}
    \/ \E k \in Rank : SetsTimer(todo[k], t)

\* The delay it is about to be started with is for that minute too.
Computed == \A t \in Timers, k \in Rank :
    t \notin crossed /\ Works(k) /\ Arms(todo[k][1], t) =>
        /\ at[k] = "set" => timing[k].minute \in {None, minute[t]}
        /\ at[k] = "start" => OSTmrDly[t].minute \in {None, minute[t]}

\* A timer that has run out no longer counts.
DueIsZero == \A t \in due : remaining[t] = 0

\* A delay leads to its minute.
Leads(dly) == dly.minute # None =>
    /\ dly.ticks > 0 /\ dly.from + dly.ticks \in Nat
    /\ SystemMinute(dly.from + dly.ticks) = dly.minute

\* A timer that counts runs out in its minute, or later by its lag.
Counts(t) == armedFor[t] # None =>
    /\ remaining[t] > 0 \/ t \in due
    /\ (OSTime + remaining[t]) - late[t] \in Nat
    /\ SystemMinute((OSTime + remaining[t]) - late[t]) = armedFor[t]

Counting == /\ \A t \in Timers : Counts(t) /\ Leads(OSTmrDly[t])
            /\ \A k \in Rank : Leads(timing[k])

StripInv ==
    /\ Types /\ Shapes /\ OneWriter /\ PortRead /\ OnoffRead
    /\ RelayDone /\ AllTold /\ SwitchDone /\ Allowed
    /\ Setting /\ OneSetter /\ Current /\ Computed /\ DueIsZero
-----------------------------------------------------------------------------
(* What strip_data_parse does has the shape. *)

LEMMA Joined ==
    ASSUME NEW s \in Seq(Ops), NEW r \in Seq(Ops)
    PROVE  IsJoin(s \o r, s, r)
BY SMT DEF IsJoin

LEMMA Short ==
    /\ \A a \in Ops : <<a>> \in Seq(Ops) /\ Len(<<a>>) = 1 /\ <<a>>[1] = a
    /\ \A a, b \in Ops : /\ <<a, b>> \in Seq(Ops) /\ Len(<<a, b>>) = 2
                         /\ <<a, b>>[1] = a /\ <<a, b>>[2] = b
BY SMT

LEMMA OpsHave ==
    /\ [op |-> "readPort"] \in Ops /\ [op |-> "readOnoff"] \in Ops
    /\ [op |-> "repeatIfDays"] \in Ops /\ [op |-> "noRepeat"] \in Ops
    /\ [op |-> "repeatAsDays"] \in Ops
    /\ \A v \in {0, 1} :
         /\ [op |-> "writePort", bit |-> "relay", v |-> v] \in Ops
         /\ [op |-> "writePort", bit |-> "led", v |-> v] \in Ops
         /\ [op |-> "writeOnoff", bit |-> "socket", v |-> v] \in Ops
         /\ [op |-> "writeOnoff", bit |-> "time", v |-> v] \in Ops
         /\ [op |-> "writeOnoff", bit |-> "count", v |-> v] \in Ops
    /\ \A days \in SUBSET Days : [op |-> "week", days |-> days] \in Ops
    /\ \A t \in Timers :
         /\ \A m \in Asked : [op |-> "minute", t |-> t, m |-> m] \in Ops
         /\ [op |-> "arm", t |-> t, by |-> "time"] \in Ops
         /\ [op |-> "arm", t |-> t, by |-> "minute"] \in Ops
         /\ [op |-> "cancel", t |-> t] \in Ops
<1>1. /\ [op |-> "readPort"] \in Ops /\ [op |-> "readOnoff"] \in Ops
      /\ [op |-> "repeatIfDays"] \in Ops /\ [op |-> "noRepeat"] \in Ops
      /\ [op |-> "repeatAsDays"] \in Ops
  BY DEF Ops
<1>2. ASSUME NEW v \in {0, 1}
      PROVE  /\ [op |-> "writePort", bit |-> "relay", v |-> v] \in Ops
             /\ [op |-> "writePort", bit |-> "led", v |-> v] \in Ops
             /\ [op |-> "writeOnoff", bit |-> "socket", v |-> v] \in Ops
             /\ [op |-> "writeOnoff", bit |-> "time", v |-> v] \in Ops
             /\ [op |-> "writeOnoff", bit |-> "count", v |-> v] \in Ops
  BY DEF Ops
<1>3. \A days \in SUBSET Days : [op |-> "week", days |-> days] \in Ops
  BY DEF Ops
<1>4. ASSUME NEW t \in Timers
      PROVE  /\ \A m \in Asked : [op |-> "minute", t |-> t, m |-> m] \in Ops
             /\ [op |-> "arm", t |-> t, by |-> "time"] \in Ops
             /\ [op |-> "arm", t |-> t, by |-> "minute"] \in Ops
             /\ [op |-> "cancel", t |-> t] \in Ops
  BY DEF Ops
<1> QED
  BY <1>1, <1>2, <1>3, <1>4

\* Pairs of accesses.
LEMMA SetOps ==
    /\ \A v \in {0, 1}, pin \in {"relay", "led"} : LET s == SetValue(pin, v) IN
          /\ s \in Seq(Ops) /\ Len(s) = 2 /\ s[1] = [op |-> "readPort"]
          /\ s[2] = [op |-> "writePort", bit |-> pin, v |-> v]
    /\ \A v \in {0, 1}, b \in {"socket", "time", "count"} : LET s == SetBit(b, v) IN
          /\ s \in Seq(Ops) /\ Len(s) = 2 /\ s[1] = [op |-> "readOnoff"]
          /\ s[2] = [op |-> "writeOnoff", bit |-> b, v |-> v]
    /\ \A days \in SUBSET Days : LET s == WeekRepeat(days) IN
          /\ s \in Seq(Ops) /\ Len(s) = 2 /\ s[1] = [op |-> "week", days |-> days]
          /\ s[2] = [op |-> "repeatAsDays"]
BY OpsHave, Short DEF SetValue, SetBit, WeekRepeat

LEMMA SwitchOps ==
    ASSUME NEW v \in {0, 1}
    PROVE  /\ Switch(v) \in Seq(Ops) /\ Len(Switch(v)) = 6
           /\ Switch(v)[1] = [op |-> "readPort"]
           /\ Switch(v)[2] = [op |-> "writePort", bit |-> "relay", v |-> v]
           /\ Switch(v)[3] = [op |-> "readPort"]
           /\ Switch(v)[4] = [op |-> "writePort", bit |-> "led", v |-> 1 - v]
           /\ Switch(v)[5] = [op |-> "readOnoff"]
           /\ Switch(v)[6] = [op |-> "writeOnoff", bit |-> "socket", v |-> v]
<1>1. PICK a : /\ a = SetValue("relay", v) /\ a \in Seq(Ops) /\ Len(a) = 2
               /\ a[1] = [op |-> "readPort"]
               /\ a[2] = [op |-> "writePort", bit |-> "relay", v |-> v]
  BY SetOps
<1>2. PICK b : /\ b = SetValue("led", 1 - v) /\ b \in Seq(Ops) /\ Len(b) = 2
               /\ b[1] = [op |-> "readPort"]
               /\ b[2] = [op |-> "writePort", bit |-> "led", v |-> 1 - v]
  <2>1. 1 - v \in {0, 1}
    OBVIOUS
  <2> QED
    BY <2>1, SetOps
<1>3. PICK c : /\ c = SetBit("socket", v) /\ c \in Seq(Ops) /\ Len(c) = 2
               /\ c[1] = [op |-> "readOnoff"]
               /\ c[2] = [op |-> "writeOnoff", bit |-> "socket", v |-> v]
  BY SetOps
<1>4. PICK q : q = a \o b /\ IsJoin(q, a, b)
  BY <1>1, <1>2, Joined
<1>5. q \in Seq(Ops)
  BY <1>4 DEF IsJoin
<1>6. PICK p : p = q \o c /\ IsJoin(p, q, c)
  BY <1>3, <1>5, Joined
<1>7. Len(a) = 2 /\ Len(b) = 2 /\ Len(c) = 2
  BY <1>1, <1>2, <1>3
<1>8. /\ Len(q) = 4 /\ q[1] = a[1] /\ q[2] = a[2] /\ q[3] = b[1] /\ q[4] = b[2]
  BY <1>4, <1>7 DEF IsJoin
<1>9. /\ Len(p) = 6 /\ p[1] = q[1] /\ p[2] = q[2] /\ p[3] = q[3] /\ p[4] = q[4]
      /\ p[5] = c[1] /\ p[6] = c[2] /\ p \in Seq(Ops)
  BY <1>6, <1>7, <1>8 DEF IsJoin
<1>10. Switch(v) = p
  BY <1>1, <1>2, <1>3, <1>4, <1>6, Zenon DEF Switch
<1> QED
  BY <1>1, <1>2, <1>3, <1>8, <1>9, <1>10, Zenon

LEMMA TimeOps ==
    ASSUME NEW v \in {0, 1}
    PROVE  /\ TimeOnOff(v) \in Seq(Ops) /\ Len(TimeOnOff(v)) = 5
           /\ TimeOnOff(v)[1] = [op |-> "readOnoff"]
           /\ TimeOnOff(v)[2] = [op |-> "writeOnoff", bit |-> "time", v |-> v]
           /\ v = 1 => /\ TimeOnOff(v)[3] = [op |-> "repeatIfDays"]
                       /\ TimeOnOff(v)[4] = [op |-> "arm", t |-> "on", by |-> "time"]
                       /\ TimeOnOff(v)[5] = [op |-> "arm", t |-> "off", by |-> "time"]
           /\ v = 0 => /\ TimeOnOff(v)[3] = [op |-> "cancel", t |-> "on"]
                       /\ TimeOnOff(v)[4] = [op |-> "cancel", t |-> "off"]
                       /\ TimeOnOff(v)[5] = [op |-> "noRepeat"]
<1>1. PICK a : /\ a = SetBit("time", v) /\ a \in Seq(Ops) /\ Len(a) = 2
               /\ a[1] = [op |-> "readOnoff"]
               /\ a[2] = [op |-> "writeOnoff", bit |-> "time", v |-> v]
  BY SetOps
<1>2. ASSUME NEW x \in Ops, NEW y \in Ops, NEW z \in Ops,
             TimeOnOff(v) = a \o (<<x>> \o <<y>> \o <<z>>)
      PROVE  /\ TimeOnOff(v) \in Seq(Ops) /\ Len(TimeOnOff(v)) = 5
             /\ TimeOnOff(v)[1] = a[1] /\ TimeOnOff(v)[2] = a[2]
             /\ TimeOnOff(v)[3] = x /\ TimeOnOff(v)[4] = y /\ TimeOnOff(v)[5] = z
  <2>1. \A e \in Ops : \E s : s = <<e>> /\ s \in Seq(Ops) /\ Len(s) = 1 /\ s[1] = e
    BY Short
  <2>2. PICK d : d = <<x>> /\ d \in Seq(Ops) /\ Len(d) = 1 /\ d[1] = x
    BY <2>1, Zenon
  <2>3. PICK e : e = <<y>> /\ e \in Seq(Ops) /\ Len(e) = 1 /\ e[1] = y
    BY <2>1, Zenon
  <2>4. PICK f : f = <<z>> /\ f \in Seq(Ops) /\ Len(f) = 1 /\ f[1] = z
    BY <2>1, Zenon
  <2>5. PICK m : m = d \o e /\ IsJoin(m, d, e)
    BY <2>2, <2>3, Joined
  <2>6. Len(m) = 2 /\ m[1] = d[1] /\ m[2] = e[1] /\ m \in Seq(Ops)
    <3>1. Len(d) = 1 /\ Len(e) = 1
      BY <2>2, <2>3
    <3> QED
      BY <2>5, <3>1 DEF IsJoin
  <2>7. PICK n : n = m \o f /\ IsJoin(n, m, f)
    BY <2>4, <2>6, Joined
  <2>8. Len(n) = 3 /\ n[1] = m[1] /\ n[2] = m[2] /\ n[3] = f[1] /\ n \in Seq(Ops)
    <3>1. Len(m) = 2 /\ Len(f) = 1
      BY <2>4, <2>6
    <3> QED
      BY <2>7, <3>1 DEF IsJoin
  <2>9. PICK p : p = a \o n /\ IsJoin(p, a, n)
    BY <1>1, <2>8, Joined
  <2>10. /\ Len(p) = 5 /\ p[1] = a[1] /\ p[2] = a[2] /\ p[3] = n[1] /\ p[4] = n[2]
         /\ p[5] = n[3] /\ p \in Seq(Ops)
    <3>1. Len(a) = 2 /\ Len(n) = 3
      BY <1>1, <2>8
    <3> QED
      BY <2>9, <3>1 DEF IsJoin
  <2>11. TimeOnOff(v) = p
    BY <1>2, <2>2, <2>3, <2>4, <2>5, <2>7, <2>9, Zenon
  <2> QED
    BY <2>2, <2>3, <2>4, <2>6, <2>8, <2>10, <2>11, Zenon
<1>3. CASE v = 1
  <2> DEFINE x == [op |-> "repeatIfDays"]
             y == [op |-> "arm", t |-> "on", by |-> "time"]
             z == [op |-> "arm", t |-> "off", by |-> "time"]
  <2>1. TimeOnOff(v) = a \o (<<x>> \o <<y>> \o <<z>>)
    BY <1>1, <1>3 DEF TimeOnOff, ArmOp
  <2>2. x \in Ops /\ y \in Ops /\ z \in Ops
    BY OpsHave DEF Timers
  <2> HIDE DEF x, y, z
  <2>3. /\ TimeOnOff(v) \in Seq(Ops) /\ Len(TimeOnOff(v)) = 5
        /\ TimeOnOff(v)[1] = a[1] /\ TimeOnOff(v)[2] = a[2]
        /\ TimeOnOff(v)[3] = x /\ TimeOnOff(v)[4] = y /\ TimeOnOff(v)[5] = z
    BY <1>2, <2>1, <2>2, Zenon
  <2> QED
    BY <1>1, <1>3, <2>3 DEF x, y, z
<1>4. CASE v = 0
  <2> DEFINE x == [op |-> "cancel", t |-> "on"]
             y == [op |-> "cancel", t |-> "off"]
             z == [op |-> "noRepeat"]
  <2>1. TimeOnOff(v) = a \o (<<x>> \o <<y>> \o <<z>>)
    BY <1>1, <1>4 DEF TimeOnOff, CancelOp
  <2>2. x \in Ops /\ y \in Ops /\ z \in Ops
    BY OpsHave DEF Timers
  <2> HIDE DEF x, y, z
  <2>3. /\ TimeOnOff(v) \in Seq(Ops) /\ Len(TimeOnOff(v)) = 5
        /\ TimeOnOff(v)[1] = a[1] /\ TimeOnOff(v)[2] = a[2]
        /\ TimeOnOff(v)[3] = x /\ TimeOnOff(v)[4] = y /\ TimeOnOff(v)[5] = z
    BY <1>2, <2>1, <2>2, Zenon
  <2> QED
    BY <1>1, <1>4, <2>3 DEF x, y, z
<1> QED
  BY <1>3, <1>4

LEMMA MinuteOps ==
    ASSUME NEW t \in Timers, NEW m \in Asked
    PROVE  /\ SetMinute(t, m) \in Seq(Ops) /\ Len(SetMinute(t, m)) = 2
           /\ SetMinute(t, m)[1] = [op |-> "minute", t |-> t, m |-> m]
           /\ SetMinute(t, m)[2] = [op |-> "arm", t |-> t, by |-> "minute"]
<1>a. \A e \in Ops : \E s : s = <<e>> /\ s \in Seq(Ops) /\ Len(s) = 1 /\ s[1] = e
  BY Short
<1>b. /\ [op |-> "minute", t |-> t, m |-> m] \in Ops
      /\ [op |-> "arm", t |-> t, by |-> "minute"] \in Ops
  BY OpsHave
<1>1. PICK p : /\ p = <<[op |-> "minute", t |-> t, m |-> m]>> /\ p \in Seq(Ops)
               /\ Len(p) = 1 /\ p[1] = [op |-> "minute", t |-> t, m |-> m]
  BY <1>a, <1>b, Zenon
<1>2. PICK r : /\ r = ArmOp(t, "minute") /\ r \in Seq(Ops)
               /\ Len(r) = 1 /\ r[1] = [op |-> "arm", t |-> t, by |-> "minute"]
  BY <1>a, <1>b, Zenon DEF ArmOp
<1>3. PICK q : q = p \o r /\ IsJoin(q, p, r)
  BY <1>1, <1>2, Joined
<1>4. Len(p) = 1 /\ Len(r) = 1
  BY <1>1, <1>2
<1>5. Len(q) = 2 /\ q[1] = p[1] /\ q[2] = r[1] /\ q \in Seq(Ops)
  BY <1>3, <1>4 DEF IsJoin
<1>6. SetMinute(t, m) = q
  BY <1>1, <1>2, <1>3, Zenon DEF SetMinute
<1> QED
  BY <1>1, <1>2, <1>5, <1>6, Zenon

\* The shape of two lists with the shape, one after the other.
LEMMA JoinShape ==
    ASSUME NEW q, NEW s, NEW r, NEW A, NEW B, IsJoin(q, s, r), Part(s, A), Part(r, B)
    PROVE  Part(q, A \union B)
<1>1. /\ Len(s) \in Nat /\ Len(r) \in Nat /\ Len(q) = Len(s) + Len(r)
      /\ \A i \in 1..Len(s) : q[i] = s[i]
      /\ \A i \in 1..Len(r) : q[Len(s) + i] = r[i]
      /\ q \in Seq(Ops)
  BY DEF IsJoin
<1>2. ASSUME NEW i \in 1..Len(q)
      PROVE  \/ i \in 1..Len(s) /\ q[i] = s[i]
             \/ \E j \in 1..Len(r) : i = Len(s) + j /\ q[i] = r[j]
  <2>1. CASE i <= Len(s)
    BY <1>1, <2>1
  <2>2. CASE i > Len(s)
    <3> DEFINE j == i - Len(s)
    <3>1. j \in 1..Len(r) /\ i = Len(s) + j
      BY <1>1, <2>2
    <3> QED
      BY <1>1, <3>1
  <2> QED
    BY <1>1, <2>1, <2>2
<1>3. \A i \in 1..Len(r), d \in 1..4 : i + d <= Len(r) => q[(Len(s) + i) + d] = r[i + d]
  <2> TAKE i \in 1..Len(r), d \in 1..4
  <2> HAVE i + d <= Len(r)
  <2>1. i + d \in 1..Len(r) /\ (Len(s) + i) + d = Len(s) + (i + d)
    BY <1>1
  <2> QED
    BY <1>1, <2>1
<1>4. \A i \in 1..Len(r), d \in 1..4 : d < i => q[(Len(s) + i) - d] = r[i - d]
  <2> TAKE i \in 1..Len(r), d \in 1..4
  <2> HAVE d < i
  <2>0. Len(r) \in Nat /\ Len(s) \in Nat
    BY <1>1
  <2>1. i - d \in 1..Len(r) /\ (Len(s) + i) - d = Len(s) + (i - d)
    BY ONLY <2>0, d < i, d \in 1..4, i \in 1..Len(r)
  <2> QED
    BY <1>1, <2>1
<1>5. MinutesArmed(q)
  <2> SUFFICES ASSUME NEW i \in 1..Len(q), q[i].op = "minute"
               PROVE  i + 1 <= Len(q) /\ Arms(q[i + 1], q[i].t)
    BY DEF MinutesArmed
  <2>1. CASE i \in 1..Len(s) /\ q[i] = s[i]
    BY <1>1, <2>1 DEF Part, Shape, MinutesArmed
  <2>2. ASSUME NEW j \in 1..Len(r), i = Len(s) + j, q[i] = r[j]
        PROVE  i + 1 <= Len(q) /\ Arms(q[i + 1], q[i].t)
    BY <1>1, <1>3, <2>2 DEF Part, Shape, MinutesArmed
  <2> QED
    BY <1>2, <2>1, <2>2
<1>6. RelaysTold(q)
  <2> SUFFICES ASSUME NEW i \in 1..Len(q), Relay(q[i])
               PROVE  /\ i + 4 <= Len(q) /\ Socket(q[i + 4]) /\ q[i + 4].v = q[i].v
                      /\ \A d \in 1..3 : ~Socket(q[i + d])
    BY DEF RelaysTold
  <2>1. CASE i \in 1..Len(s) /\ q[i] = s[i]
    <3>1. i + 4 <= Len(s) /\ Socket(s[i + 4]) /\ s[i + 4].v = s[i].v
          /\ \A d \in 1..3 : ~Socket(s[i + d])
      BY <2>1 DEF Part, Shape, RelaysTold
    <3>2. ASSUME NEW d \in 1..4 PROVE i + d \in 1..Len(s) /\ q[i + d] = s[i + d]
      <4>0. i + 4 <= Len(s) /\ Len(s) \in Nat /\ i \in 1..Len(s)
        BY <1>1, <2>1, <3>1
      <4>1. i + d \in 1..Len(s)
        BY ONLY <4>0, d \in 1..4
      <4> QED
        BY <1>1, <4>1, Zenon
    <3> QED
      BY <1>1, <2>1, <3>1, <3>2
  <2>2. ASSUME NEW j \in 1..Len(r), i = Len(s) + j, q[i] = r[j]
        PROVE  /\ i + 4 <= Len(q) /\ Socket(q[i + 4]) /\ q[i + 4].v = q[i].v
               /\ \A d \in 1..3 : ~Socket(q[i + d])
    <3>1. j + 4 <= Len(r) /\ Socket(r[j + 4]) /\ r[j + 4].v = r[j].v
          /\ \A d \in 1..3 : ~Socket(r[j + d])
      BY <2>2 DEF Part, Shape, RelaysTold
    <3>2. ASSUME NEW d \in 1..4 PROVE q[i + d] = r[j + d]
      <4>0. j + 4 <= Len(r) /\ Len(r) \in Nat
        BY <1>1, <3>1
      <4>1. j + d <= Len(r)
        BY ONLY <4>0, j \in 1..Len(r), d \in 1..4
      <4> QED
        BY <1>3, <2>2, <4>1, Zenon
    <3> QED
      BY <1>1, <2>2, <3>1, <3>2
  <2> QED
    BY <1>2, <2>1, <2>2
<1>7. SwitchesDone(q)
  <2> DEFINE Done(i) ==
        /\ i + 3 <= Len(q)
        /\ q[i].v # 1 => Cancels(q[i + 1], "on") /\ Cancels(q[i + 2], "off")
        /\ \A d \in 1..3, t \in Timers :
              ByTime(q[i + d], t) => q[i].v = 1 /\ d >= Gap(t)
  <2> SUFFICES ASSUME NEW i \in 1..Len(q), Time(q[i])
               PROVE  Done(i)
    BY DEF SwitchesDone
  <2>1. CASE i \in 1..Len(s) /\ q[i] = s[i]
    <3>1. i + 3 <= Len(s)
      BY <2>1 DEF Part, Shape, SwitchesDone
    <3>2. ASSUME NEW d \in 1..3 PROVE q[i + d] = s[i + d]
      <4>0. i + 3 <= Len(s) /\ Len(s) \in Nat /\ i \in 1..Len(s)
        BY <1>1, <2>1, <3>1
      <4>1. i + d \in 1..Len(s)
        BY ONLY <4>0, d \in 1..3
      <4> QED
        BY <1>1, <4>1, Zenon
    <3> QED
      BY <1>1, <2>1, <3>1, <3>2 DEF Part, Shape, SwitchesDone
  <2>2. ASSUME NEW j \in 1..Len(r), i = Len(s) + j, q[i] = r[j]
        PROVE  Done(i)
    <3>1. j + 3 <= Len(r)
      BY <2>2 DEF Part, Shape, SwitchesDone
    <3>2. ASSUME NEW d \in 1..3 PROVE q[i + d] = r[j + d]
      <4>0. j + 3 <= Len(r) /\ Len(r) \in Nat
        BY <1>1, <3>1
      <4>1. j + d <= Len(r) /\ d \in 1..4
        BY ONLY <4>0, j \in 1..Len(r), d \in 1..3
      <4> QED
        BY <1>3, <2>2, <4>1, Zenon
    <3> QED
      BY <1>1, <2>2, <3>1, <3>2 DEF Part, Shape, SwitchesDone
  <2> QED
    BY <1>2, <2>1, <2>2
<1>8. ReadsFirst(q)
  <2> SUFFICES ASSUME NEW i \in 2..Len(q)
               PROVE  /\ q[i].op = "writePort" => q[i - 1].op = "readPort"
                      /\ q[i].op = "writeOnoff" => q[i - 1].op = "readOnoff"
    BY DEF ReadsFirst
  <2>1. CASE i \in 1..Len(s) /\ q[i] = s[i]
    <3>1. i - 1 \in 1..Len(s) /\ i \in 2..Len(s)
      BY <1>1, <2>1
    <3>2. q[i - 1] = s[i - 1]
      BY <1>1, <3>1
    <3> QED
      BY <2>1, <3>1, <3>2 DEF Part, Shape, ReadsFirst
  <2>2. ASSUME NEW j \in 1..Len(r), i = Len(s) + j, q[i] = r[j]
        PROVE  /\ q[i].op = "writePort" => q[i - 1].op = "readPort"
               /\ q[i].op = "writeOnoff" => q[i - 1].op = "readOnoff"
    <3>1. CASE j = 1
      BY <2>2, <3>1 DEF Part, Fresh
    <3>2. CASE j > 1
      BY <1>1, <1>4, <2>2, <3>2 DEF Part, Shape, ReadsFirst
    <3> QED
      BY <3>1, <3>2
  <2> QED
    BY <1>1, <1>2, <2>1, <2>2
<1>9. RelaysFirst(q)
  <2> SUFFICES ASSUME NEW i \in 5..Len(q), Socket(q[i]) PROVE Relay(q[i - 4])
    BY DEF RelaysFirst
  <2>1. CASE i \in 1..Len(s) /\ q[i] = s[i]
    <3>1. i - 4 \in 1..Len(s) /\ i \in 5..Len(s)
      BY <1>1, <2>1
    <3>2. q[i - 4] = s[i - 4]
      BY <1>1, <3>1
    <3> QED
      BY <2>1, <3>1, <3>2 DEF Part, Shape, RelaysFirst
  <2>2. ASSUME NEW j \in 1..Len(r), i = Len(s) + j, q[i] = r[j] PROVE Relay(q[i - 4])
    <3>1. CASE j <= 4
      BY <2>2, <3>1 DEF Part, Fresh
    <3>2. CASE j > 4
      BY <1>1, <1>4, <2>2, <3>2 DEF Part, Shape, RelaysFirst
    <3> QED
      BY <3>1, <3>2
  <2> QED
    BY <1>1, <1>2, <2>1, <2>2
<1>10. SwitchesFirst(q)
  <2> SUFFICES ASSUME NEW i \in 1..Len(q), NEW t \in Timers, ByTime(q[i], t), i > Gap(t)
               PROVE  Time(q[i - Gap(t)]) /\ q[i - Gap(t)].v = 1
    BY DEF SwitchesFirst
  <2>0. Gap(t) \in 2..3
    BY DEF Gap
  <2>1. CASE i \in 1..Len(s) /\ q[i] = s[i]
    <3>1. i - Gap(t) \in 1..Len(s)
      BY <1>1, <2>0, <2>1
    <3>2. q[i - Gap(t)] = s[i - Gap(t)]
      BY <1>1, <3>1
    <3>3. Time(s[i - Gap(t)]) /\ s[i - Gap(t)].v = 1
      BY <2>1 DEF Part, Shape, SwitchesFirst
    <3> QED
      BY <3>2, <3>3
  <2>2. ASSUME NEW j \in 1..Len(r), i = Len(s) + j, q[i] = r[j]
        PROVE  Time(q[i - Gap(t)]) /\ q[i - Gap(t)].v = 1
    <3>1. CASE j <= Gap(t)
      BY <2>2, <3>1 DEF Part, Fresh
    <3>2. CASE j > Gap(t)
      <4>0. Gap(t) \in 1..4 /\ Gap(t) < j
        BY <2>0, <3>2
      <4>1. q[i - Gap(t)] = r[j - Gap(t)]
        BY <1>4, <2>2, <4>0, Zenon
      <4>2. Time(r[j - Gap(t)]) /\ r[j - Gap(t)].v = 1
        BY <2>2, <3>2 DEF Part, Shape, SwitchesFirst
      <4> QED
        BY <4>1, <4>2
    <3> QED
      BY <2>0, <3>1, <3>2
  <2> QED
    BY <1>1, <1>2, <2>1, <2>2
<1>11. Fresh(q)
  <2> SUFFICES ASSUME NEW i \in 1..Len(q)
               PROVE  /\ i = 1 => q[i].op \notin {"writePort", "writeOnoff"}
                      /\ i <= 4 => ~Socket(q[i])
                      /\ \A t \in Timers : i <= Gap(t) => ~ByTime(q[i], t)
    BY DEF Fresh
  <2>1. CASE i \in 1..Len(s) /\ q[i] = s[i]
    BY <2>1 DEF Part, Fresh
  <2>2. ASSUME NEW j \in 1..Len(r), i = Len(s) + j, q[i] = r[j]
        PROVE  /\ i = 1 => q[i].op \notin {"writePort", "writeOnoff"}
               /\ i <= 4 => ~Socket(q[i])
               /\ \A t \in Timers : i <= Gap(t) => ~ByTime(q[i], t)
    <3>1. j <= i /\ \A t \in Timers : Gap(t) \in 2..3
      BY <1>1, <2>2 DEF Gap
    <3> QED
      BY <1>1, <2>2, <3>1 DEF Part, Fresh
  <2> QED
    BY <1>2, <2>1, <2>2
<1>12. /\ Sockets(q) <=> Sockets(s) \/ Sockets(r)
       /\ Relays(q) <=> Relays(s) \/ Relays(r)
       /\ Times(q) <=> Times(s) \/ Times(r)
  <2>1. \A i \in 1..Len(s) : i \in 1..Len(q) /\ q[i] = s[i]
    BY <1>1
  <2>2. \A i \in 1..Len(r) : Len(s) + i \in 1..Len(q) /\ q[Len(s) + i] = r[i]
    BY <1>1
  <2>3. Sockets(q) <=> Sockets(s) \/ Sockets(r)
    BY <1>2, <2>1, <2>2, Zenon DEF Sockets
  <2>4. Relays(q) <=> Relays(s) \/ Relays(r)
    BY <1>2, <2>1, <2>2, Zenon DEF Relays
  <2>5. Times(q) <=> Times(s) \/ Times(r)
    BY <1>2, <2>1, <2>2, Zenon DEF Times
  <2> QED
    BY <2>3, <2>4, <2>5
<1>13. Shape(q)
  BY <1>1, <1>5, <1>6, <1>7, <1>8, <1>9, <1>10 DEF Shape
<1> QED
  BY <1>11, <1>12, <1>13 DEF Part

\* The parts of a command.
LEMMA NoPart == Part(<<>>, {})
<1>1. <<>> \in Seq(Ops) /\ Len(<<>>) = 0 /\ 1..0 = {} /\ 2..0 = {} /\ 5..0 = {}
  OBVIOUS
<1> QED
  BY <1>1 DEF Part, Shape, Fresh, MinutesArmed, RelaysTold, SwitchesDone, ReadsFirst,
              RelaysFirst, SwitchesFirst, Sockets, Relays, Times

\* Two accesses of which the second may be a write of what the first read.
LEMMA PairPart ==
    ASSUME NEW s \in Seq(Ops), Len(s) = 2, s[1].op \notin {"writePort", "writeOnoff", "arm"},
           s[2].op = "writePort" => s[1].op = "readPort" /\ s[2].bit # "relay",
           s[2].op = "writeOnoff" => s[1].op = "readOnoff" /\ s[2].bit = "count",
           s[2].op # "minute",
           s[2].op = "arm" => s[2].by = "minute",
           s[1].op = "minute" => Arms(s[2], s[1].t)
    PROVE  Part(s, {})
<1>1. \A i \in 1..Len(s) : i = 1 \/ i = 2
  OBVIOUS
<1>2. \A i \in 1..Len(s) : ~Relay(s[i]) /\ ~Socket(s[i]) /\ ~Time(s[i])
                            /\ \A t \in Timers : ~ByTime(s[i], t)
  BY <1>1 DEF Relay, Socket, Time, ByTime
<1>3. MinutesArmed(s) /\ ReadsFirst(s)
  BY <1>1 DEF MinutesArmed, ReadsFirst
<1>4. RelaysTold(s) /\ SwitchesDone(s) /\ RelaysFirst(s) /\ SwitchesFirst(s)
  BY <1>2 DEF RelaysTold, SwitchesDone, RelaysFirst, SwitchesFirst
<1>5. Fresh(s)
  BY <1>1, <1>2 DEF Fresh
<1>6. ~Sockets(s) /\ ~Relays(s) /\ ~Times(s)
  BY <1>2 DEF Sockets, Relays, Times
<1> QED
  BY <1>3, <1>4, <1>5, <1>6 DEF Part, Shape

LEMMA SwitchPart ==
    ASSUME NEW v \in {0, 1}
    PROVE  Part(Switch(v), {"socket"})
<1>1. PICK s : /\ s = Switch(v) /\ s \in Seq(Ops) /\ Len(s) = 6
               /\ s[1] = [op |-> "readPort"]
               /\ s[2] = [op |-> "writePort", bit |-> "relay", v |-> v]
               /\ s[3] = [op |-> "readPort"]
               /\ s[4] = [op |-> "writePort", bit |-> "led", v |-> 1 - v]
               /\ s[5] = [op |-> "readOnoff"]
               /\ s[6] = [op |-> "writeOnoff", bit |-> "socket", v |-> v]
  BY SwitchOps, Zenon
<1>2. /\ s[1].op = "readPort" /\ s[3].op = "readPort" /\ s[5].op = "readOnoff"
      /\ s[2].op = "writePort" /\ s[2].bit = "relay" /\ s[2].v = v
      /\ s[4].op = "writePort" /\ s[4].bit = "led"
      /\ s[6].op = "writeOnoff" /\ s[6].bit = "socket" /\ s[6].v = v
  BY <1>1
<1>3. \A i \in 1..Len(s) : i \in {1, 2, 3, 4, 5, 6}
  BY <1>1
<1>4. Len(s) = 6 /\ s \in Seq(Ops)
  BY <1>1
<1>5. \A i \in 1..Len(s) :
         /\ Relay(s[i]) <=> i = 2
         /\ Socket(s[i]) <=> i = 6
         /\ ~Time(s[i]) /\ s[i].op # "minute" /\ \A t \in Timers : ~ByTime(s[i], t)
  BY <1>2, <1>3 DEF Relay, Socket, Time, ByTime
<1>6. MinutesArmed(s) /\ SwitchesDone(s) /\ SwitchesFirst(s)
  BY <1>5 DEF MinutesArmed, SwitchesDone, SwitchesFirst
<1>7. RelaysTold(s)
  <2> SUFFICES ASSUME NEW i \in 1..Len(s), Relay(s[i])
               PROVE  /\ i + 4 <= Len(s) /\ Socket(s[i + 4]) /\ s[i + 4].v = s[i].v
                      /\ \A d \in 1..3 : ~Socket(s[i + d])
    BY DEF RelaysTold
  <2>1. i = 2
    BY <1>5
  <2> QED
    BY <1>2, <1>4, <1>5, <2>1
<1>8. ReadsFirst(s)
  <2> SUFFICES ASSUME NEW i \in 2..Len(s)
               PROVE  /\ s[i].op = "writePort" => s[i - 1].op = "readPort"
                      /\ s[i].op = "writeOnoff" => s[i - 1].op = "readOnoff"
    BY DEF ReadsFirst
  <2>1. i \in {2, 3, 4, 5, 6}
    BY <1>4
  <2> QED
    BY <1>2, <2>1
<1>9. RelaysFirst(s)
  <2> SUFFICES ASSUME NEW i \in 5..Len(s), Socket(s[i]) PROVE Relay(s[i - 4])
    BY DEF RelaysFirst
  <2>1. i = 6
    BY <1>4, <1>5
  <2> QED
    BY <1>4, <1>5, <2>1
<1>10. Fresh(s)
  <2>1. s[1].op \notin {"writePort", "writeOnoff"}
    BY <1>2
  <2> QED
    BY <1>3, <1>5, <2>1 DEF Fresh
<1>11. Sockets(s) /\ Relays(s) /\ ~Times(s)
  BY <1>4, <1>5 DEF Sockets, Relays, Times
<1>12. Part(s, {"socket"})
  BY <1>4, <1>6, <1>7, <1>8, <1>9, <1>10, <1>11 DEF Part, Shape
<1> QED
  BY <1>1, <1>12

LEMMA TimePart ==
    ASSUME NEW v \in {0, 1}
    PROVE  Part(TimeOnOff(v), {"time"})
<1>1. PICK s : /\ s = TimeOnOff(v) /\ s \in Seq(Ops) /\ Len(s) = 5
               /\ s[1] = [op |-> "readOnoff"]
               /\ s[2] = [op |-> "writeOnoff", bit |-> "time", v |-> v]
               /\ v = 1 => /\ s[3] = [op |-> "repeatIfDays"]
                           /\ s[4] = [op |-> "arm", t |-> "on", by |-> "time"]
                           /\ s[5] = [op |-> "arm", t |-> "off", by |-> "time"]
               /\ v = 0 => /\ s[3] = [op |-> "cancel", t |-> "on"]
                           /\ s[4] = [op |-> "cancel", t |-> "off"]
                           /\ s[5] = [op |-> "noRepeat"]
  BY TimeOps, Zenon
<1>2. /\ s[1].op = "readOnoff"
      /\ s[2].op = "writeOnoff" /\ s[2].bit = "time" /\ s[2].v = v
      /\ v = 1 => /\ s[3].op = "repeatIfDays"
                  /\ s[4].op = "arm" /\ s[4].t = "on" /\ s[4].by = "time"
                  /\ s[5].op = "arm" /\ s[5].t = "off" /\ s[5].by = "time"
      /\ v = 0 => /\ s[3].op = "cancel" /\ s[3].t = "on"
                  /\ s[4].op = "cancel" /\ s[4].t = "off"
                  /\ s[5].op = "noRepeat"
  BY <1>1
<1>3. \A i \in 1..Len(s) : i \in {1, 2, 3, 4, 5}
  BY <1>1
<1>4. Len(s) = 5 /\ s \in Seq(Ops)
  BY <1>1
<1>5. \A i \in 1..Len(s) :
         /\ ~Relay(s[i]) /\ ~Socket(s[i]) /\ (Time(s[i]) <=> i = 2)
         /\ s[i].op \notin {"minute", "writePort"} /\ (s[i].op = "writeOnoff" <=> i = 2)
         /\ \A t \in Timers : ByTime(s[i], t) <=> v = 1 /\ i = 2 + Gap(t)
  BY <1>2, <1>3 DEF Relay, Socket, Time, ByTime, Timers, Gap
<1>6. MinutesArmed(s) /\ RelaysTold(s) /\ RelaysFirst(s)
  BY <1>5 DEF MinutesArmed, RelaysTold, RelaysFirst
<1>7. SwitchesDone(s)
  <2> SUFFICES ASSUME NEW i \in 1..Len(s), Time(s[i])
               PROVE  /\ i + 3 <= Len(s)
                      /\ s[i].v # 1 => Cancels(s[i + 1], "on") /\ Cancels(s[i + 2], "off")
                      /\ \A d \in 1..3, t \in Timers :
                            ByTime(s[i + d], t) => s[i].v = 1 /\ d >= Gap(t)
    BY DEF SwitchesDone
  <2>1. i = 2
    BY <1>5
  <2>2. v # 1 => Cancels(s[3], "on") /\ Cancels(s[4], "off")
    BY <1>2 DEF Cancels
  <2>3. \A d \in 1..3, t \in Timers : ByTime(s[2 + d], t) => v = 1 /\ d = Gap(t)
    <3> TAKE d \in 1..3, t \in Timers
    <3>1. 2 + d \in 1..Len(s) /\ Gap(t) \in 2..3
      BY <1>4 DEF Gap
    <3> QED
      BY <1>5, <3>1
  <2>4. 2 + 1 = 3 /\ 2 + 2 = 4
    OBVIOUS
  <2>5. \A d \in 1..3, t \in Timers : ByTime(s[i + d], t) => s[i].v = 1 /\ d >= Gap(t)
    BY <1>2, <2>1, <2>3 DEF Gap
  <2> QED
    BY <1>2, <1>4, <2>1, <2>2, <2>4, <2>5
<1>8. ReadsFirst(s)
  <2> SUFFICES ASSUME NEW i \in 2..Len(s)
               PROVE  /\ s[i].op = "writePort" => s[i - 1].op = "readPort"
                      /\ s[i].op = "writeOnoff" => s[i - 1].op = "readOnoff"
    BY DEF ReadsFirst
  <2>1. i \in 1..Len(s) /\ 2 - 1 = 1
    BY <1>4
  <2> QED
    BY <1>2, <1>5, <2>1
<1>9. SwitchesFirst(s)
  <2> SUFFICES ASSUME NEW i \in 1..Len(s), NEW t \in Timers, ByTime(s[i], t)
               PROVE  Time(s[i - Gap(t)]) /\ s[i - Gap(t)].v = 1
    BY DEF SwitchesFirst
  <2>1. v = 1 /\ i = 2 + Gap(t) /\ Gap(t) \in 2..3
    BY <1>5 DEF Gap
  <2>2. i - Gap(t) = 2
    BY <2>1
  <2>3. Time(s[2]) /\ s[2].v = 1
    BY <1>2, <2>1 DEF Time
  <2> QED
    BY <2>2, <2>3, Zenon
<1>10. Fresh(s)
  <2>1. s[1].op \notin {"writePort", "writeOnoff"} /\ \A t \in Timers : Gap(t) \in 2..3
    BY <1>2 DEF Gap
  <2>2. \A i \in 1..Len(s), t \in Timers : i <= Gap(t) => ~ByTime(s[i], t)
    BY <1>4, <1>5, <2>1
  <2> QED
    BY <1>5, <2>1, <2>2 DEF Fresh
<1>11. ~Sockets(s) /\ ~Relays(s) /\ Times(s)
  BY <1>4, <1>5 DEF Sockets, Relays, Times
<1>12. Part(s, {"time"})
  BY <1>4, <1>6, <1>7, <1>8, <1>9, <1>10, <1>11 DEF Part, Shape
<1> QED
  BY <1>1, <1>12

LEMMA OtherParts ==
    /\ \A v \in {0, 1} : Part(SetValue("led", v), {})
    /\ \A v \in {0, 1} : Part(SetBit("count", v), {})
    /\ \A days \in SUBSET Days : Part(WeekRepeat(days), {})
    /\ \A t \in Timers, m \in Asked : Part(SetMinute(t, m), {})
<1>1. ASSUME NEW v \in {0, 1} PROVE Part(SetValue("led", v), {})
  <2>1. PICK s : /\ s = SetValue("led", v) /\ s \in Seq(Ops) /\ Len(s) = 2
                 /\ s[1] = [op |-> "readPort"]
                 /\ s[2] = [op |-> "writePort", bit |-> "led", v |-> v]
    BY SetOps
  <2>2. s[1].op = "readPort" /\ s[2].op = "writePort" /\ s[2].bit = "led"
    BY <2>1
  <2>3. Part(s, {})
    BY <2>1, <2>2, PairPart
  <2> QED
    BY <2>1, <2>3
<1>4. ASSUME NEW v \in {0, 1} PROVE Part(SetBit("count", v), {})
  <2>1. PICK s : /\ s = SetBit("count", v) /\ s \in Seq(Ops) /\ Len(s) = 2
                 /\ s[1] = [op |-> "readOnoff"]
                 /\ s[2] = [op |-> "writeOnoff", bit |-> "count", v |-> v]
    BY SetOps
  <2>2. s[1].op = "readOnoff" /\ s[2].op = "writeOnoff" /\ s[2].bit = "count"
    BY <2>1
  <2>3. Part(s, {})
    BY <2>1, <2>2, PairPart
  <2> QED
    BY <2>1, <2>3
<1>2. ASSUME NEW days \in SUBSET Days PROVE Part(WeekRepeat(days), {})
  <2>1. PICK s : /\ s = WeekRepeat(days) /\ s \in Seq(Ops) /\ Len(s) = 2
                 /\ s[1] = [op |-> "week", days |-> days] /\ s[2] = [op |-> "repeatAsDays"]
    BY SetOps
  <2>2. s[1].op = "week" /\ s[2].op = "repeatAsDays"
    BY <2>1
  <2>3. Part(s, {})
    BY <2>1, <2>2, PairPart
  <2> QED
    BY <2>1, <2>3
<1>3. ASSUME NEW t \in Timers, NEW m \in Asked PROVE Part(SetMinute(t, m), {})
  <2>1. PICK s : /\ s = SetMinute(t, m) /\ s \in Seq(Ops) /\ Len(s) = 2
                 /\ s[1] = [op |-> "minute", t |-> t, m |-> m]
                 /\ s[2] = [op |-> "arm", t |-> t, by |-> "minute"]
    BY MinuteOps, Zenon
  <2>2. /\ s[1].op = "minute" /\ s[2].op = "arm" /\ s[1].t = t /\ s[2].t = t
        /\ s[2].by = "minute"
    BY <2>1
  <2>3. Arms(s[2], s[1].t)
    BY <2>2 DEF Arms
  <2>4. Part(s, {})
    BY <2>1, <2>2, <2>3, PairPart
  <2> QED
    BY <2>1, <2>4
<1> QED
  BY <1>1, <1>2, <1>3, <1>4

\* A command writes the bits that it names, and no other.
LEMMA ProgramPart ==
    ASSUME NEW c \in Commands
    PROVE  Part(Program(c), {"socket", "time"} \intersect DOMAIN c)
<1> DEFINE A == IF "socket" \in DOMAIN c THEN Switch(c["socket"]) ELSE <<>>
           B == IF "time" \in DOMAIN c THEN TimeOnOff(c["time"]) ELSE <<>>
           W == IF "count" \in DOMAIN c THEN SetBit("count", c["count"]) ELSE <<>>
           C == IF "week" \in DOMAIN c THEN WeekRepeat(c["week"]) ELSE <<>>
           D == IF "on" \in DOMAIN c THEN SetMinute("on", c["on"]) ELSE <<>>
           E == IF "off" \in DOMAIN c THEN SetMinute("off", c["off"]) ELSE <<>>
           a == {"socket"} \intersect DOMAIN c
           b == {"time"} \intersect DOMAIN c
<1>1. Program(c) = A \o B \o W \o C \o D \o E
  BY Zenon DEF Program
<1>2. Part(A, a)
  <2>1. CASE "socket" \in DOMAIN c
    <3>1. c["socket"] \in {0, 1} /\ a = {"socket"}
      BY <2>1, StripConstants
    <3> QED
      BY <2>1, <3>1, SwitchPart
  <2>2. CASE "socket" \notin DOMAIN c
    <3>1. a = {}
      BY <2>2
    <3> QED
      BY <2>2, <3>1, NoPart
  <2> QED
    BY <2>1, <2>2
<1>3. Part(B, b)
  <2>1. CASE "time" \in DOMAIN c
    <3>1. c["time"] \in {0, 1} /\ b = {"time"}
      BY <2>1, StripConstants
    <3> QED
      BY <2>1, <3>1, TimePart
  <2>2. CASE "time" \notin DOMAIN c
    <3>1. b = {}
      BY <2>2
    <3> QED
      BY <2>2, <3>1, NoPart
  <2> QED
    BY <2>1, <2>2
<1>4. Part(C, {})
  <2>1. "week" \in DOMAIN c => c["week"] \in SUBSET Days
    BY StripConstants
  <2> QED
    BY <2>1, OtherParts, NoPart
<1>w. Part(W, {})
  <2>1. "count" \in DOMAIN c => c["count"] \in {0, 1}
    BY StripConstants
  <2> QED
    BY <2>1, OtherParts, NoPart
<1>5. Part(D, {}) /\ Part(E, {})
  <2>1. /\ "on" \in DOMAIN c => c["on"] \in Asked
        /\ "off" \in DOMAIN c => c["off"] \in Asked
    BY DEF Asked, Timers
  <2>2. "on" \in Timers /\ "off" \in Timers
    BY DEF Timers
  <2>3. Part(D, {})
    BY <2>1, <2>2, OtherParts, NoPart
  <2>4. Part(E, {})
    BY <2>1, <2>2, OtherParts, NoPart
  <2> QED
    BY <2>3, <2>4
<1> HIDE DEF A, B, W, C, D, E, a, b
<1>6. ASSUME NEW s, NEW r, NEW x, NEW y, Part(s, x), Part(r, y)
      PROVE  Part(s \o r, x \union y)
  <2>1. s \in Seq(Ops) /\ r \in Seq(Ops)
    BY <1>6 DEF Part, Shape
  <2>2. IsJoin(s \o r, s, r)
    BY <2>1, Joined
  <2> QED
    BY <1>6, <2>2, JoinShape
<1>7. Part(A \o B, a \union b)
  BY <1>2, <1>3, <1>6
<1>8. Part(A \o B \o W, (a \union b) \union {})
  BY <1>w, <1>6, <1>7, Zenon
<1>9. Part(A \o B \o W \o C, (a \union b) \union {} \union {})
  BY <1>4, <1>6, <1>8, Zenon
<1>10. Part(A \o B \o W \o C \o D, (a \union b) \union {} \union {} \union {})
  BY <1>5, <1>6, <1>9, Zenon
<1>11. Part(A \o B \o W \o C \o D \o E, (a \union b) \union {} \union {} \union {} \union {})
  BY <1>5, <1>6, <1>10, Zenon
<1>12. (a \union b) \union {} \union {} \union {} \union {}
          = {"socket", "time"} \intersect DOMAIN c
  BY DEF a, b
<1> QED
  BY <1>1, <1>11, <1>12, Zenon
-----------------------------------------------------------------------------
(* Steps of a task. *)

LEMMA TailIs ==
    ASSUME NEW s \in Seq(Ops), Len(s) > 0
    PROVE  IsTail(Tail(s), s) /\ Head(s) = s[1] /\ s[1] \in Ops
BY SMT DEF IsTail

LEMMA WorkIs ==
    ASSUME NEW s \in Seq(Ops)
    PROVE  Len(s) \in Nat /\ (Len(s) > 0 <=> s # <<>>)
BY SMT

LEMMA TailShape ==
    ASSUME NEW q, NEW s, IsTail(q, s), Shape(s)
    PROVE  Shape(q)
<1>1. /\ q \in Seq(Ops) /\ Len(s) \in Nat /\ Len(q) \in Nat /\ Len(s) = Len(q) + 1
      /\ \A i \in 1..Len(q) : q[i] = s[i + 1]
  BY DEF IsTail
<1>2. \A i \in 1..Len(q) : i + 1 \in 1..Len(s) /\ q[i] = s[i + 1]
  BY <1>1
<1>3. ASSUME NEW i \in 1..Len(q), NEW d \in 1..4, (i + 1) + d <= Len(s)
      PROVE  i + d <= Len(q) /\ q[i + d] = s[(i + 1) + d]
  <2>1. i + d \in 1..Len(q) /\ (i + d) + 1 = (i + 1) + d
    BY <1>1, <1>3
  <2> QED
    BY <1>1, <2>1
<1>4. ASSUME NEW i \in 1..Len(q), NEW d \in 1..4, d < i
      PROVE  q[i - d] = s[(i + 1) - d] /\ (i + 1) - d > 1
  <2>1. i - d \in 1..Len(q) /\ (i - d) + 1 = (i + 1) - d
    BY <1>1, <1>4
  <2> QED
    BY <1>1, <2>1
<1>5. MinutesArmed(q)
  <2> SUFFICES ASSUME NEW i \in 1..Len(q), q[i].op = "minute"
               PROVE  i + 1 <= Len(q) /\ Arms(q[i + 1], q[i].t)
    BY DEF MinutesArmed
  <2>1. (i + 1) + 1 <= Len(s) /\ Arms(s[(i + 1) + 1], s[i + 1].t)
    BY <1>2 DEF Shape, MinutesArmed
  <2>2. i + 1 <= Len(q) /\ q[i + 1] = s[(i + 1) + 1]
    BY <1>3, <2>1
  <2> QED
    BY <1>2, <2>1, <2>2
<1>6. RelaysTold(q)
  <2> SUFFICES ASSUME NEW i \in 1..Len(q), Relay(q[i])
               PROVE  /\ i + 4 <= Len(q) /\ Socket(q[i + 4]) /\ q[i + 4].v = q[i].v
                      /\ \A d \in 1..3 : ~Socket(q[i + d])
    BY DEF RelaysTold
  <2>1. /\ (i + 1) + 4 <= Len(s) /\ Socket(s[(i + 1) + 4]) /\ s[(i + 1) + 4].v = s[i + 1].v
        /\ \A d \in 1..3 : ~Socket(s[(i + 1) + d])
    BY <1>2 DEF Shape, RelaysTold
  <2>2. ASSUME NEW d \in 1..4
        PROVE  i + d <= Len(q) /\ q[i + d] = s[(i + 1) + d]
    <3>1. (i + 1) + d <= Len(s)
      <4>1. (i + 1) + 4 <= Len(s) /\ Len(s) \in Nat
        BY <1>1, <2>1
      <4> QED
        BY ONLY <4>1, d \in 1..4, i \in 1..Len(q)
    <3> QED
      BY <1>3, <3>1
  <2>3. ASSUME NEW d \in 1..3
        PROVE  ~Socket(q[i + d])
    <3>1. d \in 1..4
      OBVIOUS
    <3>2. q[i + d] = s[(i + 1) + d]
      BY <2>2, <3>1
    <3> QED
      BY <2>1, <3>2
  <2>4. i + 4 <= Len(q) /\ q[i + 4] = s[(i + 1) + 4]
    BY <2>2
  <2>5. Socket(q[i + 4]) /\ q[i + 4].v = q[i].v
    BY <1>2, <2>1, <2>4
  <2> QED
    BY <2>3, <2>4, <2>5
<1>7. SwitchesDone(q)
  <2> DEFINE Done(i) ==
        /\ i + 3 <= Len(q)
        /\ q[i].v # 1 => Cancels(q[i + 1], "on") /\ Cancels(q[i + 2], "off")
        /\ \A d \in 1..3, t \in Timers :
              ByTime(q[i + d], t) => q[i].v = 1 /\ d >= Gap(t)
  <2> SUFFICES ASSUME NEW i \in 1..Len(q), Time(q[i])
               PROVE  Done(i)
    BY DEF SwitchesDone
  <2>1. /\ (i + 1) + 3 <= Len(s)
        /\ s[i + 1].v # 1 => Cancels(s[(i + 1) + 1], "on") /\ Cancels(s[(i + 1) + 2], "off")
        /\ \A d \in 1..3, t \in Timers :
              ByTime(s[(i + 1) + d], t) => s[i + 1].v = 1 /\ d >= Gap(t)
    BY <1>2 DEF Shape, SwitchesDone
  <2>2. ASSUME NEW d \in 1..3
        PROVE  i + d <= Len(q) /\ q[i + d] = s[(i + 1) + d]
    <3>1. (i + 1) + d <= Len(s) /\ d \in 1..4
      <4>1. (i + 1) + 3 <= Len(s) /\ Len(s) \in Nat
        BY <1>1, <2>1
      <4> QED
        BY ONLY <4>1, d \in 1..3, i \in 1..Len(q)
    <3> QED
      BY <1>3, <3>1
  <2>3. 1 \in 1..3 /\ 2 \in 1..3 /\ 3 \in 1..3
    OBVIOUS
  <2>4. q[i].v # 1 => Cancels(q[i + 1], "on") /\ Cancels(q[i + 2], "off")
    BY <1>2, <2>1, <2>2, <2>3
  <2> QED
    BY <1>2, <2>1, <2>2, <2>3, <2>4
<1>8. ReadsFirst(q)
  <2> SUFFICES ASSUME NEW i \in 2..Len(q)
               PROVE  /\ q[i].op = "writePort" => q[i - 1].op = "readPort"
                      /\ q[i].op = "writeOnoff" => q[i - 1].op = "readOnoff"
    BY DEF ReadsFirst
  <2>1. i \in 1..Len(q) /\ i + 1 \in 2..Len(s) /\ 1 < i
    BY <1>1
  <2>2. q[i] = s[i + 1] /\ q[i - 1] = s[(i + 1) - 1]
    BY <1>2, <1>4, <2>1
  <2> QED
    BY <2>1, <2>2 DEF Shape, ReadsFirst
<1>9. RelaysFirst(q)
  <2> SUFFICES ASSUME NEW i \in 5..Len(q), Socket(q[i]) PROVE Relay(q[i - 4])
    BY DEF RelaysFirst
  <2>1. i \in 1..Len(q) /\ i + 1 \in 5..Len(s) /\ 4 < i
    BY <1>1
  <2>2. q[i] = s[i + 1] /\ q[i - 4] = s[(i + 1) - 4]
    BY <1>2, <1>4, <2>1
  <2> QED
    BY <2>1, <2>2 DEF Shape, RelaysFirst
<1>10. SwitchesFirst(q)
  <2> SUFFICES ASSUME NEW i \in 1..Len(q), NEW t \in Timers, ByTime(q[i], t), i > Gap(t)
               PROVE  Time(q[i - Gap(t)]) /\ q[i - Gap(t)].v = 1
    BY DEF SwitchesFirst
  <2>1. Gap(t) \in 1..4 /\ Gap(t) < i /\ i + 1 \in 1..Len(s) /\ i + 1 > Gap(t)
    BY <1>1 DEF Gap
  <2>2. q[i] = s[i + 1] /\ q[i - Gap(t)] = s[(i + 1) - Gap(t)]
    BY <1>2, <1>4, <2>1
  <2> QED
    BY <2>1, <2>2 DEF Shape, SwitchesFirst
<1> QED
  BY <1>1, <1>5, <1>6, <1>7, <1>8, <1>9, <1>10 DEF Shape

\* What is still to be done after the first access.
LEMMA TailHas ==
    ASSUME NEW q, NEW s, IsTail(q, s)
    PROVE  /\ \A b : Updates(q, b) => Updates(s, b)
           /\ Sockets(s) /\ ~Socket(s[1]) => Sockets(q)
           /\ Times(s) /\ ~Time(s[1]) => Times(q)
           /\ \A t : Stops(s, t) /\ ~Cancels(s[1], t) => Stops(q, t)
           /\ \A t : SetsTimer(q, t) => SetsTimer(s, t)
           /\ \A t : SetsTimer(s, t) /\ ~(s[1].op \in {"minute", "arm"} /\ s[1].t = t)
                     => SetsTimer(q, t)
<1>1. \A i \in 1..Len(q) : i + 1 \in 1..Len(s) /\ q[i] = s[i + 1]
  BY DEF IsTail
<1>2. ASSUME NEW i \in 1..Len(s)
      PROVE  i = 1 \/ \E j \in 1..Len(q) : q[j] = s[i]
  <2> SUFFICES ASSUME i # 1 PROVE i - 1 \in 1..Len(q) /\ q[i - 1] = s[i]
    BY Zenon
  <2>1. i - 1 \in 1..Len(q) /\ (i - 1) + 1 = i
    BY DEF IsTail
  <2> QED
    BY <1>1, <2>1
<1>3. \A b : Updates(q, b) => Updates(s, b)
  BY <1>1, Zenon DEF Updates, Relays, Sockets, Times
<1>4. Sockets(s) /\ ~Socket(s[1]) => Sockets(q)
  BY <1>2, Zenon DEF Sockets
<1>5. Times(s) /\ ~Time(s[1]) => Times(q)
  BY <1>2, Zenon DEF Times
<1>6. \A t : Stops(s, t) /\ ~Cancels(s[1], t) => Stops(q, t)
  BY <1>2, Zenon DEF Stops
<1>7. \A t : SetsTimer(q, t) => SetsTimer(s, t)
  BY <1>1, Zenon DEF SetsTimer
<1>8. \A t : SetsTimer(s, t) /\ ~(s[1].op \in {"minute", "arm"} /\ s[1].t = t)
            => SetsTimer(q, t)
  BY <1>2, Zenon DEF SetsTimer
<1> QED
  BY <1>3, <1>4, <1>5, <1>6, <1>7, <1>8

LEMMA OpsFields ==
    ASSUME NEW a \in Ops
    PROVE  /\ a.op \in {"minute", "arm", "cancel"} => a.t \in Timers
           /\ a.op = "minute" => a.m \in Asked
           /\ a.op = "arm" => a.by \in {"time", "minute"}
BY DEF Ops

LEMMA RankIs == Rank = 1..4
<1>1. Len(Task) = 4 /\ DOMAIN Task = 1..Len(Task)
  BY DEF Task
<1> QED
  BY <1>1 DEF Rank

LEMMA BusyIs ==
    ASSUME Shapes
    PROVE  /\ Busy = {k \in Rank : Works(k)}
           /\ \A k \in Rank : ~Works(k) <=> todo[k] = <<>>
           /\ \A k \in Rank : Len(todo[k]) \in Nat /\ todo[k] \in Seq(Ops)
           /\ Len(<<>>) = 0
<1>1. \A k \in Rank : todo[k] \in Seq(Ops)
  BY DEF Shapes, Shape
<1>2. \A k \in Rank : Len(todo[k]) \in Nat /\ (Len(todo[k]) > 0 <=> todo[k] # <<>>)
  BY <1>1, WorkIs
<1> QED
  BY <1>1, <1>2 DEF Busy, Works

\* What an access leaves to be done, and what it changes.
AccessEffect(k, a) ==
    /\ a.op = "writePort" => port' = Changed(reg[k], a.bit, a.v)
    /\ a.op # "writePort" => port' = port
    /\ a.op = "writeOnoff" => onoff' = Changed(reg[k], a.bit, a.v)
    /\ a.op # "writeOnoff" => onoff' = onoff
    /\ a.op = "readPort" => reg'[k] = port
    /\ a.op = "readOnoff" => reg'[k] = onoff
    /\ DOMAIN reg' = Rank /\ \A j \in Rank \ {k} : reg'[j] = reg[j]
    /\ a.op = "minute" => minute' = [minute EXCEPT ![a.t] = a.m]
    /\ a.op # "minute" => minute' = minute
    /\ a.op = "arm" =>
         /\ at[k] = "start"
         /\ remaining' = [remaining EXCEPT ![a.t] = OSTmrDly[a.t].ticks]
         /\ armedFor' = [armedFor EXCEPT ![a.t] = OSTmrDly[a.t].minute]
         /\ late' = [late EXCEPT ![a.t] = Lag(OSTmrDly[a.t])]
         /\ byMinute' = IF a.by = "minute" THEN byMinute \union {a.t} ELSE byMinute \ {a.t}
    /\ a.op = "cancel" =>
         /\ remaining' = [remaining EXCEPT ![a.t] = 0]
         /\ armedFor' = [armedFor EXCEPT ![a.t] = None]
         /\ late' = [late EXCEPT ![a.t] = 0]
         /\ byMinute' = byMinute \ {a.t}
    /\ a.op \notin {"arm", "cancel"} => UNCHANGED <<remaining, armedFor, late, byMinute>>
    /\ at' = [at EXCEPT ![k] = "call"]
    /\ UNCHANGED <<OSTime, due, torn, timing, OSTmrDly, crossed>>

LEMMA AccessChanges ==
    ASSUME Types, Shapes, NEW k \in Rank, Access(k)
    PROVE  /\ due = {} /\ Works(k) /\ \A j \in Rank : Works(j) => j >= k
           /\ todo[k][1] \in Ops /\ IsTail(todo'[k], todo[k])
           /\ DOMAIN todo' = Rank /\ \A j \in Rank \ {k} : todo'[j] = todo[j]
           /\ AccessEffect(k, todo[k][1])
<1>1. due = {} /\ Works(k) /\ \A j \in Rank : Works(j) => j >= k
  BY BusyIs DEF Access, Scheduled
<1>2. /\ todo[k] \in Seq(Ops) /\ IsTail(Tail(todo[k]), todo[k])
      /\ Op(k) = todo[k][1] /\ todo[k][1] \in Ops
  BY <1>1, BusyIs, TailIs DEF Works, Op
<1>3. todo' = [todo EXCEPT ![k] = Tail(todo[k])]
  BY DEF Access, ReadPort, WritePort, ReadOnoff, WriteOnoff, RepeatIfDays, NoRepeat,
         StoreWeek, RepeatAsDays, StoreMinute, StartTimer, CancelTimer, Does
<1>4. /\ IsTail(todo'[k], todo[k]) /\ DOMAIN todo' = Rank
      /\ \A j \in Rank \ {k} : todo'[j] = todo[j]
  BY <1>2, <1>3 DEF Types
<1> DEFINE a == todo[k][1]
<1>5. AccessEffect(k, a)
  <2>0. Op(k) = a /\ DOMAIN reg = Rank
    BY <1>2 DEF Types
  <2> HIDE DEF a
  <2>1. CASE ReadPort(k)
    BY <2>0, <2>1 DEF ReadPort, Does, AccessEffect, status, schedule, delays
  <2>2. CASE WritePort(k)
    BY <2>0, <2>2 DEF WritePort, Does, AccessEffect, status, schedule, delays
  <2>3. CASE ReadOnoff(k)
    BY <2>0, <2>3 DEF ReadOnoff, Does, AccessEffect, status, schedule, delays
  <2>4. CASE WriteOnoff(k)
    BY <2>0, <2>4 DEF WriteOnoff, Does, AccessEffect, status, schedule, delays
  <2>5. CASE RepeatIfDays(k)
    BY <2>0, <2>5 DEF RepeatIfDays, Does, AccessEffect, status, schedule, delays
  <2>6. CASE NoRepeat(k)
    BY <2>0, <2>6 DEF NoRepeat, Does, AccessEffect, status, schedule, delays
  <2>7. CASE StoreWeek(k)
    BY <2>0, <2>7 DEF StoreWeek, Does, AccessEffect, status, schedule, delays
  <2>8. CASE RepeatAsDays(k)
    BY <2>0, <2>8 DEF RepeatAsDays, Does, AccessEffect, status, schedule, delays
  <2>9. CASE StoreMinute(k)
    BY <2>0, <2>9 DEF StoreMinute, Does, AccessEffect, status, schedule, delays
  <2>10. CASE StartTimer(k)
    BY <2>0, <2>10 DEF StartTimer, Does, AccessEffect, status, schedule, delays
  <2>11. CASE CancelTimer(k)
    BY <2>0, <2>11 DEF CancelTimer, Stopped, Does, AccessEffect, status, schedule, delays
  <2> QED
    BY <2>1, <2>2, <2>3, <2>4, <2>5, <2>6, <2>7, <2>8, <2>9, <2>10, <2>11 DEF Access
<1> QED
  BY <1>1, <1>2, <1>4, <1>5

LEMMA AskedIs == Asked \subseteq Nat
<1>1. \A c \in Commands : \A t \in Timers \intersect DOMAIN c : c[t] \in Nat
  BY StripConstants
<1> QED
  BY <1>1 DEF Asked

LEMMA AccessTypes ==
    ASSUME Types, Shapes, NEW k \in Rank, Access(k)
    PROVE  Types' /\ Shapes'
<1> DEFINE a == todo[k][1]
<1>1. /\ a \in Ops /\ IsTail(todo'[k], todo[k]) /\ AccessEffect(k, a)
      /\ DOMAIN todo' = Rank /\ \A j \in Rank \ {k} : todo'[j] = todo[j]
  BY AccessChanges
<1>2. Shapes'
  <2>1. Shape(todo'[k])
    BY <1>1, TailShape DEF Shapes
  <2> QED
    BY <1>1, <2>1 DEF Shapes
<1> HIDE DEF a
<1>3. /\ a.op \in {"minute", "arm", "cancel"} => a.t \in Timers
      /\ a.op = "minute" => a.m \in Asked
  BY <1>1, OpsFields
<1>4. minute' \in [Timers -> Asked]
  BY <1>1, <1>3 DEF AccessEffect, Types
<1>5. OSTime \in Int
  BY ClockUnits DEF Types
<1>6. remaining' \in [Timers -> Nat]
  <2>1. CASE a.op = "arm"
    <3>1. OSTmrDly[a.t].ticks \in Nat
      BY <1>3, <2>1 DEF Types, Delays
    <3> QED
      BY <1>1, <1>3, <2>1, <3>1 DEF AccessEffect, Types
  <2>2. CASE a.op = "cancel"
    BY <1>1, <1>3, <2>2 DEF AccessEffect, Types
  <2>3. CASE a.op \notin {"arm", "cancel"}
    BY <1>1, <2>3 DEF AccessEffect, Types
  <2> QED
    BY <2>1, <2>2, <2>3
<1>7. armedFor' \in [Timers -> Asked \union {None}]
  <2>1. CASE a.op = "arm"
    <3>1. OSTmrDly[a.t].minute \in Asked \union {None}
      BY <1>3, <2>1 DEF Types, Delays
    <3> QED
      BY <1>1, <1>3, <2>1, <3>1 DEF AccessEffect, Types
  <2>2. CASE a.op = "cancel"
    BY <1>1, <1>3, <2>2 DEF AccessEffect, Types
  <2>3. CASE a.op \notin {"arm", "cancel"}
    BY <1>1, <2>3 DEF AccessEffect, Types
  <2> QED
    BY <2>1, <2>2, <2>3
<1>8. UNCHANGED <<OSTime, due>> /\ DOMAIN reg' = Rank
  BY <1>1 DEF AccessEffect
<1>10. late' \in [Timers -> Int]
  <2>1. CASE a.op = "arm"
    <3>1. OSTmrDly[a.t].from \in Int
      BY <1>3, <2>1 DEF Types, Delays
    <3>2. Lag(OSTmrDly[a.t]) \in Int
      BY <1>5, <3>1 DEF Lag
    <3> QED
      BY <1>1, <1>3, <2>1, <3>2 DEF AccessEffect, Types
  <2>2. CASE a.op = "cancel"
    BY <1>1, <1>3, <2>2 DEF AccessEffect, Types
  <2>3. CASE a.op \notin {"arm", "cancel"}
    BY <1>1, <2>3 DEF AccessEffect, Types
  <2> QED
    BY <2>1, <2>2, <2>3
<1>11. at' \in [Rank -> {"call", "set", "start"}]
  BY <1>1 DEF AccessEffect, Types
<1>12. timing' \in [Rank -> Delays] /\ OSTmrDly' \in [Timers -> Delays]
  BY <1>1 DEF AccessEffect, Types
<1>9. Types'
  BY <1>1, <1>4, <1>6, <1>7, <1>8, <1>10, <1>11, <1>12 DEF Types
<1> QED
  BY <1>2, <1>9

\* The writer of a bit that no two updates met in runs alone.
LEMMA Alone ==
    ASSUME Shapes, OneWriter, NEW k \in Rank, \A j \in Rank : Works(j) => j >= k,
           NEW b \in {"socket", "time"}, b \notin torn, Updates(todo[k], b)
    PROVE  \A j \in Rank \ {k} : ~Works(j) /\ Len(todo[j]) = 0
<1>1. \A j \in Rank : Works(j) => j <= k
  BY DEF OneWriter
<1>2. \A j \in Rank : j \in Int
  BY RankIs
<1>3. \A j \in Rank \ {k} : ~Works(j)
  BY <1>1, <1>2
<1> QED
  BY <1>3, BusyIs

\* Of the bits that no two updates met in, an access changes the one it
\* writes.
LEMMA BitsKept ==
    ASSUME Types, Shapes, PortRead, OnoffRead, NEW k \in Rank, Access(k)
    PROVE  /\ "socket" \notin torn =>
                IF Relay(todo[k][1]) THEN "relay" \in port' <=> todo[k][1].v = 1
                ELSE "relay" \in port' <=> "relay" \in port
           /\ "socket" \notin torn =>
                IF Socket(todo[k][1]) THEN "socket" \in onoff' <=> todo[k][1].v = 1
                ELSE "socket" \in onoff' <=> "socket" \in onoff
           /\ "time" \notin torn =>
                IF Time(todo[k][1]) THEN "time" \in onoff' <=> todo[k][1].v = 1
                ELSE "time" \in onoff' <=> "time" \in onoff
<1> DEFINE a == todo[k][1]
<1>1. Works(k) /\ AccessEffect(k, a)
  BY AccessChanges
<1>2. /\ "socket" \notin torn /\ a.op = "writePort" /\ a.bit # "relay"
           => ("relay" \in reg[k] <=> "relay" \in port)
      /\ \A b \in {"socket", "time"} :
           b \notin torn /\ a.op = "writeOnoff" /\ a.bit # b
             => (b \in reg[k] <=> b \in onoff)
  BY <1>1 DEF PortRead, OnoffRead
<1> HIDE DEF a
<1>3. \A S, x, y, v : IF x = y THEN y \in Changed(S, x, v) <=> v = 1
                      ELSE y \in Changed(S, x, v) <=> y \in S
  BY DEF Changed
<1>4. "socket" \notin torn => IF Relay(a) THEN "relay" \in port' <=> a.v = 1
                              ELSE "relay" \in port' <=> "relay" \in port
  BY <1>1, <1>2, <1>3 DEF AccessEffect, Relay
<1>5. "socket" \notin torn => IF Socket(a) THEN "socket" \in onoff' <=> a.v = 1
                              ELSE "socket" \in onoff' <=> "socket" \in onoff
  BY <1>1, <1>2, <1>3 DEF AccessEffect, Socket
<1>6. "time" \notin torn => IF Time(a) THEN "time" \in onoff' <=> a.v = 1
                            ELSE "time" \in onoff' <=> "time" \in onoff
  BY <1>1, <1>2, <1>3 DEF AccessEffect, Time
<1> QED
  BY <1>4, <1>5, <1>6 DEF a

LEMMA WritesUpdate ==
    ASSUME Shapes, NEW k \in Rank, Works(k)
    PROVE  /\ Relay(todo[k][1]) \/ Socket(todo[k][1]) => Updates(todo[k], "socket")
           /\ Time(todo[k][1]) => Updates(todo[k], "time")
<1>1. 1 \in 1..Len(todo[k])
  BY BusyIs DEF Works
<1> QED
  BY <1>1 DEF Updates, Relays, Sockets, Times

LEMMA AccessRegs ==
    ASSUME Types, Shapes, OneWriter, PortRead, OnoffRead, NEW k \in Rank, Access(k)
    PROVE  OneWriter' /\ PortRead' /\ OnoffRead'
<1> DEFINE a == todo[k][1]
<1>1. /\ Works(k) /\ \A j \in Rank : Works(j) => j >= k
      /\ IsTail(todo'[k], todo[k]) /\ AccessEffect(k, a)
      /\ \A j \in Rank \ {k} : todo'[j] = todo[j]
  BY AccessChanges
<1>2. torn' = torn /\ \A j \in Rank \ {k} : reg'[j] = reg[j]
  BY <1>1 DEF AccessEffect
<1>3. \A j \in Rank : Works(j)' => Works(j)
  BY <1>1 DEF Works
<1>4. \A j \in Rank : \A b : Updates(todo'[j], b) => Updates(todo[j], b)
  BY <1>1, TailHas
<1>5. OneWriter'
  BY <1>2, <1>3, <1>4 DEF OneWriter
\* The task that has just read.
<1>6. ASSUME Works(k)'
      PROVE  /\ todo'[k][1].op = "writePort" => reg'[k] = port /\ port' = port
             /\ todo'[k][1].op = "writeOnoff" => reg'[k] = onoff /\ onoff' = onoff
  <2>1. /\ todo'[k][1] = todo[k][2] /\ 2 \in 2..Len(todo[k])
        /\ Len(todo[k]) \in Nat /\ 2 - 1 = 1
    BY <1>1, <1>6 DEF Works, IsTail
  <2>2. ReadsFirst(todo[k])
    BY DEF Shapes, Shape
  <2>3. /\ todo'[k][1].op = "writePort" => a.op = "readPort"
        /\ todo'[k][1].op = "writeOnoff" => a.op = "readOnoff"
    BY <2>1, <2>2 DEF ReadsFirst
  <2> QED
    BY <1>1, <2>3 DEF AccessEffect
<1>7. PortRead'
  <2> SUFFICES ASSUME "socket" \notin torn, NEW j \in Rank, Works(j)',
                      todo'[j][1].op = "writePort", todo'[j][1].bit # "relay"
               PROVE  "relay" \in reg'[j] <=> "relay" \in port'
    BY <1>2 DEF PortRead
  <2>1. CASE j = k
    BY <1>6, <2>1
  <2>2. CASE j # k
    <3>1. Works(j) /\ todo'[j] = todo[j] /\ reg'[j] = reg[j]
      BY <1>1, <1>2, <1>3, <2>2
    <3>2. ~Relay(a)
      BY <1>1, <2>2, <3>1, Alone, WritesUpdate
    <3>3. "relay" \in reg[j] <=> "relay" \in port
      BY <3>1 DEF PortRead
    <3> QED
      BY <3>1, <3>2, <3>3, BitsKept
  <2> QED
    BY <2>1, <2>2
<1>8. OnoffRead'
  <2> SUFFICES ASSUME NEW b \in {"socket", "time"}, b \notin torn, NEW j \in Rank, Works(j)',
                      todo'[j][1].op = "writeOnoff", todo'[j][1].bit # b
               PROVE  b \in reg'[j] <=> b \in onoff'
    BY <1>2 DEF OnoffRead
  <2>1. CASE j = k
    BY <1>6, <2>1
  <2>2. CASE j # k
    <3>1. Works(j) /\ todo'[j] = todo[j] /\ reg'[j] = reg[j]
      BY <1>1, <1>2, <1>3, <2>2
    <3>2. /\ b = "socket" => ~Socket(a)
          /\ b = "time" => ~Time(a)
      BY <1>1, <2>2, <3>1, Alone, WritesUpdate
    <3>3. b \in reg[j] <=> b \in onoff
      BY <3>1 DEF OnoffRead
    <3> QED
      BY <3>1, <3>2, <3>3, BitsKept
  <2> QED
    BY <2>1, <2>2
<1> QED
  BY <1>5, <1>7, <1>8

LEMMA AccessRelay ==
    ASSUME Types, Shapes, OneWriter, PortRead, OnoffRead, RelayDone, AllTold,
           NEW k \in Rank, Access(k)
    PROVE  RelayDone' /\ AllTold'
<1> DEFINE a == todo[k][1]
           s == todo[k]
           q == todo'[k]
<1>1. /\ Works(k) /\ \A j \in Rank : Works(j) => j >= k
      /\ IsTail(q, s) /\ AccessEffect(k, a) /\ torn' = torn
      /\ \A j \in Rank \ {k} : todo'[j] = todo[j]
  BY AccessChanges DEF AccessEffect
<1>2. RelaysTold(s) /\ RelaysFirst(s)
  BY DEF Shapes, Shape
<1>3. /\ Len(q) \in Nat /\ Len(s) = Len(q) + 1 /\ \A i \in 1..Len(q) : q[i] = s[i + 1]
      /\ 1 \in 1..Len(s) /\ a = s[1]
  BY <1>1 DEF IsTail
<1>4. Relay(a) => /\ 5 <= Len(s) /\ Socket(s[5]) /\ s[5].v = a.v
                  /\ \A i \in 2..4 : ~Socket(s[i])
  <2> HAVE Relay(a)
  <2>1. /\ 1 + 4 <= Len(s) /\ Socket(s[1 + 4]) /\ s[1 + 4].v = s[1].v
        /\ \A d \in 1..3 : ~Socket(s[1 + d])
    BY <1>2, <1>3 DEF RelaysTold
  <2>2. 1 + 4 = 5 /\ \A i \in 2..4 : i - 1 \in 1..3 /\ 1 + (i - 1) = i
    OBVIOUS
  <2> QED
    BY <1>3, <2>1, <2>2
<1>5. Socket(s[5]) /\ 5 <= Len(s) => Relay(a)
  <2> HAVE Socket(s[5]) /\ 5 <= Len(s)
  <2>1. 5 \in 5..Len(s) /\ 5 - 4 = 1
    BY <1>3
  <2> QED
    BY <1>2, <1>3, <2>1 DEF RelaysFirst
<1>6. RelayDone'
  <2> SUFFICES ASSUME "socket" \notin torn, NEW j \in Rank, NEW i \in 1..Len(todo'[j]),
                      i <= 4, Socket(todo'[j][i])
               PROVE  "relay" \in port' <=> todo'[j][i].v = 1
    BY <1>1 DEF RelayDone
  <2>1. CASE j = k
    <3>1. /\ i + 1 \in 1..Len(s) /\ i + 1 \in 2..5 /\ q[i] = s[i + 1]
      BY <1>3, <2>1
    <3>2. CASE Relay(a)
      <4>1. i + 1 = 5
        BY <1>4, <2>1, <3>1, <3>2
      <4>2. s[5].v = a.v /\ q[i] = s[5]
        BY <1>4, <3>1, <3>2, <4>1
      <4> QED
        BY <2>1, <3>2, <4>2, BitsKept
    <3>3. CASE ~Relay(a)
      <4>1. i + 1 <= 4
        BY <1>3, <1>5, <2>1, <3>1, <3>3
      <4>2. "relay" \in port <=> s[i + 1].v = 1
        BY <2>1, <3>1, <4>1 DEF RelayDone
      <4> QED
        BY <2>1, <3>1, <3>3, <4>2, BitsKept
    <3> QED
      BY <3>2, <3>3
  <2>2. CASE j # k
    <3>1. todo'[j] = todo[j] /\ Len(todo[j]) > 0
      BY <1>1, <2>2, BusyIs
    <3>2. ~Relay(a)
      BY <1>1, <2>2, <3>1, Alone, WritesUpdate DEF Works
    <3>3. "relay" \in port <=> todo[j][i].v = 1
      BY <3>1 DEF RelayDone
    <3> QED
      BY <3>1, <3>2, <3>3, BitsKept
  <2> QED
    BY <2>1, <2>2
<1>7. AllTold'
  <2> SUFFICES ASSUME "socket" \notin torn, \A j \in Rank : ~Sockets(todo'[j])
               PROVE  "relay" \in port' <=> "socket" \in onoff'
    BY <1>1 DEF AllTold
  <2>1. ~Relay(a)
    <3> SUFFICES ASSUME Relay(a) PROVE FALSE
      OBVIOUS
    <3>1. 4 \in 1..Len(q) /\ 4 + 1 = 5
      BY <1>3, <1>4
    <3>2. Socket(q[4])
      BY <1>3, <1>4, <3>1
    <3> QED
      BY <3>1, <3>2 DEF Sockets
  <2>2. CASE Socket(a)
    <3>1. "relay" \in port <=> a.v = 1
      BY <1>3, <2>2 DEF RelayDone
    <3>2. "relay" \in port' <=> "relay" \in port
      BY <2>1, BitsKept
    <3>3. "socket" \in onoff' <=> a.v = 1
      BY <2>2, BitsKept
    <3> QED
      BY <3>1, <3>2, <3>3
  <2>3. CASE ~Socket(a)
    <3>1. \A j \in Rank : ~Sockets(todo[j])
      BY <1>1, <2>3, TailHas
    <3>2. "relay" \in port <=> "socket" \in onoff
      BY <3>1 DEF AllTold
    <3>3. "relay" \in port' <=> "relay" \in port
      BY <2>1, BitsKept
    <3>4. "socket" \in onoff' <=> "socket" \in onoff
      BY <2>3, BitsKept
    <3> QED
      BY <3>2, <3>3, <3>4
  <2> QED
    BY <2>2, <2>3
<1> QED
  BY <1>6, <1>7

LEMMA AccessTimers ==
    ASSUME Types, Shapes, OneWriter, PortRead, OnoffRead, SwitchDone, Allowed,
           NEW k \in Rank, Access(k)
    PROVE  SwitchDone' /\ Allowed'
<1> DEFINE a == todo[k][1]
           s == todo[k]
           q == todo'[k]
<1>1. /\ Works(k) /\ \A j \in Rank : Works(j) => j >= k
      /\ IsTail(q, s) /\ AccessEffect(k, a) /\ torn' = torn /\ due' = {} /\ due = {}
      /\ \A j \in Rank \ {k} : todo'[j] = todo[j]
  BY AccessChanges DEF AccessEffect
<1>2. SwitchesDone(s) /\ SwitchesFirst(s)
  BY DEF Shapes, Shape
<1>3. /\ Len(q) \in Nat /\ Len(s) = Len(q) + 1 /\ \A i \in 1..Len(q) : q[i] = s[i + 1]
      /\ 1 \in 1..Len(s) /\ a = s[1]
  BY <1>1 DEF IsTail
<1>4. \A t \in Timers : Gap(t) \in 2..3
  BY DEF Gap
<1>5. Time(a) =>
        /\ 4 <= Len(s)
        /\ a.v # 1 => Cancels(s[2], "on") /\ Cancels(s[3], "off")
        /\ \A d \in 1..3, t \in Timers : ByTime(s[1 + d], t) => a.v = 1 /\ d >= Gap(t)
  <2> HAVE Time(a)
  <2>1. /\ 1 + 3 <= Len(s)
        /\ a.v # 1 => Cancels(s[1 + 1], "on") /\ Cancels(s[1 + 2], "off")
        /\ \A d \in 1..3, t \in Timers : ByTime(s[1 + d], t) => a.v = 1 /\ d >= Gap(t)
    BY <1>2, <1>3 DEF SwitchesDone
  <2>2. 1 + 1 = 2 /\ 1 + 2 = 3 /\ 1 + 3 = 4
    OBVIOUS
  <2> QED
    BY <2>1, <2>2
<1>6. SwitchDone'
  <2> SUFFICES ASSUME "time" \notin torn, NEW j \in Rank, NEW t \in Timers,
                      NEW i \in 1..Len(todo'[j]), i <= Gap(t), ByTime(todo'[j][i], t)
               PROVE  "time" \in onoff'
    BY <1>1 DEF SwitchDone
  <2>1. CASE j = k
    <3>1. /\ i + 1 \in 1..Len(s) /\ q[i] = s[i + 1] /\ i \in 1..3 /\ i + 1 = 1 + i
      BY <1>3, <1>4, <2>1
    <3>2. CASE Time(a)
      <4>1. a.v = 1
        BY <1>5, <2>1, <3>1, <3>2
      <4> QED
        BY <3>2, <4>1, BitsKept
    <3>3. CASE ~Time(a)
      <4>1. i + 1 <= Gap(t)
        <5> SUFFICES ASSUME i = Gap(t) PROVE FALSE
          BY <1>4, <3>1
        <5>1. i + 1 > Gap(t) /\ (i + 1) - Gap(t) = 1
          BY <1>4
        <5>2. Time(s[1])
          BY <1>2, <2>1, <3>1, <5>1 DEF SwitchesFirst
        <5> QED
          BY <1>3, <3>3, <5>2
      <4>2. "time" \in onoff
        BY <2>1, <3>1, <4>1 DEF SwitchDone
      <4> QED
        BY <3>3, <4>2, BitsKept
    <3> QED
      BY <3>2, <3>3
  <2>2. CASE j # k
    <3>1. todo'[j] = todo[j] /\ Len(todo[j]) > 0
      BY <1>1, <2>2, BusyIs
    <3>2. ~Time(a)
      BY <1>1, <2>2, <3>1, Alone, WritesUpdate DEF Works
    <3>3. "time" \in onoff
      BY <3>1 DEF SwitchDone
    <3> QED
      BY <3>2, <3>3, BitsKept
  <2> QED
    BY <2>1, <2>2
<1>7. Allowed'
  <2> DEFINE Goal(t) == \/ "time" \in onoff'
                        \/ \E j \in Rank : Times(todo'[j]) \/ Stops(todo'[j], t)
  <2> SUFFICES ASSUME "time" \notin torn, NEW t \in Timers, remaining'[t] > 0,
                      t \notin byMinute'
               PROVE  Goal(t)
    BY <1>1 DEF Allowed
  <2>1. a \in Ops
    BY AccessChanges
  <2>2. CASE Arms(a, t)
    <3>1. a.op = "arm" /\ a.t = t /\ a.by \in {"time", "minute"}
      BY <2>1, <2>2, OpsFields DEF Arms
    <3>2. a.by = "time"
      BY <1>1, <3>1 DEF AccessEffect
    <3>3. ByTime(todo[k][1], t) /\ 1 <= Gap(t) /\ 1 \in 1..Len(todo[k])
      BY <1>3, <1>4, <3>1, <3>2 DEF ByTime
    <3>4. "time" \in onoff
      BY <3>3 DEF SwitchDone
    <3>5. onoff' = onoff
      BY <1>1, <3>1 DEF AccessEffect
    <3> QED
      BY <3>4, <3>5
  <2>3. CASE Cancels(a, t)
    <3>1. remaining'[t] = 0
      BY <1>1, <2>3 DEF AccessEffect, Cancels, Types
    <3> QED
      BY <3>1
  <2>4. CASE ~Arms(a, t) /\ ~Cancels(a, t)
    <3>1. remaining'[t] = remaining[t] /\ (t \in byMinute' <=> t \in byMinute)
      <4>1. CASE a.op = "arm"
        BY <1>1, <2>4, <4>1 DEF AccessEffect, Arms, Types
      <4>2. CASE a.op = "cancel"
        BY <1>1, <2>4, <4>2 DEF AccessEffect, Cancels, Types
      <4>3. CASE a.op \notin {"arm", "cancel"}
        BY <1>1, <4>3 DEF AccessEffect
      <4> QED
        BY <4>1, <4>2, <4>3
    <3>2. \/ "time" \in onoff
          \/ \E j \in Rank : Times(todo[j]) \/ Stops(todo[j], t)
      BY <3>1 DEF Allowed
    <3>3. CASE Time(a)
      <4>1. CASE a.v = 1
        BY <3>3, <4>1, BitsKept
      <4>2. CASE a.v # 1
        <5>1. 1 \in 1..Len(q) /\ 2 \in 1..Len(q) /\ q[1] = s[2] /\ q[2] = s[3]
          <6>1. 1 \in 1..Len(q) /\ 2 \in 1..Len(q) /\ 1 + 1 = 2 /\ 2 + 1 = 3
            BY <1>3, <1>5, <3>3
          <6> QED
            BY <1>3, <6>1
        <5>2. Cancels(q[1], "on") /\ Cancels(q[2], "off")
          BY <1>5, <3>3, <4>2, <5>1
        <5>3. Stops(q, t)
          BY <5>1, <5>2 DEF Stops, Timers
        <5> QED
          BY <5>3
      <4> QED
        BY <4>1, <4>2
    <3>4. CASE ~Time(a)
      <4>1. \A j \in Rank : /\ Times(todo[j]) => Times(todo'[j])
                            /\ Stops(todo[j], t) => Stops(todo'[j], t)
        BY <1>1, <2>4, <3>4, TailHas
      <4>2. "time" \in onoff => "time" \in onoff'
        BY <3>4, BitsKept
      <4> QED
        BY <3>2, <4>1, <4>2
    <3> QED
      BY <3>3, <3>4
  <2> QED
    BY <2>2, <2>3, <2>4
<1> QED
  BY <1>6, <1>7

\* An access that is not of a timer leaves the timer alone.
LEMMA TimerKept ==
    ASSUME Types, NEW k \in Rank, NEW a \in Ops, AccessEffect(k, a), NEW t \in Timers,
           ~Arms(a, t), ~Cancels(a, t)
    PROVE  remaining'[t] = remaining[t] /\ armedFor'[t] = armedFor[t] /\ late'[t] = late[t]
<1>1. CASE a.op = "arm"
  BY <1>1 DEF AccessEffect, Arms, Types
<1>2. CASE a.op = "cancel"
  BY <1>2 DEF AccessEffect, Cancels, Types
<1>3. CASE a.op \notin {"arm", "cancel"}
  BY <1>3 DEF AccessEffect
<1> QED
  BY <1>1, <1>2, <1>3

LEMMA AccessSetters ==
    ASSUME Types, Shapes, Setting, OneSetter, NEW k \in Rank, Access(k)
    PROVE  Setting' /\ OneSetter'
<1>1. /\ IsTail(todo'[k], todo[k]) /\ AccessEffect(k, todo[k][1])
      /\ \A j \in Rank \ {k} : todo'[j] = todo[j]
  BY AccessChanges
<1>2. /\ at' = [at EXCEPT ![k] = "call"] /\ crossed' = crossed
  BY <1>1 DEF AccessEffect
<1>3. Setting'
  <2> SUFFICES ASSUME NEW j \in Rank, at'[j] # "call"
               PROVE  Works(j)' /\ todo'[j][1].op = "arm"
    BY DEF Setting
  <2>1. j # k /\ at'[j] = at[j]
    BY <1>2 DEF Types
  <2> QED
    BY <1>1, <2>1 DEF Setting, Works
<1>4. \A j \in Rank, t \in Timers : SetsTimer(todo'[j], t) => SetsTimer(todo[j], t)
  BY <1>1, TailHas
<1>5. OneSetter'
  BY <1>2, <1>4 DEF OneSetter
<1> QED
  BY <1>3, <1>5

\* A task sets the timer that it is about to start or whose minute it stores.
LEMMA HeadSets ==
    ASSUME Shapes, NEW k \in Rank, Works(k), NEW t,
           todo[k][1].op \in {"minute", "arm"}, todo[k][1].t = t
    PROVE  SetsTimer(todo[k], t)
<1>1. 1 \in 1..Len(todo[k])
  BY BusyIs DEF Works
<1> QED
  BY <1>1 DEF SetsTimer

LEMMA AccessCurrent ==
    ASSUME Types, Shapes, Setting, OneSetter, Current, Computed, NEW k \in Rank, Access(k)
    PROVE  Current' /\ Computed' /\ DueIsZero'
<1> DEFINE a == todo[k][1]
           s == todo[k]
           q == todo'[k]
<1>1. /\ IsTail(q, s) /\ AccessEffect(k, a) /\ due' = {} /\ a \in Ops /\ Works(k)
      /\ \A j \in Rank \ {k} : todo'[j] = todo[j]
  BY AccessChanges DEF AccessEffect
<1>0. UNCHANGED <<timing, OSTmrDly, crossed>> /\ at' = [at EXCEPT ![k] = "call"]
  BY <1>1 DEF AccessEffect
<1>2. ASSUME NEW t \in Timers, t \notin crossed
      PROVE  \/ armedFor'[t] \in {None, minute'[t]}
             \/ \E j \in Rank : SetsTimer(todo'[j], t)
  <2>1. CASE Arms(a, t)
    <3>1. armedFor'[t] = OSTmrDly[t].minute /\ at[k] = "start" /\ minute'[t] = minute[t]
      BY <1>1, <2>1 DEF Arms, AccessEffect, Types
    <3>2. OSTmrDly[t].minute \in {None, minute[t]}
      BY <1>1, <1>2, <2>1, <3>1 DEF Computed
    <3> QED
      BY <3>1, <3>2
  <2>2. CASE Cancels(a, t)
    BY <1>1, <2>2 DEF Cancels, AccessEffect, Types
  <2>3. CASE a.op = "minute" /\ a.t = t
    <3>1. MinutesArmed(s)
      BY DEF Shapes, Shape
    <3>2. 1 \in 1..Len(s) /\ Len(s) = Len(q) + 1 /\ Len(q) \in Nat
      BY <1>1 DEF IsTail
    <3>3. 1 + 1 <= Len(s) /\ Arms(s[1 + 1], t)
      BY <2>3, <3>1, <3>2 DEF MinutesArmed
    <3>4. 1 \in 1..Len(q) /\ Len(q) > 0
      BY <3>2, <3>3
    <3>5. q[1] = s[1 + 1]
      BY <1>1, <3>4 DEF IsTail
    <3> QED
      BY <3>3, <3>4, <3>5 DEF Arms, SetsTimer
  <2>4. CASE ~Arms(a, t) /\ ~Cancels(a, t) /\ ~(a.op = "minute" /\ a.t = t)
    <3>1. minute'[t] = minute[t]
      BY <1>1, <2>4 DEF AccessEffect, Types
    <3>2. armedFor'[t] = armedFor[t]
      BY <1>1, <2>4, TimerKept
    <3>3. \A j \in Rank : SetsTimer(todo[j], t) => SetsTimer(todo'[j], t)
      BY <1>1, <2>4, TailHas DEF Arms
    <3> QED
      BY <1>2, <3>1, <3>2, <3>3 DEF Current
  <2> QED
    BY <2>1, <2>2, <2>3, <2>4
<1>3. ASSUME NEW t \in Timers, NEW j \in Rank, t \notin crossed, Works(j)', Arms(todo'[j][1], t)
      PROVE  /\ at'[j] = "set" => timing[j].minute \in {None, minute'[t]}
             /\ at'[j] = "start" => OSTmrDly[t].minute \in {None, minute'[t]}
  <2>1. CASE j = k
    <3>1. at'[k] = "call"
      BY <1>0 DEF Types
    <3> QED
      BY <2>1, <3>1
  <2>2. CASE j # k
    <3>1. Works(j) /\ Arms(todo[j][1], t) /\ at'[j] = at[j]
      BY <1>0, <1>1, <1>3, <2>2 DEF Works, Types
    <3>2. SetsTimer(todo[j], t)
      BY <3>1, HeadSets DEF Arms
    <3>3. ~(a.op = "minute" /\ a.t = t)
      BY <1>1, <1>3, <2>2, <3>2, HeadSets DEF OneSetter
    <3>4. minute'[t] = minute[t]
      BY <1>1, <3>3 DEF AccessEffect, Types
    <3> QED
      BY <1>3, <3>1, <3>4 DEF Computed
  <2> QED
    BY <2>1, <2>2
<1>4. Current'
  BY <1>0, <1>2 DEF Current
<1>5. Computed'
  BY <1>0, <1>3 DEF Computed
<1> QED
  BY <1>1, <1>4, <1>5 DEF DueIsZero

\* What timing_value returns.
LEMMA DelayType ==
    ASSUME Types, NEW t \in Timers
    PROVE  DelayFor(minute[t]) \in Delays /\ DelayFor(minute[t]).minute = minute[t]
<1> DEFINE m == minute[t]
<1>1. m \in Asked /\ m \in Nat /\ OSTime \in Nat
  <2>1. minute \in [Timers -> Asked] /\ OSTime \in 0..(TickWrap - 1)
    BY DEF Types
  <2>2. m \in Asked
    BY <2>1
  <2>3. OSTime \in Nat
    BY <2>1, ClockUnits
  <2> HIDE DEF m
  <2>4. m \in Nat
    BY <2>2, AskedIs
  <2> QED
    BY <2>2, <2>3, <2>4
<1> HIDE DEF m
<1>2. TimingValue(m, OSTime) \in Nat
  BY <1>1, TimingValueType
<1>3. (IF SystemMinute(OSTime) = m THEN OSTime - 1 ELSE OSTime) \in Int
  BY <1>1
<1>4. DelayFor(m) \in Delays /\ DelayFor(m).minute = m
  BY <1>1, <1>2, <1>3 DEF DelayFor, Delays
<1> QED
  BY <1>4 DEF m

\* The steps before a timer is started.
LEMMA PrepareStep ==
    ASSUME StripInv, NEW k \in Rank, Prepare(k)
    PROVE  StripInv'
<1> DEFINE a == todo[k][1]
<1>1. Works(k) /\ a \in Ops /\ Op(k) = a
  <2>1. Works(k)
    BY BusyIs DEF StripInv, Prepare
  <2>2. todo[k] \in Seq(Ops) /\ Len(todo[k]) > 0
    BY <2>1, BusyIs DEF StripInv, Works
  <2> QED
    BY <2>1, <2>2, TailIs DEF Op
<1>2. /\ UNCHANGED <<port, onoff, minute, OSTime, remaining, due, armedFor, late,
                     byMinute, todo, reg, torn, crossed>>
      /\ a.op = "arm"
  BY <1>1 DEF Prepare, CallTimingValue, SetDelay, status, schedule
<1> HIDE DEF a
<1>3. a.t \in Timers
  BY <1>1, <1>2, OpsFields
<1>4. \/ /\ at' = [at EXCEPT ![k] = "set"]
         /\ timing' = [timing EXCEPT ![k] = DelayFor(minute[a.t])]
         /\ OSTmrDly' = OSTmrDly
      \/ /\ at[k] = "set" /\ at' = [at EXCEPT ![k] = "start"]
         /\ OSTmrDly' = [OSTmrDly EXCEPT ![a.t] = timing[k]]
         /\ timing' = [timing EXCEPT ![k] = NoDelay]
  BY <1>1 DEF Prepare, CallTimingValue, SetDelay
<1>5. DelayFor(minute[a.t]) \in Delays /\ DelayFor(minute[a.t]).minute = minute[a.t]
  BY <1>3, DelayType DEF StripInv
<1>6. NoDelay \in Delays
  BY DEF NoDelay, Delays
<1>7. Types'
  <2>1. /\ at \in [Rank -> {"call", "set", "start"}]
        /\ timing \in [Rank -> Delays] /\ OSTmrDly \in [Timers -> Delays]
    BY DEF StripInv, Types
  <2>2. /\ at' \in [Rank -> {"call", "set", "start"}]
        /\ timing' \in [Rank -> Delays] /\ OSTmrDly' \in [Timers -> Delays]
    BY <1>3, <1>4, <1>5, <1>6, <2>1
  <2> QED
    BY <1>2, <2>2 DEF StripInv, Types
<1>8. /\ OneWriter' /\ PortRead' /\ OnoffRead' /\ RelayDone' /\ AllTold' /\ SwitchDone'
      /\ Shapes' /\ Allowed' /\ OneSetter' /\ Current' /\ DueIsZero'
  BY <1>2 DEF StripInv, OneWriter, PortRead, OnoffRead, RelayDone, AllTold, SwitchDone,
              Shapes, Allowed, OneSetter, Current, DueIsZero, Works
<1>9. Setting'
  <2> SUFFICES ASSUME NEW j \in Rank, at'[j] # "call"
               PROVE  Works(j) /\ todo[j][1].op = "arm"
    BY <1>2 DEF Setting, Works
  <2>1. CASE j = k
    BY <1>1, <1>2, <2>1 DEF a
  <2>2. CASE j # k
    <3>1. at'[j] = at[j]
      BY <1>4, <2>2 DEF StripInv, Types
    <3> QED
      BY <3>1 DEF StripInv, Setting
  <2> QED
    BY <2>1, <2>2
<1>10. Computed'
  <2> SUFFICES ASSUME NEW t \in Timers, NEW j \in Rank, t \notin crossed, Works(j),
                      Arms(todo[j][1], t)
               PROVE  /\ at'[j] = "set" => timing'[j].minute \in {None, minute[t]}
                      /\ at'[j] = "start" => OSTmrDly'[t].minute \in {None, minute[t]}
    BY <1>2 DEF Computed, Works
  <2>0. /\ at[j] = "set" => timing[j].minute \in {None, minute[t]}
        /\ at[j] = "start" => OSTmrDly[t].minute \in {None, minute[t]}
    BY DEF StripInv, Computed
  <2>1. CASE j = k
    <3>1. a.t = t
      BY <2>1 DEF Arms, a
    <3> QED
      BY <1>3, <1>4, <1>5, <2>0, <2>1, <3>1 DEF StripInv, Types
  <2>2. CASE j # k
    <3>1. a.t # t
      <4>1. SetsTimer(todo[j], t)
        BY HeadSets DEF StripInv, Arms
      <4>2. SetsTimer(todo[k], a.t)
        BY <1>1, <1>2, HeadSets DEF StripInv, a
      <4> QED
        BY <2>2, <4>1, <4>2 DEF StripInv, OneSetter
    <3>2. at'[j] = at[j] /\ timing'[j] = timing[j] /\ OSTmrDly'[t] = OSTmrDly[t]
      BY <1>3, <1>4, <2>2, <3>1 DEF StripInv, Types
    <3> QED
      BY <2>0, <3>2
  <2> QED
    BY <2>1, <2>2
<1> QED
  BY <1>7, <1>8, <1>9, <1>10 DEF StripInv
-----------------------------------------------------------------------------
(* Starts of tasks. *)

LEMMA StartStep ==
    ASSUME StripInv, NEW k \in Rank, NEW ops, NEW bits, Part(ops, bits), Start(k, ops, bits)
    PROVE  StripInv'
<1>1. /\ due = {} /\ ~Works(k) /\ todo[k] = <<>>
      /\ \A j \in Rank : Works(j) => j >= k
  BY BusyIs DEF StripInv, Start, Scheduled
<1>2. /\ DOMAIN todo' = Rank /\ todo'[k] = ops /\ \A j \in Rank \ {k} : todo'[j] = todo[j]
      /\ UNCHANGED <<port, onoff, minute, OSTime, remaining, due, armedFor, late, byMinute,
                     reg, at, timing, OSTmrDly>>
  BY DEF Start, StripInv, Types, status, schedule, delays
<1>3. ASSUME NEW b \in {"socket", "time"}, b \notin torn'
      PROVE  IF b \in bits THEN \A j \in Rank : ~Works(j) ELSE b \notin torn
  <2>1. torn' = IF Busy = {} THEN torn \ bits ELSE torn \union bits
    BY DEF Start, Touched
  <2>2. Busy = {} <=> \A j \in Rank : ~Works(j)
    BY BusyIs DEF StripInv
  <2> QED
    BY <1>3, <2>1, <2>2
<1>4. \A j \in Rank \ {k} : Works(j)' <=> Works(j)
  BY <1>2 DEF Works
<1>5. /\ \A j \in Rank : ~Works(j) => Len(todo[j]) = 0 /\ 1..Len(todo[j]) = {}
      /\ \A j \in Rank : Len(todo[j]) \in Nat
  BY BusyIs DEF StripInv
<1>6. /\ Updates(ops, "socket") <=> "socket" \in bits
      /\ Updates(ops, "time") <=> "time" \in bits
  BY DEF Part, Updates
<1>7. Types'
  BY <1>2 DEF StripInv, Types
<1>8. Shapes'
  BY <1>2 DEF StripInv, Shapes, Part
<1>9. \A j \in Rank : j \in Int
  BY RankIs
<1>10. OneWriter'
  <2> SUFFICES ASSUME NEW b \in {"socket", "time"}, NEW j \in Rank, b \notin torn',
                      Updates(todo'[j], b), NEW i \in Rank, Works(i)'
               PROVE  i <= j
    BY DEF OneWriter
  <2>1. CASE b \in bits
    <3>1. \A m \in Rank : ~Works(m)
      BY <1>3, <2>1
    <3>2. i = k
      BY <1>4, <3>1
    <3>3. j = k
      BY <1>2, <1>5, <3>1 DEF Updates, Relays, Sockets, Times
    <3> QED
      BY <1>9, <3>2, <3>3
  <2>2. CASE b \notin bits
    <3>1. b \notin torn /\ j # k
      BY <1>2, <1>3, <1>6, <2>2
    <3>2. Updates(todo[j], b)
      BY <1>2, <3>1
    <3>3. \A m \in Rank : Works(m) => m <= j
      BY <3>1, <3>2 DEF StripInv, OneWriter
    <3>4. Works(j)
      BY <1>5, <3>2 DEF Updates, Relays, Sockets, Times
    <3> QED
      BY <1>1, <1>4, <3>3, <3>4
  <2> QED
    BY <2>1, <2>2
<1>11. ASSUME Works(k)'
       PROVE  todo'[k][1].op \notin {"writePort", "writeOnoff"}
  <2>1. Len(ops) \in Nat
    BY WorkIs DEF Part, Shape
  <2>2. 1 \in 1..Len(ops)
    BY <1>2, <1>11, <2>1 DEF Works
  <2> QED
    BY <1>2, <2>2 DEF Part, Fresh
<1>12. PortRead'
  <2> SUFFICES ASSUME "socket" \notin torn', NEW j \in Rank, Works(j)',
                      todo'[j][1].op = "writePort", todo'[j][1].bit # "relay"
               PROVE  "relay" \in reg'[j] <=> "relay" \in port'
    BY DEF PortRead
  <2>1. j # k
    BY <1>11
  <2>2. Works(j) /\ todo'[j] = todo[j]
    BY <1>2, <1>4, <2>1
  <2>3. "socket" \notin torn
    BY <1>3, <2>2
  <2> QED
    BY <1>2, <2>2, <2>3 DEF StripInv, PortRead
<1>13. OnoffRead'
  <2> SUFFICES ASSUME NEW b \in {"socket", "time"}, b \notin torn', NEW j \in Rank, Works(j)',
                      todo'[j][1].op = "writeOnoff", todo'[j][1].bit # b
               PROVE  b \in reg'[j] <=> b \in onoff'
    BY DEF OnoffRead
  <2>1. j # k
    BY <1>11
  <2>2. Works(j) /\ todo'[j] = todo[j]
    BY <1>2, <1>4, <2>1
  <2>3. b \notin torn
    BY <1>3, <2>2
  <2> QED
    BY <1>2, <2>2, <2>3 DEF StripInv, OnoffRead
<1>14. RelayDone'
  <2> SUFFICES ASSUME "socket" \notin torn', NEW j \in Rank, NEW i \in 1..Len(todo'[j]),
                      i <= 4, Socket(todo'[j][i])
               PROVE  "relay" \in port' <=> todo'[j][i].v = 1
    BY DEF RelayDone
  <2>1. j # k
    BY <1>2 DEF Part, Fresh
  <2>2. todo'[j] = todo[j] /\ Works(j)
    BY <1>2, <1>5, <2>1
  <2>3. "socket" \notin torn
    BY <1>3, <2>2
  <2> QED
    BY <1>2, <2>2, <2>3 DEF StripInv, RelayDone
<1>15. AllTold'
  <2> SUFFICES ASSUME "socket" \notin torn', \A j \in Rank : ~Sockets(todo'[j])
               PROVE  "relay" \in port' <=> "socket" \in onoff'
    BY DEF AllTold
  <2>1. "socket" \notin bits
    BY <1>2 DEF Part
  <2>2. "socket" \notin torn
    BY <1>3, <2>1
  <2>3. \A j \in Rank : ~Sockets(todo[j])
    BY <1>1, <1>2, <1>5 DEF Sockets
  <2> QED
    BY <1>2, <2>2, <2>3 DEF StripInv, AllTold
<1>16. SwitchDone'
  <2> SUFFICES ASSUME "time" \notin torn', NEW j \in Rank, NEW t \in Timers,
                      NEW i \in 1..Len(todo'[j]), i <= Gap(t), ByTime(todo'[j][i], t)
               PROVE  "time" \in onoff'
    BY DEF SwitchDone
  <2>1. j # k
    BY <1>2 DEF Part, Fresh
  <2>2. todo'[j] = todo[j] /\ Works(j)
    BY <1>2, <1>5, <2>1
  <2>3. "time" \notin torn
    BY <1>3, <2>2
  <2> QED
    BY <1>2, <2>2, <2>3 DEF StripInv, SwitchDone
<1>17. Allowed'
  <2> SUFFICES ASSUME "time" \notin torn', NEW t \in Timers,
                      remaining[t] > 0 \/ t \in due, t \notin byMinute
               PROVE  \/ "time" \in onoff'
                      \/ \E j \in Rank : Times(todo'[j]) \/ Stops(todo'[j], t)
    BY <1>2 DEF Allowed
  <2>1. CASE "time" \in bits
    BY <1>2, <2>1 DEF Part
  <2>2. CASE "time" \notin bits
    <3>1. "time" \notin torn
      BY <1>3, <2>2
    <3>2. \/ "time" \in onoff
          \/ \E j \in Rank : Times(todo[j]) \/ Stops(todo[j], t)
      BY <3>1 DEF StripInv, Allowed
    <3>3. ~Times(todo[k]) /\ ~Stops(todo[k], t)
      BY <1>1, <1>5 DEF Times, Stops
    <3> QED
      BY <1>2, <3>2, <3>3
  <2> QED
    BY <2>1, <2>2
<1>20. Setting'
  <2> SUFFICES ASSUME NEW j \in Rank, at[j] # "call"
               PROVE  Works(j)' /\ todo'[j][1].op = "arm"
    BY <1>2 DEF Setting
  <2>1. Works(j) /\ todo[j][1].op = "arm"
    BY DEF StripInv, Setting
  <2>2. j # k
    BY <1>1, <2>1
  <2> QED
    BY <1>2, <1>4, <2>1, <2>2
<1>21. at[k] = "call"
  BY <1>1 DEF StripInv, Setting
\* Of a timer it sets, a task that meets no other setter is the only one.
<1>22. ASSUME NEW t \in Timers, t \notin crossed'
       PROVE  IF SetsTimer(ops, t) THEN \A j \in Rank : ~SetsTimer(todo[j], t)
              ELSE t \notin crossed
  <2>1. crossed' = {u \in Timers : IF SetsTimer(ops, u)
                                   THEN \E j \in Rank : SetsTimer(todo[j], u)
                                   ELSE u \in crossed}
    BY DEF Start
  <2> QED
    BY <1>22, <2>1
<1>23. \A t : ~SetsTimer(todo[k], t)
  BY <1>1, <1>5 DEF SetsTimer
<1>24. OneSetter'
  <2> SUFFICES ASSUME NEW t \in Timers, NEW i \in Rank, NEW j \in Rank, t \notin crossed',
                      SetsTimer(todo'[i], t), SetsTimer(todo'[j], t)
               PROVE  i = j
    BY DEF OneSetter
  <2>1. CASE SetsTimer(ops, t)
    <3>1. \A m \in Rank : ~SetsTimer(todo[m], t)
      BY <1>22, <2>1
    <3> QED
      BY <1>2, <3>1
  <2>2. CASE ~SetsTimer(ops, t)
    <3>1. t \notin crossed /\ i # k /\ j # k
      BY <1>2, <1>22, <2>2
    <3>2. SetsTimer(todo[i], t) /\ SetsTimer(todo[j], t)
      BY <1>2, <3>1
    <3> QED
      BY <3>1, <3>2 DEF StripInv, OneSetter
  <2> QED
    BY <2>1, <2>2
\* Nobody is in the middle of setting a timer that has just become one task's.
<1>25. ASSUME NEW t \in Timers, t \notin crossed', t \in crossed, NEW j \in Rank, Works(j)
       PROVE  ~Arms(todo[j][1], t)
  <2>1. ~SetsTimer(todo[j], t)
    BY <1>22, <1>25
  <2> QED
    BY <1>25, <2>1, HeadSets DEF StripInv, Arms
<1>18. Current'
  <2> SUFFICES ASSUME NEW t \in Timers, t \notin crossed'
               PROVE  \/ armedFor[t] \in {None, minute[t]}
                      \/ \E j \in Rank : SetsTimer(todo'[j], t)
    BY <1>2 DEF Current
  <2>1. CASE SetsTimer(ops, t)
    BY <1>2, <2>1
  <2>2. CASE ~SetsTimer(ops, t)
    <3>1. t \notin crossed
      BY <1>22, <2>2
    <3> QED
      BY <1>2, <1>23, <3>1 DEF StripInv, Current
  <2> QED
    BY <2>1, <2>2
<1>26. Computed'
  <2> SUFFICES ASSUME NEW t \in Timers, NEW j \in Rank, t \notin crossed', Works(j)',
                      Arms(todo'[j][1], t)
               PROVE  /\ at[j] = "set" => timing[j].minute \in {None, minute[t]}
                      /\ at[j] = "start" => OSTmrDly[t].minute \in {None, minute[t]}
    BY <1>2 DEF Computed
  <2>1. CASE j = k
    BY <1>21, <2>1
  <2>2. CASE j # k
    <3>1. Works(j) /\ Arms(todo[j][1], t)
      BY <1>2, <1>4, <2>2
    <3>2. t \notin crossed
      BY <1>25, <3>1
    <3> QED
      BY <3>1, <3>2 DEF StripInv, Computed
  <2> QED
    BY <2>1, <2>2
<1>19. DueIsZero'
  BY <1>2 DEF StripInv, DueIsZero
<1> QED
  BY <1>7, <1>8, <1>10, <1>12, <1>13, <1>14, <1>15, <1>16, <1>17, <1>18, <1>19, <1>20,
     <1>24, <1>26 DEF StripInv
-----------------------------------------------------------------------------
(* The timer task and the clock. *)

LEMMA ClockStep ==
    ASSUME StripInv, Tick \/ \E ticks \in ClockTimes : ModifyLocalTime(ticks)
    PROVE  StripInv'
<1>1. UNCHANGED <<port, onoff, minute, byMinute, todo, reg, torn, at, crossed>>
  BY DEF Tick, ModifyLocalTime, status
<1>2. /\ OneWriter' /\ PortRead' /\ OnoffRead' /\ RelayDone' /\ AllTold' /\ SwitchDone'
      /\ Shapes' /\ Setting' /\ OneSetter'
  BY <1>1 DEF StripInv, OneWriter, PortRead, OnoffRead, RelayDone, AllTold, SwitchDone,
              Shapes, Setting, OneSetter, Works
<1>0. \/ UNCHANGED <<armedFor, late, timing, OSTmrDly>>
      \/ ClockJumps
  BY DEF Tick, ModifyLocalTime
<1>j. /\ timing \in [Rank -> Delays] /\ OSTmrDly \in [Timers -> Delays]
      /\ armedFor \in [Timers -> Asked \union {None}] /\ late \in [Timers -> Int]
  BY DEF StripInv, Types
<1>3. /\ armedFor' \in [Timers -> Asked \union {None}] /\ late' \in [Timers -> Int]
      /\ timing' \in [Rank -> Delays] /\ OSTmrDly' \in [Timers -> Delays]
      /\ \A t \in Timers : armedFor'[t] \in {None, armedFor[t]}
      /\ \A t \in Timers : OSTmrDly'[t].minute \in {None, OSTmrDly[t].minute}
      /\ \A k \in Rank : timing'[k].minute \in {None, timing[k].minute}
  <2>1. CASE UNCHANGED <<armedFor, late, timing, OSTmrDly>>
    BY <1>j, <2>1
  <2>2. CASE ClockJumps
    <3>1. /\ armedFor' = [t \in Timers |-> None] /\ late' = [t \in Timers |-> 0]
      BY <2>2 DEF ClockJumps
    <3>2. ASSUME NEW d \in Delays
          PROVE  [ticks |-> d.ticks, minute |-> None, from |-> 0] \in Delays
      BY DEF Delays
    <3>3. /\ timing' = [k \in Rank |-> [ticks |-> timing[k].ticks, minute |-> None, from |-> 0]]
          /\ OSTmrDly' = [t \in Timers |->
                            [ticks |-> OSTmrDly[t].ticks, minute |-> None, from |-> 0]]
      BY <1>j, <2>2 DEF ClockJumps, Forgotten
    <3>4. timing' \in [Rank -> Delays] /\ \A k \in Rank : timing'[k].minute = None
      BY <1>j, <3>2, <3>3
    <3>5. OSTmrDly' \in [Timers -> Delays] /\ \A t \in Timers : OSTmrDly'[t].minute = None
      BY <1>j, <3>2, <3>3
    <3> QED
      BY <3>1, <3>4, <3>5
  <2> QED
    BY <1>0, <2>1, <2>2
<1>4. Current' /\ Computed'
  <2>1. Current'
    BY <1>1, <1>3 DEF StripInv, Current
  <2>2. Computed'
    <3> SUFFICES ASSUME NEW t \in Timers, NEW k \in Rank, t \notin crossed, Works(k),
                        Arms(todo[k][1], t)
                 PROVE  /\ at[k] = "set" => timing'[k].minute \in {None, minute[t]}
                        /\ at[k] = "start" => OSTmrDly'[t].minute \in {None, minute[t]}
      BY <1>1 DEF Computed, Works
    <3>1. /\ at[k] = "set" => timing[k].minute \in {None, minute[t]}
          /\ at[k] = "start" => OSTmrDly[t].minute \in {None, minute[t]}
      BY DEF StripInv, Computed
    <3> QED
      BY <1>3, <3>1
  <2> QED
    BY <2>1, <2>2
<1>5. \A t \in Timers : remaining[t] \in Nat
  BY DEF StripInv, Types
<1>6. \A t \in Timers : remaining'[t] > 0 \/ t \in due' => remaining[t] > 0 \/ t \in due
  BY <1>5 DEF Tick, ModifyLocalTime
<1>7. Allowed'
  BY <1>1, <1>6 DEF StripInv, Allowed
<1>8. DueIsZero'
  BY <1>5 DEF Tick, ModifyLocalTime, StripInv, DueIsZero
<1>9. Types'
  <2>1. CASE Tick
    <3>1. OSTime' \in 0..(TickWrap - 1)
      <4>1. OSTime + 1 \in Nat /\ TickWrap \in Nat \ {0}
        BY ClockUnits DEF StripInv, Types
      <4> QED
        BY <2>1, <4>1, DivMod DEF Tick
    <3>2. remaining' \in [Timers -> Nat]
      BY <1>5, <2>1 DEF Tick
    <3>3. due' \subseteq Timers
      BY <2>1 DEF Tick
    <3> QED
      BY <1>1, <1>3, <3>1, <3>2, <3>3 DEF StripInv, Types
  <2>2. CASE \E ticks \in ClockTimes : ModifyLocalTime(ticks)
    <3>1. OSTime' \in 0..(TickWrap - 1) /\ UNCHANGED <<remaining, due>>
      BY <2>2, StripConstants DEF ModifyLocalTime
    <3> QED
      BY <1>1, <1>3, <3>1 DEF StripInv, Types
  <2> QED
    BY <2>1, <2>2
<1> QED
  BY <1>2, <1>4, <1>7, <1>8, <1>9 DEF StripInv

LEMMA TimerStep ==
    ASSUME StripInv, NEW t \in Timers, TimerTask(t)
    PROVE  StripInv'
<1>1. UNCHANGED <<minute, OSTime, todo, reg, at, timing>>
  BY DEF TimerTask
<1> DEFINE Again == [ticks |-> DayTicks, minute |-> armedFor[t], from |-> OSTime - late[t]]
           Meets == \E k \in Busy : Op(k).op = "arm" /\ Op(k).t = t /\ at[k] = "start"
<1>2. /\ t \in due /\ due' = due \ {t}
      /\ \/ /\ remaining' = [remaining EXCEPT ![t] = DayTicks]
            /\ OSTmrDly' = [OSTmrDly EXCEPT ![t] = Again]
            /\ crossed' = IF Meets THEN crossed \union {t} ELSE crossed
            /\ UNCHANGED <<armedFor, late, byMinute>>
         \/ /\ armedFor' = [armedFor EXCEPT ![t] = None] /\ byMinute' = byMinute \ {t}
            /\ late' = [late EXCEPT ![t] = 0]
            /\ UNCHANGED <<remaining, OSTmrDly, crossed>>
  BY DEF TimerTask, Stopped, RestartTimer
<1>a. /\ OSTmrDly' \in [Timers -> Delays] /\ late' \in [Timers -> Int]
      /\ \A u \in Timers : OSTmrDly'[u] = OSTmrDly[u] \/ u = t
      /\ crossed \subseteq crossed'
  <2>1. /\ OSTmrDly \in [Timers -> Delays] /\ late \in [Timers -> Int]
        /\ armedFor[t] \in Asked \union {None} /\ OSTime \in Int
    BY ClockUnits DEF StripInv, Types
  <2>2. Again \in Delays
    BY <2>1, ClockUnits DEF Delays
  <2> HIDE DEF Again, Meets
  <2> QED
    BY <1>2, <2>1, <2>2
<1>b. OSTmrDly' # OSTmrDly /\ t \notin crossed' =>
         \A k \in Rank : Works(k) /\ Arms(todo[k][1], t) => at[k] # "start"
  <2> SUFFICES ASSUME OSTmrDly' # OSTmrDly, t \notin crossed', NEW k \in Rank, Works(k),
                      Arms(todo[k][1], t), at[k] = "start"
               PROVE  FALSE
    OBVIOUS
  <2>1. k \in Busy /\ todo[k] \in Seq(Ops) /\ Len(todo[k]) > 0
    BY BusyIs DEF StripInv, Works
  <2>2. Op(k) = todo[k][1]
    BY <2>1, TailIs DEF Op
  <2>3. Meets
    BY <2>1, <2>2 DEF Arms
  <2> HIDE DEF Meets, Again
  <2> QED
    BY <1>2, <2>3
<1> HIDE DEF Again, Meets
<1>3. \/ /\ \A j \in Rank : ~Works(j)
         /\ "relay" \in port' <=> "socket" \in onoff'
      \/ "socket" \in torn'
      \/ UNCHANGED <<port, onoff, torn>>
  <2>1. CASE SwitchesToday
    <3> DEFINE v == IF t = "on" THEN 1 ELSE 0
    <3>1. /\ port' = Changed(Changed(port, "relay", v), "led", 1 - v)
          /\ onoff' = Changed(onoff, "socket", v)
          /\ torn' = IF Busy = {} THEN torn \ {"socket"} ELSE torn \union {"socket"}
      BY <2>1 DEF TimerTask, TimerSwitches, Touched
    <3>2. Busy = {} <=> \A j \in Rank : ~Works(j)
      BY BusyIs DEF StripInv
    <3>3. ("relay" \in port' <=> v = 1) /\ ("socket" \in onoff' <=> v = 1)
      <4> HIDE DEF v
      <4> QED
        BY <3>1 DEF Changed
    <3> QED
      BY <3>1, <3>2, <3>3
  <2>2. CASE ~SwitchesToday
    BY <2>2 DEF TimerTask, TimerSwitches
  <2> QED
    BY <2>1, <2>2
<1>4. ("time" \in onoff' <=> "time" \in onoff) /\ ("time" \in torn' <=> "time" \in torn)
  BY DEF TimerTask, TimerSwitches, Touched, Changed
<1>5. /\ \A j \in Rank : Works(j)' <=> Works(j)
      /\ \A j \in Rank : ~Works(j) => 1..Len(todo[j]) = {}
  BY <1>1, BusyIs DEF StripInv, Works
<1>6. Types' /\ Shapes'
  <2>1. remaining' \in [Timers -> Nat]
    BY <1>2, ClockUnits DEF StripInv, Types
  <2>2. armedFor' \in [Timers -> Asked \union {None}]
    BY <1>2 DEF StripInv, Types
  <2> QED
    BY <1>1, <1>2, <1>a, <2>1, <2>2 DEF StripInv, Types, Shapes
<1>7. OneWriter'
  <2> SUFFICES ASSUME NEW b \in {"socket", "time"}, NEW k \in Rank, b \notin torn',
                      Updates(todo[k], b), NEW j \in Rank, Works(j)
               PROVE  j <= k
    BY <1>1, <1>5 DEF OneWriter
  <2>1. b \notin torn
    BY <1>3, <1>4
  <2> QED
    BY <2>1 DEF StripInv, OneWriter
<1>8. PortRead'
  BY <1>1, <1>3, <1>5 DEF StripInv, PortRead
<1>9. OnoffRead'
  <2> SUFFICES ASSUME NEW b \in {"socket", "time"}, b \notin torn', NEW k \in Rank, Works(k),
                      todo[k][1].op = "writeOnoff", todo[k][1].bit # b
               PROVE  b \in reg[k] <=> b \in onoff'
    BY <1>1, <1>5 DEF OnoffRead
  <2>1. b \notin torn /\ (b \in onoff' <=> b \in onoff)
    BY <1>3, <1>4
  <2> QED
    BY <2>1 DEF StripInv, OnoffRead
<1>10. RelayDone'
  BY <1>1, <1>3, <1>5 DEF StripInv, RelayDone
<1>11. AllTold'
  BY <1>1, <1>3 DEF StripInv, AllTold
<1>12. SwitchDone'
  BY <1>1, <1>4 DEF StripInv, SwitchDone
<1>13. Allowed'
  <2> SUFFICES ASSUME "time" \notin torn, NEW u \in Timers,
                      remaining'[u] > 0 \/ u \in due', u \notin byMinute'
               PROVE  \/ "time" \in onoff
                      \/ \E k \in Rank : Times(todo[k]) \/ Stops(todo[k], u)
    BY <1>1, <1>4 DEF Allowed
  <2>1. remaining[t] = 0
    BY <1>2 DEF StripInv, DueIsZero
  <2>2. (remaining[u] > 0 \/ u \in due) /\ u \notin byMinute
    <3>1. CASE u = t
      BY <1>2, <2>1, <3>1 DEF StripInv, Types
    <3>2. CASE u # t
      BY <1>2, <3>2 DEF StripInv, Types
    <3> QED
      BY <3>1, <3>2
  <2> QED
    BY <2>2 DEF StripInv, Allowed
<1>14. Current'
  <2>1. \A u \in Timers : armedFor'[u] \in {None, armedFor[u]}
    BY <1>2 DEF StripInv, Types
  <2> QED
    BY <1>1, <1>a, <2>1 DEF StripInv, Current
<1>15. DueIsZero'
  BY <1>2 DEF StripInv, DueIsZero, Types
<1>16. Setting' /\ OneSetter'
  BY <1>1, <1>5, <1>a DEF StripInv, Setting, OneSetter
<1>17. Computed'
  <2> SUFFICES ASSUME NEW u \in Timers, NEW k \in Rank, u \notin crossed', Works(k),
                      Arms(todo[k][1], u)
               PROVE  /\ at[k] = "set" => timing[k].minute \in {None, minute[u]}
                      /\ at[k] = "start" => OSTmrDly'[u].minute \in {None, minute[u]}
    BY <1>1, <1>5 DEF Computed
  <2>1. u \notin crossed
    BY <1>a
  <2>2. /\ at[k] = "set" => timing[k].minute \in {None, minute[u]}
        /\ at[k] = "start" => OSTmrDly[u].minute \in {None, minute[u]}
    BY <2>1 DEF StripInv, Computed
  <2>3. at[k] = "start" => OSTmrDly'[u] = OSTmrDly[u]
    BY <1>a, <1>b
  <2> QED
    BY <2>2, <2>3
<1> QED
  BY <1>6, <1>7, <1>8, <1>9, <1>10, <1>11, <1>12, <1>13, <1>14, <1>15, <1>16, <1>17
     DEF StripInv
-----------------------------------------------------------------------------
(* The theorems. *)

LEMMA InitInv == Init => StripInv
<1> HAVE Init
<1>1. \A k \in Rank : todo[k] = <<>>
  BY DEF Init
<1>2. Len(<<>>) = 0 /\ 1..0 = {} /\ Part(<<>>, {})
  BY NoPart
<1>3. Types
  <2>1. 0 \in Asked /\ 0 \in 0..(TickWrap - 1)
    BY ClockUnits DEF Asked
  <2>2. NoDelay \in Delays
    BY DEF NoDelay, Delays
  <2> QED
    BY <2>1, <2>2 DEF Init, Types
<1>4. Shapes
  BY <1>1, <1>2 DEF Shapes, Part
<1>5. \A k \in Rank : ~Works(k) /\ 1..Len(todo[k]) = {} /\ ~\E b : Updates(todo[k], b)
  BY <1>1, <1>2 DEF Works, Updates, Relays, Sockets, Times
<1>8. \A k \in Rank, t \in Timers : ~SetsTimer(todo[k], t)
  BY <1>5 DEF SetsTimer
<1>9. Setting /\ OneSetter /\ Computed
  BY <1>5, <1>8 DEF Init, Setting, OneSetter, Computed
<1>6. OneWriter /\ PortRead /\ OnoffRead /\ RelayDone /\ SwitchDone
  BY <1>5 DEF OneWriter, PortRead, OnoffRead, RelayDone, SwitchDone
<1>7. AllTold /\ Allowed /\ Current /\ DueIsZero
  BY DEF Init, AllTold, Allowed, Current, DueIsZero, None
<1> QED
  BY <1>3, <1>4, <1>6, <1>7, <1>9 DEF StripInv

LEMMA AccessStep ==
    ASSUME StripInv, NEW k \in Rank, Access(k)
    PROVE  StripInv'
BY AccessTypes, AccessRegs, AccessRelay, AccessTimers, AccessSetters, AccessCurrent DEF StripInv

LEMMA NextInv ==
    ASSUME StripInv, [Next]_vars
    PROVE  StripInv'
<1>1. CASE UNCHANGED vars
  BY <1>1 DEF vars, status, schedule, delays, StripInv, Types, Shapes, OneWriter, PortRead,
              OnoffRead, RelayDone, AllTold, SwitchDone, Allowed, Setting, OneSetter,
              Current, Computed, DueIsZero, Works
<1>2. CASE CheckSocket
  <2> DEFINE v == IF "relay" \in port THEN 0 ELSE 1
  <2>1. v \in {0, 1} /\ 1 \in Rank /\ Start(1, Switch(v), {"socket"})
    BY <1>2, RankIs DEF CheckSocket
  <2> HIDE DEF v
  <2> QED
    BY <2>1, SwitchPart, StartStep
<1>3. ASSUME NEW v \in {0, 1}, SysStatus(v) PROVE StripInv'
  <2>1. 2 \in Rank
    BY RankIs
  <2> QED
    BY <1>3, <2>1, OtherParts, StartStep DEF SysStatus
<1>4. ASSUME NEW k \in {3, 4}, NEW c \in Commands, DeviceControl(k, c) PROVE StripInv'
  <2>1. k \in Rank
    BY RankIs
  <2> QED
    BY <1>4, <2>1, ProgramPart, StartStep DEF DeviceControl
<1>8. CASE PingResp
  <2>1. 4 \in Rank /\ 1 \in {0, 1}
    BY RankIs
  <2> QED
    BY <1>8, <2>1, OtherParts, StartStep DEF PingResp
<1>5. ASSUME NEW k \in Rank, Access(k) \/ Prepare(k) PROVE StripInv'
  BY <1>5, AccessStep, PrepareStep
<1>6. ASSUME NEW t \in Timers, TimerTask(t) PROVE StripInv'
  BY <1>6, TimerStep
<1>7. CASE Tick \/ \E ticks \in ClockTimes : ModifyLocalTime(ticks)
  BY <1>7, ClockStep
<1> QED
  BY <1>1, <1>2, <1>3, <1>4, <1>5, <1>6, <1>7, <1>8 DEF Next

LEMMA StripInvariant == Spec => []StripInv
<1>1. StripInv /\ [Next]_vars => StripInv'
  BY NextInv
<1> QED
  BY <1>1, InitInv, PTL DEF Spec

\* Between commands the relay is what the status byte of strip.c says, unless
\* the last update of one of them met another task's: whatever the commands,
\* and wherever the tasks preempt each other between the accesses of
\* BSP_GPIOSetValue, SETBIT and CLRBIT.
THEOREM StatusTheorem == Spec => []StatusIsTrue
<1>1. StripInv => StatusIsTrue
  <2> SUFFICES ASSUME StripInv, Idle, "socket" \notin torn
               PROVE  "relay" \in port <=> "socket" \in onoff
    BY DEF StatusIsTrue
  <2>1. \A k \in Rank : ~Sockets(todo[k])
    BY BusyIs DEF StripInv, Idle, Sockets
  <2> QED
    BY <2>1 DEF StripInv, AllTold
<1> QED
  BY <1>1, StripInvariant, PTL

\* With Time_OnOff switched off no timer runs, except one whose minute was set
\* since, or if two commands met while it was switched: the cancellations of
\* strip_data_parse come after every start of a timer by an earlier command.
THEOREM OffTheorem == Spec => []OffStaysOff
<1>1. StripInv => OffStaysOff
  <2> SUFFICES ASSUME StripInv, Idle, "time" \notin torn, "time" \notin onoff,
                      NEW t \in Timers, remaining[t] > 0
               PROVE  t \in byMinute
    BY DEF OffStaysOff
  <2>1. \A k \in Rank : ~Times(todo[k]) /\ ~Stops(todo[k], t)
    BY BusyIs DEF StripInv, Idle, Times, Stops
  <2> QED
    BY <2>1 DEF StripInv, Allowed
<1> QED
  BY <1>1, StripInvariant, PTL

\* Between commands a timer that runs is for the minute that the status
\* shows, unless the last setting of that timer met another task's or its own
\* restart.  A task can be preempted after storing the minute, after computing
\* timing_value and after storing OSTmrDly; what it computed stays true if no
\* other task sets the same timer.
THEOREM ScheduleTheorem == Spec => []ScheduleIsCurrent
<1>1. StripInv => ScheduleIsCurrent
  <2> SUFFICES ASSUME StripInv, Idle, NEW t \in Timers, t \notin crossed
               PROVE  armedFor[t] \in {None, minute[t]}
    BY DEF ScheduleIsCurrent
  <2>1. \A k \in Rank : ~SetsTimer(todo[k], t)
    BY BusyIs DEF StripInv, Idle, SetsTimer
  <2> QED
    BY <2>1 DEF StripInv, Current
<1> QED
  BY <1>1, StripInvariant, PTL

\* Every minute that a command sets is one of a day.  strip_data_parse does
\* not check it.
MinutesOfDay ==
    \A c \in Commands : \A t \in Timers \intersect DOMAIN c : c[t] \in Minutes

\* What timing_value returns leads to the minute it is asked for.
LEMMA DelayLeads ==
    ASSUME NEW m \in Minutes, OSTime \in Nat
    PROVE  Leads(DelayFor(m))
<1> DEFINE v == TimingValue(m, OSTime)
           f == IF SystemMinute(OSTime) = m THEN OSTime - 1 ELSE OSTime
<1>1. /\ v \in Nat \ {0}
      /\ SystemMinute(OSTime) = m => v = 1
      /\ SystemMinute(OSTime) # m => SystemMinute(OSTime + v) = m
  BY TimingValueIsRight
<1>2. DelayFor(m).ticks = v /\ DelayFor(m).minute = m /\ DelayFor(m).from = f
  BY DEF DelayFor
<1> HIDE DEF v
<1>3. CASE SystemMinute(OSTime) = m
  <2>1. v = 1 /\ f + v = OSTime
    BY <1>1, <1>3
  <2> QED
    BY <1>2, <1>3, <2>1 DEF Leads
<1>4. CASE SystemMinute(OSTime) # m
  <2>1. f = OSTime /\ OSTime + v \in Nat /\ v > 0
    BY <1>1, <1>4
  <2> QED
    BY <1>1, <1>2, <1>4, <2>1 DEF Leads
<1> QED
  BY <1>3, <1>4

LEMMA CountingStep ==
    ASSUME MinutesOfDay, StripInv, Counting, [Next]_vars
    PROVE  Counting'
<1>1. Asked \subseteq Minutes /\ None \notin Minutes
  BY ClockUnits DEF Asked, MinutesOfDay, Minutes, None
<1>2. /\ minute \in [Timers -> Asked] /\ armedFor \in [Timers -> Asked \union {None}]
      /\ remaining \in [Timers -> Nat] /\ OSTime \in Nat /\ OSTime < TickWrap
      /\ late \in [Timers -> Int] /\ timing \in [Rank -> Delays]
      /\ OSTmrDly \in [Timers -> Delays]
  BY ClockUnits DEF StripInv, Types
<1>3. ASSUME NEW t \in Timers, OSTime' = OSTime, remaining'[t] = remaining[t],
             late'[t] = late[t], armedFor'[t] = armedFor[t], t \in due => t \in due'
      PROVE  Counts(t)'
  BY <1>3 DEF Counting, Counts
<1>n. ASSUME NEW t \in Timers, armedFor'[t] = None PROVE Counts(t)'
  BY <1>n DEF Counts
<1>4. ASSUME NEW k \in Rank, Access(k) PROVE Counting'
  <2> DEFINE a == todo[k][1]
  <2>1. a \in Ops /\ AccessEffect(k, a) /\ OSTime' = OSTime /\ due' = due
    BY <1>4, AccessChanges DEF StripInv, AccessEffect
  <2>2. UNCHANGED <<timing, OSTmrDly>>
    BY <2>1 DEF AccessEffect
  <2> HIDE DEF a
  <2>3. ASSUME NEW t \in Timers, Arms(a, t) PROVE Counts(t)'
    <3> DEFINE d == OSTmrDly[t]
    <3>1. /\ remaining'[t] = d.ticks /\ armedFor'[t] = d.minute /\ late'[t] = Lag(d)
      BY <1>2, <2>1, <2>3 DEF Arms, AccessEffect
    <3>2. Leads(d) /\ d.ticks \in Nat /\ d.from \in Int
      BY <1>2 DEF Counting, Delays
    <3> HIDE DEF d
    <3>3. CASE d.minute = None
      BY <1>n, <3>1, <3>3
    <3>4. CASE d.minute # None
      <4>1. /\ d.ticks > 0 /\ d.from + d.ticks \in Nat
            /\ SystemMinute(d.from + d.ticks) = d.minute
        BY <3>2, <3>4 DEF Leads
      <4>2. late'[t] = OSTime - d.from
        BY <3>1, <3>4 DEF Lag
      <4>3. (OSTime' + remaining'[t]) - late'[t] = d.from + d.ticks
        BY <1>2, <2>1, <3>1, <3>2, <4>2
      <4> QED
        BY <3>1, <4>1, <4>3 DEF Counts
    <3> QED
      BY <3>3, <3>4
  <2>4. ASSUME NEW t \in Timers, Cancels(a, t) PROVE Counts(t)'
    <3>1. armedFor'[t] = None
      BY <1>2, <2>1, <2>4 DEF Cancels, AccessEffect
    <3> QED
      BY <1>n, <3>1
  <2>5. ASSUME NEW t \in Timers, ~Arms(a, t), ~Cancels(a, t) PROVE Counts(t)'
    <3>1. remaining'[t] = remaining[t] /\ armedFor'[t] = armedFor[t] /\ late'[t] = late[t]
      BY <2>1, <2>5, TimerKept DEF StripInv
    <3> QED
      BY <1>3, <2>1, <3>1
  <2>6. \A t \in Timers : Counts(t)'
    BY <2>3, <2>4, <2>5
  <2> QED
    BY <2>2, <2>6 DEF Counting
<1>p. ASSUME NEW k \in Rank, Prepare(k) PROVE Counting'
  <2> DEFINE a == Op(k)
  <2>1. a.op = "arm" /\ UNCHANGED <<OSTime, remaining, due, armedFor, late>>
    BY <1>p DEF Prepare, CallTimingValue, SetDelay, schedule
  <2>2. a.t \in Timers
    <3>1. Works(k)
      BY <1>p, BusyIs DEF StripInv, Prepare
    <3>2. todo[k] \in Seq(Ops) /\ Len(todo[k]) > 0
      BY <3>1, BusyIs DEF StripInv, Works
    <3>3. a \in Ops
      BY <3>2, TailIs DEF Op
    <3> QED
      BY <2>1, <3>3, OpsFields
  <2>3. \/ /\ timing' = [timing EXCEPT ![k] = DelayFor(minute[a.t])]
           /\ OSTmrDly' = OSTmrDly
        \/ /\ OSTmrDly' = [OSTmrDly EXCEPT ![a.t] = timing[k]]
           /\ timing' = [timing EXCEPT ![k] = NoDelay]
    BY <1>p DEF Prepare, CallTimingValue, SetDelay
  <2> HIDE DEF a
  <2>4. Leads(DelayFor(minute[a.t]))
    <3>1. minute[a.t] \in Minutes
      BY <1>1, <1>2, <2>2
    <3> QED
      BY <1>2, <3>1, DelayLeads
  <2>5. Leads(NoDelay)
    BY DEF Leads, NoDelay
  <2>6. /\ \A t \in Timers : Leads(OSTmrDly[t])
        /\ \A j \in Rank : Leads(timing[j])
    BY DEF Counting
  <2>7. \A t \in Timers : Leads(OSTmrDly'[t])
    BY <1>2, <2>2, <2>3, <2>6
  <2>8. \A j \in Rank : Leads(timing'[j])
    BY <1>2, <2>3, <2>4, <2>5, <2>6
  <2>9. \A t \in Timers : Counts(t)'
    BY <1>3, <2>1
  <2>10. \A t \in Timers : Leads(OSTmrDly[t])' <=> Leads(OSTmrDly'[t])
    BY DEF Leads
  <2>11. \A j \in Rank : Leads(timing[j])' <=> Leads(timing'[j])
    BY DEF Leads
  <2> QED
    BY <2>7, <2>8, <2>9, <2>10, <2>11 DEF Counting
<1>5. ASSUME NEW u \in Timers, TimerTask(u) PROVE Counting'
  <2> DEFINE Again == [ticks |-> DayTicks, minute |-> armedFor[u], from |-> OSTime - late[u]]
  <2>1. /\ OSTime' = OSTime /\ u \in due /\ due' = due \ {u} /\ timing' = timing
        /\ \/ /\ remaining' = [remaining EXCEPT ![u] = DayTicks]
              /\ OSTmrDly' = [OSTmrDly EXCEPT ![u] = Again]
              /\ UNCHANGED <<armedFor, late>>
           \/ /\ armedFor' = [armedFor EXCEPT ![u] = None]
              /\ late' = [late EXCEPT ![u] = 0]
              /\ UNCHANGED <<remaining, OSTmrDly>>
    BY <1>5 DEF TimerTask, Stopped, RestartTimer
  <2>2. remaining[u] = 0 /\ OSTime \in Int /\ late[u] \in Int /\ DayTicks \in Nat \ {0}
    BY <1>2, <2>1, ClockUnits DEF StripInv, DueIsZero
  <2>3. armedFor[u] # None =>
          /\ (OSTime + DayTicks) - late[u] \in Nat
          /\ SystemMinute((OSTime + DayTicks) - late[u]) = armedFor[u]
    <3> HAVE armedFor[u] # None
    <3> DEFINE w == OSTime - late[u]
    <3>1. (OSTime + remaining[u]) - late[u] = w
      BY <2>2
    <3>2. w \in Nat /\ SystemMinute(w) = armedFor[u]
      BY <3>1 DEF Counting, Counts
    <3>3. (OSTime + DayTicks) - late[u] = w + DayTicks
      BY <2>2
    <3> HIDE DEF w
    <3>4. SystemMinute(w + DayTicks) = SystemMinute(w) /\ w + DayTicks \in Nat
      BY <2>2, <3>2, DayPasses
    <3> QED
      BY <3>2, <3>3, <3>4
  <2>4. ASSUME NEW t \in Timers PROVE Counts(t)'
    <3>1. CASE t # u
      <4>1. remaining'[t] = remaining[t] /\ armedFor'[t] = armedFor[t] /\ late'[t] = late[t]
        BY <1>2, <2>1, <3>1
      <4> QED
        BY <1>3, <2>1, <3>1, <4>1
    <3>2. CASE t = u
      <4>1. CASE armedFor'[t] = None
        BY <1>n, <4>1
      <4>2. CASE armedFor'[t] # None
        <5>1. remaining'[t] = DayTicks /\ armedFor'[t] = armedFor[t] /\ late'[t] = late[t]
          BY <1>2, <2>1, <3>2, <4>2
        <5> QED
          BY <2>1, <2>2, <2>3, <3>2, <4>2, <5>1 DEF Counts
      <4> QED
        BY <4>1, <4>2
    <3> QED
      BY <3>1, <3>2
  <2>5. Leads(Again)
    <3>1. Again.ticks = DayTicks /\ Again.minute = armedFor[u] /\ Again.from = OSTime - late[u]
      OBVIOUS
    <3> HIDE DEF Again
    <3>2. (OSTime + DayTicks) - late[u] = (OSTime - late[u]) + DayTicks
      BY <2>2
    <3> QED
      BY <2>2, <2>3, <3>1, <3>2 DEF Leads
  <2> HIDE DEF Again
  <2>6. \A t \in Timers : Leads(OSTmrDly'[t])
    BY <1>2, <2>1, <2>5 DEF Counting
  <2>7. \A t \in Timers : Leads(OSTmrDly[t])' <=> Leads(OSTmrDly'[t])
    BY DEF Leads
  <2>8. \A k \in Rank : Leads(timing[k])'
    BY <2>1 DEF Counting, Leads
  <2> QED
    BY <2>4, <2>6, <2>7, <2>8 DEF Counting
<1>6. ASSUME ClockJumps PROVE Counting'
  <2>1. \A t \in Timers : armedFor'[t] = None
    BY <1>6 DEF ClockJumps
  <2>2. \A t \in Timers : OSTmrDly'[t].minute = None
    BY <1>2, <1>6 DEF ClockJumps, Forgotten
  <2>3. \A k \in Rank : timing'[k].minute = None
    BY <1>2, <1>6 DEF ClockJumps, Forgotten
  <2> QED
    BY <1>n, <2>1, <2>2, <2>3 DEF Counting, Leads
<1>7. CASE Tick /\ OSTime + 1 # TickWrap
  <2>0. UNCHANGED <<armedFor, late, timing, OSTmrDly>>
    BY <1>7 DEF Tick
  <2>2. OSTime' = OSTime + 1
    <3>1. OSTime + 1 \in Nat /\ OSTime + 1 < TickWrap /\ TickWrap \in Nat \ {0}
      BY <1>2, <1>7, ClockUnits
    <3>2. OSTime + 1 \in 0..(TickWrap - 1)
      BY <3>1
    <3>3. (0 * TickWrap + (OSTime + 1)) % TickWrap = OSTime + 1
      BY <3>1, <3>2, DivModUnique
    <3>4. 0 * TickWrap + (OSTime + 1) = OSTime + 1
      BY <3>1
    <3> QED
      BY <1>7, <3>3, <3>4 DEF Tick
  <2>3. ASSUME NEW t \in Timers, armedFor[t] # None
        PROVE  Counts(t)'
    <3>1. remaining[t] > 0
      BY <1>7, <2>3 DEF Tick, Counting, Counts
    <3>2. remaining[t] \in Nat /\ late[t] \in Int
      BY <1>2
    <3>3. /\ remaining'[t] = remaining[t] - 1
          /\ remaining[t] = 1 => t \in due'
      BY <1>7, <3>1, <3>2 DEF Tick
    <3>4. /\ (OSTime' + remaining'[t]) - late[t] = (OSTime + remaining[t]) - late[t]
          /\ remaining'[t] > 0 \/ remaining[t] = 1
      BY <1>2, <2>2, <3>1, <3>2, <3>3
    <3>5. /\ (OSTime + remaining[t]) - late[t] \in Nat
          /\ SystemMinute((OSTime + remaining[t]) - late[t]) = armedFor[t]
      BY <2>3 DEF Counting, Counts
    <3> QED
      BY <2>0, <3>3, <3>4, <3>5 DEF Counts
  <2>4. \A t \in Timers : Counts(t)'
    BY <1>n, <2>0, <2>3
  <2>5. /\ \A t \in Timers : Leads(OSTmrDly[t])'
        /\ \A k \in Rank : Leads(timing[k])'
    BY <2>0 DEF Counting, Leads
  <2> QED
    BY <2>4, <2>5 DEF Counting
<1>t. CASE Tick
  <2>1. CASE OSTime + 1 = TickWrap
    BY <1>6, <1>t, <2>1 DEF Tick
  <2> QED
    BY <1>7, <1>t, <2>1
<1>8. ASSUME UNCHANGED <<OSTime, remaining, due, armedFor, late, timing, OSTmrDly>>
      PROVE  Counting'
  BY <1>8 DEF Counting, Counts, Leads
<1>9. CASE \/ UNCHANGED vars \/ CheckSocket \/ PingResp \/ \E v \in {0, 1} : SysStatus(v)
           \/ \E k \in {3, 4}, c \in Commands : DeviceControl(k, c)
  BY <1>8, <1>9 DEF CheckSocket, PingResp, SysStatus, DeviceControl, Start, vars, schedule,
                    delays
<1>10. ASSUME NEW ticks \in ClockTimes, ModifyLocalTime(ticks) PROVE Counting'
  BY <1>6, <1>10 DEF ModifyLocalTime
<1> QED
  BY <1>4, <1>5, <1>p, <1>t, <1>9, <1>10 DEF Next

\* If commands set minutes of a day, a timer that timing_value and
\* NST_SetTimer have started runs out in the minute it was started for, on
\* the first day and on every day timer_on_task and timer_off_task start it
\* again for, or later than that by as many ticks as its task was held up
\* between reading the clock and starting it; unless the clock was set or has
\* wrapped since.
THEOREM FiresTheorem ==
    ASSUME MinutesOfDay
    PROVE  Spec => []FiresInMinute
<1>1. Init => Counting
  BY DEF Init, Counting, Counts, Leads, NoDelay
<1>2. StripInv /\ Counting /\ [Next]_vars => Counting'
  BY CountingStep
<1>3. StripInv /\ Counting => FiresInMinute
  <2> SUFFICES ASSUME StripInv, Counting, NEW t \in due, armedFor[t] # None
               PROVE  SystemMinute(OSTime - late[t]) = armedFor[t]
    BY DEF FiresInMinute
  <2>1. remaining[t] = 0 /\ t \in Timers /\ OSTime + 0 = OSTime
    BY ClockUnits DEF StripInv, DueIsZero, Types
  <2> QED
    BY <2>1 DEF Counting, Counts
<1> QED
  BY <1>1, <1>2, <1>3, StripInvariant, PTL DEF Spec
=============================================================================
