---------------------------- MODULE StripControl ----------------------------
(***************************************************************************)
(* The socket itself: its relay, the status byte it reports, and the       *)
(* schedule that switches it on and off at a minute of the day, once or on *)
(* some days of the week.                                                  *)
(*                                                                         *)
(* The relay and the status are changed by the button (main task), by      *)
(* commands of phones (TcpServerThread) and of the cloud (TcpCloudThread), *)
(* and by the two timers of the schedule; the LED task and the first ping  *)
(* answer of the cloud write the same port.  None of them takes a lock.    *)
(* uC/OS-II runs the task of highest priority, so a task can be preempted  *)
(* between any two accesses and goes on when the other one is done; the    *)
(* timer task is above all and runs its callbacks with the scheduler       *)
(* locked.                                                                 *)
(*                                                                         *)
(* What a task still has to do is kept as a list of accesses, in the order *)
(* of the code.  Setting a timer takes three of them: the delay is         *)
(* computed from the minute and the clock, stored in the timer, and the    *)
(* timer is started with the delay it then holds.  The clock is OSTime,    *)
(* which NTP sets; the timers count on their own.                          *)
(***************************************************************************)
EXTENDS Integers, Sequences

CONSTANTS
    OS_TICKS_PER_SEC,  \* ticks in a second (100)
    MinuteSecs,        \* seconds in a minute (60)
    DayMinutes,        \* minutes in a day (1440)
    WeekDays,          \* days in a week (7)
    ClockStart,        \* local time at tick 0, in seconds (1417334400)
    TickWrap,          \* OSTime is kept modulo this (2^32)
    Commands,          \* records of the attributes a command sets: socket,
                       \* time (Time_OnOff), count (CountDown_OnOff), week,
                       \* on and off (minutes)
    MaxStarts,         \* bound: commands, button presses and LED changes
    MaxHeld,           \* bound: ticks while a task is at its accesses
    ClockTimes,        \* ticks that NTP may set the clock to
    MaxSyncs           \* bound: times NTP sets the clock

Minutes == 0..(DayMinutes - 1)
Days    == 1..WeekDays
DayTicks == DayMinutes * MinuteSecs * OS_TICKS_PER_SEC
Timers  == {"on", "off"}
None    == -1

ASSUME StripConstants ==
    /\ {OS_TICKS_PER_SEC, MinuteSecs, DayMinutes, WeekDays, TickWrap}
         \subseteq Nat \ {0}
    /\ {ClockStart, MaxStarts, MaxHeld, MaxSyncs} \subseteq Nat
    /\ ClockTimes \subseteq 0..(TickWrap - 1)
    /\ TickWrap > DayTicks
    /\ \A c \in Commands :
          /\ \A a \in {"socket", "time", "count"} \intersect DOMAIN c : c[a] \in {0, 1}
          /\ "week" \in DOMAIN c => c["week"] \subseteq Days
          /\ \A t \in Timers \intersect DOMAIN c : c[t] \in Nat

\* The tasks by falling priority, below the timer task.
Task == <<"main", "led", "tcp", "cloud">>
Rank == DOMAIN Task

VARIABLES
    port,        \* SWPORTA_DR: the pins that are high, of "relay" and "led"
    onoff,       \* socket_status.onoff: the bits that are set
    week_repeat, \* the days of the week, empty if the schedule runs once
    repeat_flag,
    minute,      \* time_on_minute, time_off_minute
    OSTime,
    remaining,   \* ticks until Timer_on, Timer_off run out, 0 if stopped
    due,         \* timers that ran out at this tick, callback not yet run
    todo,        \* what each task still has to do
    reg,         \* the value each task has read and not yet written back
    at,          \* where each task is in setting a timer: before it has
                 \* called timing_value, before it sets the delay, or
                 \* before it starts the timer
    timing,      \* the delay each task has computed and not yet stored
    OSTmrDly,    \* the delay stored in each timer
    socket_flag, \* the cloud has answered a ping
    starts, held, syncs,
    armedFor,    \* history: the minute a timer was started for, None if
                 \* the clock has jumped since its delay was computed
    late,        \* history: by how many ticks it was started too late
    byMinute,    \* history: timers started by setting their minute
    torn,        \* history: bits whose last update met another task's
    crossed      \* history: timers whose last setting met another task's,
                 \* or their own restart

status   == <<onoff, week_repeat, repeat_flag, minute>>
schedule == <<OSTime, remaining, due, held, syncs, armedFor, late, byMinute>>
delays   == <<timing, OSTmrDly>>
vars == <<port, status, schedule, todo, reg, at, delays, socket_flag, starts,
          torn, crossed>>

\* A delay; its minute and the tick it counts from are history.
NoDelay == [ticks |-> 0, minute |-> None, from |-> 0]

Init ==
    /\ port = {} /\ onoff = {} /\ week_repeat = {} /\ repeat_flag = 0
    /\ minute = [t \in Timers |-> 0]
    /\ OSTime = 0 /\ remaining = [t \in Timers |-> 0] /\ due = {}
    /\ todo = [k \in Rank |-> <<>>] /\ reg = [k \in Rank |-> {}]
    /\ at = [k \in Rank |-> "call"] /\ timing = [k \in Rank |-> NoDelay]
    /\ OSTmrDly = [t \in Timers |-> NoDelay]
    /\ socket_flag = 0 /\ starts = 0 /\ held = 0 /\ syncs = 0
    /\ armedFor = [t \in Timers |-> None] /\ late = [t \in Timers |-> 0]
    /\ byMinute = {} /\ torn = {} /\ crossed = {}
-----------------------------------------------------------------------------
(* The clock as strip.c reads it. *)

SystemSec(ticks)    == ticks \div OS_TICKS_PER_SEC + ClockStart
SystemMinute(ticks) == (SystemSec(ticks) \div MinuteSecs) % DayMinutes

\* timing_week: day 0 is a Thursday, and Sunday is day 7.
TimingWeek(ticks) ==
    LET wday == (4 + SystemSec(ticks) \div (MinuteSecs * DayMinutes)) % WeekDays
    IN  IF wday = 0 THEN WeekDays ELSE wday

\* Faulty variant: the seconds of the running minute are added.
TimingValue_Later(m, ticks) ==
    LET now == SystemMinute(ticks) IN
    CASE now = m -> 1
      [] now < m -> ((m - now) * MinuteSecs + (SystemSec(ticks) % MinuteSecs))
                      * OS_TICKS_PER_SEC
      [] now > m -> (DayMinutes - (now - m)) * MinuteSecs * OS_TICKS_PER_SEC

\* timing_value, in ticks: until the next time the clock shows minute m.
TimingValue(m, ticks) ==
    LET now == SystemMinute(ticks) IN
    CASE now = m -> 1
      [] now < m -> ((m - now) * MinuteSecs - (SystemSec(ticks) % MinuteSecs))
                      * OS_TICKS_PER_SEC
      [] now > m -> (DayMinutes - (now - m)) * MinuteSecs * OS_TICKS_PER_SEC
-----------------------------------------------------------------------------
(* What a task does, access by access. *)

\* BSP_GPIOSetValue: the port is read, changed and written back.
SetValue(pin, v) ==
    <<[op |-> "readPort"], [op |-> "writePort", bit |-> pin, v |-> v]>>

\* SETBIT and CLRBIT on the status byte.
SetBit(bit, v) ==
    <<[op |-> "readOnoff"], [op |-> "writeOnoff", bit |-> bit, v |-> v]>>

\* Faulty variant: the status byte is left alone.
Switch_NoStatus(v) == SetValue("relay", v) \o SetValue("led", 1 - v)

\* A low level lights the LED.
Switch(v) ==
    SetValue("relay", v) \o SetValue("led", 1 - v) \o SetBit("socket", v)

ArmOp(t, by) == <<[op |-> "arm", t |-> t, by |-> by]>>
CancelOp(t)  == <<[op |-> "cancel", t |-> t]>>

\* Faulty variant: switching the schedule off forgets a timer.
TimeOnOff_OneTimer(v) ==
    SetBit("time", v)
      \o IF v = 1
         THEN <<[op |-> "repeatIfDays"]>> \o ArmOp("on", "time") \o ArmOp("off", "time")
         ELSE CancelOp("on") \o <<[op |-> "noRepeat"]>>

TimeOnOff(v) ==
    SetBit("time", v)
      \o IF v = 1
         THEN <<[op |-> "repeatIfDays"]>> \o ArmOp("on", "time") \o ArmOp("off", "time")
         ELSE CancelOp("on") \o CancelOp("off") \o <<[op |-> "noRepeat"]>>

WeekRepeat(days) == <<[op |-> "week", days |-> days], [op |-> "repeatAsDays"]>>

\* Faulty variant: the timer is started before the minute is stored.
SetMinute_ArmsFirst(t, m) ==
    ArmOp(t, "minute") \o <<[op |-> "minute", t |-> t, m |-> m]>>

SetMinute(t, m) ==
    <<[op |-> "minute", t |-> t, m |-> m]>> \o ArmOp(t, "minute")

\* strip_data_parse: the attributes whose flag is set, in this order.
Program(c) ==
    LET Part(a, ops(_)) == IF a \in DOMAIN c THEN ops(c[a]) ELSE <<>>
    IN  Part("socket", Switch) \o Part("time", TimeOnOff)
          \o Part("count", LAMBDA v : SetBit("count", v))
          \o Part("week", WeekRepeat)
          \o Part("on", LAMBDA m : SetMinute("on", m))
          \o Part("off", LAMBDA m : SetMinute("off", m))
-----------------------------------------------------------------------------
(* Tasks start when no task above them is running, and go on likewise. *)

Busy == {k \in Rank : todo[k] # <<>>}
Idle == due = {} /\ Busy = {}
Scheduled(k) == due = {} /\ \A j \in Busy : j >= k

Touched(bits) == torn' = IF Busy = {} THEN torn \ bits ELSE torn \union bits

\* These accesses set the minute of a timer, or the timer.
SetsTimer(ops, t) ==
    \E i \in 1..Len(ops) : ops[i].op \in {"minute", "arm"} /\ ops[i].t = t

Start(k, ops, bits) ==
    /\ Scheduled(k) /\ todo[k] = <<>>
    /\ starts < MaxStarts /\ starts' = starts + 1
    /\ todo' = [todo EXCEPT ![k] = ops] /\ Touched(bits)
    /\ crossed' = {t \in Timers : IF SetsTimer(ops, t)
                                   THEN \E j \in Rank : SetsTimer(todo[j], t)
                                   ELSE t \in crossed}
    /\ UNCHANGED <<port, status, schedule, reg, at, delays>>

\* check_socket, once the button has stayed down: the relay is toggled.
CheckSocket ==
    /\ Start(1, Switch(IF "relay" \in port THEN 0 ELSE 1), {"socket"})
    /\ UNCHANGED socket_flag

\* SysStatusThread blinks.
SysStatus(v) == Start(2, SetValue("led", v), {}) /\ UNCHANGED socket_flag

\* The first MQTT_MSG_PINGRESP.
PingResp ==
    /\ socket_flag = 0 /\ socket_flag' = 1
    /\ Start(4, SetValue("led", 1), {})

\* device_control in the task that received the command.
DeviceControl(k, c) ==
    /\ Start(k, Program(c), {"socket", "time"} \intersect DOMAIN c)
    /\ UNCHANGED socket_flag

Op(k) == Head(todo[k])

\* Task k does its next access, which is of this kind.
Does(k, op) ==
    /\ Op(k).op = op
    /\ todo' = [todo EXCEPT ![k] = Tail(@)] /\ at' = [at EXCEPT ![k] = "call"]
    /\ UNCHANGED <<delays, socket_flag, starts, crossed>>

Changed(bits, bit, v) == IF v = 1 THEN bits \union {bit} ELSE bits \ {bit}

ReadPort(k) ==
    /\ Does(k, "readPort") /\ reg' = [reg EXCEPT ![k] = port]
    /\ UNCHANGED <<port, status, schedule, torn>>

\* The value read is used up: it is forgotten here.
WritePort(k) ==
    /\ Does(k, "writePort") /\ port' = Changed(reg[k], Op(k).bit, Op(k).v)
    /\ reg' = [reg EXCEPT ![k] = {}]
    /\ UNCHANGED <<status, schedule, torn>>

ReadOnoff(k) ==
    /\ Does(k, "readOnoff") /\ reg' = [reg EXCEPT ![k] = onoff]
    /\ UNCHANGED <<port, status, schedule, torn>>

WriteOnoff(k) ==
    /\ Does(k, "writeOnoff") /\ onoff' = Changed(reg[k], Op(k).bit, Op(k).v)
    /\ reg' = [reg EXCEPT ![k] = {}]
    /\ UNCHANGED <<port, week_repeat, repeat_flag, minute, schedule, torn>>

RepeatIfDays(k) ==
    /\ Does(k, "repeatIfDays")
    /\ repeat_flag' = IF week_repeat # {} THEN 1 ELSE repeat_flag
    /\ UNCHANGED <<port, onoff, week_repeat, minute, schedule, reg, torn>>

NoRepeat(k) ==
    /\ Does(k, "noRepeat") /\ repeat_flag' = 0
    /\ UNCHANGED <<port, onoff, week_repeat, minute, schedule, reg, torn>>

StoreWeek(k) ==
    /\ Does(k, "week") /\ week_repeat' = Op(k).days
    /\ UNCHANGED <<port, onoff, repeat_flag, minute, schedule, reg, torn>>

RepeatAsDays(k) ==
    /\ Does(k, "repeatAsDays") /\ repeat_flag' = IF week_repeat # {} THEN 1 ELSE 0
    /\ UNCHANGED <<port, onoff, week_repeat, minute, schedule, reg, torn>>

StoreMinute(k) ==
    /\ Does(k, "minute") /\ minute' = [minute EXCEPT ![Op(k).t] = Op(k).m]
    /\ UNCHANGED <<port, onoff, week_repeat, repeat_flag, schedule, reg, torn>>

\* What timing_value returns.  Asked for the minute that is running, it says
\* one tick, which counts from the tick before.
DelayFor(m) ==
    [ticks |-> TimingValue(m, OSTime), minute |-> m,
     from  |-> IF SystemMinute(OSTime) = m THEN OSTime - 1 ELSE OSTime]

\* The argument of NST_SetTimer.
CallTimingValue(k) ==
    /\ Op(k).op = "arm" /\ at[k] = "call" /\ at' = [at EXCEPT ![k] = "set"]
    /\ timing' = [timing EXCEPT ![k] = DelayFor(minute[Op(k).t])]
    /\ UNCHANGED <<port, status, schedule, todo, reg, OSTmrDly, socket_flag,
                   starts, torn, crossed>>

\* NST_SetTimer stores the delay in the timer ...
SetDelay(k) ==
    /\ Op(k).op = "arm" /\ at[k] = "set" /\ at' = [at EXCEPT ![k] = "start"]
    /\ OSTmrDly' = [OSTmrDly EXCEPT ![Op(k).t] = timing[k]]
    /\ timing' = [timing EXCEPT ![k] = NoDelay]
    /\ UNCHANGED <<port, status, schedule, todo, reg, socket_flag, starts,
                   torn, crossed>>

\* How late a timer starts to count, if it is for some minute.
Lag(dly) == IF dly.minute = None THEN 0 ELSE OSTime - dly.from

\* ... and OSTmrStart starts it with the delay it finds there; a timer that
\* is running is started again.
StartTimer(k) ==
    /\ at[k] = "start" /\ Does(k, "arm")
    /\ LET t == Op(k).t IN
       /\ remaining' = [remaining EXCEPT ![t] = OSTmrDly[t].ticks]
       /\ armedFor' = [armedFor EXCEPT ![t] = OSTmrDly[t].minute]
       /\ late' = [late EXCEPT ![t] = Lag(OSTmrDly[t])]
       /\ byMinute' = IF Op(k).by = "minute" THEN byMinute \union {t}
                      ELSE byMinute \ {t}
    /\ UNCHANGED <<port, status, OSTime, due, held, syncs, reg, torn>>

\* A timer that does not run is for no minute.
Stopped(t) ==
    /\ armedFor' = [armedFor EXCEPT ![t] = None]
    /\ late' = [late EXCEPT ![t] = 0] /\ byMinute' = byMinute \ {t}

\* NST_CancelTimer.
CancelTimer(k) ==
    /\ Does(k, "cancel")
    /\ remaining' = [remaining EXCEPT ![Op(k).t] = 0] /\ Stopped(Op(k).t)
    /\ UNCHANGED <<port, status, OSTime, due, held, syncs, reg, torn>>
-----------------------------------------------------------------------------
(* The timer task, and the clock. *)

Repeats == week_repeat # {} /\ repeat_flag = 1

SwitchesToday ==
    \/ week_repeat = {}
    \/ repeat_flag = 1 /\ TimingWeek(OSTime) \in week_repeat

\* timer_on_task, timer_off_task.
TimerSwitches(t) ==
    LET v == IF t = "on" THEN 1 ELSE 0 IN
    IF SwitchesToday
    THEN /\ port' = Changed(Changed(port, "relay", v), "led", 1 - v)
         /\ onoff' = Changed(onoff, "socket", v) /\ Touched({"socket"})
    ELSE UNCHANGED <<port, onoff, torn>>

\* The timer is started again for the same time of the next day.
RestartTimer(t) ==
    /\ remaining' = [remaining EXCEPT ![t] = DayTicks]
    /\ OSTmrDly' = [OSTmrDly EXCEPT ![t] =
          [ticks |-> DayTicks, minute |-> armedFor[t], from |-> OSTime - late[t]]]
    /\ crossed' = IF \E k \in Busy : /\ Op(k).op = "arm" /\ Op(k).t = t
                                     /\ at[k] = "start"
                  THEN crossed \union {t} ELSE crossed
    /\ UNCHANGED <<armedFor, late, byMinute>>

TimerTask(t) ==
    /\ t \in due /\ due' = due \ {t} /\ TimerSwitches(t)
    /\ IF Repeats THEN RestartTimer(t)
       ELSE Stopped(t) /\ UNCHANGED <<remaining, OSTmrDly, crossed>>
    /\ UNCHANGED <<week_repeat, repeat_flag, minute, OSTime, held, syncs, todo,
                   reg, at, timing, socket_flag, starts>>

\* The clock jumps: no delay counted from an earlier time leads to a minute.
Forgotten(f) ==
    [x \in DOMAIN f |-> [ticks |-> f[x].ticks, minute |-> None, from |-> 0]]

ClockJumps ==
    /\ armedFor' = [t \in Timers |-> None] /\ late' = [t \in Timers |-> 0]
    /\ timing' = Forgotten(timing) /\ OSTmrDly' = Forgotten(OSTmrDly)

\* A tick, at which the timers count and OSTime may wrap.
Tick ==
    /\ due = {}
    /\ held' = IF Busy = {} THEN held ELSE held + 1
    /\ held' <= MaxHeld
    /\ OSTime' = (OSTime + 1) % TickWrap
    /\ remaining' = [t \in Timers |-> IF remaining[t] = 0 THEN 0
                                      ELSE remaining[t] - 1]
    /\ due' = {t \in Timers : remaining[t] = 1}
    /\ IF OSTime + 1 = TickWrap THEN ClockJumps
       ELSE UNCHANGED <<armedFor, late, timing, OSTmrDly>>
    /\ UNCHANGED <<port, status, syncs, byMinute, todo, reg, at, socket_flag,
                   starts, torn, crossed>>

\* ModifyLocalTime, in the task of lowest priority: any time may come.
ModifyLocalTime(ticks) ==
    /\ Idle /\ syncs < MaxSyncs /\ syncs' = syncs + 1
    /\ OSTime' = ticks /\ ClockJumps
    /\ UNCHANGED <<port, status, remaining, due, held, byMinute, todo, reg, at,
                   socket_flag, starts, torn, crossed>>
-----------------------------------------------------------------------------
Access(k) ==
    /\ k \in Busy /\ Scheduled(k)
    /\ \/ ReadPort(k) \/ WritePort(k) \/ ReadOnoff(k) \/ WriteOnoff(k)
       \/ RepeatIfDays(k) \/ NoRepeat(k) \/ StoreWeek(k) \/ RepeatAsDays(k)
       \/ StoreMinute(k) \/ StartTimer(k) \/ CancelTimer(k)

\* What a task does before it starts a timer.
Prepare(k) ==
    /\ k \in Busy /\ Scheduled(k)
    /\ CallTimingValue(k) \/ SetDelay(k)

Next ==
    \/ CheckSocket \/ PingResp \/ \E v \in {0, 1} : SysStatus(v)
    \/ \E k \in {3, 4}, c \in Commands : DeviceControl(k, c)
    \/ \E k \in Rank : Access(k) \/ Prepare(k)
    \/ \E t \in Timers : TimerTask(t)
    \/ Tick \/ \E ticks \in ClockTimes : ModifyLocalTime(ticks)

Spec == Init /\ [][Next]_vars
-----------------------------------------------------------------------------
(* Properties. *)

\* A timer runs out in the minute it was started for, on the first day and
\* on every day it is started again for, or later than that by no more than
\* the ticks between its task reading the clock in timing_value and starting
\* it, and one if timing_value was asked for the minute that was running;
\* whatever the tasks did meanwhile, unless the clock was set or has wrapped
\* since.
FiresInMinute ==
    \A t \in due : armedFor[t] # None =>
        SystemMinute(OSTime - late[t]) = armedFor[t]

\* Between commands a timer that runs is for the minute the status shows,
\* unless the last setting of that timer met another task's, or the restart
\* of the timer between the two halves of NST_SetTimer: the next setting that
\* meets none brings them together again.
ScheduleIsCurrent ==
    Idle => \A t \in Timers \ crossed : armedFor[t] \in {None, minute[t]}

\* Between commands the relay is what the status says, unless the last
\* update of one of them met another task's: the next undisturbed switch
\* brings them together again.
StatusIsTrue ==
    Idle /\ "socket" \notin torn => ("relay" \in port <=> "socket" \in onoff)

\* With the schedule switched off no timer runs, except one whose minute was
\* set since (or if two commands met while it was switched).
OffStaysOff ==
    Idle /\ "time" \notin torn \union onoff
        => \A t \in Timers : remaining[t] > 0 => t \in byMinute
=============================================================================
