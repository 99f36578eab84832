-------------------------------- MODULE Timer ---------------------------------
(***************************************************************************)
(* sim/timer.c: the simulator's event queue and the timer/counter device.  *)
(*                                                                         *)
(* Devices call timerStart to have a callback run after a delay.  The      *)
(* active timers form a list sorted by alarm time; a pool of               *)
(* NUMBER_TIMERS timers limits their number.  The CPU calls timerTick      *)
(* before every instruction: the current time advances, and is wrapped     *)
(* around together with all alarms so that it never overflows; expired     *)
(* timers are removed and their callbacks run, which may start timers      *)
(* again; then the counters of the timer/counter device advance.           *)
(*                                                                         *)
(* A tick is split at each callback: TickBegin, Expire for every expired   *)
(* timer, TickEnd.                                                         *)
(***************************************************************************)
EXTENDS Integers, Sequences, FiniteSets

CONSTANTS
  NUMBER_TIMERS,  \* size of the pool of simulation timers
  TIME_WRAP,      \* the current time stays below this
  CC_PER_INSTR,   \* clock cycles per tick
  WordSize,       \* number of values of a machine word
  Delay,          \* the delays devices ask for, in clock cycles
  Callback,       \* the callbacks devices ask for
  Counter,        \* the timer/counters
  Divisor         \* the values software writes to divisor registers

ASSUME TimerAssumption ==
  /\ NUMBER_TIMERS \in Nat
  /\ CC_PER_INSTR \in Nat \ {0}
  /\ TIME_WRAP \in Nat /\ TIME_WRAP >= CC_PER_INSTR
  /\ WordSize \in Nat /\ WordSize > 2 * CC_PER_INSTR
  /\ Delay \subseteq Nat \ {0}
  /\ Divisor \subseteq 0 .. WordSize - 1

VARIABLES
  currentTime,
  active,         \* the list of active timers, [alarm, callback]
  free,           \* number of timers in the pool
  mode,           \* "running", "expiring" (within a tick) or "exited"
  counters,       \* counters[i]: registers of timer/counter i
  irqPending,     \* counters whose interrupt line is raised
  truth,          \* history, parallel to active: cycles since the start of the
                  \* timer and cycles left, counted without wrap-around
  phase           \* history: cycles since the last divisor write or expiry
                  \* (not followed for divisors shorter than a tick)

qvars == <<currentTime, active, free, truth>>
cvars == <<counters, irqPending, phase>>
tvars == <<qvars, cvars, mode>>

Word == 0 .. WordSize - 1

TTypeOK ==
  /\ currentTime \in 0 .. TIME_WRAP - 1
  /\ active \in Seq([alarm : Int, callback : Callback])
  /\ free \in 0 .. NUMBER_TIMERS
  /\ mode \in {"running", "expiring", "exited"}
  /\ counters \in [Counter -> [exp : BOOLEAN, ien : BOOLEAN,
                               divisor : Word, counter : Word]]
  /\ irqPending \subseteq Counter
  /\ truth \in Seq([age : Nat, left : Int])
  /\ phase \in [Counter -> Nat]

-------------------------------------------------------------------------------
(* The event queue *)

InsertAt(s, k, e) == SubSeq(s, 1, k) \o <<e>> \o SubSeq(s, k + 1, Len(s))

\* (mutant) A new timer goes before those that expire at the same time.
RankBeforeTies(alarm, queue) ==
  Cardinality({k \in DOMAIN queue : \A j \in 1 .. k : queue[j].alarm < alarm})

\* timerStart walks past timers until one expires later.
Rank(alarm, queue) ==
  Cardinality({k \in DOMAIN queue : \A j \in 1 .. k : queue[j].alarm <= alarm})

\* (mutant) The delay is forgotten.
AlarmNow(d) == currentTime

AlarmFor(d) == currentTime + d

\* timerStart, given the queue and pool at the time of the call; the simulator
\* exits with "out of timers" when the pool is empty.
StartFrom(d, cb, queue, pool, times) ==
  LET a == AlarmFor(d)
      k == Rank(a, queue)
  IN IF pool = 0
       THEN /\ mode' = "exited"
            /\ active' = queue /\ free' = pool /\ truth' = times
       ELSE /\ active' = InsertAt(queue, k, [alarm |-> a, callback |-> cb])
            /\ free' = pool - 1
            /\ truth' = InsertAt(times, k, [age |-> 0, left |-> d])
            /\ UNCHANGED mode

\* A device starts a timer on behalf of an instruction.
Start(d, cb) ==
  /\ mode = "running"
  /\ StartFrom(d, cb, active, free, truth)
  /\ UNCHANGED <<currentTime, cvars>>

\* (mutant) The time wraps around, the alarms do not.
WrappedAlarm(wrap, t) == t

\* All alarms wrap around together with the current time.
Wrapped(wrap, t) == IF wrap THEN [t EXCEPT !.alarm = @ - TIME_WRAP] ELSE t

\* timerTick up to the loop that runs the callbacks.
TickBegin ==
  LET now == currentTime + CC_PER_INSTR
      wrap == now >= TIME_WRAP
  IN /\ mode = "running"
     /\ mode' = "expiring"
     /\ currentTime' = IF wrap THEN now - TIME_WRAP ELSE now
     /\ active' = [k \in DOMAIN active |-> Wrapped(wrap, active[k])]
     /\ truth' = [k \in DOMAIN truth |-> [age |-> truth[k].age + CC_PER_INSTR,
                                          left |-> truth[k].left - CC_PER_INSTR]]
     /\ UNCHANGED <<free, cvars>>

\* (mutant) The expired timer is not given back.
ReleasedNowhere(pool) == pool

Released(pool) == pool + 1

\* (mutant) A timer that expires right now is left for the next tick.
ExpiredLate(t) == currentTime > t.alarm

Expired(t) == currentTime >= t.alarm

\* The first timer has expired: it goes back to the pool and its callback
\* runs, which starts no timer or (like the polling receivers) one.
Expire ==
  /\ mode = "expiring"
  /\ active # <<>> /\ Expired(Head(active))
  /\ \/ /\ active' = Tail(active) /\ free' = Released(free)
        /\ truth' = Tail(truth)
        /\ UNCHANGED mode
     \/ \E d \in Delay, cb \in Callback :
          StartFrom(d, cb, Tail(active), Released(free), Tail(truth))
  /\ UNCHANGED <<currentTime, cvars>>

-------------------------------------------------------------------------------
(* The timer/counter device *)

\* (mutant) The counter starts again from the divisor itself.
CountedLate(c) ==
  IF c.counter <= CC_PER_INSTR
    THEN [c EXCEPT !.counter = c.divisor, !.exp = TRUE]
    ELSE [c EXCEPT !.counter = @ - CC_PER_INSTR]

\* A counter that would reach zero starts again from the divisor, without
\* losing the cycles it is late; the subtraction is done in machine words.
Counted(c) ==
  IF c.counter <= CC_PER_INSTR
    THEN [c EXCEPT !.counter = (@ + c.divisor - CC_PER_INSTR) % WordSize,
                   !.exp = TRUE]
    ELSE [c EXCEPT !.counter = @ - CC_PER_INSTR]

\* The rest of timerTick, after the last callback.
TickEnd ==
  /\ mode = "expiring"
  /\ active # <<>> => ~Expired(Head(active))
  /\ mode' = "running"
  /\ counters' = [i \in Counter |-> Counted(counters[i])]
  /\ irqPending' = irqPending \cup
       {i \in Counter : counters[i].counter <= CC_PER_INSTR /\ counters[i].ien}
  /\ phase' = [i \in Counter |->
       IF counters[i].divisor < CC_PER_INSTR THEN 0
       ELSE IF phase[i] + CC_PER_INSTR >= counters[i].divisor
         THEN phase[i] + CC_PER_INSTR - counters[i].divisor
         ELSE phase[i] + CC_PER_INSTR]
  /\ UNCHANGED qvars

\* (mutant) Reading the control register leaves the interrupt raised.
ReadKeepsIrq(i) == {}

\* The line a read of the control register lowers.
ReadLowers(i) == IF counters[i].ien THEN {i} ELSE {}

\* timerRead of the control register, which returns the expired bit, clears it.
ReadCtrl(i) ==
  /\ mode = "running"
  /\ counters' = [counters EXCEPT ![i].exp = FALSE]
  /\ irqPending' = irqPending \ ReadLowers(i)
  /\ UNCHANGED <<qvars, mode, phase>>

\* timerWrite of the control register sets or clears the interrupt enable bit.
WriteCtrl(i, ien) ==
  /\ mode = "running"
  /\ counters' = [counters EXCEPT ![i].ien = ien]
  /\ irqPending' = IF ien /\ counters[i].exp
                     THEN irqPending \cup {i} ELSE irqPending \ {i}
  /\ UNCHANGED <<qvars, mode, phase>>

\* timerWrite of the divisor register restarts the counter.
WriteDivisor(i, d) ==
  /\ mode = "running"
  /\ counters' = [counters EXCEPT ![i].divisor = d, ![i].counter = d]
  /\ phase' = [phase EXCEPT ![i] = 0]
  /\ UNCHANGED <<qvars, mode, irqPending>>

\* The console's "i" command: timerReset gives all timers back to the pool and
\* restores the registers (the current time goes on), cpuReset lowers all lines.
ResetCounters ==
  counters' = [i \in Counter |-> [exp |-> FALSE, ien |-> FALSE,
                                  divisor |-> WordSize - 1,
                                  counter |-> WordSize - 1]]

Reset ==
  /\ mode = "running"
  /\ active' = <<>> /\ truth' = <<>>
  /\ free' = free + Len(active)
  /\ ResetCounters
  /\ irqPending' = {}
  /\ phase' = [i \in Counter |-> 0]
  /\ UNCHANGED <<currentTime, mode>>

\* timerInit fills the pool and resets.
Init ==
  /\ currentTime = 0
  /\ active = <<>> /\ truth = <<>>
  /\ free = NUMBER_TIMERS
  /\ mode = "running"
  /\ counters = [i \in Counter |-> [exp |-> FALSE, ien |-> FALSE,
                                    divisor |-> WordSize - 1,
                                    counter |-> WordSize - 1]]
  /\ irqPending = {}
  /\ phase = [i \in Counter |-> 0]

Next ==
  \/ \E d \in Delay, cb \in Callback : Start(d, cb)
  \/ TickBegin
  \/ Expire
  \/ TickEnd
  \/ \E i \in Counter :
       \/ ReadCtrl(i)
       \/ \E ien \in BOOLEAN : WriteCtrl(i, ien)
       \/ \E d \in Divisor : WriteDivisor(i, d)
  \/ Reset

Spec == Init /\ [][Next]_tvars

\* timerTick is a C function: once begun it is run to its end.
FairSpec == Spec /\ WF_tvars(Expire) /\ WF_tvars(TickEnd)

-------------------------------------------------------------------------------
(* Safety *)

\* Safety: wrapping the time around changes no delay: the distance of every
\* alarm from the current time is the true time left (timer.c:135-144).
WrapKeepsDelays ==
  /\ Len(truth) = Len(active)
  /\ \A k \in DOMAIN active : active[k].alarm - currentTime = truth[k].left

\* Safety: a timer runs in the first tick at or after its time: no timer is
\* overdue by a whole tick, and none that is due survives the tick, although
\* only the head of the list is looked at (timer.c:146-156).
NoneOverdue ==
  \A k \in DOMAIN truth :
    /\ truth[k].left > -CC_PER_INSTR
    /\ mode = "running" => truth[k].left > 0

\* Safety: of two timers that expire at the same time the one started first is
\* first in the list, so bytes of one line cannot overtake (timer.c:191-195).
TiesFireInStartOrder ==
  \A k, m \in DOMAIN active :
    k < m => \/ truth[k].left < truth[m].left
             \/ truth[k].left = truth[m].left /\ truth[k].age >= truth[m].age

\* Safety: the interrupt line of a counter is raised exactly while its expired
\* and interrupt enable bits are both set (timer.c:68-110 and 158-164).
IrqIsExpAndIen ==
  \A i \in Counter :
    i \in irqPending <=> counters[i].exp /\ counters[i].ien

\* Safety: a counter keeps its period exactly: it never drifts although expiry
\* is only noticed at the next tick, and its 32-bit arithmetic never wraps,
\* for every divisor that is not shorter than a tick (timer.c:158-167).
CounterKeepsPeriod ==
  \A i \in Counter :
    counters[i].divisor >= CC_PER_INSTR =>
      /\ phase[i] < counters[i].divisor
      /\ counters[i].counter = counters[i].divisor - phase[i]

\* Safety: timers move between the pool and the list, none is lost or used twice
\* (timer.c:151-152 and 178-196, 207-212).
PoolConserved == free + Len(active) = NUMBER_TIMERS

\* Liveness: the loop that runs the callbacks ends although callbacks start
\* timers again, because these expire in a later tick (timer.c:146-156).
TickTerminates == mode = "expiring" ~> mode # "expiring"
=============================================================================
