------------------------ MODULE AppButtonTimeProofs ------------------------
(***************************************************************************)
(* Theorems about the times of the timer library, for every interval,      *)
(* counter width, latency and offset: deadlines are kept (DeadlinesKept),  *)
(* no timer expires early (NeverEarly) and the compare register is set for *)
(* the first expiry (Armed).                                               *)
(*                                                                         *)
(* They hold from the moment when the tick timer is in the list, since     *)
(* then nothing clears the counter, if no edge came before, and if the     *)
(* interrupts are fast against the intervals (TicksAreLong).               *)
(***************************************************************************)
EXTENDS AppButtonProofs

-----------------------------------------------------------------------------
(* The invariant.                                                          *)

\* The latency of the low priority is at most the detection delay, and a tick
\* leaves room for two compare values that were set late: one for the button's
\* timer and, when an edge stops that one, one for the tick timer.
TicksAreLong ==
  /\ MaxLag <= Interval[button]
  /\ 2 * (MaxLag + OffsetMin) <= Interval[tick] + 1

\* The ticks since m_ticks_latest, those that a timer is late, and those by
\* which a timer may be late when its event comes.
Passed  == Diff(counter, latest)
Late(t) == Passed - Due(List0, t)
First   == list[1]
Least    == MaxLag + OffsetMin - 1
Bound(t) == IF t = tick THEN 2 * Least ELSE Least

\* Nothing has happened before main() starts the tick timer; edges may come
\* before SWI0 performs the start.
Before ==
  /\ list = <<>> /\ low = Idle /\ counter = 0 /\ latest = 0 /\ lag = 0
  /\ ~rtcRunning /\ elapsed = None
  /\ main = "enqueue" => opQueue["draft"] # <<>>
  /\ IF main = "done" THEN opQueue["main"] # <<>> /\ opQueue["draft"] = <<>>
     ELSE opQueue["high"] = <<>> /\ ~swiPending
After  == /\ tick \in Running /\ main = "done"
          /\ opQueue["main"] = <<>> /\ opQueue["draft"] = <<>>
Phased == /\ ~clearing /\ ~rtcReset /\ ~rebased /\ edges \in Nat
          /\ IF tick \in Running THEN After ELSE Before

\* A queued start knows its counter value and is younger than the work that
\* waits for SWI0.
Timely(op) == op.type = "start" => /\ ~op.shifted /\ op.waited <= lag
                                   /\ Diff(counter, op.at) = op.waited
OpsTimed ==
  /\ opQueue["high"] # <<>> => swiPending \/ low.at = "insert"
  /\ \A u \in Queues : \A i \in 1..Len(opQueue[u]) : Timely(opQueue[u][i])

\* The time a timer has run, and what is left of its interval.
Deadlines ==
  /\ \A t \in Running :
       /\ -Interval[t] <= Late(t) /\ Late(t) <= Bound(First) + lag
       /\ shifted[t] \/ ran[t] = Interval[t] + Late(t)
  /\ Due(List0, tick) <= Interval[tick]

\* The expired ticks on their way from RTC1 to SWI0: they have passed, and who
\* does not expire by them was not late when RTC1 looked.
Counted(ticks) ==
  /\ ticks <= Passed
  /\ \A t \in Running : Due(List0, t) > ticks => Late(t) < lag
Expiries ==
  /\ low.at = "expire" =>
       /\ Counted(low.ticks)
       /\ \A t \in Range(low.todo) : t \in Running /\ Due(List0, t) <= low.ticks
  /\ elapsed # None =>
       Counted(elapsed) /\ rtcRunning /\ (swiPending \/ low.at = "expire")

\* RTC1 is pending, or its event comes before the first timer is too late.
Distance == Diff(cc, counter)
Awake ==
  /\ rtcRunning
  /\ ~rtcPending => /\ armed /\ Distance >= 1
                    /\ Distance <= Largest(-Late(First), OffsetMin)
                    /\ Late(First) + Distance <= Bound(First)

\* The first timer is another one, or another period has begun.
Renewed == Late(First) < (IF First = tick THEN Least ELSE 0) + lag

\* The compare value, seen from the counter value it was computed from.
Waited  == Diff(counter, low.pre)
Chosen  == Diff(low.cc, low.pre)
Writing ==
  /\ rtcRunning /\ Waited <= lag
  /\ Chosen >= OffsetMin /\ Chosen <= Largest(Waited - Late(First), OffsetMin)
  /\ Late(First) - Waited + Chosen <= Bound(First)
  /\ low.at = "check" =>
       /\ cc = low.cc
       /\ rtcPending \/ (armed /\ Waited < Chosen) \/ Waited + 1 >= Chosen

Alarm ==
  /\ low = Idle => elapsed # None \/ Awake
  /\ low.at = "expire" => rtcRunning
  /\ low.at = "insert" => IF low.update \/ low.head = None THEN Renewed
                          ELSE low.head = First /\ Awake
  /\ low.at = "compare" => Renewed
  /\ low.at \in {"write", "check"} => Writing

Timed   == Deadlines /\ Expiries /\ Alarm
TimeInv == Phased /\ OpsTimed /\ (tick \in Running => Timed)

-----------------------------------------------------------------------------
(* Distances between counter values.                                       *)

LEMMA DiffIs ==
  ASSUME NEW x \in Counter, NEW y \in Counter
  PROVE  /\ Diff(x, y) = IF y <= x THEN x - y ELSE x - y + CounterMod
         /\ Diff(x, y) \in Counter
BY Constants DEF Counter, Diff

LEMMA SumIs ==
  ASSUME NEW x \in Counter, NEW k \in Counter
  PROVE  /\ (x + k) % CounterMod = IF x + k < CounterMod THEN x + k ELSE x + k - CounterMod
         /\ (x + k) % CounterMod \in Counter
BY Constants DEF Counter

\* The counter advances by one.
LEMMA DiffSteps ==
  ASSUME NEW x \in Counter, NEW y \in Counter
  PROVE  /\ Diff(x, y) < CounterMod - 1 => Diff((x + 1) % CounterMod, y) = Diff(x, y) + 1
         /\ Diff(y, x) > 0 => Diff(y, (x + 1) % CounterMod) = Diff(y, x) - 1
         /\ (Diff(y, x) = 1) = ((x + 1) % CounterMod = y)
<1>1. 1 \in Counter
  BY Constants DEF Counter
<1>2. PICK z \in Counter : z = (x + 1) % CounterMod
  BY <1>1, SumIs
<1>3. z = IF x + 1 < CounterMod THEN x + 1 ELSE x + 1 - CounterMod
  BY <1>1, <1>2, SumIs
<1>4. Diff(x, y) = IF y <= x THEN x - y ELSE x - y + CounterMod
  BY DiffIs
<1>5. Diff(y, x) = IF x <= y THEN y - x ELSE y - x + CounterMod
  BY DiffIs
<1>6. Diff(z, y) = IF y <= z THEN z - y ELSE z - y + CounterMod
  BY DiffIs
<1>7. Diff(y, z) = IF z <= y THEN y - z ELSE y - z + CounterMod
  BY DiffIs
<1> QED
  BY <1>2, <1>3, <1>4, <1>5, <1>6, <1>7, Constants DEF Counter

\* The reference value moves on, but not beyond x.
LEMMA DiffMoves ==
  ASSUME NEW x \in Counter, NEW y \in Counter, NEW k \in Counter
  PROVE  /\ k <= Diff(x, y) => Diff(x, (y + k) % CounterMod) = Diff(x, y) - k
         /\ Diff((y + k) % CounterMod, y) = k
<1>1. PICK z \in Counter : z = (y + k) % CounterMod
  BY SumIs
<1>2. z = IF y + k < CounterMod THEN y + k ELSE y + k - CounterMod
  BY <1>1, SumIs
<1>3. Diff(x, y) = IF y <= x THEN x - y ELSE x - y + CounterMod
  BY DiffIs
<1>4. Diff(x, z) = IF z <= x THEN x - z ELSE x - z + CounterMod
  BY DiffIs
<1>5. Diff(z, y) = IF y <= z THEN z - y ELSE z - y + CounterMod
  BY DiffIs
<1> QED
  BY <1>1, <1>2, <1>3, <1>4, <1>5, Constants DEF Counter

\* How far y and z are behind x, or y and x beyond z, tells the third distance.
LEMMA DiffBetween ==
  ASSUME NEW x \in Counter, NEW y \in Counter, NEW z \in Counter
  PROVE  /\ Diff(y, z) <= Diff(x, z) => Diff(x, y) = Diff(x, z) - Diff(y, z)
         /\ Diff(x, z) < Diff(y, z) => Diff(x, y) = Diff(x, z) - Diff(y, z) + CounterMod
         /\ Diff(x, y) <= Diff(x, z) => Diff(y, z) = Diff(x, z) - Diff(x, y)
         /\ Diff(x, z) < Diff(x, y) => Diff(y, z) = Diff(x, z) - Diff(x, y) + CounterMod
<1>1. Diff(x, y) = IF y <= x THEN x - y ELSE x - y + CounterMod
  BY DiffIs
<1>2. Diff(x, z) = IF z <= x THEN x - z ELSE x - z + CounterMod
  BY DiffIs
<1>3. Diff(y, z) = IF z <= y THEN y - z ELSE y - z + CounterMod
  BY DiffIs
<1> QED
  BY <1>1, <1>2, <1>3, Constants DEF Counter

\* The same distance the other way around.
LEMMA DiffOpposite ==
  ASSUME NEW x \in Counter, NEW y \in Counter
  PROVE  /\ Diff(x, x) = 0
         /\ Diff(x, y) # 0 => Diff(y, x) = CounterMod - Diff(x, y)
         /\ Diff(x, y) = 0 => Diff(y, x) = 0 /\ x = y
<1>1. Diff(x, y) = IF y <= x THEN x - y ELSE x - y + CounterMod
  BY DiffIs
<1>2. Diff(y, x) = IF x <= y THEN y - x ELSE y - x + CounterMod
  BY DiffIs
<1>3. Diff(x, x) = x - x
  BY DiffIs DEF Counter
<1> QED
  BY <1>1, <1>2, <1>3, Constants DEF Counter

-----------------------------------------------------------------------------
(* What the hypotheses bound.                                              *)

\* Half a turn of the counter is more than anything that is measured.
Half == (CounterMod - 1) \div 2

LEMMA Small ==
  ASSUME TicksAreLong
  PROVE  /\ Half \in Nat /\ 2 * Half < CounterMod /\ CounterMod <= 2 * Half + 2
         /\ \A t \in Timers : 2 * (Interval[t] + MaxLag + OffsetMin) <= Half
         /\ Least \in Nat /\ Least = MaxLag + OffsetMin - 1 /\ Least > MaxLag
         /\ Interval[button] \in Nat /\ Interval[tick] \in Nat
         /\ Interval[button] > 0 /\ Interval[tick] > 2 * Least
         /\ MaxLag <= Interval[button]
<1>1. \A t \in Timers : Interval[t] \in Nat \ {0}
  BY Constants
<1>2. Half \in Nat /\ 2 * Half < CounterMod /\ CounterMod <= 2 * Half + 2
  BY Constants DEF Half
<1>3. ASSUME NEW t \in Timers
      PROVE  2 * (Interval[t] + MaxLag + OffsetMin) <= Half
  <2>1. 4 * (Interval[t] + MaxLag + OffsetMin) < CounterMod
    BY TimerAssumption
  <2> QED
    BY <1>1, <1>2, <2>1, Constants
<1>4. /\ Least \in Nat /\ Least = MaxLag + OffsetMin - 1 /\ Least > MaxLag
      /\ Interval[button] \in Nat /\ Interval[tick] \in Nat
      /\ Interval[button] > 0 /\ Interval[tick] > 2 * Least
      /\ MaxLag <= Interval[button]
  <2>1. button \in Timers /\ tick \in Timers
    BY Constants
  <2> QED
    BY <1>1, <2>1, Constants DEF Least, TicksAreLong
<1> QED
  BY <1>2, <1>3, <1>4

\* With the tick timer in the list, who is late and by how much.
LEMMA Late0 ==
  ASSUME TimersTyped, tick \in Running
  PROVE  /\ list # <<>> /\ First \in Running /\ FirstOf(list) = First /\ First # None
         /\ Passed \in Counter /\ Passed \in Nat
         /\ \A t \in Running :
              /\ t \in Timers /\ t \in {tick, button}
              /\ Due(List0, t) \in Nat /\ Late(t) = Passed - Due(List0, t)
              /\ Late(t) \in Int /\ Late(t) <= Late(First)
         /\ Bound(First) = (IF First = tick THEN 2 * Least ELSE Least)
<1>1. /\ List0 \in ListType /\ Members(List0) = Running /\ List0.list = list
  BY List0Typed
<1>2. Passed \in Counter /\ Passed \in Nat
  <2>1. counter \in Counter /\ latest \in Counter
    BY DEF TimersTyped
  <2>2. Diff(counter, latest) \in Counter
    BY <2>1, DiffIs
  <2> QED
    BY <2>2, Constants DEF Passed, Counter
<1>3. \A t \in Running : /\ Due(List0, t) \in Nat /\ Due(List0, First) <= Due(List0, t)
                         /\ First \in Running /\ t \in Timers
  BY <1>1, DueFirst DEF First
<1>4. list # <<>>
  BY DEF Running, Range
<1>5. \A t \in Running : Late(t) = Passed - Due(List0, t) /\ Late(t) \in Int /\ Late(t) <= Late(First)
  BY <1>2, <1>3 DEF Late
<1>6. FirstOf(list) = First
  BY <1>4 DEF FirstOf, First
<1> QED
  BY <1>2, <1>3, <1>4, <1>5, <1>6, Constants DEF Bound

LEMMA PassedBounded ==
  ASSUME TimersTyped, tick \in Running, Deadlines, TicksAreLong
  PROVE  /\ Passed + MaxLag < Half /\ Passed + MaxLag + OffsetMin < CounterMod - 1
         /\ lag \in Nat /\ lag <= MaxLag
         /\ \A t \in Running : Late(t) < Half /\ Due(List0, t) <= Passed + Interval[t]
                               /\ Interval[t] < Half
<1>1. /\ First \in Running /\ Passed \in Nat
      /\ \A t \in Running : /\ t \in Timers /\ Due(List0, t) \in Nat /\ Late(t) \in Int
                            /\ Late(t) = Passed - Due(List0, t)
      /\ Bound(First) = (IF First = tick THEN 2 * Least ELSE Least)
  BY Late0
<1>2. lag \in Nat /\ lag <= MaxLag
  BY Constants DEF TimersTyped
<1>3. Due(List0, tick) <= Interval[tick] /\ Late(tick) <= Bound(First) + lag
  BY DEF Deadlines
<1>4. /\ Half \in Nat /\ 2 * Half < CounterMod
      /\ \A t \in Timers : 2 * (Interval[t] + MaxLag + OffsetMin) <= Half
      /\ Least \in Nat /\ Least = MaxLag + OffsetMin - 1
      /\ Interval[tick] \in Nat /\ Interval[tick] > 2 * Least
  BY Small
<1>5. 2 * (Interval[tick] + MaxLag + OffsetMin) <= Half
  BY <1>1, <1>4
<1>6. Passed <= Interval[tick] + 2 * Least + MaxLag
  BY <1>1, <1>2, <1>3, <1>4, Constants
<1>7. Passed + MaxLag < Half /\ Passed + MaxLag + OffsetMin < CounterMod - 1
  BY <1>1, <1>4, <1>5, <1>6, Constants
<1>8. ASSUME NEW t \in Running
      PROVE  Late(t) < Half /\ Due(List0, t) <= Passed + Interval[t] /\ Interval[t] < Half
  <2>1. -Interval[t] <= Late(t) /\ Interval[t] \in Nat /\ t \in Timers
    BY <1>1, Constants DEF Deadlines
  <2>2. 2 * (Interval[t] + MaxLag + OffsetMin) <= Half
    BY <1>4, <2>1
  <2>3. Due(List0, t) \in Nat /\ Late(t) = Passed - Due(List0, t)
    BY <1>1
  <2> QED
    BY <1>1, <1>4, <1>7, <2>1, <2>2, <2>3, Constants
<1> QED
  BY <1>2, <1>7, <1>8

-----------------------------------------------------------------------------
(* Steps that leave the times alone.                                       *)

LEMMA TimesStay ==
  ASSUME counter' = counter, latest' = latest, list' = list, toExpire' = toExpire
  PROVE  /\ Passed' = Passed /\ First' = First /\ Running' = Running
         /\ \A t : Due(List0, t)' = Due(List0, t) /\ Late(t)' = Late(t)
         /\ Bound(First)' = Bound(First)
<1>1. Passed' = Passed /\ First' = First /\ Running' = Running
  BY DEF Passed, First, Running
<1>2. \A t : Due(List0, t)' = Due(List0, t)
  BY DEF Due, List0
<1>3. \A t : Late(t)' = Late(t)
  BY <1>1, <1>2 DEF Late
<1>4. Bound(First)' = Bound(First)
  BY <1>1 DEF Bound, Least
<1> QED
  BY <1>1, <1>2, <1>3, <1>4

LEMMA TermsStay ==
  ASSUME counter' = counter, latest' = latest, list' = list, toExpire' = toExpire,
         lag' = lag
  PROVE  /\ Renewed => Renewed'
         /\ Deadlines /\ ran' = ran /\ shifted' = shifted => Deadlines'
         /\ Awake /\ rtcRunning' /\ armed' = armed /\ cc' = cc /\ (rtcPending => rtcPending')
              => Awake'
<1>1. /\ Passed' = Passed /\ First' = First /\ Running' = Running
      /\ \A t : Due(List0, t)' = Due(List0, t) /\ Late(t)' = Late(t)
      /\ Bound(First)' = Bound(First)
  BY TimesStay
<1>3. Renewed => Renewed'
  BY <1>1 DEF Renewed, Least
<1>4. Deadlines /\ ran' = ran /\ shifted' = shifted => Deadlines'
  BY <1>1 DEF Deadlines
<1>5. Awake /\ rtcRunning' /\ armed' = armed /\ cc' = cc /\ (rtcPending => rtcPending')
        => Awake'
  BY <1>1 DEF Awake, Distance
<1> QED
  BY <1>3, <1>4, <1>5

\* SWI0 may become pending, and the low priority may be done with a handler.
LEMMA TimedStays ==
  ASSUME Timed,
         counter' = counter, latest' = latest, list' = list, toExpire' = toExpire,
         lag' = lag, ran' = ran, shifted' = shifted, elapsed' = elapsed,
         rtcRunning' = rtcRunning, rtcPending' = rtcPending, armed' = armed, cc' = cc,
         swiPending => swiPending',
         \/ low' = low
         \/ /\ low.at = "expire" /\ low'.at = "expire" /\ low'.ticks = low.ticks
            /\ Range(low'.todo) \subseteq Range(low.todo)
  PROVE  Timed'
<1>1. /\ Passed' = Passed /\ First' = First /\ Running' = Running
      /\ \A t : Due(List0, t)' = Due(List0, t) /\ Late(t)' = Late(t)
      /\ Bound(First)' = Bound(First)
  BY TimesStay
<1>2. /\ Renewed => Renewed'
      /\ Deadlines => Deadlines' /\ (Awake => Awake')
  BY TermsStay DEF Awake
<1>3. /\ low'.at = low.at
      /\ low.at = "expire" => low'.ticks = low.ticks /\ Range(low'.todo) \subseteq Range(low.todo)
      /\ low.at # "expire" => low' = low
  OBVIOUS
<1>4. Expiries'
  <2>1. low'.at = "expire" =>
          /\ low'.ticks <= Passed'
          /\ \A t \in Running' : Due(List0, t)' > low'.ticks => Late(t)' < lag'
          /\ \A t \in Range(low'.todo) : t \in Running' /\ Due(List0, t)' <= low'.ticks
    BY <1>1, <1>3 DEF Timed, Expiries, Counted
  <2>2. elapsed' # None =>
          /\ elapsed' <= Passed'
          /\ \A t \in Running' : Due(List0, t)' > elapsed' => Late(t)' < lag'
    BY <1>1 DEF Timed, Expiries, Counted
  <2>3. elapsed' # None => rtcRunning' /\ (swiPending' \/ low'.at = "expire")
    BY <1>3 DEF Timed, Expiries
  <2> QED
    BY <2>1, <2>2, <2>3 DEF Expiries, Counted
<1>5. Writing /\ low' = low => Writing'
  BY <1>1 DEF Writing, Waited, Chosen
<1>6. Alarm'
  <2>1. CASE low' = low
    BY <1>1, <1>2, <1>5, <2>1 DEF Timed, Alarm
  <2>2. CASE low.at = "expire" /\ low'.at = "expire"
    <3>1. rtcRunning' /\ low' # Idle
      BY <2>2 DEF Timed, Alarm, Idle
    <3> QED
      BY <2>2, <3>1 DEF Alarm
  <2> QED
    BY <2>1, <2>2
<1> QED
  BY <1>2, <1>4, <1>6 DEF Timed

LEMMA OpsStay ==
  ASSUME OpsTimed, opQueue' = opQueue, lag' = lag, counter' = counter,
         opQueue["high"] # <<>> /\ (swiPending \/ low.at = "insert")
           => swiPending' \/ low'.at = "insert"
  PROVE  OpsTimed'
<1>1. \A op : Timely(op) => Timely(op)'
  BY DEF Timely
<1> QED
  BY <1>1 DEF OpsTimed

\* Steps of the pins and of the handlers of expired timers.
LEMMA PinStep ==
  ASSUME IInv, TimeInv, main' = main, edges' \in Nat,
         UNCHANGED timerVars \/ (low.at = "expire" /\ \E t : HandlerReturns(t))
  PROVE  TimeInv'
<1>1. /\ opQueue' = opQueue /\ lag' = lag /\ counter' = counter /\ list' = list
      /\ toExpire' = toExpire /\ latest' = latest /\ swiPending' = swiPending
      /\ ran' = ran /\ shifted' = shifted /\ elapsed' = elapsed /\ rtcRunning' = rtcRunning
      /\ rtcPending' = rtcPending /\ armed' = armed /\ cc' = cc
      /\ clearing' = clearing /\ rtcReset' = rtcReset /\ rebased' = rebased
  BY DEF timerVars, HandlerReturns, hardware
<1>2. \/ low' = low
      \/ /\ low.at = "expire" /\ low'.at = "expire" /\ low'.ticks = low.ticks
         /\ Range(low'.todo) \subseteq Range(low.todo)
  <2>1. CASE UNCHANGED timerVars
    BY <2>1 DEF timerVars
  <2>2. ASSUME low.at = "expire", NEW t, HandlerReturns(t)
        PROVE  /\ low'.at = "expire" /\ low'.ticks = low.ticks
               /\ Range(low'.todo) \subseteq Range(low.todo)
    <3>1. /\ low'.at = "expire" /\ low'.ticks = low.ticks
          /\ low' = low \/ Range(low.todo)' = Range(low.todo) \ {t}
      BY <2>2, HandlerKeeps DEF IInv
    <3> QED
      BY <3>1
  <2> QED
    BY <2>1, <2>2
<1>3. OpsTimed'
  BY <1>1, <1>2, OpsStay DEF TimeInv
<1>4. tick \in Running => Timed'
  BY <1>1, <1>2, TimedStays DEF TimeInv
<1>5. Running' = Running
  BY <1>1 DEF Running
<1>6. Phased'
  <2>1. CASE tick \in Running
    BY <1>1, <1>5, <2>1 DEF TimeInv, Phased, After
  <2>2. CASE tick \notin Running
    <3>1. Before /\ low' = low
      BY <1>2, <2>2 DEF TimeInv, Phased, Before, Idle
    <3>2. Before'
      BY <1>1, <3>1 DEF Before, Idle
    <3> QED
      BY <1>1, <1>5, <2>2, <3>2 DEF TimeInv, Phased
  <2> QED
    BY <2>1, <2>2
<1> QED
  BY <1>3, <1>4, <1>5, <1>6 DEF TimeInv

-----------------------------------------------------------------------------
(* The compare register.                                                   *)

\* The low priority is under way only when the tick timer is in the list.
LEMMA InList ==
  ASSUME IInv, TimeInv, low # Idle \/ elapsed # None \/ rtcRunning
  PROVE  tick \in Running /\ Timed /\ After /\ TimersTyped
BY DEF IInv, TimeInv, Phased, Before

\* Nothing but the steps of SWI0 changes what Phased is about.
LEMMA PhaseStays ==
  ASSUME Phased, clearing' = clearing, rtcReset' = rtcReset \/ ~rtcReset', ~rebased',
         edges' = edges, Running' = Running, tick \in Running, main' = main,
         \A u \in {"main", "draft"} : opQueue[u] = <<>> => opQueue'[u] = <<>>
  PROVE  Phased'
BY DEF Phased, After

LEMMA ComputeTimed ==
  ASSUME IInv, IInv', TimeInv, TicksAreLong, ComputeCompare, UNCHANGED pinVars
  PROVE  TimeInv'
<1> USE DEF ComputeCompare
<1>1. tick \in Running /\ Timed /\ TimersTyped /\ low.at = "compare" /\ elapsed = None
  <2>1. low # Idle
    BY DEF Idle
  <2> QED
    BY <2>1, InList DEF IInv, LowKept
<1>2. /\ Passed \in Counter /\ Passed \in Nat /\ First \in Running
      /\ Due(List0, First) \in Nat /\ Late(First) = Passed - Due(List0, First)
      /\ Bound(First) = (IF First = tick THEN 2 * Least ELSE Least)
  BY <1>1, Late0
<1>3. /\ Passed + MaxLag + OffsetMin < CounterMod - 1 /\ lag \in Nat /\ lag <= MaxLag
      /\ Due(List0, First) <= Passed + Interval[First] /\ Interval[First] < Half
      /\ Passed + MaxLag < Half
  BY <1>1, <1>2, PassedBounded DEF Timed
<1>4. /\ Passed' = Passed /\ First' = First /\ Running' = Running
      /\ \A t : Due(List0, t)' = Due(List0, t) /\ Late(t)' = Late(t)
      /\ Bound(First)' = Bound(First)
  BY TimesStay
<1>5. PICK k : k = Largest(Passed + OffsetMin, toExpire[list[1]])
  OBVIOUS
<1>6. Due(List0, First) = toExpire[list[1]]
  BY DEF Due, List0, First
<1>7. k = Largest(Passed + OffsetMin, Due(List0, First)) /\ k \in Counter /\ Passed <= k
  <2>1. k = Largest(Passed + OffsetMin, Due(List0, First))
    BY <1>5, <1>6
  <2>2. Half \in Nat /\ 2 * Half < CounterMod /\ Interval[First] \in Nat
    BY <1>1, <1>2, Small, Late0, Constants
  <2> QED
    BY <1>2, <1>3, <2>1, <2>2, Constants DEF Largest, Counter
<1>8. low' = [at |-> "write", pre |-> counter, cc |-> (latest + k) % CounterMod]
  BY <1>5 DEF Passed
<1>9. Chosen' = k - Passed /\ Waited' = 0
  <2>1. counter \in Counter /\ latest \in Counter /\ counter' = counter
    BY <1>1 DEF TimersTyped
  <2>2. (latest + k) % CounterMod \in Counter /\ Diff((latest + k) % CounterMod, latest) = k
    BY <1>7, <2>1, SumIs, DiffMoves
  <2>3. Diff((latest + k) % CounterMod, counter) = k - Diff(counter, latest)
    BY <1>7, <2>1, <2>2, DiffBetween DEF Passed
  <2>4. Diff(counter, counter) = 0
    BY <2>1, DiffOpposite
  <2> QED
    BY <1>8, <2>1, <2>3, <2>4 DEF Chosen, Waited, Passed
<1>10. Late(First) < (IF First = tick THEN Least ELSE 0) + lag
  BY <1>1 DEF Timed, Alarm, Renewed
<1>11. Writing'
  <2>1. Least \in Nat /\ Least = MaxLag + OffsetMin - 1
    BY Small
  <2>2. Chosen' = Largest(OffsetMin, -Late(First))
    BY <1>2, <1>7, <1>9, Constants DEF Largest
  <2>3. Late(First) + Chosen' <= Bound(First)
    BY <1>2, <1>3, <1>10, <2>1, <2>2, Constants DEF Largest
  <2>4. Chosen' >= OffsetMin /\ Chosen' <= Largest(0 - Late(First), OffsetMin)
    BY <1>2, <2>2, Constants DEF Largest
  <2>5. rtcRunning' /\ lag' = lag /\ low'.at = "write"
    BY <1>8
  <2>6. Late(First)' - 0 + Chosen' <= Bound(First)'
    BY <1>2, <1>4, <2>2, <2>3, Constants DEF Largest
  <2> QED
    BY <1>3, <1>4, <1>9, <2>4, <2>5, <2>6 DEF Writing
<1>12. Alarm' /\ Expiries'
  BY <1>1, <1>8, <1>11 DEF Alarm, Expiries, Idle
<1>13. Deadlines'
  BY <1>1, TermsStay DEF Timed
<1>14. OpsTimed'
  <2>1. low.at # "insert"
    OBVIOUS
  <2> QED
    BY <2>1, OpsStay DEF TimeInv
<1>15. Phased'
  BY <1>1, <1>4, PhaseStays DEF TimeInv, pinVars
<1> QED
  BY <1>12, <1>13, <1>14, <1>15 DEF TimeInv, Timed

LEMMA WriteTimed ==
  ASSUME IInv, IInv', TimeInv, TicksAreLong, WriteCompare, UNCHANGED pinVars
  PROVE  TimeInv'
<1> USE DEF WriteCompare
<1>1. tick \in Running /\ Timed /\ TimersTyped /\ elapsed = None
      /\ low \in [at : {"write", "check"}, pre : Counter, cc : Counter]
  <2>1. low # Idle /\ low.at = "write"
    BY DEF Idle
  <2> QED
    BY <2>1, InList DEF IInv, LowKept, Expiry
<1>2. low' = [low EXCEPT !.at = "check"] /\ low'.at = "check" /\ low'.pre = low.pre
      /\ low'.cc = low.cc
  BY <1>1
<1>3. /\ Passed' = Passed /\ First' = First /\ Running' = Running
      /\ \A t : Due(List0, t)' = Due(List0, t) /\ Late(t)' = Late(t)
      /\ Bound(First)' = Bound(First)
  BY TimesStay
<1>4. Waited' = Waited /\ Chosen' = Chosen
  BY <1>2 DEF Waited, Chosen
<1>5. Writing
  BY <1>1 DEF Timed, Alarm
<1>6. Diff(low.cc, counter) \in {0, 1} => Waited + 1 >= Chosen
  <2>1. counter \in Counter /\ low.pre \in Counter /\ low.cc \in Counter
    BY <1>1 DEF TimersTyped
  <2>2. Diff(counter, low.pre) <= Diff(low.cc, low.pre) =>
          Diff(low.cc, counter) = Diff(low.cc, low.pre) - Diff(counter, low.pre)
    BY <2>1, DiffBetween
  <2>3. Waited \in Counter /\ Chosen \in Counter
    BY <2>1, DiffIs DEF Waited, Chosen
  <2> QED
    BY <2>2, <2>3, Constants DEF Waited, Chosen, Counter
<1>7. rtcPending' \/ (armed' /\ Waited < Chosen) \/ Waited + 1 >= Chosen
  <2>1. CASE Diff(low.cc, counter) \in {0, 1}
    BY <1>6, <2>1
  <2>2. CASE Diff(low.cc, counter) \notin {0, 1}
    <3>1. armed' = TRUE
      BY <2>2
    <3>2. Waited \in Nat /\ Chosen \in Nat
      <4>1. counter \in Counter /\ low.pre \in Counter /\ low.cc \in Counter
        BY <1>1 DEF TimersTyped
      <4> QED
        BY <4>1, DiffIs, Constants DEF Waited, Chosen, Counter
    <3> QED
      BY <3>1, <3>2
  <2> QED
    BY <2>1, <2>2
<1>8. Writing'
  BY <1>2, <1>3, <1>4, <1>5, <1>7 DEF Writing
<1>9. Alarm' /\ Expiries'
  BY <1>1, <1>2, <1>8 DEF Alarm, Expiries, Idle
<1>10. Deadlines'
  BY <1>1, TermsStay DEF Timed
<1>11. OpsTimed'
  <2>1. low.at # "insert"
    OBVIOUS
  <2> QED
    BY <2>1, OpsStay DEF TimeInv
<1>12. Phased'
  BY <1>1, <1>3, PhaseStays DEF TimeInv, pinVars, Phased
<1> QED
  BY <1>9, <1>10, <1>11, <1>12 DEF TimeInv, Timed

\* The interrupt that is pended by hand makes up for an event that was missed.
LEMMA CheckTimed ==
  ASSUME IInv, IInv', TimeInv, TicksAreLong, CheckCompare, UNCHANGED pinVars
  PROVE  TimeInv'
<1> USE DEF CheckCompare
<1>1. tick \in Running /\ Timed /\ TimersTyped /\ elapsed = None
      /\ low \in [at : {"write", "check"}, pre : Counter, cc : Counter]
  <2>1. low # Idle /\ low.at = "check"
    BY DEF Idle
  <2> QED
    BY <2>1, InList DEF IInv, LowKept, Expiry
<1>2. Writing /\ cc = low.cc
      /\ (rtcPending \/ (armed /\ Waited < Chosen) \/ Waited + 1 >= Chosen)
  BY <1>1 DEF Timed, Alarm, Writing
<1>3. /\ Passed' = Passed /\ First' = First /\ Running' = Running
      /\ \A t : Due(List0, t)' = Due(List0, t) /\ Late(t)' = Late(t)
      /\ Bound(First)' = Bound(First)
  BY TimesStay
<1>4. counter \in Counter /\ low.pre \in Counter /\ low.cc \in Counter
  BY <1>1 DEF TimersTyped
<1>5. Waited \in Nat /\ Chosen \in Nat
  <2>1. Waited \in Counter /\ Chosen \in Counter
    BY <1>4, DiffIs DEF Waited, Chosen
  <2> QED
    BY <2>1, Constants DEF Counter
<1>6. rtcPending' = (rtcPending \/ Waited + OffsetMin > Chosen)
  BY DEF Waited, Chosen
<1>7. Awake'
  <2>1. rtcRunning' /\ armed' = armed /\ cc' = cc /\ counter' = counter
    BY <1>2 DEF Writing
  <2>2. CASE rtcPending'
    BY <2>1, <2>2 DEF Awake
  <2>3. CASE ~rtcPending'
    <3>1. ~rtcPending /\ Waited + OffsetMin <= Chosen
      <4>1. ~rtcPending /\ ~(Waited + OffsetMin > Chosen)
        BY <1>6, <2>3
      <4> QED
        BY <1>5, <4>1, Constants
    <3>2. armed /\ Waited + 2 <= Chosen
      BY <1>2, <1>5, <3>1, Constants
    <3>3. Diff(low.cc, counter) = Chosen - Waited
      BY <1>4, <1>5, <3>2, DiffBetween DEF Waited, Chosen
    <3>4. Distance' = Chosen - Waited
      BY <1>2, <2>1, <3>3 DEF Distance
    <3>5. Late(First) \in Int /\ Bound(First) \in Int
      BY <1>1, Late0, Small
    <3>6. Chosen <= Largest(Waited - Late(First), OffsetMin)
          /\ Late(First) - Waited + Chosen <= Bound(First)
      BY <1>2 DEF Writing
    <3>7. Chosen - Waited <= Largest(-Late(First), OffsetMin)
      BY <1>5, <3>5, <3>6, Constants DEF Largest
    <3>8. Late(First) + (Chosen - Waited) <= Bound(First)
      BY <1>5, <3>5, <3>6
    <3>9. Chosen - Waited >= 1
      BY <1>5, <3>2
    <3> QED
      BY <1>3, <2>1, <3>2, <3>4, <3>7, <3>8, <3>9 DEF Awake
  <2> QED
    BY <2>2, <2>3
<1>8. Alarm' /\ Expiries'
  BY <1>1, <1>7 DEF Alarm, Expiries, Idle
<1>9. Deadlines'
  BY <1>1, TermsStay DEF Timed
<1>10. OpsTimed'
  <2>1. low.at # "insert"
    OBVIOUS
  <2> QED
    BY <2>1, OpsStay DEF TimeInv
<1>11. Phased'
  BY <1>1, <1>3, PhaseStays DEF TimeInv, pinVars, Phased
<1> QED
  BY <1>8, <1>9, <1>10, <1>11 DEF TimeInv, Timed


-----------------------------------------------------------------------------
(* The beginning, and the events of RTC1.                                  *)

LEMMA InitTimed == Init => TimeInv
<1> SUFFICES ASSUME Init PROVE TimeInv
  OBVIOUS
<1> USE DEF Init, TimerInit
<1>1. tick \notin Running
  BY DEF Running, Range
<1>2. opQueue["high"] = <<>> /\ opQueue["main"] = <<>> /\ opQueue["draft"] = <<>>
  BY DEF Queues
<1>3. Before
  BY <1>2 DEF Before
<1>4. \A u \in Queues : Len(opQueue[u]) = 0
  OBVIOUS
<1>5. OpsTimed
  BY <1>2, <1>4 DEF OpsTimed
<1>6. Phased
  BY <1>1, <1>3 DEF Phased
<1> QED
  BY <1>1, <1>5, <1>6 DEF TimeInv

LEMMA QueueElapsedTimed ==
  ASSUME IInv, IInv', TimeInv, TicksAreLong, QueueElapsed, UNCHANGED pinVars
  PROVE  TimeInv'
<1> USE DEF QueueElapsed
<1>1. tick \in Running /\ Timed /\ TimersTyped /\ low \in Expiry
  <2>1. low # Idle /\ low.at = "expire"
    BY DEF Idle
  <2> QED
    BY <2>1, InList DEF IInv, LowKept
<1>2. low.ticks # None /\ elapsed' = low.ticks /\ elapsed' # None
  BY <1>1, Constants DEF Expiry
<1>3. /\ Passed' = Passed /\ First' = First /\ Running' = Running
      /\ \A t : Due(List0, t)' = Due(List0, t) /\ Late(t)' = Late(t)
      /\ Bound(First)' = Bound(First)
  BY TimesStay
<1>4. Counted(low.ticks) /\ rtcRunning
  BY <1>1 DEF Timed, Expiries, Alarm
<1>5. low' = Idle /\ low'.at = "idle"
  BY DEF Idle
<1>6. Expiries'
  <2>1. elapsed' <= Passed' /\ \A t \in Running' : Due(List0, t)' > elapsed' => Late(t)' < lag'
    BY <1>2, <1>3, <1>4 DEF Counted
  <2> QED
    BY <1>4, <1>5, <2>1 DEF Expiries, Counted
<1>7. Alarm'
  BY <1>2, <1>5 DEF Alarm
<1>8. Deadlines'
  BY <1>1, TermsStay DEF Timed
<1>9. OpsTimed'
  BY OpsStay DEF TimeInv
<1>10. Phased'
  BY <1>1, <1>3, PhaseStays DEF TimeInv, pinVars, Phased
<1> QED
  BY <1>6, <1>7, <1>8, <1>9, <1>10 DEF TimeInv, Timed

\* Who has expired when RTC1 looks is due within the ticks it hands on.
LEMMA ExpiredBy ==
  ASSUME NEW l \in ListType, NEW ticks \in Nat, NEW k, Expiring(l, ticks, k)
  PROVE  \A t \in Members(l) : (Due(l, t) <= ticks) = (Due(l, t) <= Span(l.list, l.toExpire, k))
<1>1. CASE k = 0 /\ \A t \in Members(l) : Due(l, t) > ticks
  BY <1>1, ListSpans, DueFirst
<1>2. ASSUME NEW a, One(l, a)
      PROVE  Members(l) = {a} /\ Due(l, a) \in Nat /\ Span(l.list, l.toExpire, 1) = Due(l, a)
  BY <1>2, ListSpans DEF One
<1>3. ASSUME NEW a, NEW b, Two(l, a, b)
      PROVE  /\ Members(l) = {a, b} /\ Due(l, a) \in Nat /\ Due(l, b) \in Nat
             /\ Due(l, a) <= Due(l, b)
             /\ Span(l.list, l.toExpire, 1) = Due(l, a)
             /\ Span(l.list, l.toExpire, 2) = Due(l, b)
  BY <1>3, ListSpans DEF Two
<1>4. CASE k = 1 /\ \E a : One(l, a) /\ Due(l, a) <= ticks
  BY <1>2, <1>4
<1>5. CASE k = 1 /\ \E a : \E b : Two(l, a, b) /\ Due(l, a) <= ticks /\ Due(l, b) > ticks
  BY <1>3, <1>5
<1>6. CASE k = 2 /\ \E a : \E b : Two(l, a, b) /\ Due(l, a) <= ticks /\ Due(l, b) <= ticks
  BY <1>3, <1>6
<1> QED
  BY <1>1, <1>4, <1>5, <1>6 DEF Expiring

LEMMA RtcTimed ==
  ASSUME IInv, IInv', TimeInv, TicksAreLong, RtcHandler, UNCHANGED pinVars
  PROVE  TimeInv'
<1> USE DEF RtcHandler
<1>1. tick \in Running /\ Timed /\ TimersTyped /\ rtcRunning /\ list # <<>>
  <2>1. rtcRunning
    BY DEF RtcReady
  <2> QED
    BY <2>1, InList, Late0 DEF IInv
<1>a. PICK k : k = Cardinality(Expired(List0, Passed))
  OBVIOUS
<1>2. low' = [at |-> "expire", todo |-> SubSeq(list, 1, k), ticks |-> Span(list, toExpire, k)]
  BY <1>a, <1>1 DEF Passed
<1>3. /\ Passed' = Passed /\ First' = First /\ Running' = Running
      /\ \A t : Due(List0, t)' = Due(List0, t) /\ Late(t)' = Late(t)
      /\ Bound(First)' = Bound(First)
  BY TimesStay
<1>4. /\ List0 \in ListType /\ Members(List0) = Running
      /\ List0.list = list /\ List0.toExpire = toExpire
  BY <1>1, List0Typed
<1>5. /\ Passed \in Nat
      /\ \A t \in Running : Due(List0, t) \in Nat /\ Late(t) = Passed - Due(List0, t)
  BY <1>1, Late0
<1>6. Expiring(List0, Passed, k)
  BY <1>a, <1>4, <1>5, ExpiringCount
<1>7. /\ Range(SubSeq(list, 1, k)) = {t \in Running : Due(List0, t) <= Passed}
      /\ Span(list, toExpire, k) \in Nat /\ Span(list, toExpire, k) <= Passed
  <2>1. Part(List0, Passed, k)
    BY <1>4, <1>5, <1>6, ExpiringPart
  <2> QED
    BY <1>4, <2>1 DEF Part
<1>8. \A t \in Running : (Due(List0, t) <= Passed) = (Due(List0, t) <= Span(list, toExpire, k))
  BY <1>4, <1>5, <1>6, ExpiredBy
<1>9. lag \in Nat
  BY <1>1, Constants DEF TimersTyped
<1>10. low'.at = "expire" /\ low'.ticks = Span(list, toExpire, k)
       /\ low'.todo = SubSeq(list, 1, k)
  <2>1. PICK s : s = SubSeq(list, 1, k)
    OBVIOUS
  <2>2. PICK x : x = Span(list, toExpire, k)
    OBVIOUS
  <2>3. PICK m : m = [at |-> "expire", todo |-> s, ticks |-> x]
    OBVIOUS
  <2>4. m.at = "expire" /\ m.todo = s /\ m.ticks = x
    BY <2>3
  <2>5. low' = m
    BY <1>2, <2>1, <2>2, <2>3
  <2> QED
    BY <2>1, <2>2, <2>4, <2>5
<1>11. Expiries'
  <2>1. low'.ticks <= Passed'
    BY <1>3, <1>7, <1>10
  <2>2. ASSUME NEW t \in Running, Due(List0, t) > Span(list, toExpire, k)
        PROVE  Late(t) < lag
    <3>1. ~(Due(List0, t) <= Passed)
      BY <1>5, <1>7, <1>8, <2>2
    <3> QED
      BY <1>5, <1>9, <3>1
  <2>3. \A t \in Running' : Due(List0, t)' > low'.ticks => Late(t)' < lag'
    BY <1>3, <1>10, <2>2
  <2>4. \A t \in Range(low'.todo) : t \in Running' /\ Due(List0, t)' <= low'.ticks
    BY <1>3, <1>7, <1>8, <1>10
  <2>5. elapsed' # None =>
          /\ elapsed' <= Passed'
          /\ \A t \in Running' : Due(List0, t)' > elapsed' => Late(t)' < lag'
          /\ rtcRunning'
    BY <1>1, <1>3 DEF Timed, Expiries, Counted
  <2> QED
    BY <1>10, <2>1, <2>3, <2>4, <2>5 DEF Expiries, Counted
<1>12. Alarm'
  BY <1>1, <1>10 DEF Alarm, Idle
<1>13. Deadlines'
  BY <1>1, TermsStay DEF Timed
<1>14. OpsTimed'
  <2>1. low.at # "insert"
    BY DEF Idle
  <2> QED
    BY <2>1, OpsStay DEF TimeInv
<1>15. Phased'
  BY <1>1, <1>3, PhaseStays DEF TimeInv, pinVars, Phased
<1> QED
  BY <1>11, <1>12, <1>13, <1>14, <1>15 DEF TimeInv, Timed

-----------------------------------------------------------------------------
(* The counter advances.                                                   *)

\* The event of RTC1 comes nearer, or has come.
LEMMA AwakeAdvances ==
  ASSUME TimersTyped, tick \in Running, Awake, Tick,
         First' = First, Late(First)' = Late(First) + 1, Bound(First)' = Bound(First)
  PROVE  Awake'
<1> USE DEF Tick
<1>1. rtcRunning /\ rtcRunning' /\ armed' = armed /\ cc' = cc
  OBVIOUS
<1>2. counter \in Counter /\ cc \in Counter
  BY DEF TimersTyped
<1>3. Distance \in Counter /\ Distance \in Nat
  <2>1. Distance \in Counter
    BY <1>2, DiffIs DEF Distance
  <2> QED
    BY <2>1, Constants DEF Counter
<1>4. SUFFICES ASSUME ~rtcPending'
               PROVE  /\ armed' /\ Distance' >= 1
                      /\ Distance' <= Largest(-Late(First)', OffsetMin)
                      /\ Late(First)' + Distance' <= Bound(First)'
  BY <1>1 DEF Awake
<1>5. ~rtcPending /\ ~(armed /\ counter' = cc)
  BY <1>4
<1>6. /\ armed /\ Distance >= 1 /\ Distance <= Largest(-Late(First), OffsetMin)
      /\ Late(First) + Distance <= Bound(First)
  BY <1>5 DEF Awake
<1>7. Distance # 1
  BY <1>2, <1>5, <1>6, DiffSteps DEF Distance
<1>8. Distance' = Distance - 1
  BY <1>2, <1>3, <1>6, DiffSteps DEF Distance
<1>9. Late(First) \in Int /\ Bound(First) \in Int
  <2>1. \A t \in Timers : Bound(t) \in Int
    BY Constants DEF Bound, Least
  <2> QED
    BY <2>1, Late0
<1>10. Distance - 1 <= Largest(-(Late(First) + 1), OffsetMin)
  BY <1>3, <1>6, <1>9, Constants DEF Largest
<1> QED
  BY <1>1, <1>3, <1>6, <1>7, <1>8, <1>9, <1>10

LEMMA TickTimed ==
  ASSUME IInv, IInv', TimeInv, TicksAreLong, Tick, UNCHANGED pinVars
  PROVE  TimeInv'
<1> USE DEF Tick
<1>1. tick \in Running /\ Timed /\ After /\ TimersTyped /\ QueuesKept
  BY InList DEF IInv
<1>2. /\ Passed \in Nat /\ First \in Running /\ First # None
      /\ \A t \in Running : /\ t \in Timers /\ Due(List0, t) \in Nat
                            /\ Late(t) = Passed - Due(List0, t) /\ Late(t) \in Int
                            /\ Late(t) <= Late(First)
      /\ Bound(First) = (IF First = tick THEN 2 * Least ELSE Least)
  BY <1>1, Late0
<1>3. /\ Passed + MaxLag + OffsetMin < CounterMod - 1 /\ lag \in Nat /\ lag <= MaxLag
      /\ Least \in Nat /\ MaxLag \in Nat /\ OffsetMin \in Nat /\ CounterMod \in Nat
      /\ MaxLag + OffsetMin < CounterMod - 1
  BY <1>1, <1>2, PassedBounded, Small, Constants DEF Timed
<1>4. counter \in Counter /\ latest \in Counter /\ counter' = (counter + 1) % CounterMod
  BY <1>1 DEF TimersTyped
<1>5. Passed' = Passed + 1
  BY <1>2, <1>3, <1>4, DiffSteps DEF Passed
<1>6. First' = First /\ Running' = Running /\ \A t : Due(List0, t)' = Due(List0, t)
      /\ Bound(First)' = Bound(First)
  BY DEF First, Running, Due, List0, Bound, Least
<1>7. \A t \in Running : Late(t)' = Late(t) + 1
  BY <1>2, <1>5, <1>6 DEF Late
<1>8. IF Busy THEN lag' = lag + 1 ELSE lag' = 0
  BY <1>1 DEF Pressed, After
<1>9. Awake => Awake'
  BY <1>1, <1>2, <1>6, <1>7, AwakeAdvances
<1>10. Renewed /\ Busy => Renewed'
  BY <1>2, <1>3, <1>6, <1>7, <1>8 DEF Renewed, Least
<1>11. Deadlines'
  <2>1. Late(First) + 1 <= Bound(First) + lag'
    <3>1. CASE Busy
      BY <1>1, <1>2, <1>3, <1>8, <3>1 DEF Timed, Deadlines
    <3>2. CASE ~Busy
      <4>1. low = Idle /\ ~swiPending /\ ~rtcPending
        BY <3>2 DEF Busy, RtcReady
      <4>2. elapsed = None
        BY <1>1, <4>1 DEF Timed, Expiries, Idle
      <4>3. Distance >= 1 /\ Late(First) + Distance <= Bound(First)
        BY <1>1, <4>1, <4>2 DEF Timed, Alarm, Awake
      <4>4. Distance \in Int
        <5>1. cc \in Counter
          BY <1>1 DEF TimersTyped
        <5>2. Distance \in Counter
          BY <1>4, <5>1, DiffIs DEF Distance
        <5> QED
          BY <5>2 DEF Counter
      <4> QED
        BY <1>2, <1>3, <1>8, <3>2, <4>3, <4>4
    <3> QED
      BY <3>1, <3>2
  <2>2. ASSUME NEW t \in Running
        PROVE  /\ -Interval[t] <= Late(t) + 1 /\ Late(t) + 1 <= Bound(First) + lag'
               /\ shifted[t] \/ ran'[t] = Interval[t] + (Late(t) + 1)
    <3>1. t \in Timers /\ Interval[t] \in Nat /\ Late(t) \in Int /\ ran[t] \in Int
      BY <1>1, <1>2, Constants DEF TimersTyped
    <3>2. -Interval[t] <= Late(t) /\ (shifted[t] \/ ran[t] = Interval[t] + Late(t))
      BY <1>1 DEF Timed, Deadlines
    <3>3. ran'[t] = ran[t] + 1
      BY <3>1
    <3>4. Late(t) + 1 <= Bound(First) + lag'
      BY <1>2, <1>3, <1>8, <2>1, <3>1
    <3>5. ASSUME ~shifted[t]
          PROVE  ran'[t] = Interval[t] + (Late(t) + 1)
      <4> HIDE DEF Tick
      <4>1. ran[t] = Interval[t] + Late(t)
        BY <3>2, <3>5
      <4>2. (Interval[t] + Late(t)) + 1 = Interval[t] + (Late(t) + 1)
        BY <3>1
      <4> QED
        BY <3>3, <4>1, <4>2
    <3> QED
      BY <3>1, <3>2, <3>4, <3>5
  <2>3. Due(List0, tick)' <= Interval[tick]
    BY <1>1, <1>6 DEF Timed, Deadlines
  <2> QED
    BY <1>6, <1>7, <2>2, <2>3 DEF Deadlines
<1>12. Expiries'
  <2>1. ASSUME NEW n \in Nat, Counted(n), Busy
        PROVE  n <= Passed' /\ \A t \in Running' : Due(List0, t)' > n => Late(t)' < lag'
    BY <1>2, <1>3, <1>5, <1>6, <1>7, <1>8, <2>1 DEF Counted
  <2>2. low.at = "expire" => low.ticks \in Nat /\ Busy
    BY DEF IInv, LowKept, Idle, Expiry, Busy
  <2>3. elapsed # None => elapsed \in Nat /\ Busy
    BY <1>1 DEF Timed, Expiries, TimersTyped, Busy, Idle
  <2>4. low.at = "expire" =>
          /\ low'.ticks <= Passed'
          /\ \A t \in Running' : Due(List0, t)' > low'.ticks => Late(t)' < lag'
          /\ \A t \in Range(low'.todo) : t \in Running' /\ Due(List0, t)' <= low'.ticks
    BY <1>1, <1>6, <2>1, <2>2 DEF Timed, Expiries
  <2>5. elapsed # None =>
          /\ elapsed' <= Passed'
          /\ \A t \in Running' : Due(List0, t)' > elapsed' => Late(t)' < lag'
          /\ rtcRunning' /\ (swiPending' \/ low'.at = "expire")
    BY <1>1, <2>1, <2>3 DEF Timed, Expiries
  <2> QED
    BY <2>4, <2>5 DEF Expiries, Counted
<1>13. ASSUME low.at \in {"write", "check"}
       PROVE  Writing'
  <2>1. low \in [at : {"write", "check"}, pre : Counter, cc : Counter] /\ Busy
    BY <1>13 DEF IInv, LowKept, Idle, Expiry, Busy
  <2>2. low.pre \in Counter /\ low.cc \in Counter
    BY <2>1
  <2>3. Waited \in Nat /\ Chosen \in Nat
    <3>1. Waited \in Counter /\ Chosen \in Counter
      BY <1>4, <2>2, DiffIs DEF Waited, Chosen
    <3> QED
      BY <3>1 DEF Counter
  <2>4. /\ Waited <= lag /\ Chosen >= OffsetMin
        /\ Chosen <= Largest(Waited - Late(First), OffsetMin)
        /\ Late(First) - Waited + Chosen <= Bound(First)
        /\ low.at = "check" =>
             /\ cc = low.cc
             /\ rtcPending \/ (armed /\ Waited < Chosen) \/ Waited + 1 >= Chosen
    BY <1>1, <1>13 DEF Timed, Alarm, Writing
  <2>5. Waited' = Waited + 1 /\ Chosen' = Chosen
    <3>1. Waited < CounterMod - 1
      BY <1>3, <2>3, <2>4
    <3> QED
      BY <1>4, <2>2, <3>1, DiffSteps DEF Waited, Chosen
  <2>6. (Late(First) + 1) - (Waited + 1) + Chosen <= Bound(First)
    BY <1>2, <1>3, <2>3, <2>4
  <2>7. Chosen <= Largest((Waited + 1) - (Late(First) + 1), OffsetMin)
    <3>1. (Waited + 1) - (Late(First) + 1) = Waited - Late(First)
      BY <1>2, <2>3
    <3> QED
      BY <2>4, <3>1
  <2>8. low.at = "check" => rtcPending' \/ (armed /\ Waited + 1 < Chosen) \/ Waited + 2 >= Chosen
    <3>1. rtcPending => rtcPending'
      OBVIOUS
    <3>2. Waited + 1 < Chosen \/ Waited + 2 >= Chosen
      BY <2>3
    <3>3. Waited + 1 >= Chosen => Waited + 2 >= Chosen
      BY <2>3
    <3> QED
      BY <2>4, <3>1, <3>2, <3>3
  <2>9. (Waited + 1) + 1 = Waited + 2 /\ Waited + 1 <= lag'
    BY <1>3, <1>8, <2>1, <2>3, <2>4
  <2> QED
    BY <1>2, <1>6, <1>7, <2>4, <2>5, <2>6, <2>7, <2>8, <2>9 DEF Writing
<1>14. Alarm'
  <2>1. low # Idle => Busy
    BY DEF Busy
  <2>2. low' = low /\ elapsed' = elapsed /\ rtcRunning'
    OBVIOUS
  <2>3. low = Idle => elapsed # None \/ Awake'
    BY <1>1, <1>9 DEF Timed, Alarm
  <2>4. low.at = "insert" => IF low.update \/ low.head = None THEN Renewed'
                             ELSE low.head = First' /\ Awake'
    BY <1>1, <1>6, <1>9, <1>10, <2>1 DEF Timed, Alarm, Idle
  <2>5. low.at = "compare" => Renewed'
    BY <1>1, <1>10, <2>1 DEF Timed, Alarm, Idle
  <2> QED
    BY <1>13, <2>2, <2>3, <2>4, <2>5 DEF Alarm
<1>15. \A u \in {"main", "draft"} : opQueue'[u] = <<>>
  <2>1. \A u \in Queues : opQueue'[u] = [i \in DOMAIN opQueue[u] |->
                                            [opQueue[u][i] EXCEPT !.waited = @ + 1]]
    OBVIOUS
  <2>2. opQueue["main"] = <<>> /\ opQueue["draft"] = <<>>
    BY <1>1 DEF After
  <2> QED
    BY <2>1, <2>2 DEF Queues
<1>16. OpsTimed'
  <2>a. PICK q : q = opQueue["high"]
    OBVIOUS
  <2>b. PICK r : r = opQueue'["high"]
    OBVIOUS
  <2>1. /\ q \in Seq(Ops) /\ r = [i \in DOMAIN q |-> [q[i] EXCEPT !.waited = @ + 1]]
        /\ DOMAIN q = 1..Len(q) /\ Len(q) \in Nat
    BY <1>1, <2>a, <2>b, LenProperties DEF QueuesKept, Queues
  <2>2. DOMAIN r = 1..Len(q)
    BY <2>1
  <2>3. r # <<>> => q # <<>>
    BY <2>1
  <2>4. q # <<>> => swiPending \/ low.at = "insert"
    BY <2>a DEF TimeInv, OpsTimed
  <2>5. ASSUME NEW i \in 1..Len(q), r[i].type = "start"
        PROVE  /\ ~r[i].shifted /\ r[i].waited <= lag' /\ Diff(counter', r[i].at) = r[i].waited
    <3>1. q[i] \in Ops /\ r[i] = [q[i] EXCEPT !.waited = @ + 1]
      BY <2>1, ElementOfSeq
    <3>2. /\ r[i].type = q[i].type /\ r[i].at = q[i].at /\ r[i].shifted = q[i].shifted
          /\ r[i].waited = q[i].waited + 1 /\ q[i].at \in Counter /\ q[i].waited \in Nat
      BY <3>1 DEF Ops
    <3>3. /\ ~q[i].shifted /\ q[i].waited <= lag /\ Diff(counter, q[i].at) = q[i].waited
      BY <2>a, <2>5, <3>2 DEF TimeInv, OpsTimed, Timely, Queues
    <3>4. Busy
      BY <2>1, <2>4 DEF Busy, Idle
    <3>5. Diff(counter', q[i].at) = q[i].waited + 1
      BY <1>3, <1>4, <3>2, <3>3, DiffSteps
    <3> QED
      BY <1>3, <1>8, <3>2, <3>3, <3>4, <3>5
  <2>6. Len(r) = Len(q)
    <3>1. Alike(q, r)
      <4>1. ASSUME NEW i \in 1..Len(q)
            PROVE  r[i] \in Ops /\ r[i].type = q[i].type /\ r[i].timer = q[i].timer
        <5>1. q[i] \in Ops /\ r[i] = [q[i] EXCEPT !.waited = @ + 1]
          BY <2>1, ElementOfSeq
        <5> QED
          BY <5>1 DEF Ops
      <4>2. r \in [1..Len(q) -> Ops]
        BY <2>1, <4>1
      <4> QED
        BY <2>1, <4>1, <4>2, AlikeMapped
    <3> QED
      BY <3>1 DEF Alike
  <2>7. swiPending' = swiPending /\ low' = low
    OBVIOUS
  <2> HIDE DEF Tick
  <2>8. (\A u \in Queues : \A i \in 1..Len(opQueue[u]) : Timely(opQueue[u][i]))'
    <3>1. (\A i \in 1..Len(r) : Timely(r[i]))'
      BY <2>5, <2>6 DEF Timely
    <3>2. Len(<<>>) = 0 /\ \A i : i \notin 1..0
      OBVIOUS
    <3> QED
      BY <1>15, <2>b, <3>1, <3>2 DEF Queues
  <2>9. opQueue'["high"] # <<>> => swiPending' \/ low'.at = "insert"
    BY <2>a, <2>b, <2>3, <2>4, <2>7
  <2> QED
    BY <2>8, <2>9 DEF OpsTimed
<1>17. Phased'
  <2>1. clearing' = clearing /\ rtcReset' = rtcReset /\ rebased' = rebased
        /\ edges' = edges /\ main' = main
    BY DEF pinVars
  <2> QED
    BY <1>1, <1>6, <1>15, <2>1, PhaseStays DEF TimeInv, Phased
<1> QED
  BY <1>11, <1>12, <1>14, <1>16, <1>17 DEF TimeInv, Timed

-----------------------------------------------------------------------------
(* The steps of main(), and an edge.                                       *)

LEMMA MainTimed ==
  ASSUME IInv, IInv', TimeInv, MainStarts \/ MainEnqueues
  PROVE  TimeInv'
<1>1. /\ counter' = counter /\ rtcRunning' = rtcRunning /\ swiPending' \in {swiPending, TRUE}
      /\ clearing' = clearing /\ list' = list /\ latest' = latest
      /\ elapsed' = elapsed /\ rtcReset' = rtcReset /\ low' = low /\ lag' = lag
      /\ rebased' = rebased /\ edges' = edges /\ main # "done"
  BY DEF MainStarts, MainEnqueues, hardware
<1>2. tick \notin Running /\ tick \notin Running' /\ Before /\ opQueue["high"] = <<>>
      /\ ~swiPending /\ TimersTyped /\ QueuesKept
  BY <1>1 DEF IInv, TimeInv, Phased, After, Before, Running
<1>3. \A op : Timely(op) => Timely(op)'
  BY <1>1 DEF Timely
<1>4. CASE MainStarts
  <2>1. PICK op : op = StartOp(tick)
    OBVIOUS
  <2>2. PICK d : d = <<op>>
    OBVIOUS
  <2>3. opQueue' = [opQueue EXCEPT !["draft"] = d] /\ main = "init" /\ main' = "enqueue"
        /\ swiPending' = swiPending
    BY <1>4, <2>1, <2>2 DEF MainStarts, hardware
  <2>4. /\ opQueue'["high"] = <<>> /\ opQueue'["main"] = <<>> /\ opQueue'["draft"] = d
        /\ d # <<>> /\ Len(d) = 1 /\ d[1] = op
    BY <1>2, <2>2, <2>3 DEF QueuesKept, Queues
  <2>5. Timely(op)'
    <3>1. ~op.shifted /\ op.waited = 0 /\ op.at = counter
      BY <1>2, <2>1 DEF StartOp, TimeInv, Phased
    <3>2. Diff(counter, counter) = 0 /\ 0 <= lag
      BY <1>2, DiffOpposite, Constants DEF TimersTyped
    <3> QED
      BY <1>1, <3>1, <3>2 DEF Timely
  <2>6. OpsTimed'
    <3>1. Len(<<>>) = 0 /\ \A i : i \notin 1..0
      OBVIOUS
    <3>2. \A i \in 1..1 : i = 1
      OBVIOUS
    <3> QED
      BY <2>4, <2>5, <3>1, <3>2 DEF OpsTimed, Queues
  <2>7. Before'
    BY <1>1, <1>2, <2>3, <2>4 DEF Before, Idle
  <2> QED
    BY <1>1, <1>2, <2>6, <2>7 DEF TimeInv, Phased
<1>5. CASE MainEnqueues
  <2>1. PICK d : d = opQueue["draft"]
    OBVIOUS
  <2>2. d \in Seq(TickOps) /\ opQueue["main"] = <<>> /\ d # <<>>
    BY <1>2, <1>5, <2>1 DEF QueuesKept, Queues, MainEnqueues, Before
  <2>3. opQueue' = [opQueue EXCEPT !["main"] = d, !["draft"] = <<>>] /\ main' = "done"
        /\ swiPending' = TRUE
    <3>1. <<>> \o d = d
      BY <2>2, ConcatEmptySeq
    <3> QED
      BY <1>5, <2>1, <2>2, <3>1 DEF MainEnqueues
  <2>4. opQueue'["high"] = <<>> /\ opQueue'["main"] = d /\ opQueue'["draft"] = <<>>
    BY <1>2, <2>3 DEF QueuesKept, Queues
  <2>5. OpsTimed'
    <3>1. Len(<<>>) = 0 /\ \A i : i \notin 1..0
      OBVIOUS
    <3>2. (\A i \in 1..Len(d) : Timely(d[i]))'
      BY <1>3, <2>1 DEF TimeInv, OpsTimed, Queues
    <3> QED
      BY <2>4, <3>1, <3>2 DEF OpsTimed, Queues
  <2>6. Before'
    BY <1>1, <1>2, <2>2, <2>3, <2>4 DEF Before, Idle
  <2> QED
    BY <1>1, <1>2, <2>5, <2>6 DEF TimeInv, Phased
<1> QED
  BY <1>4, <1>5

\* What an edge adds to the queue of the interrupts, and that it pends SWI0.
LEMMA EdgeAdds ==
  ASSUME TimersTyped, QueuesKept, NEW p, Edge(p)
  PROVE  \/ opQueue' = opQueue
         \/ \E added \in Seq(Ops) :
              /\ \A i \in 1..Len(added) : added[i] \in {StopOp(button), StartOp(button)}
              /\ opQueue' = [opQueue EXCEPT !["high"] = @ \o added] /\ swiPending' = TRUE
<1>b. PICK q : q = opQueue["high"]
  OBVIOUS
<1>c. PICK stop : stop = StopOp(button)
  OBVIOUS
<1>d. PICK start : start = StartOp(button)
  OBVIOUS
<1>1. q \in Seq(Ops) /\ stop \in Ops /\ start \in Ops
  BY <1>b, <1>c, <1>d, Constants DEF QueuesKept, Queues, StopOp, StartOp, Ops, TimersTyped
<1>2. Append(q, stop) = q \o <<stop>>
  BY <1>1, AppendIsConcat
<1>3. \/ opQueue' = opQueue
      \/ swiPending' = TRUE /\ opQueue' = [opQueue EXCEPT !["high"] = Append(@, stop)]
      \/ swiPending' = TRUE /\ opQueue' = [opQueue EXCEPT !["high"] = @ \o <<stop, start>>]
  BY <1>c, <1>d DEF Edge
<1>4. CASE swiPending' = TRUE /\ opQueue' = [opQueue EXCEPT !["high"] = Append(@, stop)]
  <2>1. PICK added : added = <<stop>>
    OBVIOUS
  <2>2. added \in Seq(Ops) /\ \A i \in 1..Len(added) : added[i] = stop
    BY <1>1, <2>1
  <2>3. opQueue' = [opQueue EXCEPT !["high"] = @ \o added]
    BY <1>b, <1>2, <1>4, <2>1
  <2> QED
    BY <1>c, <1>4, <2>2, <2>3
<1>5. CASE swiPending' = TRUE /\ opQueue' = [opQueue EXCEPT !["high"] = @ \o <<stop, start>>]
  <2>1. PICK added : added = <<stop, start>>
    OBVIOUS
  <2>2. added \in Seq(Ops) /\ \A i \in 1..Len(added) : added[i] \in {stop, start}
    BY <1>1, <2>1
  <2> QED
    BY <1>c, <1>d, <1>5, <2>1, <2>2
<1> QED
  BY <1>3, <1>4, <1>5

\* A press at the time at which main() has started the tick timer.
LEMMA EdgeTimed ==
  ASSUME IInv, IInv', TimeInv, MaxEarlyEdges = 0, NEW p, Edge(p)
  PROVE  TimeInv'
<1>1. /\ UNCHANGED <<counter, cc, armed, rtcRunning, rtcPending, clearing, list, toExpire,
                     latest, elapsed, rtcReset, low, lag, ran, shifted, rebased, main>>
      /\ edges' = edges + 1
      /\ swiPending => swiPending'
  BY DEF Edge
<1>2. edges \in Nat /\ main = "done" /\ ~clearing /\ TimersTyped /\ QueuesKept
  BY DEF IInv, TimeInv, Phased, Edge
<1>3. Running' = Running /\ edges' \in Nat
  BY <1>1, <1>2 DEF Running
<1>4. \A op : Timely(op) => Timely(op)'
  BY <1>1 DEF Timely
<1>5. /\ \A u \in {"main", "draft"} : opQueue'[u] = opQueue[u]
      /\ OpsTimed'
  <2>1. CASE opQueue' = opQueue
    <3>1. OpsTimed'
      BY <1>1, <2>1, OpsStay DEF TimeInv
    <3> QED
      BY <2>1, <3>1
  <2>2. ASSUME NEW added \in Seq(Ops),
               \A i \in 1..Len(added) : added[i] \in {StopOp(button), StartOp(button)},
               opQueue' = [opQueue EXCEPT !["high"] = @ \o added], swiPending' = TRUE
        PROVE  /\ \A u \in {"main", "draft"} : opQueue'[u] = opQueue[u]
               /\ OpsTimed'
    <3>1. PICK q : q = opQueue["high"]
      OBVIOUS
    <3>2. PICK r : r = q \o added
      OBVIOUS
    <3>3. q \in Seq(Ops)
      BY <1>2, <3>1 DEF QueuesKept, Queues
    <3>4. /\ opQueue'["high"] = r
          /\ \A u \in {"main", "draft"} : opQueue'[u] = opQueue[u]
      BY <1>2, <2>2, <3>1, <3>2 DEF QueuesKept, Queues
    <3>5. Timely(StopOp(button))' /\ Timely(StartOp(button))'
      <4>1. Timely(StopOp(button))'
        BY DEF Timely, StopOp
      <4>2. PICK op : op = StartOp(button)
        OBVIOUS
      <4>3. ~op.shifted /\ op.waited = 0 /\ op.at = counter
        BY <1>2, <4>2 DEF StartOp
      <4>4. Diff(counter, counter) = 0 /\ 0 <= lag
        BY <1>2, DiffOpposite, Constants DEF TimersTyped
      <4>5. Timely(op)'
        BY <1>1, <4>3, <4>4 DEF Timely
      <4>6. StartOp(button)' = op
        BY <1>1, <4>2 DEF StartOp
      <4> QED
        BY <4>1, <4>5, <4>6
    <3>6. ASSUME NEW i \in 1..Len(r)
          PROVE  Timely(r[i])'
      <4>1. Len(q) \in Nat /\ Len(added) \in Nat /\ Len(r) = Len(q) + Len(added)
        BY <2>2, <3>2, <3>3, ConcatProperties, LenProperties
      <4>2. CASE i <= Len(q)
        <5>1. r[i] = q[i] /\ i \in 1..Len(q)
          BY <2>2, <3>2, <3>3, <4>1, <4>2, ConcatProperties
        <5>2. Timely(q[i])
          BY <3>1, <5>1 DEF TimeInv, OpsTimed, Queues
        <5> QED
          BY <1>4, <5>1, <5>2
      <4>3. CASE ~(i <= Len(q))
        <5>1. r[i] = added[i - Len(q)] /\ i - Len(q) \in 1..Len(added)
          BY <2>2, <3>2, <3>3, <4>1, <4>3, ConcatProperties
        <5>2. r[i] \in {StopOp(button), StartOp(button)}
          BY <2>2, <5>1
        <5>3. StopOp(button)' = StopOp(button) /\ StartOp(button)' = StartOp(button)
          BY <1>1 DEF StopOp, StartOp
        <5> QED
          BY <3>5, <5>2, <5>3
      <4> QED
        BY <4>2, <4>3
    <3>7. OpsTimed'
      <4>1. (\A i \in 1..Len(r) : Timely(r[i]))'
        BY <3>6
      <4>2. \A u \in {"main", "draft"} : (\A i \in 1..Len(opQueue[u]) : Timely(opQueue[u][i]))'
        BY <1>4, <3>4 DEF TimeInv, OpsTimed, Queues
      <4> QED
        BY <2>2, <3>4, <4>1, <4>2 DEF OpsTimed, Queues
    <3> QED
      BY <3>4, <3>7
  <2> QED
    BY <1>2, <2>1, <2>2, EdgeAdds
<1>6. tick \in Running => Timed'
  BY <1>1, TimedStays DEF TimeInv
<1>7. Phased'
  <2>1. After => After'
    BY <1>1, <1>3, <1>5 DEF After
  <2>2. Before => Before'
    BY <1>1, <1>2, <1>5 DEF Before, Idle
  <2> QED
    BY <1>1, <1>3, <2>1, <2>2 DEF TimeInv, Phased
<1> QED
  BY <1>3, <1>5, <1>6, <1>7 DEF TimeInv

-----------------------------------------------------------------------------
(* The list that SWI0 changes.                                             *)

\* The first of a list's timers is the next to expire.
LEMMA FirstIs ==
  ASSUME NEW r \in ListType, tick \in Members(r)
  PROVE  /\ FirstOf(r.list) = r.list[1] /\ r.list[1] # None
         /\ r.list[1] \in Members(r)
         /\ \A t \in Members(r) : /\ t \in Timers /\ Due(r, t) \in Nat
                                  /\ Due(r, r.list[1]) <= Due(r, t)
<1>1. \A t \in Members(r) : /\ Due(r, t) \in Nat /\ Due(r, r.list[1]) <= Due(r, t)
                            /\ r.list[1] \in Members(r) /\ t \in Timers
  BY DueFirst
<1>2. r.list # <<>>
  BY DEF Members, Range
<1>3. FirstOf(r.list) = r.list[1]
  BY <1>2 DEF FirstOf
<1> QED
  BY <1>1, <1>3, Constants

\* A start, obeyed w ticks after app_timer_start, whether m_ticks_latest was
\* before or after the call.
LEMMA StartDue ==
  ASSUME NEW l, NEW at \in Counter, NEW t \in Timers, NEW w, TicksAreLong,
         counter \in Counter, l.latest \in Counter, Diff(counter, at) = w, w <= MaxLag,
         Diff(counter, l.latest) + MaxLag < Half, t = tick => w = 0
  PROVE  TicksToExpire(l, at, Interval[t]) = Diff(counter, l.latest) - w + Interval[t]
<1>1. PICK x : x = l.latest
  OBVIOUS
<1>2. PICK P : P = Diff(counter, x)
  OBVIOUS
<1>3. /\ x \in Counter /\ P \in Counter /\ w \in Counter
      /\ P \in Nat /\ w \in Nat /\ P + MaxLag < Half
  <2>1. x \in Counter /\ P \in Counter /\ w \in Counter
    BY <1>1, <1>2, DiffIs
  <2> QED
    BY <1>1, <1>2, <2>1, Constants DEF Counter
<1>4. /\ Half \in Nat /\ 2 * Half < CounterMod /\ Interval[t] \in Nat /\ w <= Interval[t]
      /\ MaxLag \in Nat /\ CounterMod \in Nat
  <2>1. Interval[t] \in Nat /\ Interval[button] \in Nat /\ MaxLag <= Interval[button]
        /\ t \in {tick, button}
    BY Small, Constants
  <2> QED
    BY <1>3, <2>1, Small, Constants
<1>5. CASE w <= P
  <2>1. Diff(at, x) = P - w
    BY <1>2, <1>3, <1>5, DiffBetween
  <2>2. Diff(at, x) < Half
    BY <1>3, <1>4, <2>1
  <2>3. TicksToExpire(l, at, Interval[t]) = Diff(at, x) + Interval[t]
    BY <1>1, <2>2 DEF TicksToExpire, Half
  <2> QED
    BY <1>1, <1>2, <2>1, <2>3
<1>6. CASE ~(w <= P)
  <2>1. Diff(at, x) = P - w + CounterMod
    BY <1>2, <1>3, <1>6, DiffBetween
  <2>2. Diff(x, at) = w - P
    BY <1>2, <1>3, <1>6, DiffBetween
  <2>3. ~(Diff(at, x) < Half)
    BY <1>3, <1>4, <2>1
  <2>4. TicksToExpire(l, at, Interval[t]) = Largest(Interval[t] - Diff(x, at), 0)
    BY <1>1, <2>3 DEF TicksToExpire, Half
  <2>5. Largest(Interval[t] - (w - P), 0) = P - w + Interval[t]
    BY <1>3, <1>4, <1>6 DEF Largest
  <2> QED
    BY <1>1, <1>2, <2>2, <2>4, <2>5
<1> QED
  BY <1>5, <1>6

\* The list becomes r.
LEMMA BecomesList ==
  ASSUME NEW r \in ListType, SetList(r)
  PROVE  /\ First' = r.list[1] /\ FirstOf(list)' = FirstOf(r.list)
         /\ Running' = Members(r) /\ \A t : Due(List0, t)' = Due(r, t)
         /\ latest' = r.latest /\ rtcReset' = r.reset
         /\ \A t \in Members(r) : ran'[t] = r.ran[t] /\ shifted'[t] = r.shifted[t]
<1>1. First' = r.list[1] /\ FirstOf(list)' = FirstOf(r.list)
  BY DEF SetList, First, FirstOf
<1>2. Running' = Members(r) /\ latest' = r.latest /\ rtcReset' = r.reset
  BY DEF SetList, Running, Members
<1>3. \A t : Due(List0, t)' = Due(r, t)
  BY DEF SetList, List0, Due
<1>4. ASSUME NEW t \in Members(r)
      PROVE  ran'[t] = r.ran[t] /\ shifted'[t] = r.shifted[t]
  <2>1. t \in Timers /\ t \in Range(r.list)
    BY DueFirst DEF Members
  <2>2. r.shifted[t] \in BOOLEAN
    BY <2>1 DEF ListType
  <2>3. ran'[t] = r.ran[t]
    BY <2>1 DEF SetList
  <2>4. shifted'[t] = (t \in Range(r.list) /\ r.shifted[t])
    BY <2>1 DEF SetList
  <2> QED
    BY <2>1, <2>2, <2>3, <2>4
<1> QED
  BY <1>1, <1>2, <1>3, <1>4

\* The queue of the interrupts: the detection timer may be inserted, even before
\* the tick timer.
LEMMA InsertTimed ==
  ASSUME IInv, IInv', TimeInv, TicksAreLong, InsertHigh, UNCHANGED pinVars
  PROVE  TimeInv'
<1>1. tick \in Running /\ Timed /\ After /\ TimersTyped /\ QueuesKept /\ elapsed = None
      /\ ~rtcReset /\ low.at = "insert"
  <2>1. low # Idle /\ low.at = "insert"
    BY DEF InsertHigh, Idle
  <2> QED
    BY <2>1, InList DEF IInv, LowKept, TimeInv, Phased
<1>a. PICK r : r = Insertions(List0, "high")
  OBVIOUS
<1>b. PICK update : update = (low.update \/ FirstOf(r.list) # low.head)
  OBVIOUS
<1>c. PICK high : high = opQueue["high"]
  OBVIOUS
<1>2. /\ SetList([r EXCEPT !.reset = rtcReset /\ update])
      /\ low' = IF update THEN [at |-> "compare"] ELSE Idle
      /\ opQueue' = [opQueue EXCEPT !["high"] = <<>>]
      /\ counter' = counter /\ cc' = cc /\ armed' = armed /\ rtcRunning' = rtcRunning
      /\ rtcPending' = rtcPending /\ swiPending' = swiPending /\ clearing' = clearing
      /\ elapsed' = elapsed /\ lag' = lag /\ rebased' = rebased
  BY <1>a, <1>b DEF InsertHigh, hardware
<1>3. high \in Seq(Ops) /\ high \in Seq(ButtonOps)
  BY <1>1, <1>c DEF QueuesKept, Queues
<1>4. InsertedInto(r, List0, high, Len(high))
  BY <1>1, <1>3, <1>a, <1>c, List0Typed, Inserted
<1>5. /\ List0.list = list /\ List0.latest = latest /\ List0.reset = FALSE
      /\ Members(List0) = Running /\ List0.ran = ran /\ List0.shifted = shifted
  BY <1>1, List0Typed DEF TimersTyped
<1>6. r \in ListType /\ tick \in Members(r) /\ r.latest = latest
      /\ Running \subseteq Members(r)
  BY <1>1, <1>4, <1>5 DEF InsertedInto, Counting
<1>7. /\ First' = r.list[1] /\ Running' = Members(r)
      /\ \A t : Due(List0, t)' = Due(r, t)
      /\ latest' = latest /\ ~rtcReset'
      /\ \A t \in Members(r) : ran'[t] = r.ran[t] /\ shifted'[t] = r.shifted[t]
  <2>1. PICK set : set = [r EXCEPT !.reset = FALSE]
    OBVIOUS
  <2>2. /\ set \in ListType /\ set.list = r.list /\ set.latest = latest /\ set.reset = FALSE
        /\ set.toExpire = r.toExpire /\ set.ran = r.ran /\ set.shifted = r.shifted
    BY <1>6, <2>1 DEF ListType
  <2>3. (rtcReset /\ update) = FALSE
    BY <1>1
  <2>4. SetList(set)
    BY <1>2, <2>1, <2>3
  <2>5. Members(set) = Members(r) /\ \A t : Due(set, t) = Due(r, t)
    BY <2>2 DEF Members, Due
  <2> QED
    BY <2>2, <2>4, <2>5, BecomesList
<1>8. /\ FirstOf(r.list) = r.list[1] /\ r.list[1] # None /\ r.list[1] \in Members(r)
      /\ \A t \in Members(r) : /\ t \in Timers /\ Due(r, t) \in Nat
                               /\ Due(r, r.list[1]) <= Due(r, t)
  BY <1>6, FirstIs
<1>9. /\ Passed \in Nat /\ First \in Running
      /\ \A t \in Running : /\ t \in Timers /\ Due(List0, t) \in Nat
                            /\ Late(t) = Passed - Due(List0, t) /\ Late(t) \in Int
      /\ Bound(First) = (IF First = tick THEN 2 * Least ELSE Least)
  BY <1>1, Late0
<1>10. Passed + MaxLag < Half /\ lag \in Nat /\ lag <= MaxLag
  BY <1>1, PassedBounded DEF Timed
<1>11. Passed' = Passed
  BY <1>2, <1>7 DEF Passed
\* The timers that ran before.
<1>12. \A t \in Running : /\ Due(r, t) = Due(List0, t) /\ Late(t)' = Late(t)
                          /\ ran'[t] = ran[t] /\ shifted'[t] = shifted[t]
  <2>1. \A t \in Running : SameTimer(r, List0, t)
    BY <1>4, <1>5 DEF InsertedInto
  <2> QED
    BY <1>5, <1>6, <1>7, <1>11, <2>1 DEF SameTimer, Late
\* The detection timer, if it is new.
<1>13. ASSUME NEW t \in Members(r), t \notin Running
       PROVE  /\ t = button /\ Interval[t] \in Nat /\ Interval[t] > 0
              /\ \E w \in Nat : /\ w <= lag /\ w <= Interval[t]
                                /\ Late(t)' = w - Interval[t] /\ ran'[t] = w
  <2>1. t = button /\ Interval[t] \in Nat /\ Interval[t] > 0
    BY <1>1, <1>8, <1>13, Constants
  <2>2. PICK i \in 1..Len(high) :
          /\ high[i].type = "start"
          /\ Due(r, t) = TicksToExpire(List0, high[i].at, Interval[t])
          /\ r.ran[t] = high[i].waited
    BY <1>4, <1>5, <1>13 DEF InsertedInto, StartedBy
  <2>3. high[i].at \in Counter /\ high[i].waited \in Nat
    <3>1. high[i] \in Ops
      BY <1>3, ElementOfSeq
    <3> QED
      BY <3>1 DEF Ops
  <2>4. PICK w : w = high[i].waited
    OBVIOUS
  <2>5. w <= lag /\ Diff(counter, high[i].at) = w /\ w \in Nat /\ w <= MaxLag
    <3>1. Timely(high[i])
      BY <1>c DEF TimeInv, OpsTimed, Queues
    <3>2. w <= lag /\ Diff(counter, high[i].at) = w
      BY <2>2, <2>4, <3>1 DEF Timely
    <3> QED
      BY <1>10, <2>3, <2>4, <3>2, Constants
  <2>6. Due(r, t) = Passed - w + Interval[t]
    <3>1. counter \in Counter /\ latest \in Counter
      BY <1>1 DEF TimersTyped
    <3>2. t \in Timers /\ t # tick
      BY <1>1, <1>8, <1>13
    <3>3. TicksToExpire(List0, high[i].at, Interval[t])
            = Diff(counter, List0.latest) - w + Interval[t]
      BY <1>5, <1>10, <2>3, <2>5, <3>1, <3>2, StartDue DEF Passed
    <3> QED
      BY <1>5, <2>2, <3>3 DEF Passed
  <2>7. Late(t)' = w - Interval[t]
    <3>1. Late(t)' = Passed - Due(r, t)
      BY <1>7, <1>11 DEF Late
    <3> QED
      BY <1>9, <2>1, <2>5, <2>6, <3>1
  <2>8. ran'[t] = w
    BY <1>7, <2>2, <2>4
  <2>9. w <= Interval[t]
    BY <2>1, <2>5, Small, Constants
  <2> QED
    BY <2>1, <2>5, <2>7, <2>8, <2>9
<1>14. First' = First \/ First' \notin Running
  <2>1. CASE Members(r) = Running
    BY <1>4, <1>5, <1>7, <2>1 DEF InsertedInto, First
  <2>2. CASE Members(r) # Running
    <3>1. Running = {tick}
      BY <1>1, <1>6, <1>8, <1>9, <2>2, Constants
    <3> QED
      BY <1>9, <3>1
  <2> QED
    BY <2>1, <2>2
<1>15. Bound(First)' = (IF First' = tick THEN 2 * Least ELSE Least) /\ Least \in Nat
  BY Small DEF Bound, Least
<1>16. Deadlines'
  <2>1. \A t \in Running' : Late(t)' \in Int /\ Late(t)' <= Late(First)'
    <3>1. \A t \in Running' : Late(t)' = Passed - Due(r, t) /\ Due(r, t) \in Nat
      BY <1>7, <1>8, <1>11 DEF Late
    <3>2. Late(First)' = Passed - Due(r, r.list[1]) /\ Due(r, r.list[1]) \in Nat
      BY <1>7, <1>8, <1>11 DEF Late
    <3> QED
      BY <1>7, <1>8, <1>9, <3>1, <3>2
  <2>2. Late(First)' <= Bound(First)' + lag'
    <3>1. CASE First' = First
      <4>1. Late(First) <= Bound(First) + lag
        BY <1>1, <1>9 DEF Timed, Deadlines
      <4>2. Late(First)' = Late(First)
        BY <1>9, <1>12, <3>1 DEF Late
      <4> QED
        BY <1>2, <1>9, <1>15, <3>1, <4>1, <4>2
    <3>2. CASE First' \notin Running
      <4>1. PICK t \in Members(r) : t = First' /\ t \notin Running
        BY <1>7, <1>8, <3>2
      <4>2. Late(t)' <= 0
        BY <1>13, <4>1
      <4>3. Late(First)' = Late(t)'
        BY <4>1 DEF Late
      <4> QED
        BY <1>2, <1>10, <1>15, <2>1, <4>1, <4>2, <4>3, <1>7
    <3> QED
      BY <1>14, <3>1, <3>2
  <2>3. ASSUME NEW t \in Running'
        PROVE  /\ -Interval[t] <= Late(t)' /\ Late(t)' <= Bound(First)' + lag'
               /\ shifted'[t] \/ ran'[t] = Interval[t] + Late(t)'
    <3>1. Late(t)' <= Bound(First)' + lag'
      <4>1. Late(First)' \in Int /\ Bound(First)' + lag' \in Int
        BY <1>2, <1>7, <1>8, <1>10, <1>15, <2>1
      <4> QED
        BY <2>1, <2>2, <4>1
    <3>2. CASE t \in Running
      <4>1. -Interval[t] <= Late(t) /\ (shifted[t] \/ ran[t] = Interval[t] + Late(t))
        BY <1>1, <3>2 DEF Timed, Deadlines
      <4> QED
        BY <1>12, <3>1, <3>2, <4>1
    <3>3. CASE t \notin Running
      <4>1. PICK w \in Nat : /\ Late(t)' = w - Interval[t] /\ ran'[t] = w
                             /\ Interval[t] \in Nat
        BY <1>7, <1>13, <3>3
      <4>2. -Interval[t] <= w - Interval[t] /\ w = Interval[t] + (w - Interval[t])
        BY <4>1
      <4> QED
        BY <3>1, <4>1, <4>2
    <3> QED
      BY <3>2, <3>3
  <2>4. Due(List0, tick)' <= Interval[tick]
    BY <1>1, <1>7, <1>12 DEF Timed, Deadlines
  <2> QED
    BY <2>3, <2>4 DEF Deadlines
<1>17. Alarm' /\ Expiries'
  <2>1. CASE First' \notin Running
    <3>1. PICK t \in Members(r) : t = First' /\ t \notin Running
      BY <1>7, <1>8, <2>1
    <3>2. t = button /\ Late(t)' < lag
      BY <1>10, <1>13, <3>1
    <3>3. Late(First)' = Late(t)'
      BY <3>1 DEF Late
    <3>4. Late(First)' < 0 + lag'
      BY <1>2, <1>10, <3>2, <3>3
    <3>5. Renewed'
      BY <3>1, <3>2, <3>4, Constants DEF Renewed
    <3>6. FirstOf(r.list) # First
      BY <1>7, <1>8, <1>9, <2>1
    <3>7. update
      BY <1>1, <1>b, <1>8, <3>6 DEF Timed, Alarm
    <3>8. low' = [at |-> "compare"]
      BY <1>2, <3>7
    <3> QED
      BY <1>1, <1>2, <3>5, <3>8 DEF Alarm, Expiries, Idle
  <2>2. CASE First' = First
    <3>1. Late(First)' = Late(First) /\ Bound(First)' = Bound(First)
      BY <1>9, <1>12, <1>15, <2>2 DEF Late
    <3>2. Renewed => Renewed'
      BY <1>2, <2>2, <3>1 DEF Renewed, Least
    <3>3. Awake => Awake'
      BY <1>2, <2>2, <3>1 DEF Awake, Distance
    <3>4. FirstOf(r.list) = First
      BY <1>7, <1>8, <2>2
    <3>5. CASE low.update \/ low.head = None
      <4>1. update /\ Renewed'
        BY <1>1, <1>b, <1>8, <3>2, <3>5 DEF Timed, Alarm
      <4>2. low' = [at |-> "compare"]
        BY <1>2, <4>1
      <4> QED
        BY <1>1, <1>2, <4>1, <4>2 DEF Alarm, Expiries, Idle
    <3>6. CASE ~(low.update \/ low.head = None)
      <4>1. ~update /\ Awake'
        BY <1>1, <1>b, <3>3, <3>4, <3>6 DEF Timed, Alarm
      <4>2. low' = Idle
        BY <1>2, <4>1
      <4> QED
        BY <1>1, <1>2, <4>1, <4>2 DEF Alarm, Expiries, Idle
    <3> QED
      BY <3>5, <3>6
  <2> QED
    BY <1>14, <2>1, <2>2
<1>18. /\ opQueue'["high"] = <<>> /\ opQueue'["main"] = <<>> /\ opQueue'["draft"] = <<>>
       /\ OpsTimed'
  <2>1. opQueue'["high"] = <<>> /\ opQueue'["main"] = <<>> /\ opQueue'["draft"] = <<>>
    BY <1>1, <1>2 DEF QueuesKept, Queues, After
  <2>2. Len(<<>>) = 0 /\ \A i : i \notin 1..0
    OBVIOUS
  <2> QED
    BY <2>1, <2>2 DEF OpsTimed, Queues
<1>19. Phased'
  <2>1. tick \in Running'
    BY <1>6, <1>7
  <2> QED
    BY <1>1, <1>2, <1>7, <1>18, <2>1 DEF TimeInv, Phased, After, pinVars
<1> QED
  BY <1>16, <1>17, <1>18, <1>19 DEF TimeInv, Timed

\* What SWI0 makes of the list, one operation after the other.
Taken == IF elapsed # None THEN elapsed ELSE 0
UpdatedBy(before, deleted, e, r) ==
  /\ before \in ListType /\ before.list = list /\ Members(before) = Running
  /\ before.latest = (latest + Taken) % CounterMod
  /\ before.reset = rtcReset /\ before.clear = FALSE
  /\ before.ran = ran /\ before.shifted = shifted
  /\ \A t : Due(before, t) = Due(List0, t)
  /\ \E ops : /\ ops = opQueue["main"] \o opQueue["high"]
              /\ RemovedFrom(deleted, before, OfType(ops, Len(ops), "stop"))
  /\ IF elapsed # None THEN ExpiredInto(e, deleted, elapsed, latest)
     ELSE e.removed = deleted /\ e.restarted = deleted
  /\ e.restarted \in ListType
  /\ InsertedInto(r, e.restarted, opQueue["main"], Len(opQueue["main"]))
  /\ SetList(r)
  /\ clearing' = (clearing \/ deleted.clear)
  /\ opQueue'["main"] = <<>>
  /\ ~deleted.clear => \A u \in {"high", "draft"} : opQueue'[u] = opQueue[u]
  /\ low' = [at |-> "insert", head |-> FirstOf(e.removed.list),
             update |-> elapsed # None \/ FirstOf(deleted.list) # FirstOf(list)]

LEMMA UpdateIs ==
  ASSUME IInv, UpdateList
  PROVE  \E before, deleted, e, r : UpdatedBy(before, deleted, e, r)
<1>1. TimersTyped /\ QueuesKept
  BY DEF IInv
<1>a. PICK before : before = [List0 EXCEPT !.latest = (@ + Taken) % CounterMod]
  OBVIOUS
<1>b. PICK deleted : deleted = Deletions(before)
  OBVIOUS
<1>c. PICK e : e = IF elapsed # None THEN Expire(deleted, Taken, latest)
                   ELSE [removed |-> deleted, restarted |-> deleted]
  OBVIOUS
<1>d. PICK r : r = Insertions(e.restarted, "main")
  OBVIOUS
<1>2. /\ SetList(r)
      /\ clearing' = (clearing \/ deleted.clear)
      /\ opQueue' = [u \in Queues |->
           CASE u = "main" -> <<>>
             [] u # "main" /\ deleted.clear -> Outdated(opQueue)[u]
             [] OTHER -> opQueue[u]]
      /\ low' = [at |-> "insert", head |-> FirstOf(e.removed.list),
                 update |-> elapsed # None \/ FirstOf(deleted.list) # FirstOf(list)]
  BY <1>a, <1>b, <1>c, <1>d DEF UpdateList, Taken
<1>3. opQueue'["main"] = <<>>
      /\ (~deleted.clear => \A u \in {"high", "draft"} : opQueue'[u] = opQueue[u])
  BY <1>2 DEF Queues
<1>4. Taken \in Nat
  BY <1>1 DEF TimersTyped, Taken
<1>5. /\ before \in ListType /\ before.list = list /\ Members(before) = Running
      /\ before.latest = (latest + Taken) % CounterMod
      /\ before.reset = rtcReset /\ before.clear = FALSE
      /\ before.ran = ran /\ before.shifted = shifted
      /\ \A t : Due(before, t) = Due(List0, t)
  <2>1. latest + Taken \in Int
    BY <1>1, <1>4 DEF TimersTyped, Counter
  <2>2. PICK x : x = (latest + Taken) % CounterMod
    OBVIOUS
  <2>3. x \in Counter
    BY <2>1, <2>2, DiffType
  <2>4. before = [List0 EXCEPT !.latest = x]
    BY <1>1, <1>a, <2>2, List0Typed
  <2>5. List0 \in ListType /\ List0.clear = FALSE
    BY <1>1, List0Typed DEF List0
  <2>6. /\ before \in ListType /\ before.list = list /\ before.toExpire = toExpire
        /\ before.latest = x /\ before.reset = rtcReset /\ before.clear = FALSE
        /\ before.ran = ran /\ before.shifted = shifted
    BY <1>1, <2>3, <2>4, <2>5, List0Typed DEF ListType
  <2>7. Members(before) = Running
    BY <2>6 DEF Members, Running
  <2>8. \A t : Due(before, t) = Due(List0, t)
    BY <1>1, <2>6, List0Typed DEF Due
  <2> QED
    BY <2>2, <2>6, <2>7, <2>8
<1>6. PICK ops : ops = opQueue["main"] \o opQueue["high"]
  OBVIOUS
<1>7. RemovedFrom(deleted, before, OfType(ops, Len(ops), "stop"))
  BY <1>1, <1>b, <1>5, <1>6, StopsOfMain, Deleted
<1>8. deleted \in ListType
  BY <1>7 DEF RemovedFrom
<1>9. /\ e.restarted \in ListType
      /\ IF elapsed # None THEN ExpiredInto(e, deleted, elapsed, latest)
         ELSE e.removed = deleted /\ e.restarted = deleted
  <2>1. CASE elapsed # None
    <3>1. e = Expire(deleted, elapsed, latest) /\ latest \in Counter /\ elapsed \in Nat
      BY <1>1, <1>c, <2>1 DEF TimersTyped, Taken
    <3> QED
      BY <1>8, <2>1, <3>1, ExpireTyped, ExpireDone
  <2>2. CASE ~(elapsed # None)
    BY <1>c, <1>8, <2>2
  <2> QED
    BY <2>1, <2>2
<1>10. InsertedInto(r, e.restarted, opQueue["main"], Len(opQueue["main"]))
  <2>1. PICK starts : starts = opQueue["main"]
    OBVIOUS
  <2>2. starts \in Seq(Ops)
    BY <1>1, <2>1 DEF QueuesKept, Queues
  <2>3. InsertedInto(r, e.restarted, starts, Len(starts))
    BY <1>d, <1>9, <2>1, <2>2, Inserted
  <2> QED
    BY <2>1, <2>3
<1>11. UpdatedBy(before, deleted, e, r)
  BY <1>2, <1>3, <1>5, <1>6, <1>7, <1>9, <1>10 DEF UpdatedBy
<1> QED
  BY <1>11

\* The operations that wait stay timely, if the counter is not cleared.
LEMMA OpsWait ==
  ASSUME OpsTimed, counter' = counter, lag' = lag, opQueue'["main"] = <<>>,
         \A u \in {"high", "draft"} : opQueue'[u] = opQueue[u], low'.at = "insert"
  PROVE  OpsTimed'
<1>1. \A op : Timely(op) => Timely(op)'
  BY DEF Timely
<1>2. Len(<<>>) = 0 /\ \A i : i \notin 1..0
  OBVIOUS
<1>3. (\A i \in 1..Len(opQueue["main"]) : Timely(opQueue["main"][i]))'
  BY <1>2
<1>4. \A u \in {"high", "draft"} : (\A i \in 1..Len(opQueue[u]) : Timely(opQueue[u][i]))'
  BY <1>1 DEF OpsTimed, Queues
<1> QED
  BY <1>3, <1>4 DEF OpsTimed, Queues

\* SWI0 puts the tick timer into the list.
LEMMA FirstUpdateTimed ==
  ASSUME IInv, IInv', TimeInv, TicksAreLong, UpdateList, UNCHANGED pinVars,
         tick \notin Running
  PROVE  TimeInv'
<1>1. /\ Before /\ main = "done" /\ opQueue["main"] # <<>> /\ opQueue["draft"] = <<>>
      /\ TimersTyped /\ QueuesKept /\ ~rtcReset /\ ~clearing /\ ~rebased
      /\ list = <<>> /\ elapsed = None /\ latest = 0 /\ counter = 0 /\ lag = 0
      /\ Running = {}
  BY DEF IInv, TimeInv, Phased, Before, UpdateList, Running, Range
<1>2. PICK before, deleted, e, r : UpdatedBy(before, deleted, e, r)
  BY UpdateIs
<1>3. /\ counter' = counter /\ lag' = lag /\ rebased' = rebased /\ elapsed' = None
      /\ main' = main /\ edges' = edges
  BY DEF UpdateList, pinVars
<1>4. before.latest = 0
  BY <1>1, <1>2, Constants DEF UpdatedBy, Taken
<1>5. /\ deleted \in ListType /\ Members(deleted) = {} /\ deleted.latest = 0
      /\ ~deleted.reset /\ ~deleted.clear
  BY <1>1, <1>2, <1>4 DEF UpdatedBy, RemovedFrom, Counting
<1>6. e.restarted = deleted
  BY <1>1, <1>2 DEF UpdatedBy
<1>a. PICK starts : starts = opQueue["main"]
  OBVIOUS
<1>7. /\ starts \in Seq(TickOps) /\ starts # <<>> /\ Len(starts) \in Nat /\ Len(starts) # 0
      /\ \A i \in 1..Len(starts) : /\ starts[i].type = "start" /\ starts[i].timer = tick
                                   /\ starts[i].at \in Counter /\ starts[i].waited \in Nat
  <2>1. starts \in Seq(TickOps) /\ starts # <<>>
    BY <1>1, <1>a DEF QueuesKept
  <2>2. Len(starts) \in Nat /\ Len(starts) # 0 /\ \A i \in 1..Len(starts) : starts[i] \in TickOps
    BY <2>1, LenProperties, EmptySeq, ElementOfSeq
  <2> QED
    BY <2>1, <2>2 DEF TickOps, Ops
<1>8. InsertedInto(r, deleted, starts, Len(starts)) /\ SetList(r)
  BY <1>2, <1>6, <1>a DEF UpdatedBy
<1>9. r \in ListType /\ Members(r) = {tick} /\ r.latest = 0 /\ ~r.reset
  <2>1. OfType(starts, Len(starts), "start") = {tick}
    BY <1>7, Constants DEF OfType
  <2> QED
    BY <1>5, <1>8, <2>1 DEF InsertedInto, Counting
<1>10. PICK i \in 1..Len(starts) :
         /\ Due(r, tick) = TicksToExpire(deleted, starts[i].at, Interval[tick])
         /\ r.ran[tick] = starts[i].waited /\ r.shifted[tick] = (starts[i].shifted \/ FALSE)
  BY <1>5, <1>8, <1>9 DEF InsertedInto, StartedBy
<1>11. starts[i].waited = 0 /\ Diff(counter, starts[i].at) = 0 /\ ~starts[i].shifted
  <2>1. Timely(starts[i])
    BY <1>a DEF TimeInv, OpsTimed, Queues
  <2>2. starts[i].type = "start" /\ starts[i].waited \in Nat
    BY <1>7
  <2>3. starts[i].waited <= 0 /\ Diff(counter, starts[i].at) = starts[i].waited
        /\ ~starts[i].shifted
    BY <1>1, <2>1, <2>2 DEF Timely
  <2> QED
    BY <2>2, <2>3
<1>12. Due(r, tick) = Interval[tick]
  <2>1. 0 \in Counter /\ Diff(0, 0) = 0
    BY Constants, DiffOpposite
  <2>2. Interval[tick] \in Nat /\ 0 <= MaxLag /\ Diff(0, 0) + MaxLag < Half /\ tick \in Timers
    <3>1. tick \in Timers
      BY Constants
    <3>2. 2 * (Interval[tick] + MaxLag + OffsetMin) <= Half /\ Half \in Nat
      BY <3>1, Small
    <3> QED
      BY <2>1, <3>1, <3>2, Constants
  <2>3. starts[i].at \in Counter
    BY <1>7
  <2>4. TicksToExpire(deleted, starts[i].at, Interval[tick])
          = Diff(counter, deleted.latest) - 0 + Interval[tick]
    BY <1>1, <1>5, <1>11, <2>1, <2>2, <2>3, StartDue
  <2> QED
    BY <1>1, <1>5, <1>10, <2>1, <2>2, <2>4
<1>13. /\ First' = tick /\ Running' = {tick} /\ Due(List0, tick)' = Interval[tick]
       /\ latest' = 0 /\ ~rtcReset' /\ ran'[tick] = 0 /\ ~shifted'[tick]
  <2>1. r.list[1] = tick
    BY <1>9, FirstIs
  <2> QED
    BY <1>8, <1>9, <1>10, <1>11, <1>12, <2>1, BecomesList
<1>14. Passed' = 0 /\ Late(tick)' = -Interval[tick] /\ Late(First)' = -Interval[tick]
  <2>1. 0 \in Counter /\ Diff(0, 0) = 0
    BY Constants, DiffOpposite
  <2>2. Passed' = 0
    BY <1>1, <1>3, <1>13, <2>1 DEF Passed
  <2>3. Interval[tick] \in Nat
    BY Small
  <2>4. Late(tick)' = 0 - Interval[tick]
    BY <1>13, <2>2 DEF Late
  <2>5. Late(First)' = Late(tick)'
    BY <1>13 DEF Late
  <2> QED
    BY <2>2, <2>3, <2>4, <2>5
<1>15. Interval[tick] \in Nat /\ Least \in Nat /\ Interval[tick] > 0 /\ lag' = 0
  BY <1>1, <1>3, Small
<1>16. Deadlines'
  <2>1. Bound(First)' = 2 * Least
    BY <1>13 DEF Bound, Least
  <2> QED
    BY <1>13, <1>14, <1>15, <2>1 DEF Deadlines
<1>17. Renewed'
  BY <1>13, <1>14, <1>15 DEF Renewed, Least
<1>18. low'.at = "insert" /\ low'.head = None
  <2>1. e.removed = deleted /\ deleted.list = <<>>
    BY <1>1, <1>2, <1>5 DEF UpdatedBy, RemovedFrom
  <2> QED
    BY <1>2, <2>1 DEF UpdatedBy, FirstOf
<1>19. Alarm' /\ Expiries'
  BY <1>3, <1>17, <1>18 DEF Alarm, Expiries, Idle
<1>20. OpsTimed' /\ opQueue'["main"] = <<>> /\ opQueue'["draft"] = <<>>
  BY <1>1, <1>2, <1>3, <1>5, <1>18, OpsWait DEF TimeInv, UpdatedBy
<1>21. Phased'
  <2>1. ~clearing'
    BY <1>1, <1>2, <1>5 DEF UpdatedBy
  <2> QED
    BY <1>1, <1>3, <1>13, <1>20, <2>1 DEF TimeInv, Phased, After
<1> QED
  BY <1>16, <1>19, <1>20, <1>21 DEF TimeInv, Timed

\* With the tick timer in the list, SWI0 stops at most the detection timer, never
\* clears the counter, and finds nothing in the queue of main().
LEMMA UpdateAfter ==
  ASSUME IInv, TimeInv, tick \in Running, NEW before, NEW deleted, NEW e, NEW r,
         UpdatedBy(before, deleted, e, r)
  PROVE  /\ deleted \in ListType /\ tick \in Members(deleted)
         /\ Members(deleted) \subseteq Running
         /\ Members(deleted) = Running => deleted.list = list
         /\ Members(deleted) # Running => button \in Running /\ Members(deleted) = {tick}
         /\ deleted.latest = (latest + Taken) % CounterMod
         /\ ~deleted.reset /\ ~deleted.clear
         /\ deleted.ran = ran /\ deleted.shifted = shifted
         /\ \A t \in Members(deleted) : Due(deleted, t) = Due(List0, t)
         /\ r \in ListType /\ Members(r) = Members(e.restarted)
         /\ r.list = e.restarted.list
         /\ Counting(r, e.restarted)
         /\ \A t \in Members(r) : SameTimer(r, e.restarted, t)
<1> USE DEF UpdatedBy
<1>1. /\ After /\ TimersTyped /\ QueuesKept /\ ~rtcReset
      /\ opQueue["main"] = <<>>
  BY DEF IInv, TimeInv, Phased, After
<1>2. PICK ops : /\ ops = opQueue["main"] \o opQueue["high"]
                 /\ RemovedFrom(deleted, before, OfType(ops, Len(ops), "stop"))
  OBVIOUS
<1>3. PICK high : high = opQueue["high"]
  OBVIOUS
<1>4. ops = high /\ high \in Seq(ButtonOps)
  <2>1. high \in Seq(ButtonOps)
    BY <1>1, <1>3 DEF QueuesKept
  <2>2. <<>> \o high = high
    BY <2>1, ConcatEmptySeq
  <2> QED
    BY <1>1, <1>2, <1>3, <2>1, <2>2
<1>5. tick \notin OfType(ops, Len(ops), "stop")
  <2>1. \A i \in 1..Len(high) : high[i] \in ButtonOps
    BY <1>4, ElementOfSeq
  <2> QED
    BY <1>4, <2>1, Constants DEF OfType, ButtonOps
<1>6. /\ deleted \in ListType /\ tick \in Members(deleted)
      /\ Members(deleted) \subseteq Running
      /\ Members(deleted) = Running => deleted.list = list
      /\ deleted.latest = (latest + Taken) % CounterMod
      /\ ~deleted.reset /\ ~deleted.clear
      /\ deleted.ran = ran /\ deleted.shifted = shifted
      /\ \A t \in Members(deleted) : Due(deleted, t) = Due(List0, t)
  BY <1>1, <1>2, <1>5 DEF RemovedFrom, Counting
<1>7. Members(deleted) # Running => button \in Running /\ Members(deleted) = {tick}
  <2>1. Running \subseteq {tick, button}
    BY <1>1, Late0
  <2> QED
    BY <1>6, <2>1
<1>8. InsertedInto(r, e.restarted, <<>>, 0)
  <2>1. Len(<<>>) = 0
    OBVIOUS
  <2> QED
    BY <1>1, <2>1
<1>9. OfType(<<>>, 0, "start") = {}
  BY DEF OfType
<1> QED
  BY <1>6, <1>7, <1>8, <1>9 DEF InsertedInto

\* What does not depend on whether expired ticks were queued.
LEMMA UpdatePhase ==
  ASSUME IInv, TimeInv, tick \in Running, UpdateList, UNCHANGED pinVars,
         NEW before, NEW deleted, NEW e, NEW r, UpdatedBy(before, deleted, e, r),
         tick \in Members(r), ~r.reset
  PROVE  Phased' /\ OpsTimed'
<1>1. ~deleted.clear
  BY UpdateAfter
<1>2. /\ counter' = counter /\ lag' = lag /\ rebased' = rebased
      /\ main' = main /\ edges' = edges
  BY DEF UpdateList, pinVars
<1>3. ~clearing' /\ low'.at = "insert" /\ opQueue'["main"] = <<>>
      /\ \A u \in {"high", "draft"} : opQueue'[u] = opQueue[u]
  BY <1>1 DEF UpdatedBy, TimeInv, Phased
<1>4. Running' = Members(r) /\ rtcReset' = r.reset
  <2>1. r \in ListType
    BY UpdateAfter
  <2> QED
    BY <2>1, BecomesList DEF UpdatedBy
<1>5. Phased'
  BY <1>2, <1>3, <1>4 DEF TimeInv, Phased, After
<1> QED
  BY <1>2, <1>3, <1>5, OpsWait DEF TimeInv

\* No timer has expired since SWI0 was here.
LEMMA PlainUpdateTimed ==
  ASSUME IInv, IInv', TimeInv, TicksAreLong, UpdateList, UNCHANGED pinVars,
         tick \in Running, elapsed = None
  PROVE  TimeInv'
<1>1. /\ Timed /\ TimersTyped /\ low = Idle /\ ~RtcReady
  BY DEF IInv, TimeInv, UpdateList
<1>2. PICK before, deleted, e, r : UpdatedBy(before, deleted, e, r)
  BY UpdateIs
<1>3. /\ deleted \in ListType /\ tick \in Members(deleted)
      /\ Members(deleted) \subseteq Running
      /\ Members(deleted) = Running => deleted.list = list
      /\ Members(deleted) # Running => button \in Running /\ Members(deleted) = {tick}
      /\ deleted.latest = (latest + Taken) % CounterMod
      /\ ~deleted.reset /\ deleted.ran = ran /\ deleted.shifted = shifted
      /\ \A t \in Members(deleted) : Due(deleted, t) = Due(List0, t)
      /\ r \in ListType /\ Members(r) = Members(e.restarted) /\ r.list = e.restarted.list
      /\ Counting(r, e.restarted)
      /\ \A t \in Members(r) : SameTimer(r, e.restarted, t)
  BY <1>2, UpdateAfter
<1>4. e.removed = deleted /\ e.restarted = deleted /\ SetList(r)
      /\ low' = [at |-> "insert", head |-> FirstOf(deleted.list),
                 update |-> FirstOf(deleted.list) # FirstOf(list)]
  BY <1>2 DEF UpdatedBy
<1>5. deleted.latest = latest
  <2>1. latest \in Counter
    BY <1>1 DEF TimersTyped
  <2> QED
    BY <1>3, <2>1, Constants DEF Taken, Counter
<1>6. /\ First' = deleted.list[1] /\ Running' = Members(deleted)
      /\ \A t \in Running' : Due(List0, t)' = Due(List0, t)
      /\ latest' = latest
      /\ \A t \in Running' : ran'[t] = ran[t] /\ shifted'[t] = shifted[t]
  BY <1>3, <1>4, <1>5, BecomesList DEF SameTimer, Counting
<1>7. /\ counter' = counter /\ lag' = lag /\ cc' = cc /\ armed' = armed /\ elapsed' = None
      /\ rtcRunning' = rtcRunning /\ rtcPending' = rtcPending
  BY DEF UpdateList
<1>8. Passed' = Passed /\ \A t \in Running' : Late(t)' = Late(t)
  BY <1>6, <1>7 DEF Passed, Late
<1>9. /\ Passed \in Nat /\ First \in Running /\ FirstOf(list) = First /\ First # None
      /\ \A t \in Running : /\ t \in {tick, button} /\ Late(t) \in Int
                            /\ Late(t) <= Late(First)
      /\ Bound(First) = (IF First = tick THEN 2 * Least ELSE Least)
  BY <1>1, Late0
<1>10. Least \in Nat /\ lag \in Nat
  BY <1>1, PassedBounded, Small DEF Timed
<1>11. FirstOf(deleted.list) = First' /\ First' # None /\ First' \in Running'
  BY <1>3, <1>6, FirstIs
<1>12. Bound(First)' = (IF First' = tick THEN 2 * Least ELSE Least)
  BY DEF Bound, Least
<1>13. Awake
  BY <1>1 DEF Timed, Alarm
<1>14. \/ First' = First
       \/ First' = tick /\ First = button /\ Late(tick) < Least + lag
  <2>1. CASE Members(deleted) = Running
    BY <1>3, <1>6, <2>1 DEF First
  <2>2. CASE Members(deleted) # Running
    <3>1. First' = tick
      BY <1>3, <1>6, <1>11, <2>2
    <3>2. ASSUME First # tick
          PROVE  First = button /\ Late(tick) < Least + lag
      <4>1. First = button /\ Bound(First) = Least
        BY <1>9, <3>2
      <4>2. ~rtcPending
        BY <1>1, <1>13 DEF RtcReady, Awake
      <4>3. Distance >= 1 /\ Late(First) + Distance <= Least
        BY <1>13, <4>1, <4>2 DEF Awake
      <4>4. Distance \in Int
        <5>1. cc \in Counter /\ counter \in Counter
          BY <1>1 DEF TimersTyped
        <5>2. Distance \in Counter
          BY <5>1, DiffIs DEF Distance
        <5> QED
          BY <5>2 DEF Counter
      <4>5. Late(tick) \in Int /\ Late(tick) <= Late(First) /\ Late(First) \in Int
        BY <1>9
      <4> QED
        BY <1>10, <4>1, <4>3, <4>4, <4>5
    <3> QED
      BY <3>1, <3>2
  <2> QED
    BY <2>1, <2>2
<1>15. Alarm' /\ Expiries'
  <2>1. CASE First' = First
    <3>1. low'.at = "insert" /\ low'.head = First' /\ ~low'.update
      BY <1>4, <1>9, <1>11, <2>1
    <3>2. Late(First)' = Late(First)
      BY <1>8, <1>11, <2>1 DEF Late
    <3>3. Bound(First)' = Bound(First)
      BY <1>9, <1>12, <2>1
    <3>4. Awake'
      BY <1>7, <1>13, <2>1, <3>2, <3>3 DEF Awake, Distance
    <3> QED
      BY <1>7, <1>11, <3>1, <3>4 DEF Alarm, Expiries, Idle
  <2>2. CASE First' = tick /\ First = button /\ Late(tick) < Least + lag
    <3>1. low'.at = "insert" /\ low'.update
      <4>1. FirstOf(deleted.list) # FirstOf(list)
        BY <1>9, <1>11, <2>2, Constants
      <4> QED
        BY <1>4, <4>1
    <3>2. Late(First)' = Late(tick)
      <4>1. Late(First)' = Late(tick)'
        BY <2>2 DEF Late
      <4> QED
        BY <1>8, <1>11, <2>2, <4>1
    <3>3. Renewed'
      BY <1>7, <2>2, <3>2 DEF Renewed, Least
    <3> QED
      BY <1>7, <3>1, <3>3 DEF Alarm, Expiries, Idle
  <2> QED
    BY <1>14, <2>1, <2>2
<1>16. Deadlines'
  <2>1. Bound(First) + lag <= Bound(First)' + lag'
    BY <1>7, <1>9, <1>10, <1>12, <1>14
  <2>2. Bound(First) + lag \in Int /\ Bound(First)' + lag' \in Int
    BY <1>7, <1>9, <1>10, <1>12
  <2>3. ASSUME NEW t \in Running'
        PROVE  /\ -Interval[t] <= Late(t)' /\ Late(t)' <= Bound(First)' + lag'
               /\ shifted'[t] \/ ran'[t] = Interval[t] + Late(t)'
    <3>1. t \in Running /\ Late(t) \in Int
      BY <1>3, <1>6, <1>9
    <3>2. /\ -Interval[t] <= Late(t) /\ Late(t) <= Bound(First) + lag
          /\ shifted[t] \/ ran[t] = Interval[t] + Late(t)
      BY <1>1, <3>1 DEF Timed, Deadlines
    <3>3. Late(t) <= Bound(First)' + lag'
      BY <2>1, <2>2, <3>1, <3>2
    <3> QED
      BY <1>6, <1>8, <3>2, <3>3
  <2>4. Due(List0, tick)' <= Interval[tick]
    BY <1>1, <1>3, <1>6 DEF Timed, Deadlines
  <2> QED
    BY <2>3, <2>4 DEF Deadlines
<1>17. OpsTimed' /\ Phased'
  <2>1. tick \in Members(r) /\ ~r.reset
    BY <1>3, <1>4 DEF Counting
  <2> QED
    BY <1>2, <2>1, UpdatePhase
<1> QED
  BY <1>15, <1>16, <1>17 DEF TimeInv, Timed

\* A timer starts again for the time at which it expired, or expires at once
\* when another period is over.
LEMMA RestartDue ==
  ASSUME TicksAreLong, latest \in Counter, NEW l, NEW E \in Nat, NEW D \in Nat,
         D <= E, E < Half, l.latest = (latest + E) % CounterMod,
         NEW I \in Nat
  PROVE  TicksToExpire(l, (latest + D) % CounterMod, I) = Largest(I - (E - D), 0)
         /\ (latest + D) % CounterMod \in Counter
<1>1. PICK y \in Counter : y = (latest + E) % CounterMod
  <2>1. E \in Counter
    BY Small, Constants DEF Counter
  <2> QED
    BY <2>1, SumIs
<1>2. PICK at \in Counter : at = (latest + D) % CounterMod
  <2>1. D \in Counter
    BY Small, Constants DEF Counter
  <2> QED
    BY <2>1, SumIs
<1>3. Half \in Nat /\ 2 * Half < CounterMod /\ CounterMod \in Nat
  BY Small, Constants
<1>4. Diff(y, latest) = E /\ Diff(at, latest) = D
  <2>1. D \in Counter /\ E \in Counter
    BY <1>3 DEF Counter
  <2> QED
    BY <1>1, <1>2, <2>1, DiffMoves
<1>5. Diff(y, at) = E - D
  BY <1>4, DiffBetween
<1>6. CASE D = E
  <2>1. y = at
    BY <1>1, <1>2, <1>6
  <2>2. Diff(at, y) = 0
    BY <2>1, DiffOpposite
  <2>3. ~(Half <= 0) => TicksToExpire(l, at, I) = 0 + I
    BY <1>1, <1>3, <2>2 DEF TicksToExpire, Half
  <2>4. Largest(I - (E - D), 0) = 0 + I
    BY <1>6 DEF Largest
  <2> QED
    BY <1>2, <1>3, <1>6, <2>3, <2>4
<1>7. CASE D # E
  <2>1. Diff(at, y) = CounterMod - (E - D)
    <3>1. Diff(y, at) # 0
      BY <1>5, <1>7
    <3> QED
      BY <1>5, <3>1, DiffOpposite
  <2>2. ~(Diff(at, y) < Half)
    BY <1>3, <2>1
  <2>3. TicksToExpire(l, at, I) = Largest(I - Diff(y, at), 0)
    BY <1>1, <2>2 DEF TicksToExpire, Half
  <2> QED
    BY <1>2, <1>5, <2>3
<1> QED
  BY <1>6, <1>7

\* Expired timers leave the list, and the tick timer starts again.
LEMMA ExpiryUpdateTimed ==
  ASSUME IInv, IInv', TimeInv, TicksAreLong, UpdateList, UNCHANGED pinVars,
         tick \in Running, elapsed # None
  PROVE  TimeInv'
<1>1. /\ Timed /\ TimersTyped /\ Counted(elapsed) /\ elapsed \in Nat
  BY DEF IInv, TimeInv, Timed, Expiries, TimersTyped
<1>2. PICK before, deleted, e, r : UpdatedBy(before, deleted, e, r)
  BY UpdateIs
<1>a. PICK E : E = elapsed
  OBVIOUS
<1>3. /\ deleted \in ListType /\ tick \in Members(deleted)
      /\ Members(deleted) \subseteq Running
      /\ deleted.latest = (latest + E) % CounterMod
      /\ ~deleted.reset /\ deleted.ran = ran /\ deleted.shifted = shifted
      /\ \A t \in Members(deleted) : Due(deleted, t) = Due(List0, t)
      /\ r \in ListType /\ Members(r) = Members(e.restarted) /\ r.list = e.restarted.list
      /\ Counting(r, e.restarted)
      /\ \A t \in Members(r) : SameTimer(r, e.restarted, t)
  BY <1>2, <1>a, UpdateAfter DEF Taken
<1>4. ExpiredInto(e, deleted, E, latest) /\ SetList(r) /\ E \in Nat
      /\ low'.at = "insert" /\ low'.update
  BY <1>1, <1>2, <1>a DEF UpdatedBy
<1>5. /\ e.removed \in ListType
      /\ Members(e.removed) = {t \in Members(deleted) : Due(deleted, t) > E}
      /\ e.removed.latest = deleted.latest /\ ~e.removed.reset
      /\ e.removed.ran = ran /\ e.removed.shifted = shifted
      /\ \A t \in Members(e.removed) : Due(e.removed, t) = Due(deleted, t) - E
  BY <1>3, <1>4 DEF ExpiredInto, RemainsOf, Aside
<1>6. /\ Passed \in Nat /\ Passed \in Counter
      /\ \A t \in Running : /\ t \in Timers /\ t \in {tick, button} /\ Due(List0, t) \in Nat
                            /\ Late(t) = Passed - Due(List0, t) /\ Late(t) \in Int
                            /\ Late(t) <= Late(First)
      /\ First \in Running
      /\ Bound(First) = (IF First = tick THEN 2 * Least ELSE Least)
  BY <1>1, Late0
<1>7. /\ Passed + MaxLag < Half /\ lag \in Nat /\ E <= Passed /\ E < Half
      /\ \A t \in Running : Due(List0, t) > E => Late(t) < lag
  <2>1. Passed + MaxLag < Half /\ lag \in Nat /\ E <= Passed /\ Half \in Nat
        /\ \A t \in Running : Due(List0, t) > E => Late(t) < lag
    BY <1>1, <1>a, PassedBounded, Small DEF Timed, Counted
  <2> QED
    BY <1>4, <1>6, <2>1, Constants
<1>8. /\ Least \in Nat /\ Interval[tick] \in Nat /\ Interval[tick] > 2 * Least
      /\ tick # button /\ tick \in Timers
  BY Small, Constants
<1>9. counter \in Counter /\ latest \in Counter /\ ran \in [Timers -> Int]
      /\ shifted \in [Timers -> BOOLEAN]
  BY <1>1 DEF TimersTyped
<1>10. /\ counter' = counter /\ lag' = lag /\ elapsed' = None
  BY DEF UpdateList
\* The list that has been restarted.
<1>b. PICK m : m = e.restarted
  OBVIOUS
<1>11. /\ m \in ListType /\ m.latest = deleted.latest /\ ~m.reset /\ tick \in Members(m)
       /\ Members(m) \subseteq Running
       /\ \A t \in Members(m) \ {tick} :
            /\ Due(List0, t) > E /\ Due(m, t) = Due(List0, t) - E
            /\ m.ran[t] = ran[t] /\ m.shifted[t] = shifted[t]
       /\ IF Due(List0, tick) > E
          THEN /\ Due(m, tick) = Due(List0, tick) - E
               /\ m.ran[tick] = ran[tick] /\ m.shifted[tick] = shifted[tick]
          ELSE LET ticks == Largest(Interval[tick] - (E - Due(List0, tick)), 0)
               IN /\ Due(m, tick) = ticks /\ m.ran[tick] = ran[tick] - Interval[tick]
                  /\ m.shifted[tick] = (shifted[tick] \/ ticks = 0)
  <2>1. Due(deleted, tick) = Due(List0, tick) /\ Due(List0, tick) \in Nat
    BY <1>3, <1>6
  <2>2. CASE Due(List0, tick) > E
    <3>1. m = e.removed
      BY <1>4, <1>b, <2>1, <2>2 DEF ExpiredInto
    <3> QED
      BY <1>3, <1>5, <2>1, <2>2, <3>1
  <2>3. CASE ~(Due(List0, tick) > E)
    <3>1. Due(List0, tick) <= E
      BY <1>4, <2>1, <2>3
    <3>2. PICK at : at = (latest + Due(List0, tick)) % CounterMod
      OBVIOUS
    <3>3. m = Restart(e.removed, tick, at)
      BY <1>3, <1>4, <1>b, <2>1, <3>1, <3>2 DEF ExpiredInto
    <3>4. PICK ticks : ticks = Largest(Interval[tick] - (E - Due(List0, tick)), 0)
      OBVIOUS
    <3>5. e.removed.latest = (latest + E) % CounterMod
      BY <1>3, <1>5
    <3>6. at \in Counter /\ ticks = TicksToExpire(e.removed, at, Interval[tick])
      BY <1>4, <1>7, <1>8, <1>9, <2>1, <3>1, <3>2, <3>4, <3>5, RestartDue
    <3>7. tick \notin Members(e.removed)
      BY <1>5, <2>1, <2>3
    <3>8. /\ m \in ListType /\ Members(m) = Members(e.removed) \union {tick}
          /\ Counting(m, e.removed)
          /\ \A u \in Members(e.removed) : SameTimer(m, e.removed, u)
          /\ Due(m, tick) = ticks
          /\ m.ran[tick] = e.removed.ran[tick] - Interval[tick]
          /\ m.shifted[tick] = (e.removed.shifted[tick] \/ ticks = 0)
      BY <1>5, <1>8, <3>3, <3>6, <3>7, Restarted
    <3>9. m.latest = deleted.latest /\ ~m.reset /\ Members(m) \subseteq Running
      BY <1>3, <1>5, <3>8 DEF Counting
    <3>10. ASSUME NEW t \in Members(m), t # tick
           PROVE  /\ Due(List0, t) > E /\ Due(m, t) = Due(List0, t) - E
                  /\ m.ran[t] = ran[t] /\ m.shifted[t] = shifted[t]
      <4>1. t \in Members(e.removed) /\ SameTimer(m, e.removed, t) /\ t \in Members(deleted)
        BY <1>5, <3>8, <3>10
      <4> QED
        BY <1>3, <1>5, <4>1 DEF SameTimer
    <3>11. m.ran[tick] = ran[tick] - Interval[tick]
           /\ m.shifted[tick] = (shifted[tick] \/ ticks = 0)
      BY <1>5, <3>8
    <3> QED
      BY <2>3, <3>4, <3>8, <3>9, <3>10, <3>11
  <2> QED
    BY <2>2, <2>3
<1>12. /\ First' = m.list[1] /\ Running' = Members(m)
       /\ \A t \in Running' : Due(List0, t)' = Due(m, t)
       /\ latest' = (latest + E) % CounterMod
       /\ \A t \in Running' : ran'[t] = m.ran[t] /\ shifted'[t] = m.shifted[t]
       /\ First' \in Running'
  <2>1. /\ First' = r.list[1] /\ Running' = Members(r)
        /\ \A t : Due(List0, t)' = Due(r, t)
        /\ latest' = r.latest
        /\ \A t \in Members(r) : ran'[t] = r.ran[t] /\ shifted'[t] = r.shifted[t]
    BY <1>3, <1>4, BecomesList
  <2>2. m.list[1] \in Members(m)
    BY <1>11, FirstIs
  <2> QED
    BY <1>3, <1>11, <1>b, <2>1, <2>2 DEF SameTimer, Counting
<1>13. Passed' = Passed - E
  <2>1. E \in Counter
    BY <1>4, <1>6, <1>7, Constants DEF Counter
  <2> QED
    BY <1>7, <1>9, <1>10, <1>12, <2>1, DiffMoves DEF Passed
<1>14. \A t \in Running' : Late(t)' = (Passed - E) - Due(m, t)
  BY <1>12, <1>13 DEF Late
<1>15. ASSUME NEW t \in Running'
       PROVE  /\ Late(t)' \in Int /\ -Interval[t] <= Late(t)' /\ Late(t)' < lag
              /\ shifted'[t] \/ ran'[t] = Interval[t] + Late(t)'
  <2>1. /\ t \in Running /\ Due(List0, t) \in Nat /\ Late(t) = Passed - Due(List0, t)
        /\ Late(t) \in Int /\ Interval[t] \in Nat
    BY <1>6, <1>11, <1>12, Constants
  <2>2. -Interval[t] <= Late(t) /\ (shifted[t] \/ ran[t] = Interval[t] + Late(t))
    BY <1>1, <2>1 DEF Timed, Deadlines
  <2>3. CASE Due(List0, t) > E
    <3>1. /\ Due(m, t) = Due(List0, t) - E
          /\ m.ran[t] = ran[t] /\ m.shifted[t] = shifted[t]
      BY <1>11, <1>12, <2>3
    <3>2. Late(t)' = Late(t)
      BY <1>4, <1>6, <1>14, <2>1, <3>1
    <3>3. Late(t) < lag
      BY <1>7, <2>1, <2>3
    <3> QED
      BY <1>12, <2>1, <2>2, <3>1, <3>2, <3>3
  <2>4. CASE ~(Due(List0, t) > E)
    <3>1. t = tick
      BY <1>11, <1>12, <2>4
    <3>2. PICK ticks : ticks = Largest(Interval[t] - (E - Due(List0, t)), 0)
      OBVIOUS
    <3>3. /\ Due(m, t) = ticks /\ m.ran[t] = ran[t] - Interval[t]
          /\ m.shifted[t] = (shifted[t] \/ ticks = 0)
      BY <1>11, <2>4, <3>1, <3>2
    <3>4. /\ ticks \in Nat /\ ticks <= Interval[t]
          /\ ticks >= Interval[t] - (E - Due(List0, t))
          /\ ticks # 0 => ticks = Interval[t] - (E - Due(List0, t))
      BY <1>4, <2>1, <2>4, <3>2 DEF Largest
    <3>5. Late(t)' = (Passed - E) - ticks
      BY <1>14, <3>3
    <3>6. Late(t) <= 2 * Least + lag
      <4>1. Late(t) <= Bound(First) + lag
        BY <1>1, <2>1 DEF Timed, Deadlines
      <4> QED
        BY <1>6, <1>7, <1>8, <2>1, <4>1
    <3>7. Late(t)' \in Int /\ -Interval[t] <= Late(t)'
      BY <1>4, <1>6, <1>7, <2>1, <3>4, <3>5
    <3>8. Late(t)' < lag
      <4>1. Late(t)' <= Late(t) - Interval[t]
        BY <1>4, <1>6, <2>1, <3>4, <3>5
      <4> QED
        BY <1>7, <1>8, <2>1, <3>1, <3>6, <3>7, <4>1
    <3>9. ASSUME ~shifted'[t]
          PROVE  ran'[t] = Interval[t] + Late(t)'
      <4>1. ~m.shifted[t]
        BY <1>12, <3>9
      <4>2. ~shifted[t] /\ ticks # 0
        BY <3>3, <4>1
      <4>3. ran[t] = Interval[t] + Late(t) /\ ticks = Interval[t] - (E - Due(List0, t))
        BY <2>2, <3>4, <4>2
      <4>4. ran'[t] = ran[t] - Interval[t]
        BY <1>12, <3>3
      <4>5. ran'[t] = Late(t)
        BY <2>1, <4>3, <4>4
      <4>6. Late(t) = Interval[t] + ((Passed - E) - ticks)
        BY <1>4, <1>6, <2>1, <4>3
      <4> QED
        BY <3>5, <4>5, <4>6
    <3> QED
      BY <3>7, <3>8, <3>9
  <2> QED
    BY <2>3, <2>4
<1>16. Bound(First)' = (IF First' = tick THEN 2 * Least ELSE Least)
  BY DEF Bound, Least
<1>17. Deadlines'
  <2>1. \A t \in Running' : Late(t)' <= Bound(First)' + lag'
    BY <1>7, <1>8, <1>10, <1>15, <1>16
  <2>2. Due(List0, tick)' <= Interval[tick]
    <3>1. Due(List0, tick) \in Nat /\ Due(List0, tick) <= Interval[tick]
      BY <1>1, <1>6 DEF Timed, Deadlines
    <3>2. Due(List0, tick)' = Due(m, tick)
      BY <1>11, <1>12
    <3>3. CASE Due(List0, tick) > E
      BY <1>4, <1>8, <1>11, <3>1, <3>2, <3>3
    <3>4. CASE ~(Due(List0, tick) > E)
      <4>1. Due(m, tick) = Largest(Interval[tick] - (E - Due(List0, tick)), 0)
        BY <1>11, <3>4
      <4>2. Largest(Interval[tick] - (E - Due(List0, tick)), 0) <= Interval[tick]
        BY <1>4, <1>8, <3>1, <3>4 DEF Largest
      <4> QED
        BY <3>2, <4>1, <4>2
    <3> QED
      BY <3>3, <3>4
  <2> QED
    BY <1>15, <2>1, <2>2 DEF Deadlines
<1>18. Renewed'
  <2>1. PICK t \in Running' : t = First'
    BY <1>12
  <2>2. Late(First)' = Late(t)'
    BY <2>1 DEF Late
  <2>3. Late(First)' \in Int /\ Late(First)' < lag
    BY <1>15, <2>1, <2>2
  <2>4. Late(First)' < (IF First' = tick THEN Least ELSE 0) + lag'
    BY <1>7, <1>8, <1>10, <2>3
  <2> QED
    BY <2>4 DEF Renewed, Least
<1>19. Alarm' /\ Expiries'
  BY <1>4, <1>10, <1>18 DEF Alarm, Expiries, Idle
<1>20. OpsTimed' /\ Phased'
  <2>1. tick \in Members(r) /\ ~r.reset
    BY <1>3, <1>11, <1>b DEF Counting
  <2> QED
    BY <1>2, <2>1, UpdatePhase
<1> QED
  BY <1>17, <1>19, <1>20 DEF TimeInv, Timed

-----------------------------------------------------------------------------
(* The theorems.                                                           *)

LEMMA UpdateTimed ==
  ASSUME IInv, IInv', TimeInv, TicksAreLong, UpdateList, UNCHANGED pinVars
  PROVE  TimeInv'
BY FirstUpdateTimed, PlainUpdateTimed, ExpiryUpdateTimed

LEMMA TimeSteps ==
  ASSUME IInv, IInv', TimeInv, TicksAreLong, MaxEarlyEdges = 0, [Next]_vars
  PROVE  TimeInv'
<1>1. edges \in Nat /\ ~clearing
  BY DEF TimeInv, Phased
<1>2. CASE TimerNext /\ UNCHANGED pinVars
  <2>1. ~ClearTakesEffect
    BY <1>1 DEF ClearTakesEffect
  <2>2. ~StopRtc
    <3>1. low.at = "compare" => low # Idle
      BY DEF Idle
    <3> QED
      BY <3>1, InList, Late0 DEF StopRtc
  <2>3. CASE Tick \/ RtcHandler \/ QueueElapsed
    BY <1>2, <2>3, TickTimed, RtcTimed, QueueElapsedTimed
  <2>4. CASE UpdateList \/ InsertHigh
    BY <1>2, <2>4, UpdateTimed, InsertTimed
  <2>5. CASE ComputeCompare \/ WriteCompare \/ CheckCompare
    BY <1>2, <2>5, ComputeTimed, WriteTimed, CheckTimed
  <2> QED
    BY <1>2, <2>1, <2>2, <2>3, <2>4, <2>5 DEF TimerNext
<1>3. ASSUME NEW p \in Pins, Edge(p)
      PROVE  TimeInv'
  BY <1>3, EdgeTimed
<1>4. CASE TestPin \/ StoreTransition \/ ReadPin \/ ReportPin \/ TickHandler
  <2>1. main' = main /\ edges' = edges
    BY <1>4 DEF TestPin, StoreTransition, ReadPin, ReportPin, TickHandler, pinVars
  <2>2. UNCHANGED timerVars \/ HandlerReturns(button) \/ HandlerReturns(tick)
    BY <1>4 DEF TestPin, StoreTransition, ReadPin, ReportPin, TickHandler
  <2>3. \A t : HandlerReturns(t) => low.at = "expire"
    BY DEF HandlerReturns
  <2> QED
    BY <1>1, <2>1, <2>2, <2>3, PinStep
<1>5. CASE MainStarts \/ MainEnqueues
  BY <1>5, MainTimed
<1>6. CASE Rest \/ UNCHANGED vars
  <2>1. UNCHANGED timerVars /\ main' = main /\ edges' \in Nat
    BY <1>1, <1>6 DEF Rest, vars, pinVars
  <2> QED
    BY <2>1, PinStep
<1> QED
  BY <1>2, <1>3, <1>4, <1>5, <1>6 DEF Next

LEMMA AlwaysTimed ==
  ASSUME TicksAreLong, MaxEarlyEdges = 0
  PROVE  Spec => [](IInv /\ TimeInv)
<1>1. Init => IInv /\ TimeInv
  BY InitKept, InitTimed
<1>2. (IInv /\ TimeInv) /\ [Next]_vars => (IInv /\ TimeInv)'
  BY StepsKeep, TimeSteps
<1> QED
  BY <1>1, <1>2, PTL DEF Spec

\* No timer is in the list before the tick timer.
LEMMA TickRuns ==
  ASSUME IInv, TimeInv, list # <<>>
  PROVE  tick \in Running /\ Timed /\ TimersTyped /\ ~clearing
BY DEF IInv, TimeInv, Phased, Before

LEMMA ModIs ==
  ASSUME NEW x \in Int, -CounterMod <= x, x < 2 * CounterMod
  PROVE  x % CounterMod = IF x < 0 THEN x + CounterMod
                          ELSE IF x < CounterMod THEN x ELSE x - CounterMod
BY Constants

\* What the properties call the remaining ticks.
LEMMA RemainingIs ==
  ASSUME IInv, TimeInv, TicksAreLong, NEW t \in Running
  PROVE  Remaining(t) = -Late(t)
<1>1. list # <<>>
  BY DEF Running, Range
<1>2. tick \in Running /\ Deadlines /\ TimersTyped /\ ~clearing
  BY <1>1, TickRuns DEF Timed
<1>a. PICK n : n = CHOOSE i \in DOMAIN list : list[i] = t
  OBVIOUS
<1>3. /\ List0 \in ListType /\ Members(List0) = Running
      /\ List0.list = list /\ List0.toExpire = toExpire
  BY <1>2, List0Typed
<1>4. n \in DOMAIN list /\ list[n] = t
  <2>1. \E i \in DOMAIN list : list[i] = t
    BY DEF Running, Range
  <2> QED
    BY <1>a, <2>1
<1>5. Span(list, toExpire, n) = Due(List0, t)
  <2>1. CASE NoTimer(List0)
    BY <1>3, <2>1 DEF NoTimer
  <2>2. ASSUME NEW a, One(List0, a)
        PROVE  Span(list, toExpire, n) = Due(List0, t)
    <3>1. n = 1 /\ t = a
      BY <1>3, <1>4, <2>2 DEF One
    <3> QED
      BY <1>3, <2>2, <3>1, ListSpans
  <2>3. ASSUME NEW a, NEW b, Two(List0, a, b)
        PROVE  Span(list, toExpire, n) = Due(List0, t)
    <3>1. (n = 1 /\ t = a) \/ (n = 2 /\ t = b)
      BY <1>3, <1>4, <2>3 DEF Two
    <3> QED
      BY <1>3, <2>3, <3>1, ListSpans
  <2> QED
    BY <1>3, <2>1, <2>2, <2>3, ListCases
<1>6. /\ Passed \in Nat /\ Due(List0, t) \in Nat /\ Late(t) = Passed - Due(List0, t)
      /\ Late(t) < Half /\ Due(List0, t) <= Passed + Interval[t] /\ Interval[t] < Half
      /\ Interval[t] \in Nat /\ Passed < Half
  <2>1. t \in Timers /\ Passed \in Nat /\ Due(List0, t) \in Nat
        /\ Late(t) = Passed - Due(List0, t)
    BY <1>2, Late0
  <2>2. Interval[t] \in Nat
    BY <2>1, Constants
  <2>3. Passed + MaxLag < Half
    BY <1>2, PassedBounded
  <2> QED
    BY <1>2, <2>1, <2>2, <2>3, PassedBounded, Small, Constants
<1>b. PICK x : x = Due(List0, t) - Passed
  OBVIOUS
<1>7. /\ Half \in Nat /\ 2 * Half < CounterMod /\ CounterMod \in Nat
      /\ Half <= CounterMod \div 2 /\ CounterMod \div 2 <= CounterMod - Half
      /\ x \in Int /\ -Half < x /\ x < Half /\ x = -Late(t)
  <2>1. /\ Half \in Nat /\ 2 * Half < CounterMod /\ CounterMod \in Nat
    BY Small, Constants
  <2>2. Half <= CounterMod \div 2 /\ CounterMod \div 2 <= CounterMod - Half
    BY <2>1
  <2> QED
    BY <1>6, <1>b, <2>1, <2>2
<1>8. PICK y : y = latest + Span(list, toExpire, n) - counter
  OBVIOUS
<1>9. y \in Int /\ (y = x \/ y = x + CounterMod)
  <2>1. counter \in Counter /\ latest \in Counter
    BY <1>2 DEF TimersTyped
  <2>2. Passed = IF latest <= counter THEN counter - latest ELSE counter - latest + CounterMod
    BY <2>1, DiffIs DEF Passed
  <2>3. counter \in Int /\ latest \in Int
    BY <2>1 DEF Counter
  <2> QED
    BY <1>5, <1>6, <1>7, <1>8, <1>b, <2>2, <2>3
<1>10. y % CounterMod = IF x < 0 THEN x + CounterMod ELSE x
  <2>1. -CounterMod <= y /\ y < 2 * CounterMod
    BY <1>7, <1>9
  <2> QED
    BY <1>7, <1>9, <2>1, ModIs
<1>11. Remaining(t) = IF y % CounterMod < CounterMod \div 2 THEN y % CounterMod
                      ELSE (y % CounterMod) - CounterMod
  BY <1>2, <1>8, <1>a DEF Remaining
<1> QED
  BY <1>7, <1>10, <1>11

\* The differences of the list mean the same deadlines throughout: a running
\* timer expires Interval ticks after app_timer_start was called, whatever was
\* inserted before it, stopped or restarted, and however late SWI0 was.
THEOREM DeadlinesAreKept ==
  ASSUME TicksAreLong, MaxEarlyEdges = 0
  PROVE  Spec => []DeadlinesKept
<1>1. ASSUME IInv, TimeInv
      PROVE  DeadlinesKept
  <2> SUFFICES ASSUME NEW t \in Running, ~shifted[t]
               PROVE  ran[t] + Remaining(t) = Interval[t]
    BY DEF DeadlinesKept
  <2>1. list # <<>>
    BY DEF Running, Range
  <2>2. tick \in Running /\ Deadlines /\ TimersTyped
    BY <1>1, <2>1, TickRuns DEF Timed
  <2>3. ran[t] = Interval[t] + Late(t)
    BY <2>2 DEF Deadlines
  <2>4. Remaining(t) = -Late(t)
    BY <1>1, RemainingIs
  <2>5. Late(t) \in Int /\ Interval[t] \in Int
    BY <2>2, Late0, Constants
  <2> QED
    BY <2>3, <2>4, <2>5
<1> QED
  BY <1>1, AlwaysTimed, PTL

\* No timeout handler runs before its timer's interval is over, whoever made
\* RTC1 pending: timer_timeouts_check finds only expired timers.
THEOREM NoneIsEarly ==
  ASSUME TicksAreLong, MaxEarlyEdges = 0
  PROVE  Spec => []NeverEarly
<1>1. ASSUME IInv, TimeInv
      PROVE  NeverEarly
  <2> SUFFICES ASSUME low.at = "expire", NEW t \in Range(low.todo), ~shifted[t]
               PROVE  ran[t] >= Interval[t]
    BY DEF NeverEarly
  <2>1. low # Idle
    BY DEF Idle
  <2>2. tick \in Running /\ Timed /\ TimersTyped
    BY <1>1, <2>1, InList
  <2>3. t \in Running /\ Due(List0, t) <= low.ticks /\ low.ticks <= Passed
    BY <2>2 DEF Timed, Expiries, Counted
  <2>4. low.ticks \in Nat
    BY <1>1, <2>1 DEF IInv, LowKept, Expiry
  <2>5. /\ t \in Timers /\ Late(t) = Passed - Due(List0, t) /\ Passed \in Nat
        /\ Due(List0, t) \in Nat
    BY <2>2, <2>3, Late0
  <2>6. ran[t] = Interval[t] + Late(t) /\ Interval[t] \in Nat
    BY <2>2, <2>3, <2>5, Constants DEF Timed, Deadlines
  <2> QED
    BY <2>3, <2>4, <2>5, <2>6
<1> QED
  BY <1>1, AlwaysTimed, PTL

\* When the interrupts are done and a timer runs, the compare register is set
\* for its expiry, or for at once if that is over: compare_reg_update leaves no
\* timer asleep for a turn of the counter.
THEOREM AlwaysArmed ==
  ASSUME TicksAreLong, MaxEarlyEdges = 0
  PROVE  Spec => []Armed
<1>1. ASSUME IInv, TimeInv
      PROVE  Armed
  <2> SUFFICES ASSUME ~Busy, list # <<>>
               PROVE  /\ rtcRunning /\ armed
                      /\ Diff(cc, counter) \in 1..Largest(Remaining(list[1]), OffsetMin)
    BY DEF Armed
  <2>1. tick \in Running /\ Timed /\ TimersTyped
    BY <1>1, TickRuns
  <2>2. low = Idle /\ ~swiPending /\ ~RtcReady
    BY DEF Busy
  <2>3. elapsed = None
    BY <2>1, <2>2 DEF Timed, Expiries, Idle
  <2>4. Awake
    BY <2>1, <2>2, <2>3 DEF Timed, Alarm
  <2>5. rtcRunning /\ ~rtcPending
    BY <2>2, <2>4 DEF Awake, RtcReady
  <2>6. armed /\ Distance >= 1 /\ Distance <= Largest(-Late(First), OffsetMin)
    BY <2>4, <2>5 DEF Awake
  <2>7. First \in Running /\ Late(First) \in Int
    BY <2>1, Late0
  <2>8. Remaining(list[1]) = -Late(First)
    BY <1>1, <2>7, RemainingIs DEF First
  <2>9. Distance \in Int
    <3>1. cc \in Counter /\ counter \in Counter
      BY <2>1 DEF TimersTyped
    <3>2. Distance \in Counter
      BY <3>1, DiffIs DEF Distance
    <3> QED
      BY <3>2 DEF Counter
  <2>10. Largest(-Late(First), OffsetMin) \in Int
    BY <2>7, Constants DEF Largest
  <2> QED
    BY <2>5, <2>6, <2>8, <2>9, <2>10 DEF Distance
<1> QED
  BY <1>1, AlwaysTimed, PTL
=============================================================================
