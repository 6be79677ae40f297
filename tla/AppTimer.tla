------------------------------ MODULE AppTimer ------------------------------
(***************************************************************************)
(* Nordic's timer library (components/libraries/timer/app_timer.c) as the  *)
(* nRF51 switch uses it: one hardware counter, RTC1, for all timers; a     *)
(* list of the running timers, each with the ticks between its             *)
(* predecessor's expiry and its own; and a queue per interrupt priority,   *)
(* through which timers are started and stopped without a lock.            *)
(*                                                                         *)
(* RTC1 (the handlers of expired timers) and SWI0 (the changes to the      *)
(* list) have the same low priority: neither interrupts the other.  A      *)
(* start or stop from an interrupt of high priority falls between any two  *)
(* of their steps, and so does a tick of the counter; main() runs when     *)
(* both are done.  low is the place the low priority has reached.          *)
(*                                                                         *)
(* The queue of APP_LOW has no user here.  is_running is membership in     *)
(* list: the code changes both together within each step of this module.   *)
(***************************************************************************)
EXTENDS Integers, Sequences, Functions, FiniteSets

CONSTANTS Timers,        \* the timers created
          Interval,      \* per timer, the ticks to its expiry
          Repeated,      \* the timers of mode APP_TIMER_MODE_REPEATED
          CounterMod,    \* MAX_RTC_COUNTER_VAL + 1, 2^24
          OffsetMin,     \* RTC_COMPARE_OFFSET_MIN, 3 (the hardware needs 2)
          QueueSize,     \* operations a queue holds, APP_TIMER_OP_QUEUE_SIZE
          MaxLag,        \* ticks that may pass before both interrupts are done
          None

ASSUME TimerAssumption ==
  /\ Repeated \subseteq Timers
  /\ Interval \in [Timers -> Nat \ {0}]
  /\ OffsetMin \in Nat \ {0, 1}
  /\ MaxLag \in Nat /\ QueueSize \in Nat \ {0}
  /\ CounterMod \in Nat
  /\ \A t \in Timers : 4 * (Interval[t] + MaxLag + OffsetMin) < CounterMod
  /\ None \notin Timers \union Int

VARIABLES
  counter,       \* RTC1's COUNTER
  cc, armed,     \* CC[0], and whether COUNTER reaching it makes an event
  rtcRunning,    \* m_rtc1_running
  rtcPending,    \* is the RTC1 interrupt pending
  swiPending,    \* is SWI0 pending
  clearing,      \* TASKS_CLEAR was triggered and has not taken effect
  list,          \* the timers linked from m_timer_id_head
  toExpire,      \* ticks_to_expire of each timer in list
  latest,        \* m_ticks_latest
  elapsed,       \* the entry of m_ticks_elapsed not yet read, or None
  rtcReset,      \* m_rtc1_reset
  opQueue,       \* the operations queued by "high" (interrupts) and "main";
                 \* "draft" is an entry main() fills and has not yet queued
  low,           \* where the low priority is
  lag,           \* ticks since the low priority was last idle
  ran, shifted,  \* history: ticks since the start each running timer obeys (of
                 \* this period), and whether it may be off: the counter was
                 \* cleared since, or a whole period was overslept
  rebased        \* history: the counter was cleared after CC[0] was computed

hardware == <<counter, cc, armed, rtcRunning, rtcPending, swiPending, clearing>>
timerVars == <<hardware, list, toExpire, latest, elapsed, rtcReset, opQueue,
               low, lag, ran, shifted, rebased>>

Queues  == {"high", "main", "draft"}
Idle    == [at |-> "idle"]
Counter == 0..(CounterMod - 1)
Largest(x, y) == IF x > y THEN x ELSE y

\* ticks_diff_get
Diff(now, old) == (now - old) % CounterMod

\* The first n timers of lst expire this long after latest.
Span(lst, exp, n) ==
  LET sum[i \in 0..n] == IF i = 0 THEN 0 ELSE sum[i - 1] + exp[lst[i]]
  IN sum[n]

-----------------------------------------------------------------------------
\* Mutant: the timer behind keeps its ticks.
ListInsertKeeping(l, t, ticks) ==
  LET k == Cardinality({n \in 1..Len(l.list) : ticks > Span(l.list, l.toExpire, n)})
  IN [l EXCEPT
       !.list = SubSeq(@, 1, k) \o <<t>> \o SubSeq(@, k + 1, Len(@)),
       !.toExpire[t] = ticks - Span(l.list, l.toExpire, k)]

\* timer_list_insert: before the first timer that does not expire earlier.
ListInsert(l, t, ticks) ==
  LET before == {n \in 1..Len(l.list) : ticks > Span(l.list, l.toExpire, n)}
      k      == Cardinality(before)
      rest   == ticks - Span(l.list, l.toExpire, k)
  IN [l EXCEPT
       !.list = SubSeq(@, 1, k) \o <<t>> \o SubSeq(@, k + 1, Len(@)),
       !.toExpire = [u \in Timers |->
          CASE u = t -> rest
            [] k < Len(l.list) /\ u = l.list[k + 1] -> @[u] - rest
            [] OTHER -> @[u]]]

\* timer_list_remove: the next timer inherits the ticks.  The counter is
\* cleared when no timer is left.
ListRemove(l, t) ==
  LET k   == CHOOSE n \in DOMAIN l.list : l.list[n] = t
      out == SubSeq(l.list, 1, k - 1) \o SubSeq(l.list, k + 1, Len(l.list))
  IN [l EXCEPT
       !.list = out,
       !.toExpire = [u \in Timers |->
          CASE u = t -> 0
            [] k < Len(l.list) /\ u = l.list[k + 1] -> @[u] + l.toExpire[t]
            [] OTHER -> @[u]],
       !.latest = IF out = <<>> THEN 0 ELSE @,
       !.reset  = IF out = <<>> THEN TRUE ELSE @,
       !.clear  = IF out = <<>> THEN TRUE ELSE @]

\* Mutant: the counter value at the start is not looked at.
TicksToExpireAtOnce(l, at, ticks) == ticks

\* The ticks from latest to the expiry of a timer started at the counter value
\* at, which may be before or after latest (list_insertions_handler).
TicksToExpire(l, at, ticks) ==
  IF Diff(at, l.latest) < (CounterMod - 1) \div 2
  THEN Diff(at, l.latest) + ticks
  ELSE Largest(ticks - Diff(l.latest, at), 0)

\* The list and what its handlers change with it.
List0 == [list |-> list, toExpire |-> toExpire, latest |-> latest,
          reset |-> rtcReset, clear |-> FALSE, ran |-> ran, shifted |-> shifted]

\* list_deletions_handler: every queued stop is performed if its timer runs;
\* the queues are left as they are.
Delete(l, op) ==
  IF op.type = "stop" /\ op.timer \in Range(l.list) THEN ListRemove(l, op.timer) ELSE l
Deletions(l) ==
  LET ops == opQueue["main"] \o opQueue["high"]
      after[n \in 0..Len(ops)] == IF n = 0 THEN l ELSE Delete(after[n - 1], ops[n])
  IN after[Len(ops)]

\* expired_timers_handler takes the timers that have expired from the list and
\* list_insertions_handler first starts those that repeat again, the last to
\* expire first.
Expired(l, ticks) ==
  {n \in DOMAIN l.list : Span(l.list, l.toExpire, n) <= ticks}
RestartNot(l, t, at) == l   \* mutant: repeating timers are not started again
Restart(l, t, at) ==
  LET ticks == TicksToExpire(l, at, Interval[t])
  IN ListInsert([l EXCEPT !.ran[t] = @ - Interval[t], !.shifted[t] = @ \/ ticks = 0],
                t, ticks)
Expire(l, ticks, previous) ==
  LET k    == Cardinality(Expired(l, ticks))
      kept == [l EXCEPT
                 !.list = SubSeq(@, k + 1, Len(@)),
                 !.toExpire = [t \in Timers |->
                    CASE \E n \in 1..k : l.list[n] = t -> 0
                      [] k < Len(l.list) /\ t = l.list[k + 1] ->
                           Span(l.list, l.toExpire, k + 1) - ticks
                      [] OTHER -> @[t]]]
      again(m, n) == IF l.list[n] \in Repeated
                     THEN Restart(m, l.list[n],
                            (previous + Span(l.list, l.toExpire, n)) % CounterMod)
                     ELSE m
      after[n \in 0..k] == IF n = 0 THEN kept ELSE again(after[n - 1], k + 1 - n)
  IN [removed |-> kept, restarted |-> after[k]]

\* Mutant: a timer that runs is started a second time.
StartRunning(l, op) ==
  IF op.type # "start" THEN l
  ELSE ListInsert([l EXCEPT !.ran[op.timer] = op.waited], op.timer,
                  TicksToExpire(l, op.at, Interval[op.timer]))

\* list_insertions_handler: a stop, and a start of a timer that runs, are
\* taken from the queue without effect.
Start(l, op) ==
  IF op.type # "start" \/ op.timer \in Range(l.list) THEN l
  ELSE ListInsert([l EXCEPT !.ran[op.timer] = op.waited,
                            !.shifted[op.timer] = op.shifted \/ l.reset],
                  op.timer,
                  TicksToExpire(l, IF l.reset THEN 0 ELSE op.at, Interval[op.timer]))
Insertions(l, user) ==
  LET ops == opQueue[user]
      after[n \in 0..Len(ops)] == IF n = 0 THEN l ELSE Start(after[n - 1], ops[n])
  IN after[Len(ops)]

FirstOf(lst) == IF lst = <<>> THEN None ELSE lst[1]
SetList(l) ==
  /\ list' = l.list /\ toExpire' = l.toExpire /\ latest' = l.latest
  /\ rtcReset' = l.reset
  /\ ran' = [t \in Timers |-> IF t \in Range(l.list) THEN l.ran[t] ELSE 0]
  /\ shifted' = [t \in Timers |-> t \in Range(l.list) /\ l.shifted[t]]

\* What a clear of the counter means for the starts that were called before.
Outdated(q) == [u \in Queues |-> [i \in DOMAIN q[u] |-> [q[u][i] EXCEPT !.shifted = TRUE]]]

-----------------------------------------------------------------------------
TimerInit ==
  /\ counter = 0 /\ cc = 0 /\ armed = FALSE /\ rtcRunning = FALSE
  /\ rtcPending = FALSE /\ swiPending = FALSE /\ clearing = FALSE
  /\ list = <<>> /\ toExpire = [t \in Timers |-> 0]
  /\ latest = 0 /\ elapsed = None /\ rtcReset = FALSE
  /\ opQueue = [u \in Queues |-> <<>>]
  /\ low = Idle /\ lag = 0
  /\ ran = [t \in Timers |-> 0] /\ shifted = [t \in Timers |-> FALSE]
  /\ rebased = FALSE

RtcReady == rtcPending /\ rtcRunning
Busy     == low # Idle \/ swiPending \/ RtcReady
Pressed  == Busy \/ opQueue["draft"] # <<>>
Running  == Range(list)

\* The counter advances; RTC1 becomes pending when it reaches CC[0].
Tick ==
  /\ rtcRunning /\ ~clearing
  /\ Pressed => lag < MaxLag
  /\ lag' = IF Pressed THEN lag + 1 ELSE 0
  /\ counter' = (counter + 1) % CounterMod
  /\ rtcPending' = (rtcPending \/ (armed /\ counter' = cc))
  /\ ran' = [t \in Timers |-> IF t \in Running THEN ran[t] + 1 ELSE ran[t]]
  /\ opQueue' = [u \in Queues |-> [i \in DOMAIN opQueue[u] |->
                   [opQueue[u][i] EXCEPT !.waited = @ + 1]]]
  /\ UNCHANGED <<cc, armed, rtcRunning, swiPending, clearing, list, toExpire,
                 latest, elapsed, rtcReset, low, shifted, rebased>>

\* TASKS_CLEAR, which timer_list_remove does not wait for, takes effect.
ClearTakesEffect ==
  /\ clearing
  /\ clearing' = FALSE /\ counter' = 0
  /\ rebased' = TRUE
  /\ UNCHANGED <<cc, armed, rtcRunning, rtcPending, swiPending, list, toExpire,
                 latest, elapsed, rtcReset, opQueue, low, lag, ran, shifted>>

\* RTC1_IRQHandler, timer_timeouts_check: which timers have expired?  The
\* clients' module calls their handlers, one after the other.
RtcHandler ==
  /\ low = Idle /\ RtcReady
  /\ rtcPending' = FALSE
  /\ LET k == Cardinality(Expired(List0, Diff(counter, latest)))
     IN low' = IF list = <<>> THEN Idle
               ELSE [at |-> "expire", todo |-> SubSeq(list, 1, k),
                     ticks |-> Span(list, toExpire, k)]
  /\ UNCHANGED <<counter, cc, armed, rtcRunning, swiPending, clearing, list, toExpire,
                 latest, elapsed, rtcReset, opQueue, lag, ran, shifted, rebased>>

\* A timer's handler has returned.
HandlerReturns(t) ==
  /\ low.at = "expire" /\ low.todo # <<>> /\ Head(low.todo) = t
  /\ low' = [low EXCEPT !.todo = Tail(@)]
  /\ UNCHANGED <<hardware, list, toExpire, latest, elapsed, rtcReset, opQueue,
                 lag, ran, shifted, rebased>>

\* The expired ticks are queued, over those that SWI0 has not read yet.
QueueElapsed ==
  /\ low.at = "expire" /\ low.todo = <<>>
  /\ elapsed' = low.ticks /\ swiPending' = TRUE /\ low' = Idle
  /\ UNCHANGED <<counter, cc, armed, rtcRunning, rtcPending, clearing, list, toExpire,
                 latest, rtcReset, opQueue, lag, ran, shifted, rebased>>

-----------------------------------------------------------------------------
\* SWI0_IRQHandler, timer_list_handler up to the queue of APP_HIGH, which is
\* the last one list_insertions_handler looks into.
UpdateList ==
  /\ low = Idle /\ swiPending /\ ~RtcReady
  /\ LET acquired == elapsed # None
         ticks    == IF acquired THEN elapsed ELSE 0
         deleted  == Deletions([List0 EXCEPT !.latest = (@ + ticks) % CounterMod])
         expiry   == IF acquired THEN Expire(deleted, ticks, latest)
                     ELSE [removed |-> deleted, restarted |-> deleted]
         inserted == Insertions(expiry.restarted, "main")
     IN /\ SetList(inserted)
        /\ clearing' = (clearing \/ deleted.clear)
        /\ opQueue' = [u \in Queues |->
             CASE u = "main" -> <<>>
               [] u # "main" /\ deleted.clear -> Outdated(opQueue)[u]
               [] OTHER -> opQueue[u]]
        /\ low' = [at |-> "insert", head |-> FirstOf(expiry.removed.list),
                   update |-> acquired \/ FirstOf(deleted.list) # FirstOf(list)]
  /\ swiPending' = FALSE /\ elapsed' = None
  /\ UNCHANGED <<counter, cc, armed, rtcRunning, rtcPending, lag, rebased>>

\* The queue of APP_HIGH, with what was put there in the meantime.
InsertHigh ==
  /\ low.at = "insert"
  /\ LET inserted == Insertions(List0, "high")
         update == low.update \/ FirstOf(inserted.list) # low.head
     IN /\ SetList([inserted EXCEPT !.reset = rtcReset /\ update])
        /\ low' = IF update THEN [at |-> "compare"] ELSE Idle
  /\ opQueue' = [opQueue EXCEPT !["high"] = <<>>]
  /\ UNCHANGED <<hardware, elapsed, lag, rebased>>

\* compare_reg_update: the value for CC[0]; rtc1_start if RTC1 stands still.
\* A compare event left from before may make RTC1 pending again.
ComputeCompare ==
  /\ low.at = "compare" /\ list # <<>>
  /\ LET passed == Diff(counter, latest) + OffsetMin
     IN low' = [at |-> "write", pre |-> counter,
                cc |-> (latest + Largest(passed, toExpire[list[1]])) % CounterMod]
  /\ rtcPending' \in IF rtcRunning THEN {rtcPending} ELSE {FALSE, rtcPending}
  /\ rtcRunning' = TRUE /\ rebased' = FALSE
  /\ UNCHANGED <<counter, cc, armed, swiPending, clearing, list, toExpire, latest,
                 elapsed, rtcReset, opQueue, lag, ran, shifted>>

\* rtc1_compare0_set.  If COUNTER is N, writing N or N + 1 may not trigger.
WriteCompare ==
  /\ low.at = "write"
  /\ cc' = low.cc
  /\ armed' \in IF Diff(low.cc, counter) \in {0, 1} THEN BOOLEAN ELSE {TRUE}
  /\ low' = [low EXCEPT !.at = "check"]
  /\ UNCHANGED <<counter, rtcRunning, rtcPending, swiPending, clearing, list, toExpire,
                 latest, elapsed, rtcReset, opQueue, lag, ran, shifted, rebased>>

\* Mutant: the event is taken for granted.
CheckCompareNot ==
  /\ low.at = "check"
  /\ rtcReset' = FALSE /\ low' = Idle
  /\ UNCHANGED <<counter, cc, armed, rtcRunning, rtcPending, swiPending, clearing, list,
                 toExpire, latest, elapsed, opQueue, lag, ran, shifted, rebased>>

\* The interrupt is pended by hand if the event may have been missed.
CheckCompare ==
  /\ low.at = "check"
  /\ rtcPending' = (rtcPending \/
                    Diff(counter, low.pre) + OffsetMin > Diff(low.cc, low.pre))
  /\ rtcReset' = FALSE /\ low' = Idle
  /\ UNCHANGED <<counter, cc, armed, rtcRunning, swiPending, clearing, list, toExpire,
                 latest, elapsed, opQueue, lag, ran, shifted, rebased>>

\* rtc1_stop, when no timer runs; it waits for TASKS_CLEAR.
StopRtc ==
  /\ low.at = "compare" /\ list = <<>>
  /\ rtcRunning' = FALSE /\ counter' = 0 /\ clearing' = FALSE /\ latest' = 0
  /\ rtcReset' = FALSE /\ low' = Idle
  /\ opQueue' = Outdated(opQueue)
  /\ UNCHANGED <<cc, armed, rtcPending, swiPending, list, toExpire, elapsed,
                 lag, ran, shifted, rebased>>

TimerNext ==
  \/ Tick \/ ClearTakesEffect \/ RtcHandler \/ QueueElapsed
  \/ UpdateList \/ InsertHigh \/ ComputeCompare \/ WriteCompare \/ CheckCompare
  \/ StopRtc

-----------------------------------------------------------------------------
\* app_timer_start and app_timer_stop.  user_op_alloc finds no room when a
\* queue holds QueueSize operations.
Room(q, n) == Len(q) + n <= QueueSize
StopOp(t)  == [type |-> "stop", timer |-> t, at |-> 0, waited |-> 0, shifted |-> FALSE]
StartOp(t) == [type |-> "start", timer |-> t, at |-> counter, waited |-> 0,
               shifted |-> clearing]
=============================================================================
