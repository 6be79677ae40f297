------------------------------ MODULE AppButton ------------------------------
(***************************************************************************)
(* The buttons of the nRF51 switch (components/libraries/button/           *)
(* app_button.c), which debounce with a timer of AppTimer, and the tick    *)
(* timer that main() starts when the buttons are enabled already.          *)
(*                                                                         *)
(* An edge of a pin is handled at high priority, between any two steps of  *)
(* the timer library and of the detection timer's own handler, which runs  *)
(* at low priority and shares m_pin_state and m_pin_transition with it.    *)
(***************************************************************************)
EXTENDS AppTimer

CONSTANTS PinCount,      \* m_button_count, 4
          MaxEdges,      \* a bound on the edges until the buttons are at rest,
          MaxEarlyEdges, \* and on those before main() has started the tick
          tick, button   \* m_iot_timer_tick_src_id, m_detection_delay_timer_id

Pins == 1..PinCount

ASSUME ButtonAssumption ==
  /\ PinCount \in Nat /\ MaxEdges \in Nat /\ MaxEarlyEdges \in Nat
  /\ Timers = {tick, button} /\ Repeated = {tick} /\ tick # button

VARIABLES
  level,       \* the pins that are high
  pinState,    \* m_pin_state: the level each pin had at its recorded edge
  transition,  \* m_pin_transition: the pins with a recorded edge
  scan,        \* where detection_delay_timeout_handler is
  main,        \* where main() is in iot_timer_init
  reported,    \* history: the pins whose last reported level is high
  excused,     \* history: pins with an edge lost in a way the code has
  edges        \* edges since the buttons were last at rest

pinVars == <<level, pinState, transition, scan, main, reported, excused, edges>>
vars    == <<timerVars, pinVars>>

NoScan == [pin |-> 0, at |-> "none"]
TestOf(p) == IF p \in Pins THEN [pin |-> p, at |-> "test"] ELSE NoScan

Init ==
  /\ TimerInit
  /\ level = Pins /\ reported = Pins
  /\ pinState = {} /\ transition = {} /\ excused = {}
  /\ scan = NoScan
  /\ main = "init"
  /\ edges = 0

-----------------------------------------------------------------------------
\* gpiote_event_handler.  The detection timer is stopped, and started only
\* for the first of two edges; a full queue ends the handler early.
Stopped == Room(opQueue["high"], 1)
Started == Room(opQueue["high"], 2)
Edge(p) ==
  /\ edges < IF main = "done" THEN MaxEdges ELSE MaxEarlyEdges
  /\ edges' = edges + 1
  /\ level' = IF p \in level THEN level \ {p} ELSE level \union {p}
  /\ scan' = IF scan.pin = p /\ scan.at \in {"read", "report"}
             THEN [scan EXCEPT !.edge = TRUE] ELSE scan
  /\ IF ~Stopped
     THEN /\ excused' = excused \union {p}
          /\ UNCHANGED <<opQueue, swiPending, pinState, transition>>
     ELSE /\ swiPending' = TRUE
          /\ IF p \in transition
             THEN /\ transition' = transition \ {p}
                  /\ opQueue' = [opQueue EXCEPT !["high"] = Append(@, StopOp(button))]
                  /\ excused' = excused \union transition'
                  /\ UNCHANGED pinState
             ELSE /\ transition' = transition \union {p}
                  /\ pinState' = IF p \in level' THEN pinState \union {p}
                                 ELSE pinState \ {p}
                  /\ opQueue' = [opQueue EXCEPT !["high"] =
                       IF Started THEN @ \o <<StopOp(button), StartOp(button)>>
                       ELSE Append(@, StopOp(button))]
                  /\ excused' = IF Started THEN excused
                                ELSE excused \union transition'
  /\ UNCHANGED <<counter, cc, armed, rtcRunning, rtcPending, clearing, list, toExpire,
                 latest, elapsed, rtcReset, low, lag, ran, shifted, rebased,
                 main, reported>>

\* detection_delay_timeout_handler tests the pins in turn.  It loads
\* m_pin_transition, clears the pin's bit and stores the word: an edge in
\* between is overwritten.
ButtonHandler ==
  low.at = "expire" /\ low.todo # <<>> /\ Head(low.todo) = button

TestPin ==
  /\ ButtonHandler
  /\ LET p == IF scan = NoScan THEN 1 ELSE scan.pin
     IN IF p \in transition
        THEN /\ scan' = [pin |-> p, at |-> "store", seen |-> transition]
             /\ UNCHANGED timerVars
        ELSE /\ scan' = TestOf(p + 1)
             /\ IF p = PinCount THEN HandlerReturns(button) ELSE UNCHANGED timerVars
  /\ scan.at \in {"none", "test"}
  /\ UNCHANGED <<level, pinState, transition, main, reported, excused, edges>>

\* Mutant: the word is cleared.
StoreTransitionClear ==
  /\ scan.at = "store"
  /\ transition' = {}
  /\ scan' = [pin |-> scan.pin, at |-> "read", high |-> FALSE, edge |-> FALSE]
  /\ UNCHANGED <<timerVars, level, pinState, main, reported, excused, edges>>

StoreTransition ==
  /\ scan.at = "store"
  /\ transition' = scan.seen \ {scan.pin}
  /\ excused' = excused \union
       (((scan.seen \ transition) \union (transition \ scan.seen)) \ {scan.pin})
  /\ scan' = [pin |-> scan.pin, at |-> "read", high |-> FALSE, edge |-> FALSE]
  /\ UNCHANGED <<timerVars, level, pinState, main, reported, edges>>

\* Mutant: the pin reads active when it is not.
ReadPinStale ==
  /\ scan.at = "read"
  /\ scan' = [scan EXCEPT !.at = "report", !.high = scan.pin \notin pinState]
  /\ UNCHANGED <<timerVars, level, pinState, transition, main, reported, excused, edges>>

ReadPin ==
  /\ scan.at = "read"
  /\ scan' = [scan EXCEPT !.at = "report", !.high = scan.pin \in level]
  /\ UNCHANGED <<timerVars, level, pinState, transition, main, reported, excused, edges>>

\* The button's handler is called if the pin still has its recorded level.
ReportPin ==
  /\ scan.at = "report"
  /\ LET p == scan.pin
     IN /\ IF (p \in pinState) = scan.high
           THEN /\ reported' = IF scan.high THEN reported \union {p} ELSE reported \ {p}
                /\ excused' = IF scan.edge THEN excused \union {p} ELSE excused \ {p}
           ELSE /\ excused' = IF scan.edge THEN excused \union {p} ELSE excused
                /\ UNCHANGED reported
        /\ scan' = TestOf(p + 1)
        /\ IF p = PinCount THEN HandlerReturns(button) ELSE UNCHANGED timerVars
  /\ UNCHANGED <<level, pinState, transition, main, edges>>

\* iot_timer_tick_callback: its clients change nothing of this module.
TickHandler == HandlerReturns(tick) /\ UNCHANGED pinVars

\* main() calls app_timer_start for the tick timer; every interrupt goes first.
MainStarts ==
  /\ main = "init" /\ ~Busy
  /\ main' = "enqueue"
  /\ opQueue' = [opQueue EXCEPT !["draft"] = <<StartOp(tick)>>]
  /\ UNCHANGED <<hardware, list, toExpire, latest, elapsed, rtcReset, low, lag, ran,
                 shifted, rebased, level, pinState, transition, scan, reported,
                 excused, edges>>

MainEnqueues ==
  /\ main = "enqueue" /\ ~Busy
  /\ opQueue' = [opQueue EXCEPT !["main"] = @ \o opQueue["draft"], !["draft"] = <<>>]
  /\ swiPending' = TRUE
  /\ main' = "done"
  /\ UNCHANGED <<counter, cc, armed, rtcRunning, rtcPending, clearing, list, toExpire,
                 latest, elapsed, rtcReset, low, lag, ran, shifted, rebased,
                 level, pinState, transition, scan, reported, excused, edges>>

\* A bound, not code: the edges are counted anew when nothing is under way.
Quiet ==
  /\ ~Busy /\ button \notin Running /\ opQueue["high"] = <<>>

Rest ==
  /\ edges # 0 /\ Quiet /\ main = "done"
  /\ edges' = 0
  /\ UNCHANGED <<timerVars, level, pinState, transition, scan, main, reported, excused>>

Next ==
  \/ (TimerNext /\ UNCHANGED pinVars)
  \/ \E p \in Pins : Edge(p)
  \/ TestPin \/ StoreTransition \/ ReadPin \/ ReportPin \/ TickHandler
  \/ MainStarts \/ MainEnqueues
  \/ Rest

\* Interrupts are served in the end, the counter counts although it finds
\* MaxLag reached again and again, TASKS_CLEAR takes effect, and main() goes on.
Fairness ==
  /\ []<>~Busy
  /\ SF_vars(Tick /\ UNCHANGED pinVars)
  /\ WF_vars(ClearTakesEffect /\ UNCHANGED pinVars)
  /\ WF_vars(MainStarts \/ MainEnqueues)

Spec     == Init /\ [][Next]_vars
FairSpec == Spec /\ Fairness

-----------------------------------------------------------------------------
\* The values each variable takes: CC[0] and m_ticks_latest stay counter
\* values, the list has each timer once, and a scan has a pin of its own.
Ops == [type : {"start", "stop"}, timer : Timers, at : Counter, waited : Nat,
        shifted : BOOLEAN]
TypeOK ==
  /\ counter \in Counter /\ cc \in Counter /\ latest \in Counter
  /\ {armed, rtcRunning, rtcPending, swiPending, clearing, rtcReset, rebased}
       \subseteq BOOLEAN
  /\ Range(list) \subseteq Timers /\ IsInjective(list)
  /\ toExpire \in [Timers -> Nat]
  /\ elapsed \in Nat \union {None}
  /\ \A q \in Queues : Range(opQueue[q]) \subseteq Ops /\ Len(opQueue[q]) <= QueueSize
  /\ low.at \in {"idle", "expire", "insert", "compare", "write", "check"}
  /\ lag \in 0..MaxLag
  /\ ran \in [Timers -> Int] /\ shifted \in [Timers -> BOOLEAN]
  /\ {level, pinState, transition, reported, excused} \subseteq SUBSET Pins
  /\ scan.pin \in 0..PinCount /\ (scan.pin # 0 => ButtonHandler)
  /\ main \in {"init", "enqueue", "done"}

\* Ticks to the expiry of a running timer, negative when it is overdue.
Remaining(t) ==
  LET n == CHOOSE i \in DOMAIN list : list[i] = t
      d == (latest + Span(list, toExpire, n) - (IF clearing THEN 0 ELSE counter))
           % CounterMod
  IN IF d < CounterMod \div 2 THEN d ELSE d - CounterMod

\* The list of differences means the same deadlines throughout: whatever was
\* inserted before a timer, removed, or expired and restarted, and however late
\* SWI0 was, a running timer expires Interval ticks after app_timer_start was
\* called (the ticks_at_start, ticks_first_interval arithmetic).
DeadlinesKept ==
  \A t \in Running : ~shifted[t] => ran[t] + Remaining(t) = Interval[t]

\* No timeout handler runs before its timer's interval is over (a forced RTC1
\* interrupt, or one left from an earlier compare value, finds no timer expired).
NeverEarly ==
  low.at = "expire" =>
    \A t \in Range(low.todo) : shifted[t] \/ ran[t] >= Interval[t]

\* When the interrupts are done and a timer runs, the next event is set for its
\* expiry, or at once if that is over: no timer sleeps for a turn of the counter
\* (RTC_COMPARE_OFFSET_MIN and the interrupt that compare_reg_update forces).
Armed ==
  ~Busy /\ list # <<>> =>
    /\ rtcRunning /\ armed
    /\ rebased \/ clearing \/
         Diff(cc, counter) \in 1..Largest(Remaining(list[1]), OffsetMin)

\* Debouncing loses no press: when nothing is under way, every pin has been
\* reported with the level it has and no recorded edge is left, except for
\* the edges lost in the ways excused counts (a full queue; the second edge of
\* another pin, which stops the timer; the races between gpiote_event_handler
\* and detection_delay_timeout_handler).
SettledPinReported ==
  Quiet => /\ transition \subseteq excused
           /\ \A p \in Pins \ excused : (p \in level) = (p \in reported)

\* The detection timer is started for every edge, and restarted if it runs ("If timer
\* is already running, the detection period is restarted.", app_button.c:74): when
\* nothing is under way, no recorded edge is left without its timer.
RecordedEdgeTimed ==
  Quiet => transition = {}

\* The tick timer never dies: once main() has started it, it expires again and
\* again, whatever the buttons start and stop in the same list and queue.
TickRings ==
  main = "done" ~> []<>(low.at = "expire" /\ tick \in Range(low.todo))

\* A level that a pin keeps is reported in the end, unless its edge was lost in
\* one of the ways excused counts.
PressReported ==
  \A p \in Pins :
    []<>(p \in excused \/ ((p \in level) = (p \in reported)))
=============================================================================
