---------------------------- MODULE MCAppButton ----------------------------
(* The timers' intervals, and a view, for the runs of AppButton.           *)
EXTENDS AppButton

MCTimers   == {tick, button}
MCRepeated == {tick}
MCInterval == [t \in MCTimers |-> IF t = tick THEN 5 ELSE 3]

\* States that differ only in what nothing reads any more are the same: the
\* recorded level of a pin without a recorded edge, the history of a timer
\* that is shifted anyway.
ReadPins == transition \union
              (IF scan.at = "store" THEN scan.seen ELSE {}) \union
              (IF scan.at \in {"read", "report"} THEN {scan.pin} ELSE {})
PinView  == [pinVars EXCEPT ![2] = pinState \intersect ReadPins]
OpView(op, at) ==
  IF op.type = "stop" THEN <<op.type, op.timer>>
  ELSE <<op.timer, at, op.shifted, IF op.shifted THEN 0 ELSE op.waited>>
RanView == [t \in Timers |-> IF shifted[t] THEN 0 ELSE ran[t]]

\* While the tick timer runs nothing clears the counter, and every definition
\* depends only on differences of counter values: states that differ by a
\* rotation of the counter have the same future up to that rotation.
Rotates == tick \in Running /\ ~clearing
Since(x) == IF Rotates THEN Diff(x, counter) ELSE x
LowView ==
  IF low.at \in {"write", "check"}
  THEN [low EXCEPT !.cc = Since(@), !.pre = Since(@)] ELSE low
OpsView == [q \in Queues |-> [i \in DOMAIN opQueue[q] |->
              OpView(opQueue[q][i], Since(opQueue[q][i].at))]]
View ==
  <<IF Rotates THEN -1 ELSE counter, Since(cc), armed, rtcRunning, rtcPending,
    swiPending, clearing, list, toExpire, Since(latest), elapsed, rtcReset,
    OpsView, LowView, lag, RanView, shifted, rebased, PinView>>
=============================================================================
