-------------------------- MODULE CoapNotifyProofs --------------------------
(***************************************************************************)
(* Confirmable notifications and the time they take.  With the timing that *)
(* TimeAssumption states, an observer has one unanswered notification at   *)
(* most, so notifications alone cannot fill the queue, and an observer     *)
(* that has left is removed in time.                                       *)
(*                                                                         *)
(* The argument relates two clocks.  Both resources age at the same ticks, *)
(* so their confirmable notifications fall into the same tick, ConPeriod   *)
(* ticks after the last; an item in the queue counts its age by its        *)
(* timeouts, and never reaches that age.                                   *)
(***************************************************************************)
EXTENDS CoapNodeProofs, SequenceTheorems

\* The ticks from one notification of a resource to the next, from its expire
\* time to the next, and from its two counters to the next confirmable one.
Interval == MaxAge - Delta + 1
UntilDue(e) == IF e <= Delta THEN 1 ELSE e - Delta + 1
Missing(m) == IF m = 0 THEN 0 ELSE ConEvery - m
UntilCon(e, m) == Missing(m) * Interval + UntilDue(e)
Until == UntilCon(expire["status"], msgCount["status"])

LEMMA TimeTypes ==
  /\ {AckTimeout, MaxRetransmit, MaxSpan, MaxAge, Delta} \subseteq Nat
  /\ ConEvery \in Nat \ {0}
  /\ Interval \in Nat
  /\ ConPeriod = ConEvery * Interval
  /\ ConPeriod \in Nat
<1>1. /\ MaxAge \in Nat /\ Delta \in Nat /\ ConEvery \in Nat \ {0}
      /\ MaxAge - Delta \in Nat
  BY CoapAssumption, TimeAssumption
<1>2. Interval \in Nat /\ ConPeriod = ConEvery * Interval
  BY <1>1 DEF Interval, ConPeriod
<1>3. \A a, b \in Nat : a * b \in Nat
  OBVIOUS
<1> QED
  BY <1>1, <1>2, <1>3, CoapAssumption

LEMMA NextCount ==
  ASSUME NEW m \in Nat, m < ConEvery
  PROVE  (m + 1) % ConEvery = IF m + 1 = ConEvery THEN 0 ELSE m + 1
<1>1. ConEvery \in Nat \ {0}
  BY TimeTypes
<1>2. CASE m + 1 = ConEvery
  <2>1. \A n \in Nat \ {0} : n % n = 0
    OBVIOUS
  <2> QED
    BY <1>1, <1>2, <2>1
<1>3. CASE m + 1 < ConEvery
  BY <1>1, <1>3, ModSmall
<1> QED
  BY <1>1, <1>2, <1>3

LEMMA OneInterval ==
  ASSUME NEW a \in Nat, NEW b \in Nat
  PROVE  (a + 1) * b = a * b + b
OBVIOUS

\* The time to the next confirmable notification decreases by a tick each tick,
\* and starts again at ConPeriod.
LEMMA AgedUntil ==
  ASSUME NEW e \in Nat, NEW m \in Nat, m < ConEvery
  PROVE  /\ UntilCon(e, m) \in Nat \ {0}
         /\ e > Delta => UntilCon(e - 1, m) = UntilCon(e, m) - 1
         /\ e <= Delta /\ m # 0 =>
              UntilCon(MaxAge, (m + 1) % ConEvery) = UntilCon(e, m) - 1
         /\ e <= Delta /\ m = 0 =>
              /\ UntilCon(e, m) = 1
              /\ UntilCon(MaxAge, (m + 1) % ConEvery) = ConPeriod
<1>1. /\ ConEvery \in Nat \ {0} /\ Interval \in Nat /\ Delta \in Nat /\ MaxAge \in Nat
      /\ Delta <= MaxAge
  BY TimeTypes, TimeAssumption
<1>2. UntilDue(e) \in Nat \ {0} /\ (e > Delta => UntilDue(e - 1) = UntilDue(e) - 1)
  BY <1>1 DEF UntilDue
<1>3. UntilDue(MaxAge) = Interval
  BY <1>1 DEF UntilDue, Interval
<1>4. \A k \in Nat : k < ConEvery => Missing(k) \in Nat
  BY <1>1 DEF Missing
<1>5. \A a \in Nat : a * Interval \in Nat
  BY <1>1
<1>6. UntilCon(e, m) \in Nat \ {0}
  BY <1>2, <1>4, <1>5 DEF UntilCon
<1>7. e > Delta => UntilCon(e - 1, m) = UntilCon(e, m) - 1
  BY <1>2, <1>4, <1>5 DEF UntilCon
<1>8. ASSUME e <= Delta, m # 0
      PROVE  UntilCon(MaxAge, (m + 1) % ConEvery) = UntilCon(e, m) - 1
  <2> DEFINE b == Missing((m + 1) % ConEvery)
  <2>1. b \in Nat /\ Missing(m) = b + 1
    BY <1>1, <1>8, NextCount DEF Missing
  <2>2. (b + 1) * Interval = b * Interval + Interval
    BY <1>1, <2>1, OneInterval
  <2>3. UntilDue(e) = 1
    BY <1>8 DEF UntilDue
  <2> HIDE DEF b
  <2>4. UntilCon(e, m) = b * Interval + Interval + 1
    BY <2>1, <2>2, <2>3 DEF UntilCon
  <2>5. UntilCon(MaxAge, (m + 1) % ConEvery) = b * Interval + Interval
    BY <1>3 DEF UntilCon, b
  <2> QED
    BY <1>1, <1>5, <2>1, <2>4, <2>5
<1>9. ASSUME e <= Delta, m = 0
      PROVE  /\ UntilCon(e, m) = 1
             /\ UntilCon(MaxAge, (m + 1) % ConEvery) = ConPeriod
  <2> DEFINE b == Missing((m + 1) % ConEvery)
  <2>1. b \in Nat /\ ConEvery = b + 1
    BY <1>1, <1>9, NextCount DEF Missing
  <2>2. (b + 1) * Interval = b * Interval + Interval
    BY <1>1, <2>1, OneInterval
  <2>3. UntilCon(e, m) = 1
    <3>1. 0 * Interval = 0
      BY <1>1
    <3> QED
      BY <1>9, <3>1 DEF UntilCon, Missing, UntilDue
  <2> HIDE DEF b
  <2>4. UntilCon(MaxAge, (m + 1) % ConEvery) = b * Interval + Interval
    BY <1>3 DEF UntilCon, b
  <2>5. ConPeriod = (b + 1) * Interval
    BY <2>1, TimeTypes
  <2> QED
    BY <2>2, <2>3, <2>4, <2>5
<1> QED
  BY <1>6, <1>7, <1>8, <1>9
----------------------------------------------------------------------------
(* What is left of the handlers.                                           *)

Pressed(t)  == \E i \in Nat : t = <<Notify("status", FALSE, i), Notify("statedesc", FALSE, 1)>>
Scanning(t) == \E i \in Nat : t = <<Scan(i), Age("status"), Age("statedesc")>>
AgeBoth(t)  == t = <<Age("status"), Age("statedesc")>>
First(t)    == \E con \in BOOLEAN, i \in Nat : t = <<Notify("status", con, i), Age("statedesc")>>
AgeOne(t)   == t = <<Age("statedesc")>>
Second(t)   == \E con \in BOOLEAN, i \in Nat : t = <<Notify("statedesc", con, i)>>

Shape(t) ==
  t = <<>> \/ Pressed(t) \/ Scanning(t) \/ AgeBoth(t) \/ First(t) \/ AgeOne(t) \/ Second(t)

\* /status has been aged at this tick and /statedesc has not; an item of the
\* queue has been looked at in this tick and the resources have not been aged.
Halfway(t) == First(t) \/ AgeOne(t)
Ahead(t, q) == AgeBoth(t) \/ (Scanning(t) /\ q < Head(t).at)
Lead(t, q) == IF Ahead(t, q) THEN 1 ELSE 0
Lag(t) == IF AgeBoth(t) \/ Scanning(t) THEN 1 ELSE 0

LEMMA PairParts ==
  ASSUME NEW a, NEW b
  PROVE  Head(<<a, b>>) = a /\ Tail(<<a, b>>) = <<b>>
OBVIOUS

LEMMA OneTwo ==
  ASSUME NEW a, NEW b, NEW c
  PROVE  <<a>> \o <<b, c>> = <<a, b, c>>
<1> DEFINE S == {a, b, c}
<1>1. <<a>> \in Seq(S) /\ <<b, c>> \in Seq(S) /\ <<a, b, c>> \in Seq(S)
  OBVIOUS
<1>2. Len(<<a>>) = 1 /\ Len(<<b, c>>) = 2 /\ Len(<<a, b, c>>) = 3
  OBVIOUS
<1>3. /\ <<a>> \o <<b, c>> \in Seq(S)
      /\ Len(<<a>> \o <<b, c>>) = 3
      /\ \A i \in 1..3 : (<<a>> \o <<b, c>>)[i] = IF i <= 1 THEN <<a>>[i] ELSE <<b, c>>[i - 1]
  BY <1>1, <1>2, ConcatProperties
<1>4. \A i \in 1..3 : (<<a>> \o <<b, c>>)[i] = <<a, b, c>>[i]
  BY <1>3
<1> QED
  BY <1>1, <1>2, <1>3, <1>4, SeqEqual

LEMMA OneOne ==
  ASSUME NEW a, NEW b
  PROVE  <<a>> \o <<b>> = <<a, b>>
<1> DEFINE S == {a, b}
<1>1. <<a>> \in Seq(S) /\ <<b>> \in Seq(S) /\ <<a, b>> \in Seq(S)
  OBVIOUS
<1>2. Len(<<a>>) = 1 /\ Len(<<b>>) = 1 /\ Len(<<a, b>>) = 2
  OBVIOUS
<1>3. /\ <<a>> \o <<b>> \in Seq(S)
      /\ Len(<<a>> \o <<b>>) = 2
      /\ \A i \in 1..2 : (<<a>> \o <<b>>)[i] = IF i <= 1 THEN <<a>>[i] ELSE <<b>>[i - 1]
  BY <1>1, <1>2, ConcatProperties
<1>4. \A i \in 1..2 : (<<a>> \o <<b>>)[i] = <<a, b>>[i]
  BY <1>3
<1> QED
  BY <1>1, <1>2, <1>3, <1>4, SeqEqual

LEMMA OneNone ==
  ASSUME NEW a
  PROVE  <<a>> \o <<>> = <<a>>
<1>1. <<a>> \in Seq({a})
  OBVIOUS
<1> QED
  BY <1>1, ConcatEmptySeq

LEMMA IdlePhase ==
  ASSUME NEW t, t = <<>>
  PROVE  /\ ~First(t) /\ ~Second(t) /\ ~Halfway(t) /\ ~AgeOne(t)
         /\ \A q \in Items : Lead(t, q) = 0
         /\ Lag(t) = 0
<1>1. ~First(t) /\ ~Second(t) /\ ~AgeOne(t) /\ ~AgeBoth(t) /\ ~Scanning(t)
  BY DEF First, Second, AgeOne, AgeBoth, Scanning
<1> QED
  BY <1>1 DEF Halfway, Lead, Lag, Ahead

LEMMA PressedPhase ==
  ASSUME NEW t, NEW i \in Nat,
         t = <<Notify("status", FALSE, i), Notify("statedesc", FALSE, 1)>>
  PROVE  /\ ~First(t) /\ ~Second(t) /\ ~Halfway(t) /\ ~AgeOne(t)
         /\ \A q \in Items : Lead(t, q) = 0
         /\ Lag(t) = 0
         /\ Head(t) = Notify("status", FALSE, i)
         /\ Tail(t) = <<Notify("statedesc", FALSE, 1)>>
<1>1. ~First(t) /\ ~Second(t) /\ ~AgeOne(t) /\ ~AgeBoth(t) /\ ~Scanning(t)
  BY DEF First, Second, AgeOne, AgeBoth, Scanning, Notify, Age, Scan
<1>2. /\ Head(t) = Notify("status", FALSE, i)
      /\ Tail(t) = <<Notify("statedesc", FALSE, 1)>>
  BY PairParts
<1> QED
  BY <1>1, <1>2 DEF Halfway, Lead, Lag, Ahead

LEMMA ScanningPhase ==
  ASSUME NEW t, NEW i \in Nat, t = <<Scan(i), Age("status"), Age("statedesc")>>
  PROVE  /\ ~First(t) /\ ~Second(t) /\ ~Halfway(t) /\ ~AgeOne(t)
         /\ \A q \in Items : Lead(t, q) = IF q < i THEN 1 ELSE 0
         /\ Lag(t) = 1
         /\ Head(t) = Scan(i)
         /\ Tail(t) = <<Age("status"), Age("statedesc")>>
<1>1. ~First(t) /\ ~Second(t) /\ ~AgeOne(t) /\ ~AgeBoth(t)
  BY DEF First, Second, AgeOne, AgeBoth, Notify, Age, Scan
<1>2. Head(t) = Scan(i) /\ Tail(t) = <<Age("status"), Age("statedesc")>>
  OBVIOUS
<1>3. Scanning(t)
  BY DEF Scanning
<1>4. Head(t).at = i
  BY <1>2 DEF Scan
<1> QED
  BY <1>1, <1>2, <1>3, <1>4 DEF Halfway, Lead, Lag, Ahead

LEMMA AgeBothPhase ==
  ASSUME NEW t, t = <<Age("status"), Age("statedesc")>>
  PROVE  /\ ~First(t) /\ ~Second(t) /\ ~Halfway(t) /\ ~AgeOne(t)
         /\ \A q \in Items : Lead(t, q) = 1
         /\ Lag(t) = 1
         /\ Head(t) = Age("status")
         /\ Tail(t) = <<Age("statedesc")>>
<1>1. ~First(t) /\ ~Second(t) /\ ~AgeOne(t) /\ AgeBoth(t)
  BY DEF First, Second, AgeOne, AgeBoth, Notify, Age, Scan
<1> QED
  BY <1>1 DEF Halfway, Lead, Lag, Ahead

LEMMA FirstPhase ==
  ASSUME NEW t, NEW con \in BOOLEAN, NEW i \in Nat,
         t = <<Notify("status", con, i), Age("statedesc")>>
  PROVE  /\ First(t) /\ ~Second(t) /\ Halfway(t) /\ ~AgeOne(t)
         /\ \A q \in Items : Lead(t, q) = 0
         /\ Lag(t) = 0
         /\ Head(t) = Notify("status", con, i) /\ Head(t).con = con /\ Head(t).at = i
         /\ Tail(t) = <<Age("statedesc")>>
<1>1. First(t) /\ ~Second(t) /\ ~AgeOne(t) /\ ~AgeBoth(t) /\ ~Scanning(t)
  BY DEF First, Second, AgeOne, AgeBoth, Scanning, Notify, Age, Scan
<1>2. Head(t) = Notify("status", con, i) /\ Tail(t) = <<Age("statedesc")>>
  OBVIOUS
<1> QED
  BY <1>1, <1>2 DEF Halfway, Lead, Lag, Ahead, Notify

LEMMA AgeOnePhase ==
  ASSUME NEW t, t = <<Age("statedesc")>>
  PROVE  /\ ~First(t) /\ ~Second(t) /\ Halfway(t) /\ AgeOne(t)
         /\ \A q \in Items : Lead(t, q) = 0
         /\ Lag(t) = 0
         /\ Head(t) = Age("statedesc")
         /\ Tail(t) = <<>>
<1>1. ~First(t) /\ ~Second(t) /\ AgeOne(t) /\ ~AgeBoth(t) /\ ~Scanning(t)
  BY DEF First, Second, AgeOne, AgeBoth, Scanning, Notify, Age, Scan
<1> QED
  BY <1>1 DEF Halfway, Lead, Lag, Ahead

LEMMA SecondPhase ==
  ASSUME NEW t, NEW con \in BOOLEAN, NEW i \in Nat,
         t = <<Notify("statedesc", con, i)>>
  PROVE  /\ ~First(t) /\ Second(t) /\ ~Halfway(t) /\ ~AgeOne(t)
         /\ \A q \in Items : Lead(t, q) = 0
         /\ Lag(t) = 0
         /\ Head(t) = Notify("statedesc", con, i) /\ Head(t).con = con /\ Head(t).at = i
         /\ Tail(t) = <<>>
<1>1. ~First(t) /\ Second(t) /\ ~AgeOne(t) /\ ~AgeBoth(t) /\ ~Scanning(t)
  BY DEF First, Second, AgeOne, AgeBoth, Scanning, Notify, Age, Scan
<1>2. Head(t) = Notify("statedesc", con, i) /\ Tail(t) = <<>>
  OBVIOUS
<1> QED
  BY <1>1, <1>2 DEF Halfway, Lead, Lag, Ahead, Notify
----------------------------------------------------------------------------
(* The two clocks.                                                         *)

ConDue(res) == Due(res) /\ Confirmable(res)

Clocks ==
  /\ \A res \in Announced : msgCount[res] < ConEvery
  /\ ~Halfway(todo) =>
       /\ expire["status"] = expire["statedesc"]
       /\ msgCount["status"] = msgCount["statedesc"]
  /\ Halfway(todo) =>
       /\ expire["status"] =
            IF Due("statedesc") THEN MaxAge ELSE expire["statedesc"] - 1
       /\ msgCount["status"] =
            IF Due("statedesc") THEN (msgCount["statedesc"] + 1) % ConEvery
            ELSE msgCount["statedesc"]
  /\ First(todo) => Head(todo).con = ConDue("statedesc")
  /\ Second(todo) /\ Head(todo).con => Until = ConPeriod

\* An item u ticks before the next confirmable notification: its timeouts have
\* not become too long, and the age they add up to is that of a message sent
\* with the last such notification, or greater.
Young(item, u, lead) ==
  /\ item.timeout_val <= MaxSpan
  /\ item.retrans_count < MaxRetransmit
  /\ item.p_arg # 0 =>
       2 * item.timeout_val + item.retrans_count + u
         >= ConPeriod + AckTimeout + item.timeout + lead

Lifetimes == \A q \in Used : Young(queue[q], Until, Lead(todo, q))

\* The observers whose turn is still to come have no notification pending.
Notified == { q \in Used : queue[q].p_arg # 0 }
Turn ==
  \A q \in Notified :
    LET s == queue[q].p_arg IN
    /\ First(todo) /\ Head(todo).con =>
         s < Head(todo).at /\ observers[s].resource = "status"
    /\ AgeOne(todo) /\ ConDue("statedesc") => observers[s].resource = "status"
    /\ Second(todo) /\ Head(todo).con =>
         s < Head(todo).at \/ observers[s].resource = "status"

Timing == Shape(todo) /\ Clocks /\ Lifetimes /\ Turn
TimingInv == halted = "no" => Timing

LEMMA ClockTypes ==
  ASSUME TypeOK, Clocks
  PROVE  /\ \A res \in Announced : expire[res] \in Nat /\ msgCount[res] \in Nat
         /\ {"status", "statedesc"} = Announced
         /\ Until \in Nat \ {0}
<1>1. /\ \A res \in Announced : expire[res] \in Nat /\ msgCount[res] \in Nat
      /\ "status" \in Announced /\ {"status", "statedesc"} = Announced
  BY DEF TypeOK, Announced
<1>2. msgCount["status"] < ConEvery
  BY <1>1 DEF Clocks
<1> QED
  BY <1>1, <1>2, AgedUntil DEF Until

\* An item that the next confirmable notification finds is no notification.
LEMMA NoneLeft ==
  ASSUME NEW item \in Item, Young(item, 1, 1)
  PROVE  item.p_arg = 0
BY TimeTypes, TimeAssumption DEF Young, Item

LEMMA YoungNew ==
  ASSUME NEW item \in Item, NEW u \in Nat, item.timeout = AckTimeout,
         item.timeout_val = AckTimeout, item.retrans_count = 0,
         item.p_arg = 0 \/ u = ConPeriod
  PROVE  Young(item, u, 0)
BY TimeTypes, TimeAssumption DEF Young, Item

\* In a turn of the scan an item that stays in the queue grows a tick older.
LEMMA YoungScanned ==
  ASSUME NEW q \in Items, queue[q] \in Item, NEW u \in Nat, Young(queue[q], u, 0),
         NEW item \in Item,
         \/ queue[q].timeout = 0 /\ ~Abandoned(q) /\ item = Retried(q)
         \/ queue[q].timeout # 0 /\ item = [queue[q] EXCEPT !.timeout = @ - 1]
  PROVE  Young(item, u, 1)
<1>1. CASE queue[q].timeout = 0 /\ ~Abandoned(q) /\ item = Retried(q)
  <2>1. Retransmits(q)
    BY <1>1, TimeTypes DEF Abandoned, Retried, Retransmits, Item
  <2>2. item = [queue[q] EXCEPT !.timeout = queue[q].timeout_val * 2,
                                !.timeout_val = queue[q].timeout_val * 2,
                                !.retrans_count = @ + 1]
    BY <1>1, <2>1 DEF Retried
  <2>3. /\ item.timeout = queue[q].timeout_val * 2
        /\ item.timeout_val = queue[q].timeout_val * 2
        /\ item.retrans_count = queue[q].retrans_count + 1
        /\ item.p_arg = queue[q].p_arg
    BY <2>2 DEF Item
  <2>4. item.timeout <= MaxSpan /\ item.retrans_count < MaxRetransmit
    BY <1>1, TimeTypes DEF Abandoned, Item
  <2> QED
    BY <1>1, <2>3, <2>4, TimeTypes DEF Young, Item
<1>2. CASE queue[q].timeout # 0 /\ item = [queue[q] EXCEPT !.timeout = @ - 1]
  BY <1>2, TimeTypes DEF Young, Item
<1> QED
  BY <1>1, <1>2

\* The resources age: the item is a tick nearer to the next notification.
LEMMA YoungAged ==
  ASSUME NEW item \in Item, NEW u \in Nat \ {0}, Young(item, u, 1)
  PROVE  Young(item, u - 1, 0)
BY TimeTypes DEF Young, Item
----------------------------------------------------------------------------
(* The steps outside the timer's handler.                                  *)

\* Items stay, go, or come without an observer.
ItemsKept ==
  \A q \in Items :
    \/ queue'[q] = queue[q]
    \/ queue'[q].msg = 0
    \/ queue'[q].p_arg = 0 /\ Young(queue'[q], Until, 0)

LEMMA RemoveKept ==
  ASSUME TypeOK, NEW q \in Items, coap_queue_remove(q)
  PROVE  ItemsKept
<1>1. queue \in [Items -> Item]
  BY DEF TypeOK, Item
<1>2. \A p \in Items : queue'[p] = IF p = q THEN FreeItem ELSE queue[p]
  BY <1>1 DEF coap_queue_remove
<1> QED
  BY <1>2 DEF ItemsKept, FreeItem

LEMMA AddKept ==
  ASSUME TypeOK, Clocks, ~Full, issued + 1 \in Messages,
         coap_queue_add(issued + 1, Directory, 0)
  PROVE  ItemsKept
<1> DEFINE q == Least(Items \ Used)
           item == [msg |-> issued + 1, timeout |-> AckTimeout, timeout_val |-> AckTimeout,
                    retrans_count |-> 0, remote |-> Directory, p_arg |-> 0]
<1>1. queue \in [Items -> Item] /\ q \in Items
  BY FreeItemFound DEF TypeOK, Item
<1>2. \A p \in Items : queue'[p] = IF p = q THEN item ELSE queue[p]
  BY <1>1 DEF coap_queue_add
<1>3. item \in Item
  BY CoapAssumption DEF Item, Messages
<1>4. Young(item, Until, 0) /\ item.p_arg = 0
  BY <1>3, YoungNew, ClockTypes
<1> QED
  BY <1>2, <1>4 DEF ItemsKept

LEMMA CompleteKept ==
  ASSUME TypeOK, NEW q \in Items, NEW status, Complete(q, status)
  PROVE  ItemsKept /\ UNCHANGED <<expire, msgCount>>
<1>1. CASE SearchFails(q, status)
  BY <1>1 DEF Complete, net, app, ItemsKept
<1>2. CASE ~SearchFails(q, status)
  BY <1>2, RemoveKept DEF Complete
<1> QED
  BY <1>1, <1>2

\* What buttons, requests, answers and the environment may do: they start
\* notifications that are not confirmable.
Quiet ==
  /\ todo = <<>>
  /\ todo' = <<>> \/ todo' = NotifyAll
  /\ UNCHANGED <<expire, msgCount>>
  /\ ItemsKept

LEMMA QuietSteps ==
  ASSUME TypeOK, Clocks,
         \/ LinkUp \/ LinkDown
         \/ \E r \in Remotes : Leave(r) \/ Request(r)
         \/ Button \/ Answer
  PROVE  Quiet
<1>1. CASE LinkUp \/ LinkDown \/ ToggleButton
  BY <1>1 DEF LinkUp, LinkDown, ToggleButton, Idle, net, app, Quiet, ItemsKept
<1>2. ASSUME NEW r \in Remotes, Leave(r)
      PROVE  Quiet
  BY <1>2 DEF Leave, Idle, net, app, Quiet, ItemsKept
<1>3. ASSUME NEW r \in Remotes, NEW res, NEW ok, GetObserve(r, res, ok) \/ GetCancel(r, res, ok)
      PROVE  Quiet
  BY <1>3 DEF GetObserve, GetCancel, Received, Idle, net, Quiet, ItemsKept
<1>4. ASSUME NEW r \in Remotes, NEW ok \in BOOLEAN, PutStatus(r, ok)
      PROVE  Quiet
  BY <1>4 DEF PutStatus, Received, Idle, net, app, Quiet, ItemsKept
<1>5. ASSUME NEW ok \in BOOLEAN, send_rd_message(ok)
      PROVE  Quiet
  <2>1. ItemsKept
    <3>1. CASE ok /\ ~Full
      <4>1. issued + 1 \in Messages
        BY <1>5, CoapAssumption DEF send_rd_message, TypeOK, Messages
      <4> QED
        BY <1>5, <3>1, <4>1, AddKept DEF send_rd_message
    <3>2. CASE ~(ok /\ ~Full)
      BY <1>5, <3>2 DEF send_rd_message, ItemsKept
    <3> QED
      BY <3>1, <3>2
  <2> QED
    BY <1>5, <2>1 DEF send_rd_message, Idle, app, Quiet
<1>6. CASE Answer
  <2>1. ItemsKept /\ UNCHANGED <<expire, msgCount>>
    BY <1>6, AnswerItem, CompleteKept
  <2>2. todo = <<>> /\ todo' = todo
    BY <1>6 DEF Answer, PeerAnswers, DirectoryResponds, Idle
  <2> QED
    BY <2>1, <2>2 DEF Quiet
<1> QED
  BY <1>1, <1>2, <1>3, <1>4, <1>5, <1>6 DEF Request, Button

LEMMA QuietTiming ==
  ASSUME TypeOK, Timing, Quiet
  PROVE  Timing'
<1>1. /\ ~First(todo) /\ ~Second(todo) /\ ~Halfway(todo)
      /\ \A q \in Items : Lead(todo, q) = 0
  BY IdlePhase DEF Quiet
<1>2. /\ ~First(todo') /\ ~Halfway(todo') /\ ~Second(todo') /\ ~AgeOne(todo')
      /\ \A q \in Items : Lead(todo', q) = 0
      /\ Shape(todo')
  <2>1. CASE todo' = <<>>
    BY <2>1, IdlePhase DEF Shape
  <2>2. CASE todo' = NotifyAll
    <3>1. todo' = <<Notify("status", FALSE, 1), Notify("statedesc", FALSE, 1)>> /\ 1 \in Nat
      BY <2>2 DEF NotifyAll
    <3>2. Pressed(todo')
      BY <3>1 DEF Pressed
    <3> QED
      BY <3>1, <3>2, PressedPhase DEF Shape
  <2> QED
    BY <2>1, <2>2 DEF Quiet
<1>3. Until' = Until
  BY DEF Quiet, Until
<1>4. Clocks'
  BY <1>1, <1>2, <1>3 DEF Timing, Clocks, Quiet
<1>5. Lifetimes'
  <2> SUFFICES ASSUME NEW q \in Items, queue'[q].msg # 0
               PROVE  Young(queue'[q], Until', Lead(todo', q))
    BY DEF Lifetimes, Used
  <2>1. CASE queue'[q] = queue[q]
    BY <2>1, <1>1, <1>2, <1>3 DEF Timing, Lifetimes, Used
  <2>2. CASE Young(queue'[q], Until, 0)
    BY <2>2, <1>2, <1>3
  <2> QED
    BY <2>1, <2>2 DEF Quiet, ItemsKept
<1>6. Turn'
  BY <1>2 DEF Turn
<1> QED
  BY <1>2, <1>4, <1>5, <1>6 DEF Timing
----------------------------------------------------------------------------
(* The timer's handler: the queue.                                         *)

LEMMA TickTiming ==
  ASSUME TypeOK, Timing, Tick
  PROVE  Timing'
<1>1. todo = <<>> /\ UNCHANGED <<net, app>>
  BY DEF Tick, Idle
<1>2. /\ ~First(todo) /\ ~Second(todo) /\ ~Halfway(todo) /\ ~AgeOne(todo)
      /\ \A q \in Items : Lead(todo, q) = 0
  BY <1>1, IdlePhase
<1>3. todo' = <<Scan(1), Age("status"), Age("statedesc")>> /\ 1 \in Nat
  BY DEF Tick
<1>4. /\ ~First(todo') /\ ~Second(todo') /\ ~Halfway(todo') /\ ~AgeOne(todo')
      /\ \A q \in Items : Lead(todo', q) = 0
  <2>1. \A q \in Items : ~(q < 1)
    BY DEF Items
  <2> QED
    BY <1>3, <2>1, ScanningPhase
<1>5. Shape(todo')
  BY <1>3 DEF Shape, Scanning
<1>6. Until' = Until
  BY <1>1 DEF Until, app
<1>7. Clocks'
  BY <1>1, <1>2, <1>4 DEF Timing, Clocks, app
<1>8. Lifetimes'
  BY <1>1, <1>2, <1>4, <1>6 DEF Timing, Lifetimes, Used, net
<1>9. Turn'
  BY <1>4 DEF Turn
<1> QED
  BY <1>5, <1>7, <1>8, <1>9 DEF Timing

\* A scan step finds the rest of the tick's work as Tick left it.
LEMMA ScanPhase ==
  ASSUME TypeOK, Shape(todo), Running("scan")
  PROVE  \E i \in Nat : todo = <<Scan(i), Age("status"), Age("statedesc")>>
BY DEF Shape, Running, Pressed, Scanning, AgeBoth, First, AgeOne, Second, Scan, Age, Notify

LEMMA ScanEndTiming ==
  ASSUME TypeOK, Timing, ScanEnd
  PROVE  Timing'
<1>1. PICK i \in Nat : todo = <<Scan(i), Age("status"), Age("statedesc")>>
  BY ScanPhase DEF Timing, ScanEnd
<1>2. /\ ~First(todo) /\ ~Second(todo) /\ ~Halfway(todo) /\ ~AgeOne(todo)
      /\ \A q \in Items : Lead(todo, q) = IF q < i THEN 1 ELSE 0
      /\ Head(todo) = Scan(i) /\ Tail(todo) = <<Age("status"), Age("statedesc")>>
  BY <1>1, ScanningPhase
<1>3. todo' = <<Age("status"), Age("statedesc")>>
  BY <1>2 DEF ScanEnd
<1>4. /\ ~First(todo') /\ ~Second(todo') /\ ~Halfway(todo') /\ ~AgeOne(todo')
      /\ \A q \in Items : Lead(todo', q) = 1
  BY <1>3, AgeBothPhase
<1>5. \A q \in Used : q < i
  BY <1>2 DEF ScanEnd, ScanSet, Scan, Used, Items
<1>6. UNCHANGED <<expire, msgCount, queue>> /\ Until' = Until
  BY DEF ScanEnd, net, app, Until
<1>7. Clocks'
  BY <1>2, <1>4, <1>6 DEF Timing, Clocks
<1>8. Lifetimes'
  BY <1>2, <1>4, <1>5, <1>6 DEF Timing, Lifetimes, Used
<1>9. Turn'
  BY <1>4 DEF Turn
<1>10. Shape(todo')
  BY <1>3 DEF Shape, AgeBoth
<1> QED
  BY <1>7, <1>8, <1>9, <1>10 DEF Timing

LEMMA ScanItemTiming ==
  ASSUME TypeOK, Timing, ScanItem, halted' = "no"
  PROVE  Timing'
<1>1. PICK i \in Nat : todo = <<Scan(i), Age("status"), Age("statedesc")>>
  BY ScanPhase DEF Timing, ScanItem
<1>2. /\ ~First(todo) /\ ~Second(todo) /\ ~Halfway(todo) /\ ~AgeOne(todo)
      /\ \A q \in Items : Lead(todo, q) = IF q < i THEN 1 ELSE 0
      /\ Head(todo) = Scan(i) /\ Tail(todo) = <<Age("status"), Age("statedesc")>>
  BY <1>1, ScanningPhase
<1> DEFINE q == Least(ScanSet)
<1>3. /\ q \in Used /\ q \in Items /\ q >= i
      /\ \A p \in Used : p < q + 1 => p < i \/ p = q
  <2>1. ScanSet = { p \in Used : p >= i }
    BY <1>2 DEF ScanSet, Scan
  <2>2. ScanSet \subseteq Nat /\ ScanSet # {}
    BY DEF ScanItem, ScanSet, Used, Items
  <2>3. q \in ScanSet /\ \A p \in ScanSet : q <= p
    BY <2>2, LeastIn
  <2>4. \A p \in Used : p \in Nat /\ p \in Items
    BY DEF Used, Items
  <2> HIDE DEF q
  <2> QED
    BY <2>1, <2>3, <2>4
<1>4. todo' = <<Scan(q + 1), Age("status"), Age("statedesc")>> /\ q + 1 \in Nat
  <2>1. todo' = <<Scan(q + 1)>> \o <<Age("status"), Age("statedesc")>>
    BY <1>2 DEF ScanItem
  <2>2. q + 1 \in Nat
    BY <1>3 DEF Items
  <2> HIDE DEF q
  <2> QED
    BY <2>1, <2>2, OneTwo
<1>5. Complete(q, "timeout") \/
      /\ \/ queue[q].timeout = 0 /\ ~Abandoned(q) /\ queue' = [queue EXCEPT ![q] = Retried(q)]
         \/ queue[q].timeout # 0 /\ queue' = [queue EXCEPT ![q].timeout = @ - 1]
      /\ UNCHANGED <<count, issued, fate, app, halted>>
  BY DEF ScanItem
<1> HIDE DEF q
<1>6. /\ ~First(todo') /\ ~Second(todo') /\ ~Halfway(todo') /\ ~AgeOne(todo')
      /\ \A p \in Items : Lead(todo', p) = IF p < q + 1 THEN 1 ELSE 0
  BY <1>4, ScanningPhase
<1>7. UNCHANGED <<expire, msgCount>>
  BY <1>3, <1>5, CompleteKept DEF app
<1>8. Until' = Until /\ Until \in Nat \ {0}
  BY <1>7, ClockTypes DEF Until, Timing
<1>9. queue \in [Items -> Item]
  BY DEF TypeOK, Item
<1>10. \A p \in Used : p # q => queue[p].msg # 0 /\ Young(queue[p], Until, Lead(todo', p))
  BY <1>2, <1>3, <1>6 DEF Timing, Lifetimes, Used, Items
<1>11. Lead(todo, q) = 0 /\ Lead(todo', q) = 1
  BY <1>2, <1>3, <1>6 DEF Items
<1>12. CASE Complete(q, "timeout")
  <2>1. coap_queue_remove(q)
    BY <1>12 DEF Complete, ScanItem, Running
  <2>2. \A p \in Items : queue'[p] = IF p = q THEN FreeItem ELSE queue[p]
    BY <1>9, <2>1 DEF coap_queue_remove
  <2>3. Lifetimes'
    BY <1>8, <1>10, <2>2 DEF Lifetimes, Used, FreeItem
  <2> QED
    BY <1>2, <1>4, <1>6, <1>7, <1>8, <2>3 DEF Timing, Clocks, Turn, Shape, Scanning
<1>13. CASE \/ queue[q].timeout = 0 /\ ~Abandoned(q) /\ queue' = [queue EXCEPT ![q] = Retried(q)]
            \/ queue[q].timeout # 0 /\ queue' = [queue EXCEPT ![q].timeout = @ - 1]
  <2>1. queue'[q] \in Item
    BY <1>3, ScanType DEF ScanItem, TypeOK, Item
  <2>2. Young(queue[q], Until, 0)
    BY <1>3, <1>11 DEF Timing, Lifetimes
  <2>3. \/ queue[q].timeout = 0 /\ ~Abandoned(q) /\ queue'[q] = Retried(q)
        \/ queue[q].timeout # 0 /\ queue'[q] = [queue[q] EXCEPT !.timeout = @ - 1]
    BY <1>3, <1>9, <1>13
  <2>4. Young(queue'[q], Until, 1)
    BY <1>3, <1>8, <1>9, <2>1, <2>2, <2>3, YoungScanned
  <2>5. \A p \in Items : p # q => queue'[p] = queue[p]
    BY <1>9, <1>13
  <2>6. Lifetimes'
    BY <1>8, <1>10, <1>11, <2>4, <2>5 DEF Lifetimes, Used
  <2> QED
    BY <1>2, <1>4, <1>6, <1>7, <1>8, <2>6 DEF Timing, Clocks, Turn, Shape, Scanning
<1> QED
  BY <1>5, <1>12, <1>13
----------------------------------------------------------------------------
(* The timer's handler: the resources.                                     *)

LEMMA AgePhase ==
  ASSUME TypeOK, Shape(todo), Running("age")
  PROVE  AgeBoth(todo) \/ AgeOne(todo)
BY DEF Shape, Running, Pressed, Scanning, AgeBoth, First, AgeOne, Second, Scan, Age, Notify

\* /status ages, the clock of the items' ages with it.
LEMMA AgeStatusTiming ==
  ASSUME TypeOK, Timing, AgeResource, AgeBoth(todo)
  PROVE  Timing'
<1>1. /\ ~First(todo) /\ ~Second(todo) /\ ~Halfway(todo) /\ ~AgeOne(todo)
      /\ \A q \in Items : Lead(todo, q) = 1
      /\ Head(todo) = Age("status") /\ Tail(todo) = <<Age("statedesc")>>
  BY AgeBothPhase DEF AgeBoth
<1>2. Head(todo).resource = "status"
  BY <1>1 DEF Age
<1>3. /\ expire \in [Announced -> Nat] /\ msgCount \in [Announced -> Nat]
      /\ "status" \in Announced /\ "statedesc" \in Announced
  BY DEF TypeOK, Announced
<1>4. /\ \A res \in Announced : msgCount[res] < ConEvery
      /\ expire["status"] = expire["statedesc"]
      /\ msgCount["status"] = msgCount["statedesc"]
  BY <1>1 DEF Timing, Clocks
<1>5. /\ UNCHANGED <<queue, observers>>
      /\ Used' = Used /\ Notified' = Notified
  BY DEF AgeResource, net, Used, Notified
<1> DEFINE e == expire["status"]
           m == msgCount["status"]
<1>6. e \in Nat /\ m \in Nat /\ m < ConEvery /\ Until = UntilCon(e, m)
  BY <1>3, <1>4 DEF Until
<1>7. Until \in Nat \ {0}
  BY ClockTypes DEF Timing
<1>8. \A q \in Used : queue[q] \in Item /\ Young(queue[q], Until, 1)
  BY <1>1 DEF Timing, Lifetimes, Used, TypeOK, Item
<1> HIDE DEF e, m
<1>9. CASE ~Due("status")
  <2>1. /\ expire' = [expire EXCEPT !["status"] = @ - 1]
        /\ todo' = <<Age("statedesc")>>
        /\ msgCount' = msgCount
    BY <1>1, <1>2, <1>9 DEF AgeResource
  <2>2. /\ ~First(todo') /\ ~Second(todo') /\ Halfway(todo') /\ AgeOne(todo')
        /\ \A q \in Items : Lead(todo', q) = 0
    BY <2>1, AgeOnePhase
  <2>3. expire'["status"] = e - 1 /\ expire'["statedesc"] = e /\ e > Delta
    BY <1>3, <1>4, <1>6, <1>9, <2>1, TimeTypes DEF Due, e
  <2>4. ~Due("statedesc") /\ ~Due("statedesc")'
    BY <1>3, <1>4, <1>9, <2>1 DEF Due
  <2>5. Clocks'
    BY <1>3, <1>4, <2>1, <2>2, <2>3, <2>4 DEF Clocks, e
  <2>6. Until' = Until - 1
    BY <1>6, <2>1, <2>3, AgedUntil DEF Until, m
  <2>7. Lifetimes'
    BY <1>5, <1>7, <1>8, <2>2, <2>6, YoungAged DEF Lifetimes, Used
  <2>8. Turn'
    BY <2>2, <2>4 DEF Turn, ConDue
  <2>9. Shape(todo')
    BY <2>2 DEF Shape
  <2> QED
    BY <2>5, <2>7, <2>8, <2>9 DEF Timing
<1>10. CASE Due("status")
  <2> DEFINE con == Confirmable("status")
  <2>1. /\ expire' = [expire EXCEPT !["status"] = MaxAge]
        /\ todo' = <<Notify("status", con, 1)>> \o Tail(todo)
        /\ msgCount' = [msgCount EXCEPT !["status"] = (@ + 1) % ConEvery]
    BY <1>2, <1>10 DEF AgeResource
  <2>2. con \in BOOLEAN /\ (con <=> m = 0)
    BY DEF Confirmable, m
  <2>3. todo' = <<Notify("status", con, 1), Age("statedesc")>>
    <3> HIDE DEF con
    <3> QED
      BY <1>1, <2>1, OneOne
  <2>4. /\ First(todo') /\ ~Second(todo') /\ Halfway(todo') /\ ~AgeOne(todo')
        /\ \A q \in Items : Lead(todo', q) = 0
        /\ Head(todo').con = con
    <3> HIDE DEF con
    <3> QED
      BY <2>2, <2>3, FirstPhase
  <2>5. /\ expire'["status"] = MaxAge /\ expire'["statedesc"] = e /\ e <= Delta
        /\ msgCount'["status"] = (m + 1) % ConEvery /\ msgCount'["statedesc"] = m
    BY <1>3, <1>4, <1>10, <2>1 DEF Due, e, m
  <2>6. Due("statedesc")' /\ (Confirmable("statedesc")' <=> con)
    BY <2>2, <2>5 DEF Due, Confirmable
  <2>7. (m + 1) % ConEvery < ConEvery
    BY <1>6, NextCount, TimeTypes
  <2>8. Clocks'
    <3> HIDE DEF con
    <3>1. \A res \in Announced : msgCount'[res] < ConEvery
      BY <1>6, <2>5, <2>7 DEF Announced
    <3>2. Head(todo').con = ConDue("statedesc")'
      BY <2>2, <2>4, <2>6 DEF ConDue
    <3> QED
      BY <2>4, <2>5, <2>6, <3>1, <3>2 DEF Clocks
  <2>9. CASE m # 0
    <3>1. Until' = Until - 1
      BY <1>6, <2>5, <2>9, AgedUntil DEF Until
    <3>2. Lifetimes'
      BY <1>5, <1>7, <1>8, <2>4, <3>1, YoungAged DEF Lifetimes, Used
    <3>3. Turn'
      BY <2>2, <2>4, <2>9 DEF Turn
    <3> QED
      BY <2>4, <2>8, <3>2, <3>3 DEF Timing, Shape
  <2>10. CASE m = 0
    <3>1. Until = 1
      BY <1>6, <2>5, <2>10, AgedUntil
    <3>2. \A q \in Used : queue[q].p_arg = 0
      BY <1>8, <3>1, NoneLeft
    <3>3. Lifetimes'
      BY <1>5, <1>8, <3>2 DEF Lifetimes, Used, Young
    <3>4. Notified = {}
      BY <3>2 DEF Notified
    <3>5. Turn'
      BY <1>5, <3>4 DEF Turn
    <3> QED
      BY <2>4, <2>8, <3>3, <3>5 DEF Timing, Shape
  <2> QED
    BY <2>9, <2>10
<1> QED
  BY <1>9, <1>10
\* /statedesc catches up with it.
LEMMA AgeStatedescTiming ==
  ASSUME TypeOK, Timing, AgeResource, AgeOne(todo)
  PROVE  Timing'
<1>1. /\ ~First(todo) /\ ~Second(todo) /\ Halfway(todo) /\ AgeOne(todo)
      /\ \A q \in Items : Lead(todo, q) = 0
      /\ Head(todo) = Age("statedesc") /\ Tail(todo) = <<>>
  BY AgeOnePhase DEF AgeOne
<1>2. Head(todo).resource = "statedesc"
  BY <1>1 DEF Age
<1>3. /\ expire \in [Announced -> Nat] /\ msgCount \in [Announced -> Nat]
      /\ "status" \in Announced /\ "statedesc" \in Announced
  BY DEF TypeOK, Announced
<1>4. /\ \A res \in Announced : msgCount[res] < ConEvery
      /\ expire["status"] =
           IF Due("statedesc") THEN MaxAge ELSE expire["statedesc"] - 1
      /\ msgCount["status"] =
           IF Due("statedesc") THEN (msgCount["statedesc"] + 1) % ConEvery
           ELSE msgCount["statedesc"]
  BY <1>1 DEF Timing, Clocks
<1>5. /\ UNCHANGED <<queue, observers>>
      /\ Used' = Used /\ Notified' = Notified
  BY DEF AgeResource, net, Used, Notified
<1>6. expire'["status"] = expire["status"] /\ msgCount'["status"] = msgCount["status"]
  BY <1>2, <1>3 DEF AgeResource
<1>7. Until' = Until
  BY <1>6 DEF Until
<1>8. expire'["statedesc"] = expire'["status"] /\ msgCount'["statedesc"] = msgCount'["status"]
  BY <1>2, <1>3, <1>4, <1>6 DEF AgeResource
<1>9. \A res \in Announced : msgCount'[res] < ConEvery
  BY <1>3, <1>4, <1>6, <1>8 DEF Announced
<1>10. CASE ~Due("statedesc")
  <2>1. todo' = <<>>
    BY <1>1, <1>2, <1>10 DEF AgeResource
  <2>2. /\ ~First(todo') /\ ~Second(todo') /\ ~Halfway(todo') /\ ~AgeOne(todo')
        /\ \A q \in Items : Lead(todo', q) = 0
    BY <2>1, IdlePhase
  <2>3. Clocks'
    BY <1>8, <1>9, <2>2 DEF Clocks
  <2>4. Lifetimes'
    BY <1>1, <1>5, <1>7, <2>2 DEF Timing, Lifetimes, Used
  <2> QED
    BY <2>1, <2>2, <2>3, <2>4 DEF Timing, Shape, Turn
<1>11. CASE Due("statedesc")
  <2> DEFINE con == Confirmable("statedesc")
  <2>1. todo' = <<Notify("statedesc", con, 1)>> \o Tail(todo)
    BY <1>2, <1>11 DEF AgeResource
  <2>2. con \in BOOLEAN /\ (con <=> ConDue("statedesc"))
    BY <1>11 DEF Confirmable, ConDue
  <2>3. con => Until = ConPeriod
    <3>1. con => expire["statedesc"] <= Delta /\ msgCount["statedesc"] = 0
      BY <2>2 DEF ConDue, Due, Confirmable
    <3> QED
      BY <1>3, <1>4, <1>11, <3>1, AgedUntil DEF Until
  <2> HIDE DEF con
  <2>4. todo' = <<Notify("statedesc", con, 1)>>
    BY <1>1, <2>1, OneNone
  <2>5. /\ ~First(todo') /\ Second(todo') /\ ~Halfway(todo') /\ ~AgeOne(todo')
        /\ \A q \in Items : Lead(todo', q) = 0
        /\ Head(todo').con = con
    BY <2>2, <2>4, SecondPhase
  <2>6. Clocks'
    BY <1>7, <1>8, <1>9, <2>3, <2>5 DEF Clocks
  <2>7. Lifetimes'
    BY <1>1, <1>5, <1>7, <2>5 DEF Timing, Lifetimes, Used
  <2>8. Turn'
    BY <1>1, <1>5, <2>2, <2>5 DEF Timing, Turn
  <2> QED
    BY <2>5, <2>6, <2>7, <2>8 DEF Timing, Shape
<1> QED
  BY <1>10, <1>11
----------------------------------------------------------------------------
(* The notifications.                                                      *)

LEMMA NotifyPhase ==
  ASSUME TypeOK, Shape(todo), Running("notify")
  PROVE  Pressed(todo) \/ First(todo) \/ Second(todo)
BY DEF Shape, Running, Pressed, Scanning, AgeBoth, First, AgeOne, Second, Scan, Age, Notify

LEMMA NotifyEndTiming ==
  ASSUME TypeOK, Timing, NotifyEnd
  PROVE  Timing'
<1>0. todo' = Tail(todo) /\ NotifySet = {} /\ UNCHANGED <<queue, observers, expire, msgCount>>
  BY DEF NotifyEnd, net, app
<1>1. Until' = Until /\ Used' = Used /\ Notified' = Notified
  BY <1>0 DEF Until, Used, Notified
<1>2. ConDue("statedesc")' = ConDue("statedesc")
  BY <1>0 DEF ConDue, Due, Confirmable
<1>3. \A q \in Notified : queue[q].p_arg \in Slots
  BY DEF TypeOK, Notified, Used, Slots
<1>4. CASE Pressed(todo)
  <2>1. PICK i \in Nat : todo = <<Notify("status", FALSE, i), Notify("statedesc", FALSE, 1)>>
    BY <1>4 DEF Pressed
  <2>2. /\ ~First(todo) /\ ~Second(todo) /\ ~Halfway(todo)
        /\ \A q \in Items : Lead(todo, q) = 0
        /\ todo' = <<Notify("statedesc", FALSE, 1)>> /\ 1 \in Nat /\ FALSE \in BOOLEAN
    BY <1>0, <2>1, PressedPhase
  <2>3. /\ ~First(todo') /\ Second(todo') /\ ~Halfway(todo') /\ ~AgeOne(todo')
        /\ \A q \in Items : Lead(todo', q) = 0
        /\ Head(todo').con = FALSE
    BY <2>2, SecondPhase
  <2> QED
    BY <1>0, <1>1, <2>2, <2>3 DEF Timing, Clocks, Lifetimes, Used, Turn, Shape
<1>5. CASE First(todo)
  <2>1. PICK con \in BOOLEAN, i \in Nat : todo = <<Notify("status", con, i), Age("statedesc")>>
    BY <1>5 DEF First
  <2>2. /\ Halfway(todo) /\ ~Second(todo)
        /\ \A q \in Items : Lead(todo, q) = 0
        /\ Head(todo) = Notify("status", con, i) /\ Head(todo).con = con /\ Head(todo).at = i
        /\ todo' = <<Age("statedesc")>>
    BY <1>0, <2>1, FirstPhase
  <2>3. /\ ~First(todo') /\ ~Second(todo') /\ Halfway(todo') /\ AgeOne(todo')
        /\ \A q \in Items : Lead(todo', q) = 0
    BY <2>2, AgeOnePhase
  <2>4. Clocks'
    BY <1>0, <1>1, <2>2, <2>3 DEF Timing, Clocks, Due
  <2>5. Lifetimes'
    BY <1>0, <1>1, <2>2, <2>3 DEF Timing, Lifetimes, Used
  <2>6. con = ConDue("statedesc")
    BY <1>5, <2>2 DEF Timing, Clocks
  <2>7. Turn'
    BY <1>0, <1>1, <1>2, <1>5, <2>2, <2>3, <2>6 DEF Timing, Turn
  <2> QED
    BY <2>3, <2>4, <2>5, <2>7 DEF Timing, Shape
<1>6. CASE Second(todo)
  <2>1. PICK con \in BOOLEAN, i \in Nat : todo = <<Notify("statedesc", con, i)>>
    BY <1>6 DEF Second
  <2>2. /\ ~Halfway(todo) /\ ~First(todo)
        /\ \A q \in Items : Lead(todo, q) = 0
        /\ todo' = <<>>
    BY <1>0, <2>1, SecondPhase
  <2>3. /\ ~First(todo') /\ ~Second(todo') /\ ~Halfway(todo') /\ ~AgeOne(todo')
        /\ \A q \in Items : Lead(todo', q) = 0
    BY <2>2, IdlePhase
  <2> QED
    BY <1>0, <1>1, <2>2, <2>3 DEF Timing, Clocks, Lifetimes, Used, Turn, Shape
<1> QED
  BY <1>4, <1>5, <1>6, NotifyPhase DEF Timing, NotifyEnd
LEMMA NotifiedNext ==
  ASSUME NotifySet # {}
  PROVE  /\ Least(NotifySet) \in Slots
         /\ Least(NotifySet) >= Head(todo).at
         /\ observers[Least(NotifySet)].resource = Head(todo).resource
<1>1. NotifySet \subseteq Nat
  BY DEF NotifySet, Slots
<1>2. Least(NotifySet) \in NotifySet
  BY <1>1, LeastIn
<1> QED
  BY <1>2 DEF NotifySet

\* What is to be done after the observer in slot s, with the same phase.
LEMMA NotifyGoesOn ==
  ASSUME TypeOK, Shape(todo), Running("notify"), NEW s \in Nat,
         todo' = <<Notify(Head(todo).resource, Head(todo).con, s + 1)>> \o Tail(todo)
  PROVE  /\ First(todo') <=> First(todo)
         /\ Second(todo') <=> Second(todo)
         /\ Halfway(todo') <=> Halfway(todo)
         /\ ~AgeOne(todo) /\ ~AgeOne(todo')
         /\ \A q \in Items : Lead(todo, q) = 0 /\ Lead(todo', q) = 0
         /\ Lag(todo) = 0 /\ Lag(todo') = 0
         /\ Head(todo').con = Head(todo).con
         /\ Head(todo').at = s + 1
         /\ Head(todo).con => First(todo) \/ Second(todo)
         /\ First(todo) => Head(todo).resource = "status"
         /\ Second(todo) => Head(todo).resource = "statedesc"
         /\ Shape(todo')
<1>0. s + 1 \in Nat
  OBVIOUS
<1>1. CASE Pressed(todo)
  <2>1. PICK i \in Nat : todo = <<Notify("status", FALSE, i), Notify("statedesc", FALSE, 1)>>
    BY <1>1 DEF Pressed
  <2>2. /\ ~First(todo) /\ ~Second(todo) /\ ~Halfway(todo) /\ ~AgeOne(todo)
        /\ Lag(todo) = 0 /\ \A q \in Items : Lead(todo, q) = 0
        /\ Head(todo) = Notify("status", FALSE, i)
        /\ Tail(todo) = <<Notify("statedesc", FALSE, 1)>>
    BY <2>1, PressedPhase
  <2>3. Head(todo).resource = "status" /\ Head(todo).con = FALSE
    BY <2>2 DEF Notify
  <2>4. todo' = <<Notify("status", FALSE, s + 1), Notify("statedesc", FALSE, 1)>>
    BY <2>2, <2>3, OneOne
  <2>5. /\ ~First(todo') /\ ~Second(todo') /\ ~Halfway(todo') /\ ~AgeOne(todo')
        /\ Lag(todo') = 0 /\ \A q \in Items : Lead(todo', q) = 0
        /\ Head(todo') = Notify("status", FALSE, s + 1)
    BY <1>0, <2>4, PressedPhase
  <2>6. Head(todo').con = FALSE /\ Head(todo').at = s + 1
    BY <2>5 DEF Notify
  <2>7. Shape(todo')
    BY <1>0, <2>4 DEF Shape, Pressed
  <2> QED
    BY <2>2, <2>3, <2>5, <2>6, <2>7
<1>2. CASE First(todo)
  <2>1. PICK con \in BOOLEAN, i \in Nat : todo = <<Notify("status", con, i), Age("statedesc")>>
    BY <1>2 DEF First
  <2>2. /\ First(todo) /\ ~Second(todo) /\ Halfway(todo) /\ ~AgeOne(todo)
        /\ Lag(todo) = 0 /\ \A q \in Items : Lead(todo, q) = 0
        /\ Head(todo) = Notify("status", con, i) /\ Head(todo).con = con
        /\ Tail(todo) = <<Age("statedesc")>>
    BY <2>1, FirstPhase
  <2>3. Head(todo).resource = "status"
    BY <2>2 DEF Notify
  <2>4. todo' = <<Notify("status", con, s + 1), Age("statedesc")>>
    BY <2>2, <2>3, OneOne
  <2>5. /\ First(todo') /\ ~Second(todo') /\ Halfway(todo') /\ ~AgeOne(todo')
        /\ Lag(todo') = 0 /\ \A q \in Items : Lead(todo', q) = 0
        /\ Head(todo').con = con /\ Head(todo').at = s + 1
    BY <1>0, <2>4, FirstPhase
  <2> QED
    BY <2>2, <2>3, <2>5 DEF Shape
<1>3. CASE Second(todo)
  <2>1. PICK con \in BOOLEAN, i \in Nat : todo = <<Notify("statedesc", con, i)>>
    BY <1>3 DEF Second
  <2>2. /\ ~First(todo) /\ Second(todo) /\ ~Halfway(todo) /\ ~AgeOne(todo)
        /\ Lag(todo) = 0 /\ \A q \in Items : Lead(todo, q) = 0
        /\ Head(todo) = Notify("statedesc", con, i) /\ Head(todo).con = con
        /\ Tail(todo) = <<>>
    BY <2>1, SecondPhase
  <2>3. Head(todo).resource = "statedesc"
    BY <2>2 DEF Notify
  <2>4. todo' = <<Notify("statedesc", con, s + 1)>>
    BY <2>2, <2>3, OneNone
  <2>5. /\ ~First(todo') /\ Second(todo') /\ ~Halfway(todo') /\ ~AgeOne(todo')
        /\ Lag(todo') = 0 /\ \A q \in Items : Lead(todo', q) = 0
        /\ Head(todo').con = con /\ Head(todo').at = s + 1
    <3> DEFINE j == s + 1
               t == todo'
    <3>1. t = <<Notify("statedesc", con, j)>> /\ j \in Nat
      BY <1>0, <2>4
    <3> HIDE DEF j, t
    <3>2. /\ ~First(t) /\ Second(t) /\ ~Halfway(t) /\ ~AgeOne(t)
          /\ Lag(t) = 0 /\ \A q \in Items : Lead(t, q) = 0
          /\ Head(t).con = con /\ Head(t).at = j
      BY <3>1, SecondPhase
    <3> QED
      BY <3>2 DEF j, t
  <2> QED
    BY <2>2, <2>3, <2>5 DEF Shape
<1> QED
  BY <1>1, <1>2, <1>3, NotifyPhase

\* When an observer is sent a confirmable notification, a whole period is left
\* to the next, and no other notification waits for its answer.
LEMMA ConfirmableNow ==
  ASSUME TypeOK, Timing, NEW ok, NotifyObserver(ok), Head(todo).con
  PROVE  /\ Until = ConPeriod
         /\ \A q \in Used : queue[q].p_arg # Least(NotifySet)
<1> DEFINE s == Least(NotifySet)
<1>1. /\ s \in Slots /\ s \in Nat /\ s >= Head(todo).at
      /\ observers[s].resource = Head(todo).resource
  BY NotifiedNext DEF NotifyObserver, Slots
<1>2. /\ First(todo) \/ Second(todo)
      /\ First(todo) => Head(todo).resource = "status"
      /\ Second(todo) => Head(todo).resource = "statedesc"
      /\ First(todo) => Halfway(todo)
  BY <1>1, NotifyGoesOn DEF NotifyObserver, Timing, Halfway
<1>3. Until = ConPeriod
  <2>1. CASE First(todo)
    <3>1. /\ expire["statedesc"] <= Delta /\ msgCount["statedesc"] = 0
          /\ Due("statedesc")
      BY <2>1 DEF Timing, Clocks, ConDue, Due, Confirmable
    <3>2. /\ expire["status"] = MaxAge
          /\ msgCount["status"] = (msgCount["statedesc"] + 1) % ConEvery
      BY <1>2, <2>1, <3>1 DEF Timing, Clocks
    <3>3. expire["statedesc"] \in Nat /\ 0 < ConEvery /\ 0 \in Nat
      BY TimeTypes DEF TypeOK, Announced
    <3> QED
      BY <3>1, <3>2, <3>3, AgedUntil DEF Until
  <2>2. CASE Second(todo)
    BY <2>2 DEF Timing, Clocks
  <2> QED
    BY <1>2, <2>1, <2>2
<1>4. \A q \in Used : queue[q].p_arg # s
  <2> SUFFICES ASSUME NEW q \in Used, queue[q].p_arg = s
               PROVE  FALSE
    OBVIOUS
  <2>1. q \in Notified
    BY <1>1 DEF Notified, Slots
  <2>2. /\ First(todo) => s < Head(todo).at
        /\ Second(todo) => s < Head(todo).at \/ observers[s].resource = "status"
    BY <2>1 DEF Timing, Turn
  <2>3. Head(todo).at \in Nat
    BY TailType DEF NotifyObserver, Running, TypeOK, Steps
  <2> QED
    BY <1>1, <1>2, <2>2, <2>3
<1> QED
  BY <1>3, <1>4

LEMMA NotifyTiming ==
  ASSUME TypeOK, Timing, NEW ok \in BOOLEAN, NotifyObserver(ok), halted' = "no"
  PROVE  Timing'
<1> DEFINE s == Least(NotifySet)
           con == Head(todo).con
<1>1. /\ s \in Slots /\ s \in Nat /\ s >= Head(todo).at
      /\ observers[s].resource = Head(todo).resource
  BY NotifiedNext DEF NotifyObserver, Slots
<1>2. todo' = <<Notify(Head(todo).resource, con, s + 1)>> \o Tail(todo)
  BY DEF NotifyObserver
<1>3. /\ First(todo') <=> First(todo)
      /\ Second(todo') <=> Second(todo)
      /\ Halfway(todo') <=> Halfway(todo)
      /\ ~AgeOne(todo) /\ ~AgeOne(todo')
      /\ \A q \in Items : Lead(todo, q) = 0 /\ Lead(todo', q) = 0
      /\ Head(todo').con = con
      /\ Head(todo').at = s + 1
      /\ con => First(todo) \/ Second(todo)
      /\ First(todo) => Head(todo).resource = "status"
      /\ Shape(todo')
  BY <1>1, <1>2, NotifyGoesOn DEF NotifyObserver, Timing
<1>4. UNCHANGED <<observers, expire, msgCount>> /\ Until' = Until
  BY DEF NotifyObserver, app, Until
<1>5. Clocks'
  BY <1>3, <1>4 DEF Timing, Clocks, ConDue, Due, Confirmable
<1>6. Head(todo).at \in Nat /\ con \in BOOLEAN
  BY TailType DEF NotifyObserver, Running, TypeOK, Steps
<1>7. CASE ~con
  <2>1. queue' = queue
    BY <1>7 DEF NotifyObserver
  <2>2. Lifetimes'
    BY <1>3, <1>4, <2>1 DEF Timing, Lifetimes, Used
  <2>3. Turn'
    BY <1>3, <1>7 DEF Turn
  <2> QED
    BY <1>3, <1>5, <2>2, <2>3 DEF Timing
<1>8. CASE con
  <2> DEFINE new == Least(Items \ Used)
             item == [msg |-> issued + 1, timeout |-> AckTimeout, timeout_val |-> AckTimeout,
                      retrans_count |-> 0, remote |-> observers[s].remote, p_arg |-> s]
  <2>1. ok /\ ~Full
    BY <1>8 DEF NotifyObserver
  <2>2. coap_queue_add(issued + 1, observers[s].remote, s)
    BY <1>8, <2>1 DEF NotifyObserver
  <2>3. new \in Items /\ queue \in [Items -> Item]
    BY <2>1, FreeItemFound DEF TypeOK, Item
  <2>4. \A q \in Items : queue'[q] = IF q = new THEN item ELSE queue[q]
    BY <2>2, <2>3 DEF coap_queue_add
  <2>5. Until = ConPeriod
    BY <1>8, ConfirmableNow
  <2>6. item \in Item
    <3>1. issued + 1 \in 0..MaxMessages
      BY CoapAssumption DEF NotifyObserver, TypeOK
    <3>2. observers[s].remote \in Remotes \union {Directory, None} /\ s \in 0..MaxObservers
      BY <1>1 DEF TypeOK, Slots
    <3> HIDE DEF s
    <3> QED
      BY <3>1, <3>2, CoapAssumption DEF Item
  <2>7. Young(item, Until, 0)
    BY <2>5, <2>6, YoungNew, TimeTypes
  <2>8. item.p_arg = s
    OBVIOUS
  <2> HIDE DEF item, new, s, con
  <2>9. Lifetimes'
    BY <1>3, <1>4, <2>4, <2>7 DEF Timing, Lifetimes, Used
  <2>10. Turn'
    <3> SUFFICES ASSUME NEW q \in Items, queue'[q].p_arg # 0, queue'[q].msg # 0
                 PROVE  LET p == queue'[q].p_arg IN
                        /\ First(todo') => p < s + 1 /\ observers[p].resource = "status"
                        /\ Second(todo') => p < s + 1 \/ observers[p].resource = "status"
      BY <1>3, <1>4 DEF Turn, Notified, Used
    <3>1. CASE q = new
      BY <1>1, <1>3, <2>4, <2>8, <3>1
    <3>2. CASE q # new
      <4>1. q \in Notified /\ queue'[q] = queue[q] /\ queue[q].p_arg \in Nat
        BY <2>3, <2>4, <3>2 DEF Notified, Used, Item
      <4>2. LET p == queue[q].p_arg IN
            /\ First(todo) => p < Head(todo).at /\ observers[p].resource = "status"
            /\ Second(todo) => p < Head(todo).at \/ observers[p].resource = "status"
        BY <1>8, <4>1 DEF Timing, Turn, con
      <4> QED
        BY <1>1, <1>3, <1>6, <4>1, <4>2
    <3> QED
      BY <3>1, <3>2
  <2> QED
    BY <1>3, <1>5, <2>9, <2>10 DEF Timing
<1> QED
  BY <1>7, <1>8
----------------------------------------------------------------------------
(* One notification pending.                                               *)

LEMMA TimingInit == Init => TimingInv
<1> SUFFICES ASSUME Init PROVE Timing
  BY DEF TimingInv
<1>1. todo = <<>>
  BY DEF Init
<1>2. /\ ~First(todo) /\ ~Second(todo) /\ ~Halfway(todo) /\ ~AgeOne(todo)
  BY <1>1, IdlePhase
<1>3. Clocks
  BY <1>2, TimeTypes DEF Init, Clocks, Announced
<1>4. Used = {}
  BY DEF Init, Used, FreeItem
<1> QED
  BY <1>1, <1>3, <1>4 DEF Timing, Shape, Lifetimes, Turn, Notified

LEMMA TimingNext ==
  ASSUME TypeOK, TimingInv, [Next]_vars
  PROVE  TimingInv'
<1> SUFFICES ASSUME halted' = "no" PROVE Timing'
  BY DEF TimingInv
<1>1. CASE UNCHANGED vars
  BY <1>1 DEF vars, net, app, TimingInv, Timing, Clocks, Until, Lifetimes, Used,
              Turn, Notified, ConDue, Due, Confirmable
<1>2. CASE Next
  <2>1. halted = "no"
    BY <1>2 DEF Next, LinkUp, LinkDown, Leave, Request, GetObserve, GetCancel,
                PutStatus, Received, Button, ToggleButton, send_rd_message, Answer,
                PeerAnswers, DirectoryResponds, Tick, Handler, ScanEnd, ScanItem,
                AgeResource, NotifyEnd, NotifyObserver, Idle, Running
  <2>2. Timing
    BY <2>1 DEF TimingInv
  <2>3. CASE \/ LinkUp \/ LinkDown
             \/ \E r \in Remotes : Leave(r) \/ Request(r)
             \/ Button \/ Answer
    BY <2>2, <2>3, QuietSteps, QuietTiming DEF Timing
  <2>4. CASE Tick
    BY <2>2, <2>4, TickTiming
  <2>5. CASE ScanEnd
    BY <2>2, <2>5, ScanEndTiming
  <2>6. CASE ScanItem
    BY <2>2, <2>6, ScanItemTiming
  <2>7. CASE AgeResource
    <3>1. AgeBoth(todo) \/ AgeOne(todo)
      BY <2>2, <2>7, AgePhase DEF Timing, AgeResource
    <3> QED
      BY <2>2, <2>7, <3>1, AgeStatusTiming, AgeStatedescTiming
  <2>8. CASE NotifyEnd
    BY <2>2, <2>8, NotifyEndTiming
  <2>9. CASE \E ok \in BOOLEAN : NotifyObserver(ok)
    BY <2>2, <2>9, NotifyTiming
  <2> QED
    BY <1>2, <2>3, <2>4, <2>5, <2>6, <2>7, <2>8, <2>9 DEF Next, Handler
<1> QED
  BY <1>1, <1>2

LEMMA TimingAlways == Spec => []TimingInv
<1> QED
  BY TimingInit, TimingNext, TypeCorrect, PTL DEF Spec

\* An item keeps its observer for as long as it is in the queue.
PendingKept ==
  \A q \in Items :
    \/ queue'[q].msg = 0
    \/ queue'[q].p_arg = 0
    \/ queue[q].msg # 0 /\ queue'[q].p_arg = queue[q].p_arg

\* A confirmable notification joins the queue.
PendingAdded(ok) ==
  /\ NotifyObserver(ok)
  /\ Head(todo).con
  /\ ~Full
  /\ issued + 1 \in Messages
  /\ coap_queue_add(issued + 1, observers[Least(NotifySet)].remote, Least(NotifySet))

LEMMA PendingScan ==
  ASSUME TypeOK, ScanItem
  PROVE  PendingKept
<1> DEFINE q == Least(ScanSet)
<1>0. queue \in [Items -> Item]
  BY DEF TypeOK, Item
<1>1. q \in Used /\ q \in Items
  BY ScanFound
<1> HIDE DEF q
<1>2. CASE Complete(q, "timeout")
  <2>1. ItemsKept
    BY <1>1, <1>2, CompleteKept
  <2> QED
    BY <2>1 DEF ItemsKept, PendingKept
<1>3. CASE \/ queue' = [queue EXCEPT ![q] = Retried(q)]
           \/ queue' = [queue EXCEPT ![q].timeout = @ - 1]
  <2>1. queue[q] \in Item
    BY <1>0, <1>1
  <2>2. Retried(q).p_arg = queue[q].p_arg
    BY <2>1 DEF Retried, Item
  <2>3. [queue[q] EXCEPT !.timeout = @ - 1].p_arg = queue[q].p_arg
    BY <2>1 DEF Item
  <2>4. queue'[q].p_arg = queue[q].p_arg /\ \A p \in Items : p # q => queue'[p] = queue[p]
    BY <1>0, <1>1, <1>3, <2>2, <2>3
  <2> QED
    BY <1>1, <2>4 DEF PendingKept, Used
<1> QED
  BY <1>2, <1>3 DEF ScanItem, q

LEMMA PendingStep ==
  ASSUME TypeOK, TimingInv, [Next]_vars
  PROVE  PendingKept \/ \E ok \in BOOLEAN : PendingAdded(ok)
<1>1. CASE UNCHANGED queue
  BY <1>1 DEF PendingKept
<1>2. CASE \/ LinkUp \/ LinkDown
           \/ \E r \in Remotes : Leave(r) \/ Request(r)
           \/ Button \/ Answer
  <2>1. halted = "no"
    BY <1>2 DEF LinkUp, LinkDown, Leave, Request, GetObserve, GetCancel,
                PutStatus, Received, Button, ToggleButton, send_rd_message, Answer,
                PeerAnswers, DirectoryResponds, Idle
  <2>2. ItemsKept
    BY <1>2, <2>1, QuietSteps DEF Quiet, TimingInv, Timing
  <2> QED
    BY <2>2 DEF ItemsKept, PendingKept
<1>3. CASE ScanItem
  BY <1>3, PendingScan
<1>4. CASE Tick \/ ScanEnd \/ AgeResource \/ NotifyEnd
  BY <1>1, <1>4 DEF Tick, ScanEnd, AgeResource, NotifyEnd, net
<1>5. ASSUME NEW ok \in BOOLEAN, NotifyObserver(ok)
      PROVE  UNCHANGED queue \/ PendingAdded(ok)
  <2>1. issued + 1 \in Messages
    BY <1>5, CoapAssumption DEF NotifyObserver, TypeOK, Messages
  <2> QED
    BY <1>5, <2>1 DEF NotifyObserver, PendingAdded
<1> QED
  BY <1>1, <1>2, <1>3, <1>4, <1>5 DEF Next, Handler, vars, net

LEMMA AddedItem ==
  ASSUME TypeOK, NEW ok \in BOOLEAN, PendingAdded(ok)
  PROVE  LET new == Least(Items \ Used)
             s == Least(NotifySet) IN
         /\ new \in Items /\ new \notin Used /\ s \in Slots
         /\ \A q \in Items :
              queue'[q] = IF q = new
                          THEN [msg |-> issued + 1, timeout |-> AckTimeout,
                                timeout_val |-> AckTimeout, retrans_count |-> 0,
                                remote |-> observers[s].remote, p_arg |-> s]
                          ELSE queue[q]
<1>1. Least(NotifySet) \in Slots
  BY NotifiedNext DEF PendingAdded, NotifyObserver
<1>2. Least(Items \ Used) \in Items /\ queue[Least(Items \ Used)].msg = 0
  BY FreeItemFound DEF PendingAdded
<1>3. queue \in [Items -> Item]
  BY DEF TypeOK, Item
<1> QED
  BY <1>1, <1>2, <1>3 DEF PendingAdded, coap_queue_add, Used

LEMMA OneConNext ==
  ASSUME TypeOK, TimingInv, OneConPending, [Next]_vars
  PROVE  OneConPending'
<1>1. CASE PendingKept
  BY <1>1 DEF PendingKept, OneConPending, Used
<1>2. ASSUME NEW ok \in BOOLEAN, PendingAdded(ok)
      PROVE  OneConPending'
  <2> DEFINE new == Least(Items \ Used)
             s == Least(NotifySet)
  <2>1. /\ new \in Items /\ new \notin Used /\ s \in Slots
        /\ queue'[new].p_arg = s
        /\ \A q \in Items : q # new => queue'[q] = queue[q]
    BY <1>2, AddedItem
  <2>2. \A q \in Used : queue[q].p_arg # s
    BY <1>2, ConfirmableNow DEF PendingAdded, TimingInv, NotifyObserver, Running
  <2> HIDE DEF new, s
  <2>3. \A q \in Used' : q = new \/ (q \in Used /\ queue'[q] = queue[q])
    BY <2>1 DEF Used
  <2> QED
    BY <2>1, <2>2, <2>3 DEF OneConPending
<1> QED
  BY <1>1, <1>2, PendingStep

\* No observer is sent a confirmable notification while an earlier one waits
\* for its acknowledgement, with retransmissions, cancellations and new
\* observers in the same slot in between.
THEOREM OneNotificationPending == Spec => []OneConPending
<1>1. Init => OneConPending
  BY DEF Init, OneConPending, Used, FreeItem
<1>2. TypeOK /\ TimingInv /\ OneConPending /\ [Next]_vars => OneConPending'
  BY OneConNext
<1> QED
  BY <1>1, <1>2, TypeCorrect, TimingAlways, PTL DEF Spec
----------------------------------------------------------------------------
(* Notifications alone do not fill the queue.                              *)

LEMMA SlotsFinite ==
  ASSUME NEW s \in Slots
  PROVE  IsFiniteSet(Slots \ {s}) /\ Cardinality(Slots \ {s}) = MaxObservers - 1
<1>1. 1 \in Int /\ MaxObservers \in Int /\ MaxObservers >= 1
  BY CoapAssumption DEF Slots
<1>2. IsFiniteSet(1..MaxObservers) /\ Cardinality(1..MaxObservers) = MaxObservers
  BY <1>1, FS_Interval
<1> QED
  BY <1>1, <1>2, FS_RemoveElement DEF Slots

\* The pending notifications have different observers.
LEMMA NotifiedFewer ==
  ASSUME TypeOK, OneConPending, NEW s \in Slots, \A q \in Used : queue[q].p_arg # s
  PROVE  IsFiniteSet(Notified) /\ Cardinality(Notified) < MaxObservers
<1>1. Notified \in SUBSET Used /\ IsFiniteSet(Notified)
  BY UsedFinite, FS_Subset DEF Notified
<1>2. IsFiniteSet(Slots \ {s}) /\ Cardinality(Slots \ {s}) = MaxObservers - 1
  BY SlotsFinite
<1> DEFINE f == [q \in Notified |-> queue[q].p_arg]
<1>3. f \in [Notified -> Slots \ {s}]
  BY DEF Notified, Used, TypeOK, Slots
<1>4. \A p, q \in Notified : p # q => f[p] # f[q]
  BY DEF OneConPending, Notified
<1> HIDE DEF f
<1>5. ~(Cardinality(Slots \ {s}) < Cardinality(Notified))
  BY <1>1, <1>2, <1>3, <1>4, FS_PigeonHole
<1>6. Cardinality(Notified) \in Nat /\ MaxObservers \in Nat
  BY <1>1, FS_CardinalityType, CoapAssumption
<1> QED
  BY <1>1, <1>2, <1>5, <1>6

LEMMA NeedsRequests ==
  ASSUME TypeOK, OneConPending, Used = Items,
         NEW s \in Slots, \A q \in Used : queue[q].p_arg # s
  PROVE  Cardinality(DirectoryRequests) + MaxObservers > QueueSize
<1>1. IsFiniteSet(Notified) /\ Cardinality(Notified) < MaxObservers
  BY NotifiedFewer
<1>2. DirectoryRequests \in SUBSET Used /\ IsFiniteSet(DirectoryRequests)
  BY UsedFinite, FS_Subset DEF DirectoryRequests
<1>3. /\ DirectoryRequests \union Notified = Items
      /\ DirectoryRequests \cap Notified = {}
  BY DEF DirectoryRequests, Notified
<1>4. Cardinality(Items) = Cardinality(DirectoryRequests) + Cardinality(Notified) - 0
  BY <1>1, <1>2, <1>3, FS_Union, FS_EmptySet
<1>5. /\ Cardinality(DirectoryRequests) \in Nat /\ Cardinality(Notified) \in Nat
      /\ MaxObservers \in Nat /\ QueueSize \in Nat
  BY <1>1, <1>2, FS_CardinalityType, CoapAssumption
<1> QED
  BY <1>1, <1>4, <1>5, ItemsFinite

LEMMA NeedsRequestsNext ==
  ASSUME TypeOK, CountExact, TimingInv, OneConPending, FullNeedsRequests, [Next]_vars
  PROVE  FullNeedsRequests'
<1>1. CASE halted # "no"
  BY <1>1, HaltedStops DEF vars, net, FullNeedsRequests, DirectoryRequests, Used
<1>2. CASE halted = "no" /\ halted' = "full"
  <2>1. PICK ok \in BOOLEAN :
          NotifyObserver(ok) /\ Head(todo).con /\ Full /\ UNCHANGED queue
    BY <1>2, HaltsFull
  <2>2. Least(NotifySet) \in Slots /\ \A q \in Used : queue[q].p_arg # Least(NotifySet)
    BY <1>2, <2>1, NotifiedNext, ConfirmableNow DEF NotifyObserver, TimingInv
  <2>3. Cardinality(DirectoryRequests) + MaxObservers > QueueSize
    BY <2>1, <2>2, FullIsFull, NeedsRequests
  <2>4. DirectoryRequests' = DirectoryRequests
    BY <2>1 DEF DirectoryRequests, Used
  <2> QED
    BY <2>3, <2>4 DEF FullNeedsRequests
<1>3. CASE halted' # "full"
  BY <1>3 DEF FullNeedsRequests
<1> QED
  BY <1>1, <1>2, <1>3

\* The node halts for want of a queue item only if requests to the directory
\* hold more items than the observers leave free.
THEOREM OnlyRequestsFill ==
  ASSUME MaxMessages < MidSpace
  PROVE  Spec => []FullNeedsRequests
<1>1. Init => FullNeedsRequests
  BY DEF Init, FullNeedsRequests
<1>2. TypeOK /\ CountExact /\ TimingInv /\ OneConPending /\ FullNeedsRequests
      /\ [Next]_vars => FullNeedsRequests'
  BY NeedsRequestsNext
<1> QED
  BY <1>1, <1>2, TypeCorrect, CountStaysExact, TimingAlways, OneNotificationPending,
     PTL DEF Spec
----------------------------------------------------------------------------
(* An observer that has left.                                              *)

\* The turn of slot s in this tick's confirmable notifications is to come.
Owed(s) ==
  \/ /\ First(todo) /\ Head(todo).con
     /\ observers[s].resource = "statedesc" \/ s >= Head(todo).at
  \/ AgeOne(todo) /\ ConDue("statedesc") /\ observers[s].resource = "statedesc"
  \/ /\ Second(todo) /\ Head(todo).con
     /\ observers[s].resource = "statedesc" /\ s >= Head(todo).at

\* The notification that remote r in slot s leaves unanswered.
Unanswered(r, s, q) ==
  /\ q \in Used
  /\ queue[q].p_arg = s
  /\ queue[q].remote = r
  /\ gone[r] + queue[q].timeout + Lead(todo, q)
       <= ConPeriod + 1 + AckTimeout + Lag(todo)

\* What stands between a remote that has left and the end of its registration:
\* the rest of a period, its turn in this tick, or the timeout of an item.
Doomed(r, s) ==
  \/ gone[r] + Until <= ConPeriod + 1 + Lag(todo)
  \/ Owed(s) /\ gone[r] <= ConPeriod + 1
  \/ \E q \in Items : Unanswered(r, s, q)

Absent(r, s) ==
  gone[r] # 0 /\ observers[s].remote = r /\ observers[s].resource \in Announced

Departed ==
  /\ Until <= ConPeriod
  /\ \A r \in Remotes, s \in Slots : Absent(r, s) => Doomed(r, s)
DepartedInv == halted = "no" => Departed

\* The items of a remote that has left are out of reach of answers.
LEMMA AnswerAlive ==
  ASSUME TypeOK, Answer
  PROVE  \E q \in Items, status \in {"answered", "reset"} :
           /\ Complete(q, status)
           /\ \A r \in Remotes : queue[q].remote = r => gone[r] = 0
<1>1. ASSUME NEW q \in Items, DirectoryResponds(q)
      PROVE  Complete(q, "answered") /\ \A r \in Remotes : queue[q].remote # r
  BY <1>1, CoapAssumption DEF DirectoryResponds
<1>2. ASSUME NEW n \in Messages, NEW status \in {"answered", "reset"},
             PeerAnswers(n, status)
      PROVE  \E q \in Items :
               /\ Complete(q, status)
               /\ \A r \in Remotes : queue[q].remote = r => gone[r] = 0
  <2> DEFINE found == { q \in Items : mid(q) = n % MidSpace }
  <2>1. found \subseteq Nat /\ found # {} /\ Complete(Least(found), status)
        /\ \A r \in Remotes : queue[Least(found)].remote = r => gone[r] = 0
    BY <1>2 DEF PeerAnswers, Items
  <2>2. Least(found) \in found
    BY <2>1, LeastIn
  <2> QED
    BY <2>1, <2>2
<1> QED
  BY <1>1, <1>2 DEF Answer

\* A step outside the timer's handler registers only remotes that are there,
\* and leaves alone the items of those that are not.
LEMMA AliveSteps ==
  ASSUME TypeOK,
         \/ LinkUp \/ LinkDown
         \/ \E r \in Remotes : Leave(r) \/ Request(r)
         \/ Button \/ Answer
  PROVE  /\ \A r \in Remotes, s \in Slots : Absent(r, s)' =>
              Absent(r, s) \/ gone'[r] = 1
         /\ \A r \in Remotes : gone[r] # 0 =>
              /\ gone'[r] = gone[r]
              /\ \A q \in Used : queue[q].remote = r => queue'[q] = queue[q]
<1>0. /\ queue \in [Items -> Item] /\ observers \in [Slots -> Observer]
      /\ gone \in [Remotes -> Nat]
  BY DEF TypeOK, Item, Observer
<1>1. CASE LinkUp \/ LinkDown \/ ToggleButton
  BY <1>1 DEF LinkUp, LinkDown, ToggleButton, net, app, Absent
<1>2. ASSUME NEW x \in Remotes, Leave(x)
      PROVE  /\ UNCHANGED <<queue, observers>>
             /\ \A r \in Remotes : (gone[r] # 0 /\ gone'[r] = gone[r])
                                   \/ (gone[r] = 0 /\ gone'[r] \in {0, 1})
  BY <1>0, <1>2 DEF Leave, net, app
<1>3. ASSUME NEW x \in Remotes, Request(x)
      PROVE  /\ UNCHANGED <<queue, gone>>
             /\ \A r \in Remotes, s \in Slots : Absent(r, s)' => Absent(r, s)
  <2>1. UNCHANGED <<queue, gone>> /\ gone[x] = 0
    BY <1>3 DEF Request, GetObserve, GetCancel, PutStatus, Received, net
  <2>2. ASSUME NEW res \in Resources, coap_observe_server_register(x, res)
        PROVE  \A r \in Remotes, s \in Slots : Absent(r, s)' => Absent(r, s)
    BY <1>0, <2>1, <2>2 DEF coap_observe_server_register, Absent
  <2>3. ASSUME NEW t \in Slots, coap_observe_server_unregister(t)
        PROVE  \A r \in Remotes, s \in Slots : Absent(r, s)' => Absent(r, s)
    <3>1. \A s \in Slots :
            /\ s # t => observers'[s] = observers[s]
            /\ s = t => observers'[s].resource = None
      BY <1>0, <2>3 DEF coap_observe_server_unregister, Observer
    <3>2. None \notin Announced
      BY CoapAssumption DEF Resources
    <3> QED
      BY <2>1, <3>1, <3>2 DEF Absent
  <2>4. CASE observers' = observers
    BY <2>1, <2>4 DEF Absent
  <2>5. ASSUME NEW res \in Resources, NEW ok \in BOOLEAN, GetObserve(x, res, ok)
        PROVE  \A r \in Remotes, s \in Slots : Absent(r, s)' => Absent(r, s)
    BY <2>2, <2>5 DEF GetObserve
  <2>6. ASSUME NEW res \in Resources, NEW ok \in BOOLEAN, GetCancel(x, res, ok)
        PROVE  \A r \in Remotes, s \in Slots : Absent(r, s)' => Absent(r, s)
    <3>1. CASE Matching(x, res) # {}
      BY <2>3, <2>6, <3>1, MatchFound DEF GetCancel
    <3>2. CASE Matching(x, res) = {}
      BY <2>4, <2>6, <3>2 DEF GetCancel
    <3> QED
      BY <3>1, <3>2
  <2>7. ASSUME NEW ok \in BOOLEAN, PutStatus(x, ok)
        PROVE  \A r \in Remotes, s \in Slots : Absent(r, s)' => Absent(r, s)
    BY <2>4, <2>7 DEF PutStatus, app
  <2> QED
    BY <1>3, <2>1, <2>5, <2>6, <2>7 DEF Request
<1>4. ASSUME NEW ok \in BOOLEAN, send_rd_message(ok)
      PROVE  /\ UNCHANGED <<gone, observers>>
             /\ \A q \in Used : queue'[q] = queue[q]
  <2>1. CASE ok /\ ~Full
    <3>1. Least(Items \ Used) \in Items /\ queue[Least(Items \ Used)].msg = 0
      BY <2>1, FreeItemFound
    <3>2. \A q \in Used : q # Least(Items \ Used)
      BY <3>1 DEF Used
    <3> QED
      BY <1>0, <1>4, <2>1, <3>1, <3>2 DEF send_rd_message, coap_queue_add, Used, app
  <2>2. CASE ~(ok /\ ~Full)
    BY <1>4, <2>2 DEF send_rd_message, app
  <2> QED
    BY <2>1, <2>2
<1>5. CASE Answer
  <2>1. PICK q \in Items, status \in {"answered", "reset"} :
          /\ Complete(q, status)
          /\ \A r \in Remotes : queue[q].remote = r => gone[r] = 0
    BY <1>5, AnswerAlive
  <2>2. gone' = gone
    BY <1>5 DEF Answer, PeerAnswers, DirectoryResponds
  <2>3. \A p \in Items : p # q => queue'[p] = queue[p]
    BY <1>0, <2>1 DEF Complete, net, coap_queue_remove
  <2>4. \/ observers' = observers
        \/ \E t \in Slots : coap_observe_server_unregister(t)
    BY <2>1, CallbackSlot, TypeParts DEF Complete, app
  <2>5. \A r \in Remotes, s \in Slots : Absent(r, s)' => Absent(r, s)
    <3>1. CASE observers' = observers
      BY <2>2, <3>1 DEF Absent
    <3>2. ASSUME NEW t \in Slots, coap_observe_server_unregister(t)
          PROVE  \A r \in Remotes, s \in Slots : Absent(r, s)' => Absent(r, s)
      <4>1. \A s \in Slots :
              /\ s # t => observers'[s] = observers[s]
              /\ s = t => observers'[s].resource = None
        BY <1>0, <3>2 DEF coap_observe_server_unregister, Observer
      <4>2. None \notin Announced
        BY CoapAssumption DEF Resources
      <4> QED
        BY <2>2, <4>1, <4>2 DEF Absent
    <3> QED
      BY <2>4, <3>1, <3>2
  <2> QED
    BY <2>1, <2>2, <2>3, <2>5 DEF Used
<1> QED
  <2>1. \A r \in Remotes, s \in Slots : UNCHANGED <<observers, gone>> =>
          (Absent(r, s)' => Absent(r, s))
    BY DEF Absent
  <2>2. CASE \E x \in Remotes : Leave(x)
    BY <1>2, <2>2 DEF Absent
  <2> QED
    BY <1>1, <1>3, <1>4, <1>5, <2>1, <2>2 DEF Button
LEMMA ConPeriodType == ConPeriod \in Nat \ {0} /\ UntilCon(0, 0) <= ConPeriod
<1>1. 0 \in Nat /\ 0 < ConEvery /\ 0 <= Delta
  BY TimeTypes
<1>2. (0 + 1) % ConEvery \in Nat /\ (0 + 1) % ConEvery < ConEvery
  BY <1>1, NextCount, TimeTypes
<1>3. MaxAge \in Nat
  BY TimeTypes
<1>4. UntilCon(MaxAge, (0 + 1) % ConEvery) \in Nat \ {0}
  BY <1>2, <1>3, AgedUntil
<1> QED
  BY <1>1, <1>4, AgedUntil, TimeTypes

LEMMA AliveDeparted ==
  ASSUME TypeOK, Timing, Departed, Quiet,
         \A r \in Remotes, s \in Slots : Absent(r, s)' => Absent(r, s) \/ gone'[r] = 1,
         \A r \in Remotes : gone[r] # 0 =>
           /\ gone'[r] = gone[r]
           /\ \A q \in Used : queue[q].remote = r => queue'[q] = queue[q]
  PROVE  Departed'
<1>1. /\ ~First(todo) /\ ~Second(todo) /\ ~AgeOne(todo)
      /\ Lag(todo) = 0 /\ \A q \in Items : Lead(todo, q) = 0
  BY IdlePhase DEF Quiet
<1>2. Lag(todo') = 0 /\ \A q \in Items : Lead(todo', q) = 0
  <2>1. CASE todo' = <<>>
    BY <2>1, IdlePhase
  <2>2. CASE todo' = NotifyAll
    <3>1. todo' = <<Notify("status", FALSE, 1), Notify("statedesc", FALSE, 1)>> /\ 1 \in Nat
      BY <2>2 DEF NotifyAll
    <3> QED
      BY <3>1, PressedPhase
  <2> QED
    BY <2>1, <2>2 DEF Quiet
<1>3. Until' = Until /\ Until \in Nat /\ Until <= ConPeriod
  BY ClockTypes DEF Quiet, Until, Timing, Departed
<1>4. ASSUME NEW r \in Remotes, NEW s \in Slots, Absent(r, s)'
      PROVE  Doomed(r, s)'
  <2>1. CASE gone'[r] = 1
    BY <1>2, <1>3, <2>1, TimeTypes DEF Doomed
  <2>2. CASE Absent(r, s)
    <3>1. /\ gone[r] # 0 /\ gone'[r] = gone[r]
          /\ \A q \in Used : queue[q].remote = r => queue'[q] = queue[q]
      BY <2>2 DEF Absent
    <3>2. Doomed(r, s) /\ ~Owed(s)
      BY <1>1, <2>2 DEF Departed, Owed
    <3>3. CASE gone[r] + Until <= ConPeriod + 1 + Lag(todo)
      BY <1>1, <1>2, <1>3, <3>1, <3>3 DEF Doomed
    <3>4. ASSUME NEW q \in Items, Unanswered(r, s, q)
          PROVE  Unanswered(r, s, q)'
      BY <1>1, <1>2, <3>1, <3>4 DEF Unanswered, Used
    <3> QED
      BY <3>2, <3>3, <3>4 DEF Doomed
  <2> QED
    BY <1>4, <2>1, <2>2
<1> QED
  BY <1>3, <1>4 DEF Departed

LEMMA TickDeparted ==
  ASSUME TypeOK, Timing, Departed, Tick
  PROVE  Departed'
<1>1. todo = <<>> /\ UNCHANGED <<net, app>>
  BY DEF Tick, Idle
<1>2. /\ ~First(todo) /\ ~Second(todo) /\ ~AgeOne(todo)
      /\ Lag(todo) = 0 /\ \A q \in Items : Lead(todo, q) = 0
  BY <1>1, IdlePhase
<1>3. Lag(todo') = 1 /\ \A q \in Items : Lead(todo', q) = 0
  <2>1. \A q \in Items : ~(q < 1)
    BY DEF Items
  <2>2. todo' = <<Scan(1), Age("status"), Age("statedesc")>> /\ 1 \in Nat
    BY DEF Tick
  <2> QED
    BY <2>1, <2>2, ScanningPhase
<1>4. Until' = Until /\ Until \in Nat /\ UNCHANGED <<queue, observers>>
  BY <1>1, ClockTypes DEF Until, net, app, Timing
<1>5. \A r \in Remotes : /\ gone[r] \in Nat /\ gone'[r] \in {gone[r], gone[r] + 1}
                         /\ gone'[r] # 0 => gone[r] # 0
  BY DEF Tick, TypeOK
<1>6. ASSUME NEW r \in Remotes, NEW s \in Slots, Absent(r, s)'
      PROVE  Doomed(r, s)'
  <2>1. Absent(r, s) /\ ~Owed(s)
    BY <1>2, <1>4, <1>5, <1>6 DEF Absent, Owed
  <2>2. CASE gone[r] + Until <= ConPeriod + 1 + Lag(todo)
    BY <1>2, <1>3, <1>4, <1>5, <2>2, TimeTypes DEF Doomed
  <2>3. ASSUME NEW q \in Items, Unanswered(r, s, q)
        PROVE  Unanswered(r, s, q)'
    <3>1. queue[q].timeout \in Nat
      BY DEF TypeOK
    <3> QED
      BY <1>2, <1>3, <1>4, <1>5, <2>3, <3>1, TimeTypes DEF Unanswered, Used
  <2> QED
    BY <2>1, <2>2, <2>3 DEF Doomed, Departed
<1> QED
  BY <1>4, <1>6 DEF Departed

\* With one transmission, an item whose time has come is abandoned.
LEMMA AbandonedAtOnce ==
  ASSUME MaxRetransmit = 1, NEW q \in Items, queue[q] \in Item
  PROVE  Abandoned(q)
<1>1. CASE Retransmits(q)
  <2>1. Retried(q).retrans_count = queue[q].retrans_count + 1
    BY <1>1 DEF Retried, Item
  <2> QED
    BY <2>1 DEF Abandoned, Item
<1>2. CASE ~Retransmits(q)
  <2>1. Retried(q).retrans_count = queue[q].retrans_count
    BY <1>2 DEF Retried
  <2> QED
    BY <1>2, <2>1 DEF Abandoned, Retransmits, Item
<1> QED
  BY <1>1, <1>2

\* The item of a notification that is abandoned ends its observer's registration.
LEMMA AbandonedRemoves ==
  ASSUME TypeOK, ObserversUnique, NEW q \in Items, Complete(q, "timeout"),
         halted = "no", halted' = "no", queue[q].p_arg \in Slots
  PROVE  observers'[queue[q].p_arg].resource = None
<1> DEFINE s == queue[q].p_arg
           o == observers[s]
           m == Matching(o.remote, o.resource)
<1>1. ~SearchFails(q, "timeout") /\ s # 0
  BY DEF Complete, Slots
<1>2. o \in Observer /\ o.resource # None /\ observers \in [Slots -> Observer]
  BY <1>1 DEF SearchFails, TypeOK, Observer
<1>3. s \in m
  <2>1. o = [resource |-> o.resource, remote |-> o.remote]
    BY <1>2 DEF Observer
  <2> QED
    BY <2>1 DEF Matching
<1>4. Least(m) \in Slots /\ observers[Least(m)] = [resource |-> o.resource, remote |-> o.remote]
  BY <1>3, MatchFound
<1>5. observers[Least(m)] = observers[s]
  BY <1>2, <1>4 DEF Observer
<1>6. Least(m) = s
  BY <1>2, <1>4, <1>5 DEF ObserversUnique
<1>7. coap_observe_server_unregister(Least(m))
  BY <1>1 DEF Complete, callback
<1> QED
  BY <1>2, <1>6, <1>7 DEF coap_observe_server_unregister, Observer
LEMMA ScanEndDeparted ==
  ASSUME TypeOK, Timing, Departed, ScanEnd
  PROVE  Departed'
<1>1. PICK i \in Nat : todo = <<Scan(i), Age("status"), Age("statedesc")>>
  BY ScanPhase DEF Timing, ScanEnd
<1>2. /\ ~First(todo) /\ ~Second(todo) /\ ~AgeOne(todo) /\ Lag(todo) = 1
      /\ \A q \in Items : Lead(todo, q) = IF q < i THEN 1 ELSE 0
      /\ Head(todo) = Scan(i) /\ Tail(todo) = <<Age("status"), Age("statedesc")>>
  BY <1>1, ScanningPhase
<1>3. todo' = <<Age("status"), Age("statedesc")>>
  BY <1>2 DEF ScanEnd
<1>4. Lag(todo') = 1 /\ \A q \in Items : Lead(todo', q) = 1
  BY <1>3, AgeBothPhase
<1>5. \A q \in Used : q < i
  BY <1>2 DEF ScanEnd, ScanSet, Scan, Used, Items
<1>6. UNCHANGED <<expire, msgCount, queue, observers, gone>> /\ Until' = Until
  BY DEF ScanEnd, net, app, Until
<1>7. ASSUME NEW r \in Remotes, NEW s \in Slots, Absent(r, s)'
      PROVE  Doomed(r, s)'
  <2>1. Absent(r, s) /\ ~Owed(s)
    BY <1>2, <1>6, <1>7 DEF Absent, Owed
  <2>2. \A q \in Items : Unanswered(r, s, q) => Unanswered(r, s, q)'
    BY <1>2, <1>4, <1>5, <1>6 DEF Unanswered, Used
  <2> QED
    BY <1>2, <1>4, <1>6, <2>1, <2>2 DEF Doomed, Departed
<1> QED
  BY <1>6, <1>7 DEF Departed

LEMMA ScanItemDeparted ==
  ASSUME MaxRetransmit = 1, TypeOK, ObserversUnique, Timing, Departed, ScanItem,
         halted' = "no"
  PROVE  Departed'
<1>0. /\ queue \in [Items -> Item] /\ observers \in [Slots -> Observer]
      /\ halted = "no" /\ None \notin Announced
  BY CoapAssumption DEF TypeOK, Item, Observer, ScanItem, Running, Resources
<1>1. PICK i \in Nat : todo = <<Scan(i), Age("status"), Age("statedesc")>>
  BY ScanPhase DEF Timing, ScanItem
<1>2. /\ ~First(todo) /\ ~Second(todo) /\ ~AgeOne(todo) /\ Lag(todo) = 1
      /\ \A q \in Items : Lead(todo, q) = IF q < i THEN 1 ELSE 0
      /\ Head(todo) = Scan(i) /\ Tail(todo) = <<Age("status"), Age("statedesc")>>
  BY <1>1, ScanningPhase
<1>q. PICK q : q = Least(ScanSet)
  OBVIOUS
<1>3. /\ q \in Used /\ q \in Items /\ q >= i
      /\ \A p \in Used : p < q + 1 => p < i \/ p = q
  <2>1. ScanSet = { p \in Used : p >= i }
    BY <1>2 DEF ScanSet, Scan
  <2>2. ScanSet \subseteq Nat /\ ScanSet # {}
    BY DEF ScanItem, ScanSet, Used, Items
  <2>3. q \in ScanSet /\ \A p \in ScanSet : q <= p
    BY <1>q, <2>2, LeastIn
  <2>4. \A p \in Used : p \in Nat /\ p \in Items
    BY DEF Used, Items
  <2> QED
    BY <2>1, <2>3, <2>4
<1>4. todo' = <<Scan(q + 1), Age("status"), Age("statedesc")>> /\ q + 1 \in Nat
  <2>1. todo' = <<Scan(q + 1)>> \o <<Age("status"), Age("statedesc")>>
    BY <1>q, <1>2 DEF ScanItem
  <2>2. q + 1 \in Nat
    BY <1>3 DEF Items
  <2> QED
    BY <2>1, <2>2, OneTwo
<1>5. \/ Complete(q, "timeout")
      \/ queue[q].timeout = 0 /\ ~Abandoned(q)
      \/ /\ queue[q].timeout # 0 /\ queue' = [queue EXCEPT ![q].timeout = @ - 1]
         /\ UNCHANGED <<count, issued, fate, app, halted>>
  BY <1>q DEF ScanItem
<1>6. gone' = gone
  BY DEF ScanItem
<1>7. /\ Lag(todo') = 1
      /\ \A p \in Items : Lead(todo', p) = IF p < q + 1 THEN 1 ELSE 0
  BY <1>4, ScanningPhase
<1>8. \A p \in Used : p # q => Lead(todo', p) = Lead(todo, p)
  BY <1>2, <1>3, <1>7 DEF Used, Items
<1>9. Lead(todo, q) = 0 /\ Lead(todo', q) = 1
  BY <1>2, <1>3, <1>7 DEF Items
<1>10. ~(queue[q].timeout = 0 /\ ~Abandoned(q))
  BY <1>0, <1>3, AbandonedAtOnce
<1>11. Until' = Until /\ \A p \in Items : p # q => queue'[p] = queue[p]
  <2>1. CASE Complete(q, "timeout")
    BY <1>0, <1>3, <2>1, CompleteKept DEF Until, Complete, net, coap_queue_remove
  <2>2. CASE queue' = [queue EXCEPT ![q].timeout = @ - 1] /\ UNCHANGED app
    BY <1>0, <2>2 DEF app, Until
  <2> QED
    BY <1>5, <1>10, <2>1, <2>2
<1>12. \A r \in Remotes, s \in Slots, p \in Items :
         Unanswered(r, s, p) /\ p # q => Unanswered(r, s, p)'
  BY <1>2, <1>6, <1>7, <1>8, <1>11 DEF Unanswered, Used
<1>13. ASSUME NEW r \in Remotes, NEW s \in Slots, Absent(r, s)',
              Absent(r, s), Unanswered(r, s, q) => Unanswered(r, s, q)'
       PROVE  Doomed(r, s)'
  <2>1. Doomed(r, s) /\ ~Owed(s)
    BY <1>2, <1>13 DEF Departed, Owed
  <2>2. CASE gone[r] + Until <= ConPeriod + 1 + Lag(todo)
    BY <1>2, <1>6, <1>7, <1>11, <2>2 DEF Doomed
  <2>3. ASSUME NEW p \in Items, Unanswered(r, s, p)
        PROVE  Unanswered(r, s, p)'
    BY <1>12, <1>13, <2>3 DEF Unanswered
  <2> QED
    BY <2>1, <2>2, <2>3 DEF Doomed
<1>14. CASE Complete(q, "timeout")
  <2>1. ASSUME NEW r \in Remotes, NEW s \in Slots, Absent(r, s)'
        PROVE  Doomed(r, s)'
    <3>1. \/ observers' = observers
          \/ \E t \in Slots : coap_observe_server_unregister(t)
      BY <1>3, <1>14, CallbackSlot, TypeParts DEF Complete, app
    <3>2. observers'[s] = observers[s] \/ observers'[s].resource = None
      BY <1>0, <3>1 DEF coap_observe_server_unregister, Observer
    <3>3. Absent(r, s)
      BY <1>0, <1>6, <2>1, <3>2 DEF Absent
    <3>4. ~Unanswered(r, s, q)
      BY <1>0, <1>3, <1>14, <2>1, AbandonedRemoves DEF Unanswered, Absent
    <3> QED
      BY <1>13, <2>1, <3>3, <3>4
  <2> QED
    BY <1>11, <2>1 DEF Departed
<1>15. CASE /\ queue[q].timeout # 0 /\ queue' = [queue EXCEPT ![q].timeout = @ - 1]
            /\ UNCHANGED app
  <2>1. queue[q] \in Item /\ queue'[q] = [queue[q] EXCEPT !.timeout = @ - 1]
    BY <1>0, <1>3, <1>15
  <2>2. /\ queue'[q].msg = queue[q].msg /\ queue'[q].p_arg = queue[q].p_arg
        /\ queue'[q].remote = queue[q].remote
        /\ queue'[q].timeout = queue[q].timeout - 1
        /\ queue[q].timeout \in Nat
    BY <2>1 DEF Item
  <2>3. ASSUME NEW r \in Remotes, NEW s \in Slots, Absent(r, s)'
        PROVE  Doomed(r, s)'
    <3>1. Absent(r, s)
      BY <1>6, <1>15, <2>3 DEF Absent, app
    <3>2. ASSUME Unanswered(r, s, q)
          PROVE  Unanswered(r, s, q)'
      <4>1. gone[r] \in Nat
        BY DEF TypeOK
      <4>2. gone[r] + queue[q].timeout + 0 <= ConPeriod + 1 + AckTimeout + 1
        BY <1>2, <1>9, <3>2 DEF Unanswered
      <4>3. gone'[r] + queue'[q].timeout + 1 <= ConPeriod + 1 + AckTimeout + 1
        BY <1>6, <2>2, <4>1, <4>2, TimeTypes
      <4> QED
        BY <1>3, <1>7, <1>9, <2>2, <3>2, <4>3 DEF Unanswered, Used
    <3> QED
      BY <1>13, <2>3, <3>1, <3>2
  <2> QED
    BY <1>11, <2>3 DEF Departed
<1> QED
  BY <1>5, <1>10, <1>14, <1>15
LEMMA AgeStatusDeparted ==
  ASSUME TypeOK, Timing, Departed, AgeResource, AgeBoth(todo)
  PROVE  Departed'
<1>1. /\ ~First(todo) /\ ~Second(todo) /\ ~Halfway(todo) /\ ~AgeOne(todo)
      /\ Lag(todo) = 1 /\ \A q \in Items : Lead(todo, q) = 1
      /\ Head(todo) = Age("status") /\ Tail(todo) = <<Age("statedesc")>>
  BY AgeBothPhase DEF AgeBoth
<1>2. Head(todo).resource = "status"
  BY <1>1 DEF Age
<1>3. /\ expire \in [Announced -> Nat] /\ msgCount \in [Announced -> Nat]
      /\ "status" \in Announced /\ Announced = {"status", "statedesc"}
  BY DEF TypeOK, Announced
<1>4. UNCHANGED <<queue, observers, gone>>
  BY DEF AgeResource, net
<1> DEFINE e == expire["status"]
           m == msgCount["status"]
<1>5. e \in Nat /\ m \in Nat /\ m < ConEvery /\ Until = UntilCon(e, m)
  BY <1>3 DEF Until, Timing, Clocks
<1>6. Until \in Nat \ {0} /\ Until <= ConPeriod /\ ConPeriod \in Nat
  BY ClockTypes, TimeTypes DEF Timing, Departed
<1>7. \A r \in Remotes : gone[r] \in Nat
  BY DEF TypeOK
<1>8. \A r \in Remotes, s \in Slots : Absent(r, s)' => Absent(r, s) /\ ~Owed(s)
  BY <1>1, <1>4 DEF Absent, Owed
<1>9. \A r \in Remotes, s \in Slots : Absent(r, s)' =>
        \/ gone[r] + Until <= ConPeriod + 1 + 1
        \/ \E q \in Items : Unanswered(r, s, q)
  BY <1>1, <1>8 DEF Departed, Doomed
<1> HIDE DEF e, m
<1>10. ASSUME Lag(todo') = 0, \A q \in Items : Lead(todo', q) = 0,
              Until' = Until - 1
       PROVE  Departed'
  <2>1. ASSUME NEW r \in Remotes, NEW s \in Slots, Absent(r, s)'
        PROVE  Doomed(r, s)'
    <3>1. CASE gone[r] + Until <= ConPeriod + 1 + 1
      BY <1>4, <1>6, <1>7, <1>10, <3>1 DEF Doomed
    <3>2. ASSUME NEW q \in Items, Unanswered(r, s, q)
          PROVE  Unanswered(r, s, q)'
      <4>1. queue[q].timeout \in Nat /\ gone[r] \in Nat
        BY DEF TypeOK
      <4> QED
        BY <1>1, <1>4, <1>10, <3>2, <4>1, TimeTypes DEF Unanswered, Used
    <3> QED
      BY <1>9, <2>1, <3>1, <3>2 DEF Doomed
  <2> QED
    BY <1>6, <1>10, <2>1 DEF Departed
<1>11. CASE ~Due("status")
  <2>1. /\ expire' = [expire EXCEPT !["status"] = @ - 1]
        /\ todo' = <<Age("statedesc")>>
        /\ msgCount' = msgCount
    BY <1>1, <1>2, <1>11 DEF AgeResource
  <2>2. Lag(todo') = 0 /\ \A q \in Items : Lead(todo', q) = 0
    BY <2>1, AgeOnePhase
  <2>3. expire'["status"] = e - 1 /\ e > Delta
    BY <1>3, <1>5, <1>11, <2>1, TimeTypes DEF Due, e
  <2>4. Until' = Until - 1
    BY <1>5, <2>1, <2>3, AgedUntil DEF Until, m
  <2> QED
    BY <1>10, <2>2, <2>4
<1>12. CASE Due("status")
  <2> DEFINE con == Confirmable("status")
  <2>1. /\ expire' = [expire EXCEPT !["status"] = MaxAge]
        /\ todo' = <<Notify("status", con, 1)>> \o Tail(todo)
        /\ msgCount' = [msgCount EXCEPT !["status"] = (@ + 1) % ConEvery]
    BY <1>2, <1>12 DEF AgeResource
  <2>2. con \in BOOLEAN /\ (con <=> m = 0)
    BY DEF Confirmable, m
  <2>3. /\ expire'["status"] = MaxAge /\ e <= Delta
        /\ msgCount'["status"] = (m + 1) % ConEvery
    BY <1>3, <1>12, <2>1 DEF Due, e, m
  <2> HIDE DEF con
  <2>4. todo' = <<Notify("status", con, 1), Age("statedesc")>> /\ 1 \in Nat
    BY <1>1, <2>1, OneOne
  <2>5. /\ First(todo') /\ Lag(todo') = 0 /\ \A q \in Items : Lead(todo', q) = 0
        /\ Head(todo').con = con /\ Head(todo').at = 1
    BY <2>2, <2>4, FirstPhase
  <2>6. CASE m # 0
    <3>1. Until' = Until - 1
      BY <1>5, <2>3, <2>6, AgedUntil DEF Until
    <3> QED
      BY <1>10, <2>5, <3>1
  <2>7. CASE m = 0
    <3>1. Until = 1 /\ Until' = ConPeriod
      BY <1>5, <2>3, <2>7, AgedUntil DEF Until
    <3>2. \A q \in Used : queue[q].p_arg = 0
      <4>1. \A q \in Used : queue[q] \in Item /\ Young(queue[q], 1, 1)
        BY <1>1, <3>1 DEF Timing, Lifetimes, Used, TypeOK, Item
      <4> QED
        BY <4>1, NoneLeft
    <3>3. ASSUME NEW r \in Remotes, NEW s \in Slots, Absent(r, s)'
          PROVE  Doomed(r, s)'
      <4>1. \A q \in Items : ~Unanswered(r, s, q)
        BY <3>2 DEF Unanswered, Slots
      <4>2. gone[r] + 1 <= ConPeriod + 1 + 1
        BY <1>9, <3>1, <3>3, <4>1
      <4>3. gone'[r] <= ConPeriod + 1
        BY <1>4, <1>6, <1>7, <4>2
      <4>4. Owed(s)'
        <5>1. Head(todo').con
          BY <2>2, <2>5, <2>7
        <5>2. s >= 1
          BY DEF Slots
        <5> QED
          BY <2>5, <5>1, <5>2 DEF Owed
      <4> QED
        BY <4>3, <4>4 DEF Doomed
    <3> QED
      BY <1>6, <3>1, <3>3 DEF Departed
  <2> QED
    BY <1>5, <2>6, <2>7
<1> QED
  BY <1>11, <1>12

LEMMA AgeStatedescDeparted ==
  ASSUME TypeOK, Timing, Departed, AgeResource, AgeOne(todo)
  PROVE  Departed'
<1>1. /\ ~First(todo) /\ ~Second(todo)
      /\ Lag(todo) = 0 /\ \A q \in Items : Lead(todo, q) = 0
      /\ Head(todo) = Age("statedesc") /\ Tail(todo) = <<>>
  BY AgeOnePhase DEF AgeOne
<1>2. Head(todo).resource = "statedesc"
  BY <1>1 DEF Age
<1>3. UNCHANGED <<queue, observers, gone>> /\ Until' = Until
  <2>1. expire'["status"] = expire["status"] /\ msgCount'["status"] = msgCount["status"]
    BY <1>2 DEF AgeResource, TypeOK, Announced
  <2> QED
    BY <2>1 DEF AgeResource, net, Until
<1>4. /\ Lag(todo') = 0 /\ \A q \in Items : Lead(todo', q) = 0
      /\ ConDue("statedesc") => Second(todo') /\ Head(todo').con /\ Head(todo').at = 1
  <2>1. CASE ~Due("statedesc")
    <3>1. todo' = <<>>
      BY <1>1, <1>2, <2>1 DEF AgeResource
    <3> QED
      BY <2>1, <3>1, IdlePhase DEF ConDue
  <2>2. CASE Due("statedesc")
    <3> DEFINE con == Confirmable("statedesc")
    <3>1. todo' = <<Notify("statedesc", con, 1)>> \o Tail(todo)
      BY <1>2, <2>2 DEF AgeResource
    <3>2. con \in BOOLEAN /\ (con <=> ConDue("statedesc")) /\ 1 \in Nat
      BY <2>2 DEF Confirmable, ConDue
    <3> HIDE DEF con
    <3>3. todo' = <<Notify("statedesc", con, 1)>>
      BY <1>1, <3>1, OneNone
    <3>4. /\ Second(todo') /\ Lag(todo') = 0 /\ \A q \in Items : Lead(todo', q) = 0
          /\ Head(todo').con = con /\ Head(todo').at = 1
      BY <3>2, <3>3, SecondPhase
    <3> QED
      BY <3>2, <3>4
  <2> QED
    BY <2>1, <2>2
<1>5. ASSUME NEW r \in Remotes, NEW s \in Slots, Absent(r, s)'
      PROVE  Doomed(r, s)'
  <2>1. Doomed(r, s)
    BY <1>3, <1>5 DEF Absent, Departed
  <2>2. \A q \in Items : Unanswered(r, s, q) => Unanswered(r, s, q)'
    BY <1>1, <1>3, <1>4 DEF Unanswered, Used
  <2>3. Owed(s) => Owed(s)'
    BY <1>1, <1>3, <1>4 DEF Owed, Slots
  <2> QED
    BY <1>1, <1>3, <1>4, <2>1, <2>2, <2>3 DEF Doomed
<1> QED
  BY <1>3, <1>5 DEF Departed

LEMMA NotifyEndDeparted ==
  ASSUME TypeOK, Timing, Departed, NotifyEnd
  PROVE  Departed'
<1>0. todo' = Tail(todo) /\ NotifySet = {}
      /\ UNCHANGED <<queue, observers, expire, msgCount, gone>>
  BY DEF NotifyEnd, net, app
<1>1. Until' = Until /\ ConDue("statedesc")' = ConDue("statedesc")
  BY <1>0 DEF Until, ConDue, Due, Confirmable
<1>2. /\ Lag(todo) = 0 /\ \A q \in Items : Lead(todo, q) = 0
      /\ Lag(todo') = 0 /\ \A q \in Items : Lead(todo', q) = 0
      /\ \A s \in Slots : Owed(s) /\ observers[s].resource \in Announced => Owed(s)'
  <2>1. CASE Pressed(todo)
    <3>1. PICK i \in Nat : todo = <<Notify("status", FALSE, i), Notify("statedesc", FALSE, 1)>>
      BY <2>1 DEF Pressed
    <3>2. /\ ~First(todo) /\ ~Second(todo) /\ ~AgeOne(todo)
          /\ Lag(todo) = 0 /\ \A q \in Items : Lead(todo, q) = 0
          /\ todo' = <<Notify("statedesc", FALSE, 1)>> /\ 1 \in Nat /\ FALSE \in BOOLEAN
      BY <1>0, <3>1, PressedPhase
    <3>3. Lag(todo') = 0 /\ \A q \in Items : Lead(todo', q) = 0
      BY <3>2, SecondPhase
    <3> QED
      BY <3>2, <3>3 DEF Owed
  <2>2. CASE First(todo)
    <3>1. PICK con \in BOOLEAN, i \in Nat : todo = <<Notify("status", con, i), Age("statedesc")>>
      BY <2>2 DEF First
    <3>2. /\ ~Second(todo) /\ ~AgeOne(todo)
          /\ Lag(todo) = 0 /\ \A q \in Items : Lead(todo, q) = 0
          /\ Head(todo) = Notify("status", con, i) /\ Head(todo).con = con /\ Head(todo).at = i
          /\ todo' = <<Age("statedesc")>>
      BY <1>0, <3>1, FirstPhase
    <3>3. AgeOne(todo') /\ Lag(todo') = 0 /\ \A q \in Items : Lead(todo', q) = 0
      BY <3>2, AgeOnePhase
    <3>4. Head(todo).resource = "status"
      BY <3>2 DEF Notify
    <3>5. \A s \in Slots : observers[s].resource = "status" => ~(s >= i)
      BY <1>0, <3>2, <3>4 DEF NotifySet
    <3>6. con = ConDue("statedesc")
      BY <2>2, <3>2 DEF Timing, Clocks
    <3> QED
      BY <1>0, <1>1, <3>2, <3>3, <3>5, <3>6 DEF Owed, Announced
  <2>3. CASE Second(todo)
    <3>1. PICK con \in BOOLEAN, i \in Nat : todo = <<Notify("statedesc", con, i)>>
      BY <2>3 DEF Second
    <3>2. /\ ~First(todo) /\ ~AgeOne(todo)
          /\ Lag(todo) = 0 /\ \A q \in Items : Lead(todo, q) = 0
          /\ Head(todo) = Notify("statedesc", con, i) /\ Head(todo).at = i
          /\ todo' = <<>>
      BY <1>0, <3>1, SecondPhase
    <3>3. Lag(todo') = 0 /\ \A q \in Items : Lead(todo', q) = 0
      BY <3>2, IdlePhase
    <3>4. Head(todo).resource = "statedesc"
      BY <3>2 DEF Notify
    <3>5. \A s \in Slots : observers[s].resource = "statedesc" => ~(s >= i)
      BY <1>0, <3>2, <3>4 DEF NotifySet
    <3> QED
      BY <3>2, <3>3, <3>5 DEF Owed
  <2> QED
    BY <2>1, <2>2, <2>3, NotifyPhase DEF Timing, NotifyEnd
<1>3. ASSUME NEW r \in Remotes, NEW s \in Slots, Absent(r, s)'
      PROVE  Doomed(r, s)'
  <2>1. Absent(r, s) /\ Doomed(r, s)
    BY <1>0, <1>3 DEF Absent, Departed
  <2>2. \A q \in Items : Unanswered(r, s, q) => Unanswered(r, s, q)'
    BY <1>0, <1>2 DEF Unanswered, Used
  <2>3. Owed(s) => Owed(s)'
    BY <1>2, <2>1 DEF Absent
  <2> QED
    BY <1>0, <1>1, <1>2, <2>1, <2>2, <2>3 DEF Doomed
<1> QED
  BY <1>1, <1>3 DEF Departed
LEMMA NotifyDeparted ==
  ASSUME TypeOK, Timing, Departed, NEW ok \in BOOLEAN, NotifyObserver(ok), halted' = "no"
  PROVE  Departed'
<1>1. PICK s \in Nat :
        /\ s = Least(NotifySet) /\ s \in Slots /\ s >= Head(todo).at
        /\ observers[s].resource = Head(todo).resource
        /\ \A p \in NotifySet : s <= p
  <2>1. NotifySet \subseteq Nat /\ NotifySet # {}
    BY DEF NotifySet, Slots, NotifyObserver
  <2> QED
    BY <2>1, LeastIn, NotifiedNext DEF Slots
<1>2. todo' = <<Notify(Head(todo).resource, Head(todo).con, s + 1)>> \o Tail(todo)
  BY <1>1 DEF NotifyObserver
<1>3. /\ First(todo') <=> First(todo)
      /\ Second(todo') <=> Second(todo)
      /\ ~AgeOne(todo)
      /\ \A q \in Items : Lead(todo, q) = 0 /\ Lead(todo', q) = 0
      /\ Lag(todo) = 0 /\ Lag(todo') = 0
      /\ Head(todo').con = Head(todo).con
      /\ Head(todo').at = s + 1
      /\ First(todo) => Head(todo).resource = "status"
      /\ Second(todo) => Head(todo).resource = "statedesc"
  BY <1>1, <1>2, NotifyGoesOn DEF NotifyObserver, Timing
<1>4. UNCHANGED <<observers, expire, msgCount, gone>> /\ Until' = Until
  BY DEF NotifyObserver, app, Until
<1>5. /\ Until \in Nat /\ Until <= ConPeriod /\ ConPeriod \in Nat /\ AckTimeout \in Nat
      /\ \A r \in Remotes : gone[r] \in Nat
  BY ClockTypes, TimeTypes DEF Timing, Departed, TypeOK
<1>6. Head(todo).at \in Nat
  BY TailType DEF NotifyObserver, Running, TypeOK, Steps
<1>7. \A t \in Slots : t >= Head(todo).at /\ observers[t].resource = Head(todo).resource /\ t # s
        => t >= s + 1
  <2>1. \A t \in Slots : t >= Head(todo).at /\ observers[t].resource = Head(todo).resource
          => s <= t
    BY <1>1 DEF NotifySet
  <2> QED
    BY <1>1, <2>1 DEF Slots
<1>8. \A t \in Slots : Owed(t) /\ observers[t].resource \in Announced /\ t # s => Owed(t)'
  BY <1>3, <1>4, <1>7 DEF Owed, Announced
<1>9. \A q \in Used : queue'[q] = queue[q]
  <2>1. CASE UNCHANGED queue
    BY <2>1
  <2>2. CASE coap_queue_add(issued + 1, observers[s].remote, s) /\ ~Full
    <3>1. Least(Items \ Used) \in Items /\ queue[Least(Items \ Used)].msg = 0
      BY <2>2, FreeItemFound
    <3> QED
      BY <2>2, <3>1 DEF coap_queue_add, Used, TypeOK
  <2> QED
    BY <1>1, <2>1, <2>2 DEF NotifyObserver
<1>10. \A r \in Remotes, t \in Slots, q \in Items : Unanswered(r, t, q) => Unanswered(r, t, q)'
  BY <1>3, <1>4, <1>9 DEF Unanswered, Used
<1>11. ASSUME NEW r \in Remotes, NEW t \in Slots, Absent(r, t)'
       PROVE  Doomed(r, t)'
  <2>1. Absent(r, t) /\ Doomed(r, t)
    BY <1>4, <1>11 DEF Absent, Departed
  <2>2. CASE gone[r] + Until <= ConPeriod + 1 + Lag(todo)
    BY <1>3, <1>4, <2>2 DEF Doomed
  <2>3. CASE \E q \in Items : Unanswered(r, t, q)
    BY <1>10, <2>3 DEF Doomed
  <2>4. CASE Owed(t) /\ gone[r] <= ConPeriod + 1 /\ t # s
    BY <1>4, <1>8, <2>1, <2>4 DEF Doomed, Absent
  <2>5. CASE Owed(t) /\ gone[r] <= ConPeriod + 1 /\ t = s
    <3>1. Head(todo).con
      BY <1>3, <2>5 DEF Owed
    <3>2. PendingAdded(ok)
      <4>1. issued + 1 \in Messages
        BY CoapAssumption DEF NotifyObserver, TypeOK, Messages
      <4> QED
        BY <3>1, <4>1 DEF NotifyObserver, PendingAdded
    <3>3. PICK new \in Items : new = Least(Items \ Used) /\ queue'[new] =
            [msg |-> issued + 1, timeout |-> AckTimeout, timeout_val |-> AckTimeout,
             retrans_count |-> 0, remote |-> observers[s].remote, p_arg |-> s]
      BY <1>1, <3>2, AddedItem
    <3>4. /\ queue'[new].msg # 0 /\ queue'[new].p_arg = t /\ queue'[new].remote = r
          /\ queue'[new].timeout = AckTimeout
      BY <2>1, <2>5, <3>3 DEF Absent, TypeOK
    <3>5. gone'[r] + AckTimeout + 0 <= ConPeriod + 1 + AckTimeout + 0
      BY <1>4, <1>5, <2>5
    <3>6. Unanswered(r, t, new)'
      BY <1>3, <3>4, <3>5 DEF Unanswered, Used
    <3> QED
      BY <3>6 DEF Doomed
  <2> QED
    BY <2>1, <2>2, <2>3, <2>4, <2>5 DEF Doomed
<1> QED
  BY <1>4, <1>5, <1>11 DEF Departed

LEMMA DepartedInit == Init => DepartedInv
<1> SUFFICES ASSUME Init PROVE Departed
  BY DEF DepartedInv
<1>1. Until <= ConPeriod
  BY ConPeriodType DEF Init, Until, Announced
<1>2. \A r \in Remotes : gone[r] = 0
  BY DEF Init
<1> QED
  BY <1>1, <1>2 DEF Departed, Absent

LEMMA DepartedNext ==
  ASSUME MaxRetransmit = 1, TypeOK, ObserversUnique, TimingInv, DepartedInv, [Next]_vars
  PROVE  DepartedInv'
<1> SUFFICES ASSUME halted' = "no" PROVE Departed'
  BY DEF DepartedInv
<1>1. CASE UNCHANGED vars
  BY <1>1 DEF vars, net, app, DepartedInv, Departed, Absent, Doomed, Unanswered, Owed,
              Until, Used, ConDue, Due, Confirmable
<1>2. CASE Next
  <2>1. halted = "no"
    BY <1>2 DEF Next, LinkUp, LinkDown, Leave, Request, GetObserve, GetCancel,
                PutStatus, Received, Button, ToggleButton, send_rd_message, Answer,
                PeerAnswers, DirectoryResponds, Tick, Handler, ScanEnd, ScanItem,
                AgeResource, NotifyEnd, NotifyObserver, Idle, Running
  <2>2. Timing /\ Departed
    BY <2>1 DEF TimingInv, DepartedInv
  <2>3. CASE \/ LinkUp \/ LinkDown
             \/ \E r \in Remotes : Leave(r) \/ Request(r)
             \/ Button \/ Answer
    <3>1. Quiet
      BY <2>2, <2>3, QuietSteps DEF Timing
    <3> QED
      BY <2>2, <2>3, <3>1, AliveSteps, AliveDeparted
  <2>4. CASE Tick
    BY <2>2, <2>4, TickDeparted
  <2>5. CASE ScanEnd
    BY <2>2, <2>5, ScanEndDeparted
  <2>6. CASE ScanItem
    BY <2>2, <2>6, ScanItemDeparted
  <2>7. CASE AgeResource
    <3>1. AgeBoth(todo) \/ AgeOne(todo)
      BY <2>2, <2>7, AgePhase DEF Timing, AgeResource
    <3> QED
      BY <2>2, <2>7, <3>1, AgeStatusDeparted, AgeStatedescDeparted
  <2>8. CASE NotifyEnd
    BY <2>2, <2>8, NotifyEndDeparted
  <2>9. CASE \E ok \in BOOLEAN : NotifyObserver(ok)
    BY <2>2, <2>9, NotifyDeparted
  <2> QED
    BY <1>2, <2>3, <2>4, <2>5, <2>6, <2>7, <2>8, <2>9 DEF Next, Handler
<1> QED
  BY <1>1, <1>2

LEMMA DoomedEnds ==
  ASSUME TypeOK, TimingInv, DepartedInv
  PROVE  DeadObserverRemoved
<1> SUFFICES ASSUME NEW r \in Remotes, NEW res \in Announced, Idle,
                    gone[r] > ConPeriod + Patience, NEW s \in Matching(r, res)
             PROVE  FALSE
  BY DEF DeadObserverRemoved
<1>1. todo = <<>> /\ Timing /\ Departed
  BY DEF Idle, TimingInv, DepartedInv
<1>2. /\ ~First(todo) /\ ~Second(todo) /\ ~AgeOne(todo)
      /\ Lag(todo) = 0 /\ \A q \in Items : Lead(todo, q) = 0
  BY <1>1, IdlePhase
<1>3. /\ Until \in Nat \ {0} /\ ConPeriod \in Nat /\ AckTimeout \in Nat
      /\ gone[r] \in Nat
  BY <1>1, ClockTypes, TimeTypes DEF Timing, TypeOK
<1>4. gone[r] > ConPeriod + AckTimeout + 1
  BY <1>3 DEF Patience
<1>5. s \in Slots /\ Absent(r, s)
  BY <1>3, <1>4 DEF Matching, Absent
<1>6. Doomed(r, s) /\ ~Owed(s)
  BY <1>1, <1>2, <1>5 DEF Departed, Owed
<1>7. ~(gone[r] + Until <= ConPeriod + 1 + Lag(todo))
  BY <1>2, <1>3, <1>4
<1>8. ASSUME NEW q \in Items, Unanswered(r, s, q)
      PROVE  FALSE
  <2>1. queue[q].timeout \in Nat
    BY DEF TypeOK
  <2>2. gone[r] + queue[q].timeout + 0 <= ConPeriod + 1 + AckTimeout + 0
    BY <1>2, <1>8 DEF Unanswered
  <2> QED
    BY <1>3, <1>4, <2>1, <2>2
<1> QED
  BY <1>6, <1>7, <1>8 DEF Doomed

\* An observer that left without a word has lost its registration when a whole
\* period of confirmable notifications and one timeout have passed, unless the
\* node has halted: its notification is not retransmitted (MaxRetransmit is 1),
\* nobody answers it, and its timeout removes the observer it was sent to.
THEOREM DeadObserversGo ==
  ASSUME MaxRetransmit = 1
  PROVE  Spec => []DeadObserverRemoved
<1>1. TypeOK /\ ObserversUnique /\ TimingInv /\ DepartedInv /\ [Next]_vars => DepartedInv'
  BY DepartedNext
<1>2. TypeOK /\ TimingInv /\ DepartedInv => DeadObserverRemoved
  BY DoomedEnds
<1> QED
  BY <1>1, <1>2, DepartedInit, TypeCorrect, ObserversStayUnique, TimingAlways, PTL DEF Spec
=============================================================================
