--------------------------- MODULE CoapNodeProofs ---------------------------
(***************************************************************************)
(* Proofs about CoapNode for every number of observers, queue items,       *)
(* retransmissions and messages, and every timing: types, unique observers, *)
(* one outcome of every message that the queue accepts, and a queue that   *)
(* counts its items while message ids have not wrapped.  The last two need *)
(* to know that a new message is not in the queue already: its fate is     *)
(* still "none".                                                           *)
(***************************************************************************)
EXTENDS CoapNode, FiniteSetTheorems, WellFoundedInduction, TLAPS

\* The element that a loop over slots or items finds is the first of them.
LEMMA LeastIn ==
  ASSUME NEW S, S \subseteq Nat, S # {}
  PROVE  Least(S) \in S /\ \A y \in S : Least(S) <= y
<1>1. \E x \in S : \A y \in S : x <= y
  <2>1. IsWellFoundedOn(OpToRel(<, Nat), Nat)
    BY NatLessThanWellFounded
  <2>2. PICK x \in S : \A y \in S : ~(<<y, x>> \in OpToRel(<, Nat))
    BY <2>1, WFMin
  <2>3. \A y \in S : ~(y < x)
    BY <2>2 DEF OpToRel
  <2> QED
    BY <2>3
<1> QED
  BY <1>1 DEF Least

\* Ids that have not wrapped are their own remainders.
LEMMA ModSmall ==
  ASSUME NEW n \in Nat, NEW m \in Nat, n < m
  PROVE  n % m = n
OBVIOUS
----------------------------------------------------------------------------
(* Types.                                                                  *)

Item == [msg : 0..MaxMessages, timeout : Nat, timeout_val : Nat,
         retrans_count : Nat, remote : Remotes \union {Directory, None},
         p_arg : 0..MaxObservers]
Observer == [resource : Resources \union {None}, remote : Remotes \union {None}]

QueueType ==
  /\ queue \in [Items -> Item]
  /\ count \in 0..255
  /\ fate \in [Messages -> {"none", "queued", "done", "again"}]

ObserverType ==
  /\ observers \in [Slots -> Observer]
  /\ \A s \in Slots : observers[s].resource # None => observers[s].remote # None

ClockType ==
  /\ expire \in [Announced -> Nat]
  /\ msgCount \in [Announced -> Nat]

RunType ==
  /\ linked \in BOOLEAN
  /\ todo \in Seq(Steps)
  /\ halted \in {"no", "send", "full", "search"}
  /\ gone \in [Remotes -> Nat]

\* The parts of TypeOK that different actions change.
LEMMA TypeParts ==
  TypeOK <=> /\ QueueType /\ ObserverType /\ ClockType /\ RunType
             /\ issued \in 0..MaxMessages
BY DEF TypeOK, QueueType, ObserverType, ClockType, RunType, Item, Observer

LEMMA FreeItemType == FreeItem \in Item
BY CoapAssumption DEF FreeItem, Item

\* coap_queue_add with room in the queue finds a free item.
LEMMA FreeItemFound ==
  ASSUME ~Full
  PROVE  /\ Least(Items \ Used) \in Items
         /\ queue[Least(Items \ Used)].msg = 0
<1>1. Items \ Used \subseteq Nat /\ Items \ Used # {}
  BY DEF Full, Items, Used
<1>2. Least(Items \ Used) \in Items \ Used
  BY <1>1, LeastIn
<1> QED
  BY <1>2 DEF Used

LEMMA AddType ==
  ASSUME QueueType, ~Full, NEW n \in Messages,
         NEW r \in Remotes \union {Directory, None}, NEW s \in 0..MaxObservers,
         coap_queue_add(n, r, s)
  PROVE  QueueType'
<1> DEFINE q == Least(Items \ Used)
           item == [msg |-> n, timeout |-> AckTimeout, timeout_val |-> AckTimeout,
                    retrans_count |-> 0, remote |-> r, p_arg |-> s]
<1>1. item \in Item
  BY CoapAssumption DEF Item, Messages
<1>2. queue' = [queue EXCEPT ![q] = item]
  BY DEF coap_queue_add
<1>3. queue' \in [Items -> Item]
  BY <1>1, <1>2 DEF QueueType
<1>4. count' \in 0..255
  BY CoapAssumption DEF coap_queue_add, QueueType, Full
<1>5. fate' \in [Messages -> {"none", "queued", "done", "again"}]
  BY DEF coap_queue_add, QueueType
<1> QED
  BY <1>3, <1>4, <1>5 DEF QueueType

LEMMA RegisterType ==
  ASSUME ObserverType, NEW r \in Remotes, NEW res \in Resources,
         coap_observe_server_register(r, res)
  PROVE  ObserverType'
<1>1. CASE observers' = observers
  BY <1>1 DEF ObserverType
<1>2. CASE observers' =
             [observers EXCEPT ![Least(Vacant)] = [resource |-> res, remote |-> r]]
  <2>1. [resource |-> res, remote |-> r] \in Observer /\ r # None
    BY CoapAssumption DEF Observer
  <2> HIDE DEF Observer
  <2> QED
    BY <1>2, <2>1 DEF ObserverType
<1> QED
  BY <1>1, <1>2 DEF coap_observe_server_register

LEMMA UnregisterType ==
  ASSUME ObserverType, NEW s \in Slots, coap_observe_server_unregister(s)
  PROVE  ObserverType'
BY DEF ObserverType, Observer, coap_observe_server_unregister

\* A search that succeeds returns a slot that holds the remote and resource.
LEMMA MatchFound ==
  ASSUME NEW r, NEW res, Matching(r, res) # {}
  PROVE  /\ Least(Matching(r, res)) \in Slots
         /\ observers[Least(Matching(r, res))] = [resource |-> res, remote |-> r]
<1>1. Matching(r, res) \subseteq Nat
  BY DEF Matching, Slots
<1>2. Least(Matching(r, res)) \in Matching(r, res)
  BY <1>1, LeastIn
<1> QED
  BY <1>2 DEF Matching

\* Completing an item removes at most the registration that its slot holds.
LEMMA CallbackSlot ==
  ASSUME ObserverType, QueueType, NEW q \in Items, NEW status,
         callback(q, status)
  PROVE  \/ observers' = observers
         \/ \E s \in Slots : coap_observe_server_unregister(s)
<1>1. CASE status # "answered" /\ queue[q].p_arg # 0
  <2> DEFINE p == queue[q].p_arg
             o == observers[p]
  <2>1. p \in Slots
    BY <1>1 DEF QueueType, Item, Slots
  <2>2. o = [resource |-> o.resource, remote |-> o.remote]
    BY <2>1 DEF ObserverType, Observer
  <2>3. p \in Matching(o.remote, o.resource)
    BY <2>1, <2>2 DEF Matching
  <2>4. Least(Matching(o.remote, o.resource)) \in Slots
    BY <2>3, MatchFound
  <2>5. coap_observe_server_unregister(Least(Matching(o.remote, o.resource)))
    BY <1>1 DEF callback
  <2> QED
    BY <2>4, <2>5
<1>2. CASE ~(status # "answered" /\ queue[q].p_arg # 0)
  BY <1>2 DEF callback
<1> QED
  BY <1>1, <1>2

LEMMA RemoveType ==
  ASSUME QueueType, NEW q \in Items, coap_queue_remove(q), Called(q)
  PROVE  QueueType'
<1>1. queue' \in [Items -> Item]
  BY FreeItemType DEF coap_queue_remove, QueueType
<1>2. count' \in 0..255
  BY DEF coap_queue_remove, QueueType
<1>3. fate' \in [Messages -> {"none", "queued", "done", "again"}]
  BY DEF Called, QueueType
<1> QED
  BY <1>1, <1>2, <1>3 DEF QueueType

LEMMA CompleteType ==
  ASSUME TypeOK, NEW q \in Items, NEW status, Complete(q, status)
  PROVE  /\ QueueType' /\ ObserverType' /\ ClockType'
         /\ issued' \in 0..MaxMessages
         /\ halted' \in {"no", "send", "full", "search"}
<1>0. /\ QueueType /\ ObserverType /\ ClockType /\ issued \in 0..MaxMessages
      /\ halted \in {"no", "send", "full", "search"}
  BY TypeParts DEF RunType
<1>1. CASE SearchFails(q, status)
  BY <1>0, <1>1 DEF Complete, net, app, QueueType, ObserverType, ClockType
<1>2. CASE ~SearchFails(q, status)
  <2>1. /\ callback(q, status) /\ coap_queue_remove(q) /\ Called(q)
        /\ UNCHANGED <<issued, expire, msgCount, halted>>
    BY <1>2 DEF Complete
  <2>2. QueueType'
    BY <1>0, <2>1, RemoveType
  <2>3. ObserverType'
    <3>1. CASE observers' = observers
      BY <1>0, <3>1 DEF ObserverType
    <3>2. CASE \E s \in Slots : coap_observe_server_unregister(s)
      BY <1>0, <3>2, UnregisterType
    <3> QED
      BY <1>0, <2>1, <3>1, <3>2, CallbackSlot
  <2> QED
    BY <1>0, <2>1, <2>2, <2>3 DEF ClockType
<1> QED
  BY <1>1, <1>2

LEMMA TailType ==
  ASSUME todo \in Seq(Steps), todo # <<>>
  PROVE  Tail(todo) \in Seq(Steps) /\ Head(todo) \in Steps
OBVIOUS

\* A handler that goes on puts another step in place of its first.
LEMMA GoOn ==
  ASSUME todo \in Seq(Steps), todo # <<>>, NEW step \in Steps
  PROVE  <<step>> \o Tail(todo) \in Seq(Steps)
<1>1. Tail(todo) \in Seq(Steps)
  BY TailType
<1>2. <<step>> \in Seq(Steps)
  OBVIOUS
<1> QED
  BY <1>1, <1>2

LEMMA StepTypes ==
  /\ \A q \in Nat : Scan(q) \in Steps
  /\ \A res \in Announced : Age(res) \in Steps
  /\ \A res \in Announced \union {None}, con \in BOOLEAN, s \in Nat :
       Notify(res, con, s) \in Steps
BY DEF Scan, Age, Notify, Steps

LEMMA PairType ==
  ASSUME NEW S, NEW a \in S, NEW b \in S
  PROVE  <<a, b>> \in Seq(S)
OBVIOUS

LEMMA NotifyAllType == NotifyAll \in Seq(Steps)
<1>1. /\ Notify("status", FALSE, 1) \in Steps
      /\ Notify("statedesc", FALSE, 1) \in Steps
  BY StepTypes DEF Announced
<1> QED
  BY <1>1, PairType DEF NotifyAll

LEMMA TypeInit == Init => TypeOK
<1> SUFFICES ASSUME Init PROVE TypeOK
  OBVIOUS
<1>1. QueueType
  BY FreeItemType DEF Init, QueueType
<1>2. ObserverType
  BY DEF Init, ObserverType, Observer, NoObserver
<1>3. ClockType
  BY DEF Init, ClockType
<1>4. RunType
  <2>1. <<>> \in Seq(Steps)
    OBVIOUS
  <2> QED
    BY <2>1 DEF Init, RunType
<1> QED
  BY <1>1, <1>2, <1>3, <1>4, TypeParts, CoapAssumption DEF Init

\* The handlers of requests and buttons, and the environment.
LEMMA RequestType ==
  ASSUME TypeOK, NEW r \in Remotes, Leave(r) \/ Request(r)
  PROVE  TypeOK'
<1>0. /\ QueueType /\ ObserverType /\ ClockType /\ RunType
      /\ issued \in 0..MaxMessages
  BY TypeParts
<1>1. CASE Leave(r)
  BY <1>0, <1>1 DEF Leave, net, app, TypeOK, RunType
<1>2. ASSUME NEW res \in Resources, NEW ok \in BOOLEAN, GetObserve(r, res, ok)
      PROVE  TypeOK'
  <2>1. ObserverType'
    BY <1>0, <1>2, RegisterType DEF GetObserve
  <2>2. QueueType' /\ ClockType' /\ issued' = issued
    BY <1>0, <1>2 DEF GetObserve, net, QueueType, ClockType
  <2>3. RunType'
    BY <1>0, <1>2 DEF GetObserve, Respond, RunType
  <2> QED
    BY <1>0, <2>1, <2>2, <2>3
    DEF QueueType, ObserverType, ClockType, RunType, TypeOK, Item, Observer
<1>3. ASSUME NEW res \in Resources, NEW ok \in BOOLEAN, GetCancel(r, res, ok)
      PROVE  TypeOK'
  <2>1. ObserverType'
    <3>1. CASE Matching(r, res) # {}
      <4>1. Least(Matching(r, res)) \in Slots
        BY <3>1, MatchFound
      <4> QED
        BY <1>0, <1>3, <3>1, <4>1, UnregisterType DEF GetCancel
    <3>2. CASE Matching(r, res) = {}
      BY <1>0, <1>3, <3>2 DEF GetCancel, ObserverType
    <3> QED
      BY <3>1, <3>2
  <2>2. QueueType' /\ ClockType' /\ issued' = issued
    BY <1>0, <1>3 DEF GetCancel, net, QueueType, ClockType
  <2>3. RunType'
    BY <1>0, <1>3 DEF GetCancel, Respond, RunType
  <2> QED
    BY <1>0, <2>1, <2>2, <2>3
    DEF QueueType, ObserverType, ClockType, RunType, TypeOK, Item, Observer
<1>4. ASSUME NEW ok \in BOOLEAN, PutStatus(r, ok)
      PROVE  TypeOK'
  <2>1. todo' \in Seq(Steps)
    BY <1>4, NotifyAllType DEF PutStatus
  <2> QED
    BY <1>0, <1>4, <2>1 DEF PutStatus, Respond, net, app, TypeOK, RunType
<1> QED
  BY <1>1, <1>2, <1>3, <1>4 DEF Request

LEMMA RdType ==
  ASSUME TypeOK, NEW ok \in BOOLEAN, send_rd_message(ok)
  PROVE  TypeOK'
<1>0. /\ QueueType /\ ObserverType /\ ClockType /\ RunType
      /\ issued \in 0..MaxMessages
  BY TypeParts
<1>1. issued + 1 \in Messages /\ issued' \in 0..MaxMessages
  BY <1>0, CoapAssumption DEF send_rd_message, Messages
<1>2. QueueType'
  <2>1. CASE ok /\ ~Full
    <3>1. coap_queue_add(issued + 1, Directory, 0) /\ 0 \in 0..MaxObservers
      BY <2>1, CoapAssumption DEF send_rd_message
    <3> QED
      BY <1>0, <1>1, <2>1, <3>1, AddType
  <2>2. CASE ~(ok /\ ~Full)
    BY <1>0, <2>2 DEF send_rd_message, QueueType
  <2> QED
    BY <2>1, <2>2
<1>3. ObserverType' /\ ClockType' /\ RunType'
  BY <1>0 DEF send_rd_message, app, ObserverType, ClockType, RunType
<1> QED
  BY <1>1, <1>2, <1>3 DEF QueueType, ObserverType, ClockType, RunType, TypeOK, Item, Observer

LEMMA AnswerType ==
  ASSUME TypeOK, Answer
  PROVE  TypeOK'
<1>0. RunType
  BY TypeParts
<1>1. PICK q \in Items, status \in {"answered", "reset"} :
        Complete(q, status) /\ UNCHANGED <<linked, todo, gone>>
  <2>1. CASE \E q \in Items : DirectoryResponds(q)
    BY <2>1 DEF DirectoryResponds
  <2>2. ASSUME NEW n \in Messages, NEW status \in {"answered", "reset"},
               PeerAnswers(n, status)
        PROVE  \E q \in Items : Complete(q, status) /\ UNCHANGED <<linked, todo, gone>>
    <3> DEFINE found == { q \in Items : mid(q) = n % MidSpace }
    <3>1. found \subseteq Nat /\ found # {} /\ Complete(Least(found), status)
          /\ UNCHANGED <<linked, todo, gone>>
      BY <2>2 DEF PeerAnswers, Items
    <3>2. Least(found) \in found
      BY <3>1, LeastIn
    <3> QED
      BY <3>1, <3>2
  <2> QED
    BY <2>1, <2>2 DEF Answer
<1>2. /\ QueueType' /\ ObserverType' /\ ClockType'
      /\ issued' \in 0..MaxMessages
      /\ halted' \in {"no", "send", "full", "search"}
  BY <1>1, CompleteType
<1>3. RunType'
  BY <1>0, <1>1, <1>2 DEF RunType
<1> QED
  BY <1>2, <1>3 DEF QueueType, ObserverType, ClockType, RunType, TypeOK, Item, Observer

LEMMA TickType ==
  ASSUME TypeOK, Tick
  PROVE  TypeOK'
<1>1. /\ Scan(1) \in Steps /\ Age("status") \in Steps /\ Age("statedesc") \in Steps
  BY StepTypes DEF Announced
<1>2. <<Scan(1), Age("status"), Age("statedesc")>> \in Seq(Steps)
  <2> HIDE DEF Steps, Scan, Age
  <2> QED
    BY <1>1
<1>3. gone' \in [Remotes -> Nat]
  BY DEF Tick, TypeOK
<1> QED
  BY <1>2, <1>3 DEF Tick, net, app, TypeOK

\* The loops of the handlers.
LEMMA ScanType ==
  ASSUME TypeOK, ScanItem
  PROVE  TypeOK'
<1>0. /\ QueueType /\ ObserverType /\ ClockType /\ RunType
      /\ issued \in 0..MaxMessages
  BY TypeParts
<1> DEFINE q == Least(ScanSet)
<1>1. q \in Items
  <2>1. ScanSet \subseteq Nat /\ ScanSet # {}
    BY DEF ScanItem, ScanSet, Used, Items
  <2>2. q \in ScanSet
    BY <2>1, LeastIn
  <2> QED
    BY <2>2 DEF ScanSet, Used
<1>2. todo' \in Seq(Steps)
  <2>1. Scan(q + 1) \in Steps
    BY <1>1, StepTypes DEF Items
  <2> QED
    BY <1>0, <2>1, GoOn DEF ScanItem, Running, RunType
<1> HIDE DEF q
<1>3. /\ QueueType' /\ ObserverType' /\ ClockType' /\ issued' \in 0..MaxMessages
      /\ halted' \in {"no", "send", "full", "search"}
  <2>1. CASE Complete(q, "timeout")
    BY <1>1, <2>1, CompleteType
  <2>2. CASE /\ \/ queue' = [queue EXCEPT ![q] = Retried(q)]
                \/ /\ queue[q].timeout # 0
                   /\ queue' = [queue EXCEPT ![q].timeout = @ - 1]
             /\ UNCHANGED <<count, issued, fate, app, halted>>
    <3>1. queue[q] \in Item
      BY <1>0, <1>1 DEF QueueType
    <3>2. Retried(q) \in Item
      <4>1. queue[q].timeout_val * 2 \in Nat /\ queue[q].retrans_count + 1 \in Nat
        BY <3>1 DEF Item
      <4>2. [queue[q] EXCEPT !.timeout = queue[q].timeout_val * 2,
                             !.timeout_val = queue[q].timeout_val * 2,
                             !.retrans_count = queue[q].retrans_count + 1] \in Item
        BY <3>1, <4>1 DEF Item
      <4> QED
        BY <3>1, <4>2 DEF Retried
    <3>3. queue[q].timeout # 0 => [queue[q] EXCEPT !.timeout = @ - 1] \in Item
      BY <3>1 DEF Item
    <3>4. queue' \in [Items -> Item]
      BY <1>0, <1>1, <2>2, <3>2, <3>3 DEF QueueType
    <3> QED
      BY <1>0, <2>2, <3>4 DEF QueueType, ObserverType, ClockType, RunType, app
  <2> QED
    BY <2>1, <2>2 DEF ScanItem, q
<1>4. RunType'
  BY <1>0, <1>2, <1>3 DEF ScanItem, RunType
<1> QED
  BY <1>3, <1>4 DEF QueueType, ObserverType, ClockType, RunType, TypeOK, Item, Observer

LEMMA AgeType ==
  ASSUME TypeOK, AgeResource
  PROVE  TypeOK'
<1>0. /\ QueueType /\ ObserverType /\ ClockType /\ RunType
      /\ issued \in 0..MaxMessages
  BY TypeParts
<1> DEFINE res == Head(todo).resource
<1>1. todo # <<>> /\ Head(todo) \in Steps /\ Tail(todo) \in Seq(Steps)
  BY <1>0, TailType DEF AgeResource, Running, RunType
<1>2. res \in Announced \union {None}
  BY <1>1 DEF Steps
<1>3. todo' \in Seq(Steps)
  <2>1. Notify(res, Confirmable(res), 1) \in Steps
    BY <1>2, StepTypes DEF Confirmable
  <2>2. <<Notify(res, Confirmable(res), 1)>> \o Tail(todo) \in Seq(Steps)
    BY <1>0, <1>1, <2>1, GoOn DEF RunType
  <2> QED
    BY <1>1, <2>2 DEF AgeResource
<1>4. ClockType'
  <2>1. expire' \in [Announced -> Nat]
    <3>1. CASE expire' = [expire EXCEPT ![res] = MaxAge]
      BY <1>0, <3>1, CoapAssumption DEF ClockType
    <3>2. CASE ~Due(res) /\ expire' = [expire EXCEPT ![res] = @ - 1]
      <4>1. CASE res \in Announced
        <5>1. expire[res] - 1 \in Nat
          BY <1>0, <3>2, <4>1, CoapAssumption DEF ClockType, Due
        <5> QED
          BY <1>0, <3>2, <5>1 DEF ClockType
      <4>2. CASE res \notin Announced
        BY <1>0, <3>2, <4>2 DEF ClockType
      <4> QED
        BY <4>1, <4>2
    <3> QED
      BY <3>1, <3>2 DEF AgeResource
  <2>2. msgCount' \in [Announced -> Nat]
    <3>1. CASE msgCount' = msgCount
      BY <1>0, <3>1 DEF ClockType
    <3>2. CASE msgCount' = [msgCount EXCEPT ![res] = (@ + 1) % ConEvery]
      <4>1. CASE res \in Announced
        <5>1. (msgCount[res] + 1) % ConEvery \in Nat
          BY <1>0, <4>1, CoapAssumption DEF ClockType
        <5> QED
          BY <1>0, <3>2, <5>1 DEF ClockType
      <4>2. CASE res \notin Announced
        BY <1>0, <3>2, <4>2 DEF ClockType
      <4> QED
        BY <4>1, <4>2
    <3> QED
      BY <3>1, <3>2 DEF AgeResource
  <2> QED
    BY <2>1, <2>2 DEF ClockType
<1>5. /\ QueueType' /\ ObserverType' /\ RunType' /\ issued' \in 0..MaxMessages
  BY <1>0, <1>3 DEF AgeResource, net, QueueType, ObserverType, RunType
<1> QED
  BY <1>4, <1>5 DEF QueueType, ObserverType, ClockType, RunType, TypeOK, Item, Observer

LEMMA NotifyType ==
  ASSUME TypeOK, NEW ok \in BOOLEAN, NotifyObserver(ok)
  PROVE  TypeOK'
<1>0. /\ QueueType /\ ObserverType /\ ClockType /\ RunType
      /\ issued \in 0..MaxMessages
  BY TypeParts
<1> DEFINE s == Least(NotifySet)
           con == Head(todo).con
<1>1. issued + 1 \in Messages /\ issued' \in 0..MaxMessages
  BY <1>0, CoapAssumption DEF NotifyObserver, Messages
<1>2. s \in Slots
  <2>1. NotifySet \subseteq Nat /\ NotifySet # {}
    BY DEF NotifyObserver, NotifySet, Slots
  <2>2. s \in NotifySet
    BY <2>1, LeastIn
  <2> QED
    BY <2>2 DEF NotifySet
<1>3. todo' \in Seq(Steps)
  <2>1. todo # <<>> /\ Head(todo) \in Steps
    BY <1>0, TailType DEF NotifyObserver, Running, RunType
  <2>2. Head(todo).resource \in Announced \union {None} /\ con \in BOOLEAN
    BY <2>1 DEF Steps
  <2>3. Notify(Head(todo).resource, con, s + 1) \in Steps
    BY <1>2, <2>2, StepTypes DEF Slots
  <2> QED
    BY <1>0, <2>1, <2>3, GoOn DEF NotifyObserver, RunType
<1>4. QueueType'
  <2>1. CASE ok /\ con /\ ~Full
    <3>1. coap_queue_add(issued + 1, observers[s].remote, s)
      BY <2>1 DEF NotifyObserver
    <3>2. s \in 0..MaxObservers /\ observers[s].remote \in Remotes \union {Directory, None}
      BY <1>0, <1>2 DEF ObserverType, Observer, Slots
    <3> QED
      BY <1>0, <1>1, <2>1, <3>1, <3>2, AddType
  <2>2. CASE ~(ok /\ con /\ ~Full)
    BY <1>0, <2>2 DEF NotifyObserver, QueueType
  <2> QED
    BY <2>1, <2>2
<1>5. ObserverType' /\ ClockType' /\ RunType'
  BY <1>0, <1>3 DEF NotifyObserver, app, ObserverType, ClockType, RunType
<1> QED
  BY <1>1, <1>4, <1>5 DEF QueueType, ObserverType, ClockType, RunType, TypeOK, Item, Observer

LEMMA TypeNext == TypeOK /\ [Next]_vars => TypeOK'
<1> SUFFICES ASSUME TypeOK, [Next]_vars PROVE TypeOK'
  OBVIOUS
<1>1. CASE LinkUp \/ LinkDown
  BY <1>1 DEF LinkUp, LinkDown, net, app, TypeOK
<1>2. CASE \E r \in Remotes : Leave(r) \/ Request(r)
  BY <1>2, RequestType
<1>3. CASE ToggleButton
  BY <1>3, NotifyAllType DEF ToggleButton, net, app, TypeOK
<1>4. CASE \E ok \in BOOLEAN : send_rd_message(ok)
  BY <1>4, RdType
<1>5. CASE Answer
  BY <1>5, AnswerType
<1>6. CASE Tick
  BY <1>6, TickType
<1>7. CASE ScanEnd \/ NotifyEnd
  <2>1. todo' \in Seq(Steps)
    BY <1>7, TailType DEF ScanEnd, NotifyEnd, Running, TypeOK
  <2> QED
    BY <1>7, <2>1 DEF ScanEnd, NotifyEnd, net, app, TypeOK
<1>8. CASE ScanItem
  BY <1>8, ScanType
<1>9. CASE AgeResource
  BY <1>9, AgeType
<1>10. CASE \E ok \in BOOLEAN : NotifyObserver(ok)
  BY <1>10, NotifyType
<1>11. CASE UNCHANGED vars
  BY <1>11 DEF vars, net, app, TypeOK
<1> QED
  BY <1>1, <1>2, <1>3, <1>4, <1>5, <1>6, <1>7, <1>8, <1>9, <1>10, <1>11
  DEF Next, Button, Handler

\* The variables of the node keep their types.
THEOREM TypeCorrect == Spec => []TypeOK
<1>1. Init => TypeOK
  BY TypeInit
<1>2. TypeOK /\ [Next]_vars => TypeOK'
  BY TypeNext
<1> QED
  BY <1>1, <1>2, PTL DEF Spec

-----------------------------------------------------------------------------
(* The queue and the observers.                                            *)

Fresh == \A n \in Messages : n > issued => fate[n] = "none"

QueueInv == OneOutcome /\ Fresh

\* Every step leaves the observers alone, registers one or removes one.
ObserverStep ==
  \/ observers' = observers
  \/ \E r \in Remotes, res \in Resources : coap_observe_server_register(r, res)
  \/ \E s \in Slots : coap_observe_server_unregister(s)

\* Every step treats queue, counter and history in one of these ways.
SameMessages ==
  /\ \A q \in Items : queue'[q].msg = queue[q].msg
  /\ UNCHANGED <<count, fate>>
  /\ issued' \in {issued, issued + 1}
Added ==
  /\ ~Full
  /\ issued + 1 \in Messages
  /\ issued' = issued + 1
  /\ \E r, s : coap_queue_add(issued + 1, r, s)
Removed ==
  \E q \in Items : coap_queue_remove(q) /\ Called(q) /\ issued' = issued
RemovedUsed ==
  \E q \in Used : coap_queue_remove(q) /\ Called(q) /\ issued' = issued

\* What completing an item does to observers and queue.
LEMMA CompleteStep ==
  ASSUME TypeOK, NEW q \in Items, NEW status, Complete(q, status)
  PROVE  /\ ObserverStep
         /\ \/ SameMessages
            \/ coap_queue_remove(q) /\ Called(q) /\ issued' = issued
<1>1. CASE SearchFails(q, status)
  BY <1>1 DEF Complete, net, app, ObserverStep, SameMessages
<1>2. CASE ~SearchFails(q, status)
  <2>1. callback(q, status) /\ coap_queue_remove(q) /\ Called(q) /\ issued' = issued
    BY <1>2 DEF Complete
  <2>2. ObserverStep
    BY <2>1, CallbackSlot, TypeParts DEF ObserverStep
  <2> QED
    BY <2>1, <2>2
<1> QED
  BY <1>1, <1>2

\* The item that an answer or the timer completes.
LEMMA AnswerItem ==
  ASSUME Answer
  PROVE  \E q \in Items, status \in {"answered", "reset"} :
           /\ Complete(q, status)
           /\ \/ q \in Used
              \/ \E n \in Messages : mid(q) = n % MidSpace
<1>1. CASE \E q \in Items : DirectoryResponds(q)
  BY <1>1 DEF DirectoryResponds, Used
<1>2. ASSUME NEW n \in Messages, NEW status \in {"answered", "reset"},
             PeerAnswers(n, status)
      PROVE  \E q \in Items : Complete(q, status) /\ mid(q) = n % MidSpace
  <2> DEFINE found == { q \in Items : mid(q) = n % MidSpace }
  <2>1. found \subseteq Nat /\ found # {} /\ Complete(Least(found), status)
    BY <1>2 DEF PeerAnswers, Items
  <2>2. Least(found) \in found
    BY <2>1, LeastIn
  <2> QED
    BY <2>1, <2>2
<1> QED
  BY <1>1, <1>2 DEF Answer

LEMMA ScanFound ==
  ASSUME ScanItem
  PROVE  Least(ScanSet) \in Used /\ Least(ScanSet) \in Items
<1>1. ScanSet \subseteq Nat /\ ScanSet # {}
  BY DEF ScanItem, ScanSet, Used, Items
<1>2. Least(ScanSet) \in ScanSet
  BY <1>1, LeastIn
<1> QED
  BY <1>2 DEF ScanSet, Used

LEMMA ScanStep ==
  ASSUME TypeOK, ScanItem
  PROVE  ObserverStep /\ (SameMessages \/ RemovedUsed)
<1> DEFINE q == Least(ScanSet)
<1>1. q \in Used /\ q \in Items
  BY ScanFound
<1> HIDE DEF q
<1>2. CASE Complete(q, "timeout")
  BY <1>1, <1>2, CompleteStep DEF RemovedUsed
<1>3. CASE /\ \/ queue' = [queue EXCEPT ![q] = Retried(q)]
              \/ queue' = [queue EXCEPT ![q].timeout = @ - 1]
           /\ UNCHANGED <<count, issued, fate, app, halted>>
  <2>1. queue \in [Items -> Item] /\ queue[q] \in Item
    BY <1>1 DEF TypeOK, Item
  <2>2. Retried(q).msg = queue[q].msg
    BY <2>1 DEF Retried, Item
  <2>3. [queue[q] EXCEPT !.timeout = @ - 1].msg = queue[q].msg
    BY <2>1 DEF Item
  <2>4. \A p \in Items : queue'[p].msg = queue[p].msg
    BY <1>1, <1>3, <2>1, <2>2, <2>3
  <2> QED
    BY <1>3, <2>4 DEF ObserverStep, SameMessages, app
<1> QED
  BY <1>2, <1>3 DEF ScanItem, q

LEMMA OtherStep ==
  ASSUME TypeOK, [Next]_vars, ~Answer, ~ScanItem
  PROVE  ObserverStep /\ (SameMessages \/ Added)
<1>1. CASE LinkUp \/ LinkDown \/ ToggleButton \/ Tick \/ ScanEnd \/ NotifyEnd \/ UNCHANGED vars
  BY <1>1 DEF LinkUp, LinkDown, ToggleButton, Tick, ScanEnd, NotifyEnd, vars,
              net, app, ObserverStep, SameMessages
<1>2. CASE \E r \in Remotes : Leave(r) \/ Request(r)
  <2>1. PICK r \in Remotes : Leave(r) \/ Request(r)
    BY <1>2
  <2>2. ASSUME NEW res \in Resources, NEW ok \in BOOLEAN,
               GetObserve(r, res, ok) \/ GetCancel(r, res, ok)
        PROVE  ObserverStep /\ UNCHANGED net
    <3>1. CASE GetObserve(r, res, ok)
      BY <3>1 DEF GetObserve, ObserverStep
    <3>2. CASE GetCancel(r, res, ok) /\ Matching(r, res) # {}
      BY <3>2, MatchFound DEF GetCancel, ObserverStep
    <3>3. CASE GetCancel(r, res, ok) /\ Matching(r, res) = {}
      BY <3>3 DEF GetCancel, ObserverStep
    <3> QED
      BY <2>2, <3>1, <3>2, <3>3
  <2>3. ASSUME NEW ok \in BOOLEAN, PutStatus(r, ok)
        PROVE  ObserverStep /\ UNCHANGED net
    BY <2>3 DEF PutStatus, app, ObserverStep
  <2>4. CASE Leave(r)
    BY <2>4 DEF Leave, app, net, ObserverStep, SameMessages
  <2>5. UNCHANGED net => SameMessages
    BY DEF net, SameMessages
  <2> QED
    BY <2>1, <2>2, <2>3, <2>4, <2>5 DEF Request
<1>3. ASSUME NEW ok \in BOOLEAN, send_rd_message(ok)
      PROVE  ObserverStep /\ (SameMessages \/ Added)
  <2>1. issued + 1 \in Messages
    BY <1>3, CoapAssumption DEF send_rd_message, Messages, TypeOK
  <2> QED
    BY <1>3, <2>1 DEF send_rd_message, app, ObserverStep, SameMessages, Added
<1>4. CASE AgeResource
  BY <1>4 DEF AgeResource, net, ObserverStep, SameMessages
<1>5. ASSUME NEW ok \in BOOLEAN, NotifyObserver(ok)
      PROVE  ObserverStep /\ (SameMessages \/ Added)
  <2>1. issued + 1 \in Messages
    BY <1>5, CoapAssumption DEF NotifyObserver, Messages, TypeOK
  <2> QED
    BY <1>5, <2>1 DEF NotifyObserver, app, ObserverStep, SameMessages, Added
<1> QED
  BY <1>1, <1>2, <1>3, <1>4, <1>5 DEF Next, Button, Handler

LEMMA NextStep ==
  ASSUME TypeOK, [Next]_vars
  PROVE  ObserverStep /\ (SameMessages \/ Added \/ Removed)
<1>1. CASE Answer
  BY <1>1, AnswerItem, CompleteStep DEF Removed
<1>2. CASE ScanItem
  BY <1>2, ScanStep DEF RemovedUsed, Removed, Used
<1>3. CASE ~Answer /\ ~ScanItem
  BY <1>3, OtherStep
<1> QED
  BY <1>1, <1>2, <1>3
----------------------------------------------------------------------------
(* The observers.                                                          *)

LEMMA VacantFound ==
  ASSUME Vacant # {}
  PROVE  Least(Vacant) \in Slots /\ observers[Least(Vacant)].resource = None
<1>1. Vacant \subseteq Nat
  BY DEF Vacant, Slots
<1>2. Least(Vacant) \in Vacant
  BY <1>1, LeastIn
<1> QED
  BY <1>2 DEF Vacant

LEMMA UniqueNext ==
  ASSUME TypeOK, ObserversUnique, ObserverStep
  PROVE  ObserversUnique'
<1>0. observers \in [Slots -> Observer]
  BY DEF TypeOK, Observer
<1>1. CASE observers' = observers
  BY <1>1 DEF ObserversUnique
<1>2. ASSUME NEW r \in Remotes, NEW res \in Resources,
             Matching(r, res) = {}, Vacant # {},
             observers' =
               [observers EXCEPT ![Least(Vacant)] = [resource |-> res, remote |-> r]]
      PROVE  ObserversUnique'
  <2> DEFINE v == Least(Vacant)
  <2>1. v \in Slots
    BY <1>2, VacantFound
  <2>2. \A s \in Slots : observers[s] # [resource |-> res, remote |-> r]
    BY <1>2 DEF Matching
  <2> HIDE DEF v
  <2>3. \A s \in Slots :
          observers'[s] = IF s = v THEN [resource |-> res, remote |-> r] ELSE observers[s]
    BY <1>0, <1>2, <2>1 DEF v
  <2> QED
    BY <2>1, <2>2, <2>3 DEF ObserversUnique
<1>3. ASSUME NEW s \in Slots, coap_observe_server_unregister(s)
      PROVE  ObserversUnique'
  <2>1. \A t \in Slots :
          /\ t # s => observers'[t] = observers[t]
          /\ t = s => observers'[t].resource = None
    BY <1>0, <1>3 DEF coap_observe_server_unregister, Observer
  <2> QED
    BY <2>1 DEF ObserversUnique
<1> QED
  BY <1>1, <1>2, <1>3 DEF ObserverStep, coap_observe_server_register

\* A remote is registered once at most for a resource, whatever requests,
\* resets and timeouts come in between.
THEOREM ObserversStayUnique == Spec => []ObserversUnique
<1>1. Init => ObserversUnique
  BY DEF Init, ObserversUnique, NoObserver
<1>2. TypeOK /\ ObserversUnique /\ [Next]_vars => ObserversUnique'
  BY NextStep, UniqueNext
<1> QED
  BY <1>1, <1>2, TypeCorrect, PTL DEF Spec
----------------------------------------------------------------------------
(* The outcome of a message.                                               *)

LEMMA SameOutcome ==
  ASSUME TypeOK, QueueInv, SameMessages
  PROVE  QueueInv'
<1>1. OneOutcome'
  BY DEF QueueInv, OneOutcome, SameMessages
<1>2. Fresh'
  BY DEF QueueInv, Fresh, SameMessages, TypeOK, Messages
<1> QED
  BY <1>1, <1>2 DEF QueueInv

LEMMA AddOutcome ==
  ASSUME TypeOK, QueueInv, Added
  PROVE  QueueInv'
<1> DEFINE q == Least(Items \ Used)
           n == issued + 1
<1>1. q \in Items /\ queue[q].msg = 0
  BY FreeItemFound DEF Added
<1>2. n \in Messages /\ fate[n] = "none" /\ issued \in Nat
  BY DEF Added, QueueInv, Fresh, TypeOK
<1>3. queue \in [Items -> Item] /\ fate \in [Messages -> {"none", "queued", "done", "again"}]
  BY DEF TypeOK, Item
<1> HIDE DEF q
<1>4. \A p \in Items : queue'[p].msg = IF p = q THEN n ELSE queue[p].msg
  BY <1>1, <1>3 DEF Added, coap_queue_add, q
<1>5. \A m \in Messages : fate'[m] = IF m = n THEN "queued" ELSE fate[m]
  BY <1>2, <1>3 DEF Added, coap_queue_add
<1>6. \A p \in Items : queue[p].msg # n
  BY <1>2 DEF QueueInv, OneOutcome
<1>7. OneOutcome'
  <2> SUFFICES ASSUME NEW m \in Messages
               PROVE  /\ fate'[m] # "again"
                      /\ fate'[m] = "queued" <=> \E p \in Items : queue'[p].msg = m
                      /\ \A p1, p2 \in Items :
                           queue'[p1].msg = m /\ queue'[p2].msg = m => p1 = p2
    BY DEF OneOutcome
  <2>1. CASE m = n
    BY <1>1, <1>4, <1>5, <1>6, <2>1
  <2>2. CASE m # n
    <3>1. m # 0
      BY DEF Messages
    <3>2. \A p \in Items : queue'[p].msg = m <=> queue[p].msg = m
      BY <1>1, <1>4, <2>2, <3>1
    <3> QED
      BY <1>5, <2>2, <3>2 DEF QueueInv, OneOutcome
  <2> QED
    BY <2>1, <2>2
<1>8. Fresh'
  BY <1>2, <1>5 DEF QueueInv, Fresh, Added, Messages
<1> QED
  BY <1>7, <1>8 DEF QueueInv

LEMMA RemoveOutcome ==
  ASSUME TypeOK, QueueInv, Removed
  PROVE  QueueInv'
<1>1. PICK q \in Items : coap_queue_remove(q) /\ Called(q) /\ issued' = issued
  BY DEF Removed
<1>2. queue \in [Items -> Item]
  BY DEF TypeOK, Item
<1>3. \A p \in Items : queue'[p].msg = IF p = q THEN 0 ELSE queue[p].msg
  BY <1>1, <1>2 DEF coap_queue_remove, FreeItem
<1>4. OneOutcome'
  <2> SUFFICES ASSUME NEW m \in Messages
               PROVE  /\ fate'[m] # "again"
                      /\ fate'[m] = "queued" <=> \E p \in Items : queue'[p].msg = m
                      /\ \A p1, p2 \in Items :
                           queue'[p1].msg = m /\ queue'[p2].msg = m => p1 = p2
    BY DEF OneOutcome
  <2>1. m # 0
    BY DEF Messages
  <2>2. CASE m = queue[q].msg
    <3>1. fate[m] = "queued"
      BY <1>1, <2>2 DEF QueueInv, OneOutcome
    <3>2. fate'[m] = "done"
      BY <1>1, <2>2, <3>1 DEF Called
    <3>3. \A p \in Items : queue'[p].msg # m
      BY <1>1, <1>3, <2>1, <2>2 DEF QueueInv, OneOutcome
    <3> QED
      BY <3>2, <3>3
  <2>3. CASE m # queue[q].msg
    <3>1. fate'[m] = fate[m]
      BY <1>1, <2>3 DEF Called
    <3>2. \A p \in Items : queue'[p].msg = m <=> queue[p].msg = m
      BY <1>1, <1>3, <2>1, <2>3
    <3> QED
      BY <3>1, <3>2 DEF QueueInv, OneOutcome
  <2> QED
    BY <2>2, <2>3
<1>5. Fresh'
  <2> SUFFICES ASSUME NEW m \in Messages, m > issued
               PROVE  fate'[m] = "none"
    BY <1>1 DEF Fresh
  <2>1. fate[m] = "none"
    BY DEF QueueInv, Fresh
  <2>2. queue[q].msg # m
    BY <1>1, <2>1 DEF QueueInv, OneOutcome
  <2> QED
    BY <1>1, <2>1, <2>2 DEF Called
<1> QED
  BY <1>4, <1>5 DEF QueueInv

LEMMA QueueInit == Init => QueueInv
<1> SUFFICES ASSUME Init PROVE QueueInv
  OBVIOUS
<1>1. OneOutcome
  BY DEF Init, OneOutcome, FreeItem, Messages
<1>2. Fresh
  BY DEF Init, Fresh
<1> QED
  BY <1>1, <1>2 DEF QueueInv

LEMMA QueueAlways == Spec => []QueueInv
<1>1. TypeOK /\ QueueInv /\ [Next]_vars => QueueInv'
  BY NextStep, SameOutcome, AddOutcome, RemoveOutcome
<1> QED
  BY <1>1, QueueInit, TypeCorrect, PTL DEF Spec

\* Late, repeated and misdirected answers included, the callback of a message
\* in the queue is called once, and the message leaves the queue then.
THEOREM EveryMessageOnce == Spec => []OneOutcome
<1>1. QueueInv => OneOutcome
  BY DEF QueueInv
<1> QED
  BY <1>1, QueueAlways, PTL
----------------------------------------------------------------------------
(* The counter of the queue.                                               *)

LEMMA UsedFinite == IsFiniteSet(Used)
<1>1. IsFiniteSet(Items)
  BY FS_Interval, CoapAssumption DEF Items
<1>2. Used \subseteq Items
  BY DEF Used
<1> QED
  BY <1>1, <1>2, FS_Subset

\* Without a wrap of the ids only an item in use has the id of a message.
LEMMA FoundIsUsed ==
  ASSUME MaxMessages < MidSpace, TypeOK, NEW q \in Items, NEW n \in Messages,
         mid(q) = n % MidSpace
  PROVE  q \in Used
<1>1. n \in Nat /\ n # 0 /\ n < MidSpace /\ MidSpace \in Nat
  BY CoapAssumption DEF Messages
<1>2. queue[q].msg \in Nat /\ queue[q].msg < MidSpace
  BY CoapAssumption DEF TypeOK
<1>3. n % MidSpace = n /\ queue[q].msg % MidSpace = queue[q].msg
  BY <1>1, <1>2, ModSmall
<1> QED
  BY <1>1, <1>3 DEF mid, Used

LEMMA RemovesUsed ==
  ASSUME MaxMessages < MidSpace, TypeOK, [Next]_vars
  PROVE  SameMessages \/ Added \/ RemovedUsed
<1>1. CASE Answer
  <2>1. PICK q \in Items, status \in {"answered", "reset"} :
          Complete(q, status) /\ (q \in Used \/ \E n \in Messages : mid(q) = n % MidSpace)
    BY <1>1, AnswerItem
  <2>2. q \in Used
    BY <2>1, FoundIsUsed
  <2> QED
    BY <2>1, <2>2, CompleteStep DEF RemovedUsed
<1>2. CASE ScanItem
  BY <1>2, ScanStep
<1>3. CASE ~Answer /\ ~ScanItem
  BY <1>3, OtherStep
<1> QED
  BY <1>1, <1>2, <1>3

LEMMA CountNext ==
  ASSUME TypeOK, CountExact, SameMessages \/ Added \/ RemovedUsed
  PROVE  CountExact'
<1>0. queue \in [Items -> Item] /\ count \in Nat
  BY DEF TypeOK, Item
<1>1. CASE SameMessages
  <2>1. Used' = Used
    BY <1>1 DEF Used, SameMessages
  <2> QED
    BY <1>1, <2>1 DEF CountExact, SameMessages
<1>2. CASE Added
  <2> DEFINE q == Least(Items \ Used)
  <2>1. q \in Items /\ q \notin Used
    BY <1>2, FreeItemFound DEF Added, Used
  <2>2. issued + 1 # 0
    BY DEF TypeOK
  <2> HIDE DEF q
  <2>3. \A p \in Items : queue'[p].msg = IF p = q THEN issued + 1 ELSE queue[p].msg
    BY <1>0, <1>2, <2>1 DEF Added, coap_queue_add, q
  <2>4. Used' = Used \union {q}
    BY <2>1, <2>2, <2>3 DEF Used
  <2>5. Cardinality(Used') = Cardinality(Used) + 1
    BY <2>1, <2>4, UsedFinite, FS_AddElement
  <2> QED
    BY <1>2, <2>5 DEF CountExact, Added, coap_queue_add
<1>3. CASE RemovedUsed
  <2>1. PICK q \in Used : coap_queue_remove(q)
    BY <1>3 DEF RemovedUsed
  <2>2. \A p \in Items : queue'[p].msg = IF p = q THEN 0 ELSE queue[p].msg
    BY <1>0, <2>1 DEF coap_queue_remove, FreeItem, Used
  <2>3. Used' = Used \ {q}
    BY <2>2 DEF Used
  <2>4. Cardinality(Used') = Cardinality(Used) - 1
    BY <2>1, <2>3, UsedFinite, FS_RemoveElement
  <2>5. count # 0
    BY <2>1, UsedFinite, FS_EmptySet DEF CountExact
  <2> QED
    BY <1>0, <2>1, <2>4, <2>5 DEF CountExact, coap_queue_remove
<1> QED
  BY <1>1, <1>2, <1>3

LEMMA CountInit == Init => CountExact
<1> SUFFICES ASSUME Init PROVE CountExact
  OBVIOUS
<1>1. Used = {}
  BY DEF Init, Used, FreeItem
<1> QED
  BY <1>1, FS_EmptySet DEF Init, CountExact

\* As long as the message ids have not wrapped, m_message_queue_count is the
\* number of items in use, so the queue refuses messages only when it is full.
THEOREM CountStaysExact ==
  ASSUME MaxMessages < MidSpace
  PROVE  Spec => []CountExact
<1>1. TypeOK /\ CountExact /\ [Next]_vars => CountExact'
  BY RemovesUsed, CountNext
<1> QED
  BY <1>1, CountInit, TypeCorrect, PTL DEF Spec

LEMMA HaltedStops ==
  ASSUME [Next]_vars, halted # "no"
  PROVE  UNCHANGED vars
<1>1. ~LinkUp /\ ~LinkDown /\ ~ToggleButton /\ ~Tick
  BY DEF LinkUp, LinkDown, ToggleButton, Tick, Idle
<1>2. \A r \in Remotes : ~Leave(r) /\ ~Request(r)
  BY DEF Leave, Request, GetObserve, GetCancel, PutStatus, Received, Idle
<1>3. \A ok \in BOOLEAN : ~send_rd_message(ok) /\ ~NotifyObserver(ok)
  BY DEF send_rd_message, NotifyObserver, Idle, Running
<1>4. ~Answer
  BY DEF Answer, PeerAnswers, DirectoryResponds, Idle
<1>5. ~ScanEnd /\ ~ScanItem /\ ~AgeResource /\ ~NotifyEnd
  BY DEF ScanEnd, ScanItem, AgeResource, NotifyEnd, Running
<1> QED
  BY <1>1, <1>2, <1>3, <1>4, <1>5 DEF Next, Button, Handler

LEMMA ItemsFinite == IsFiniteSet(Items) /\ Cardinality(Items) = QueueSize
<1>1. 1 \in Int /\ QueueSize \in Int /\ QueueSize >= 1
  BY CoapAssumption
<1>2. /\ IsFiniteSet(1..QueueSize)
      /\ Cardinality(1..QueueSize) = IF 1 > QueueSize THEN 0 ELSE QueueSize - 1 + 1
  BY <1>1, FS_Interval
<1> QED
  BY <1>1, <1>2 DEF Items

LEMMA FullIsFull ==
  ASSUME TypeOK, CountExact, Full
  PROVE  Used = Items
<1>1. CASE count >= QueueSize
  <2>1. IsFiniteSet(Items) /\ Cardinality(Items) = QueueSize
    BY ItemsFinite
  <2>2. Used \in SUBSET Items
    BY DEF Used
  <2>3. Cardinality(Used) <= QueueSize
    BY <2>1, <2>2, FS_Subset
  <2>4. Cardinality(Used) = QueueSize
    <3>1. count \in Nat /\ QueueSize \in Nat
      BY CoapAssumption DEF TypeOK
    <3>2. Cardinality(Used) \in Nat /\ count = Cardinality(Used)
      BY <3>1 DEF CountExact
    <3> QED
      BY <1>1, <2>3, <3>1, <3>2
  <2> QED
    BY <2>1, <2>2, <2>4, FS_Subset
<1> QED
  BY <1>1 DEF Full

\* The node halts for a full queue at a confirmable notification only.
LEMMA HaltsFull ==
  ASSUME TypeOK, [Next]_vars, halted = "no", halted' = "full"
  PROVE  \E ok \in BOOLEAN :
           NotifyObserver(ok) /\ Head(todo).con /\ Full /\ UNCHANGED queue
<1>1. \/ \E q \in Items, status \in {"answered", "reset", "timeout"} : Complete(q, status)
      \/ \E ok \in BOOLEAN : NotifyObserver(ok)
  <2>1. CASE Answer
    BY <2>1, AnswerItem
  <2>2. CASE ScanItem
    BY <2>2, ScanFound DEF ScanItem
  <2>3. CASE \E r \in Remotes : Leave(r) \/ Request(r)
    BY <2>3 DEF Leave, Request, GetObserve, GetCancel, PutStatus, Respond
  <2>4. CASE LinkUp \/ LinkDown \/ Button \/ Tick \/ ScanEnd \/ AgeResource
             \/ NotifyEnd \/ UNCHANGED vars
    BY <2>4 DEF LinkUp, LinkDown, Button, ToggleButton, send_rd_message,
       Tick, ScanEnd, AgeResource, NotifyEnd, vars
  <2> QED
    BY <2>1, <2>2, <2>3, <2>4 DEF Next, Handler
<1>2. PICK ok \in BOOLEAN : NotifyObserver(ok)
  BY <1>1 DEF Complete
<1> QED
  BY <1>2 DEF NotifyObserver

LEMMA FullNext ==
  ASSUME TypeOK, CountExact, NoMemMeansFull, [Next]_vars
  PROVE  NoMemMeansFull'
<1>1. CASE halted # "no"
  BY <1>1, HaltedStops DEF vars, net, NoMemMeansFull, Used
<1>2. CASE halted = "no" /\ halted' = "full"
  BY <1>2, HaltsFull, FullIsFull DEF NoMemMeansFull, Used
<1>3. CASE halted' # "full"
  BY <1>3 DEF NoMemMeansFull
<1> QED
  BY <1>1, <1>2, <1>3

\* Without a wrap of the message ids, coap_queue_add reports NRF_ERROR_NO_MEM
\* for a notification only when every item is in use, as coap_queue.h says.
THEOREM NoMemOnlyWhenFull ==
  ASSUME MaxMessages < MidSpace
  PROVE  Spec => []NoMemMeansFull
<1>1. Init => NoMemMeansFull
  BY DEF Init, NoMemMeansFull
<1>2. TypeOK /\ CountExact /\ NoMemMeansFull /\ [Next]_vars => NoMemMeansFull'
  BY FullNext
<1> QED
  BY <1>1, <1>2, TypeCorrect, CountStaysExact, PTL DEF Spec
=============================================================================
