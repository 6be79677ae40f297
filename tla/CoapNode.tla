------------------------------ MODULE CoapNode ------------------------------
(***************************************************************************)
(* The nRF51 switch (client_server_observe/main.c, FUNCTIONALITY 1) on top *)
(* of Nordic's CoAP stack (components/iot/coap): the observers of its      *)
(* resources, the notifications a tick, a button or a PUT sends them, the  *)
(* requests to the resource directory, and the queue of the messages that  *)
(* wait for an answer or a timeout.                                        *)
(*                                                                         *)
(* The handlers of BLE events, timer and buttons share one interrupt       *)
(* priority: each runs to its end before the next.  A handler that loops   *)
(* over the queue or over the observers leaves the rest of its work in     *)
(* todo, one step of this module per turn of the loop, and no other        *)
(* handler starts before todo is empty.  The lamp's value, the payloads,   *)
(* the tokens (assumed distinct) and the memory pool are left out.         *)
(***************************************************************************)
EXTENDS Naturals, Sequences, FiniteSets

CONSTANTS Remotes,        \* the clients that may observe
          Leavers,        \* those of them that may leave for ever
          Directory,      \* the resource directory
          MaxObservers,   \* COAP_OBSERVE_MAX_NUM_OBSERVERS, 4 in sdk_config.h
          QueueSize,      \* COAP_MESSAGE_QUEUE_SIZE, 8
          AckTimeout,     \* COAP_ACK_TIMEOUT * COAP_ACK_RANDOM_FACTOR, 2 ticks
          MaxRetransmit,  \* COAP_MAX_RETRANSMIT_COUNT, 1
          MaxSpan,        \* COAP_MAX_TRANSMISSION_SPAN, 10 ticks
          MaxAge,         \* max_age of the resources, 15 ticks
          Delta,          \* OBSERVE_NOTIFY_DELTA_MAX_AGE, 2 ticks
          ConEvery,       \* every ConEvery-th notification is confirmable, 4
          MidSpace,       \* the number of message ids, 2^16
          MaxMessages,    \* a bound on the messages with generated ids
          None

Slots    == 1..MaxObservers
Items    == 1..QueueSize
Messages == 1..MaxMessages

\* /status and /statedesc are announced to their observers; /restdesc can be
\* observed too, but nothing ever notifies its observers.
Announced == {"status", "statedesc"}
Resources == Announced \union {"restdesc"}

ASSUME CoapAssumption ==
  /\ Leavers \subseteq Remotes
  /\ MaxObservers \in Nat
  /\ QueueSize \in 1..255
  /\ {AckTimeout, MaxRetransmit, MaxSpan, MaxAge, Delta} \subseteq Nat
  /\ ConEvery \in Nat \ {0}
  /\ MidSpace \in Nat \ {0}
  /\ MaxMessages \in Nat
  /\ None \notin Remotes \union Resources \union {Directory}
  /\ Directory \notin Remotes

VARIABLES
  observers,   \* m_observers: who observes what
  queue,       \* m_queue; msg identifies the message, 0 a free item
  count,       \* m_message_queue_count, a uint8_t
  issued,      \* how often m_message_id_counter has supplied an id
  expire,      \* expire_time of the announced resources
  msgCount,    \* msg_count and msg_count_2, modulo ConEvery
  linked,      \* is there an interface, mp_interface # NULL
  todo,        \* what is left of the handler that runs
  halted,      \* why app_error_handler was entered, "no" before
  gone,        \* 0 while a remote is there, then the ticks since it left, plus 1
  fate         \* history: what became of each message

net  == <<queue, count, issued, fate>>
app  == <<observers, expire, msgCount>>
vars == <<net, app, linked, todo, halted, gone>>

NoObserver == [resource |-> None, remote |-> None]
FreeItem == [msg |-> 0, timeout |-> 0, timeout_val |-> 0, retrans_count |-> 0,
             remote |-> None, p_arg |-> 0]

Init ==
  /\ observers = [s \in Slots |-> NoObserver]
  /\ queue = [q \in Items |-> FreeItem]
  /\ count = 0
  /\ issued = 0
  /\ expire = [res \in Announced |-> 0]
  /\ msgCount = [res \in Announced |-> 0]
  /\ linked = FALSE
  /\ todo = <<>>
  /\ halted = "no"
  /\ gone = [r \in Remotes |-> 0]
  /\ fate = [n \in Messages |-> "none"]

\* The ticks between two confirmable notifications, and from such a one to its
\* abandonment if MaxRetransmit is 1; ticks are counted a little longer.
ConPeriod == ConEvery * (MaxAge - Delta + 1)
Patience  == AckTimeout + 1
LongGone  == ConPeriod + Patience + 1

\* An unanswered notification is abandoned before its observer's next one that
\* is confirmable: the timeouts double up to MaxSpan.
ASSUME TimeAssumption ==
  /\ MaxRetransmit # 0
  /\ Delta <= MaxAge
  /\ AckTimeout <= MaxSpan
  /\ 2 * MaxSpan + MaxRetransmit <= ConPeriod + AckTimeout

Idle == halted = "no" /\ todo = <<>>
Running(op) == halted = "no" /\ todo # <<>> /\ Head(todo).op = op

\* The rest of a handler: scan the queue from an item on, let a resource age,
\* notify its observers from a slot on.
Scan(q)             == [op |-> "scan", at |-> q, resource |-> None, con |-> FALSE]
Age(res)            == [op |-> "age", at |-> 0, resource |-> res, con |-> FALSE]
Notify(res, con, s) == [op |-> "notify", at |-> s, resource |-> res, con |-> con]
NotifyAll == <<Notify("status", FALSE, 1), Notify("statedesc", FALSE, 1)>>

Least(S) == CHOOSE x \in S : \A y \in S : x <= y

\* coap_transport_write: it needs the link, and may fail for want of buffers.
Written(ok) == ok => linked
----------------------------------------------------------------------------
(* The message queue, coap_queue.c.                                        *)

mid(q) == queue[q].msg % MidSpace
Used == { q \in Items : queue[q].msg # 0 }
Full == count >= QueueSize \/ Used = Items

\* Mutant: the counter serves as the index of the new item.
coap_queue_addAtCount(n, r, s) ==
  /\ queue' = [queue EXCEPT ![count + 1] =
       [msg |-> n, timeout |-> AckTimeout, timeout_val |-> AckTimeout,
        retrans_count |-> 0, remote |-> r, p_arg |-> s]]
  /\ count' = count + 1
  /\ fate' = [fate EXCEPT ![n] = "queued"]

coap_queue_add(n, r, s) ==
  LET q == Least(Items \ Used) IN
  /\ queue' = [queue EXCEPT ![q] =
       [msg |-> n, timeout |-> AckTimeout, timeout_val |-> AckTimeout,
        retrans_count |-> 0, remote |-> r, p_arg |-> s]]
  /\ count' = count + 1
  /\ fate' = [fate EXCEPT ![n] = "queued"]

\* Mutant: the counter keeps its value.
coap_queue_removeUncounted(q) ==
  /\ queue' = [queue EXCEPT ![q] = FreeItem]
  /\ UNCHANGED count

\* The item may be free already: m_message_queue_count wraps below 0 then.
coap_queue_remove(q) ==
  /\ queue' = [queue EXCEPT ![q] = FreeItem]
  /\ count' = IF count = 0 THEN 255 ELSE count - 1

\* Its callback has been called for the item, if it has one.
Called(q) ==
  fate' = [n \in Messages |->
             IF n # queue[q].msg THEN fate[n]
             ELSE IF fate[n] = "queued" THEN "done" ELSE "again"]
----------------------------------------------------------------------------
(* The observers, coap_observe.c.                                          *)

Matching(r, res) ==
  { s \in Slots : observers[s] = [resource |-> res, remote |-> r] }
Vacant == { s \in Slots : observers[s].resource = None }

\* Mutant: without the search for a registration to be reused.
coap_observe_server_registerAgain(r, res) ==
  observers' =
    IF Vacant # {}
    THEN [observers EXCEPT ![Least(Vacant)] = [resource |-> res, remote |-> r]]
    ELSE observers

\* The slot of the same remote and resource is reused, else a vacant one; the
\* request is served without a registration if there is none.
coap_observe_server_register(r, res) ==
  observers' =
    IF Matching(r, res) = {} /\ Vacant # {}
    THEN [observers EXCEPT ![Least(Vacant)] = [resource |-> res, remote |-> r]]
    ELSE observers

\* Only p_resource_of_interest is cleared: the remote stays in the slot.
coap_observe_server_unregister(s) ==
  observers' = [observers EXCEPT ![s].resource = None]

\* coap_response_handler (p_arg 0) only logs.  observer_con_message_callback
\* looks for the observer whose slot it was given, and its APP_ERROR_CHECK
\* halts the node when there is none.
SearchFails(q, status) ==
  /\ status # "answered"
  /\ queue[q].p_arg # 0
  /\ observers[queue[q].p_arg].resource = None

callback(q, status) ==
  LET o == observers[queue[q].p_arg] IN
  IF status # "answered" /\ queue[q].p_arg # 0
  THEN coap_observe_server_unregister(Least(Matching(o.remote, o.resource)))
  ELSE UNCHANGED observers

\* What coap_transport_read and coap_time_tick do with the item they found.
Complete(q, status) ==
  \/ /\ SearchFails(q, status)
     /\ halted' = "search"
     /\ UNCHANGED <<net, app>>
  \/ /\ ~SearchFails(q, status)
     /\ callback(q, status)
     /\ coap_queue_remove(q)
     /\ Called(q)
     /\ UNCHANGED <<issued, expire, msgCount, halted>>
----------------------------------------------------------------------------
(* The handlers that start when no other one runs.                         *)

LinkUp ==
  /\ Idle
  /\ ~linked
  /\ linked' = TRUE
  /\ UNCHANGED <<net, app, todo, halted, gone>>

\* Observers and queue survive the loss of the link.
LinkDown ==
  /\ Idle
  /\ linked
  /\ linked' = FALSE
  /\ UNCHANGED <<net, app, todo, halted, gone>>

\* A remote switches off or moves away: it asks and answers no more.
Leave(r) ==
  /\ Idle
  /\ r \in Leavers
  /\ gone[r] = 0
  /\ gone' = [gone EXCEPT ![r] = 1]
  /\ UNCHANGED <<net, app, linked, todo, halted>>

Received(r) == Idle /\ linked /\ gone[r] = 0

\* coap_message_send of a response, checked by APP_ERROR_CHECK.
Respond(ok) ==
  /\ Written(ok)
  /\ halted' = IF ok THEN "no" ELSE "send"

\* GET with observe 0.
GetObserve(r, res, ok) ==
  /\ Received(r)
  /\ coap_observe_server_register(r, res)
  /\ Respond(ok)
  /\ UNCHANGED <<net, expire, msgCount, linked, todo, gone>>

\* GET with another value of observe.
GetCancel(r, res, ok) ==
  /\ Received(r)
  /\ IF Matching(r, res) # {}
     THEN coap_observe_server_unregister(Least(Matching(r, res)))
     ELSE UNCHANGED observers
  /\ Respond(ok)
  /\ UNCHANGED <<net, expire, msgCount, linked, todo, gone>>

\* PUT of /status: respond, then notify the observers of both resources.
PutStatus(r, ok) ==
  /\ Received(r)
  /\ Respond(ok)
  /\ todo' = IF ok THEN NotifyAll ELSE <<>>
  /\ UNCHANGED <<net, app, linked, gone>>

\* BUTTON_FOUR toggles the lamp.
ToggleButton ==
  /\ Idle
  /\ todo' = NotifyAll
  /\ UNCHANGED <<net, app, linked, halted, gone>>

\* BUTTON_ONE and BUTTON_TWO: send_rd_message.  A message that was sent but
\* does not fit in the queue is "skipped" like one that could not be sent.
send_rd_message(ok) ==
  /\ Idle
  /\ linked
  /\ issued < MaxMessages
  /\ issued' = issued + 1
  /\ IF ok /\ ~Full
     THEN coap_queue_add(issued + 1, Directory, 0)
     ELSE UNCHANGED <<queue, count, fate>>
  /\ UNCHANGED <<app, linked, todo, halted, gone>>

\* The peer of a confirmable message n answers it with ACK or RST, perhaps late
\* or again.  (An RST for another message finds no item unless its id is 0.)
\* The answer finds the first item with the message id, which may be free.
PeerAnswers(n, status) ==
  /\ Idle
  /\ linked
  /\ fate[n] # "none"
  /\ LET found == { q \in Items : mid(q) = n % MidSpace } IN
     /\ found # {}
     /\ \A r \in Remotes : queue[Least(found)].remote = r => gone[r] = 0
     /\ Complete(Least(found), status)
  /\ UNCHANGED <<linked, todo, gone>>

\* The directory answers with a response of its own, found by its token.
DirectoryResponds(q) ==
  /\ Idle
  /\ linked
  /\ queue[q].msg # 0
  /\ queue[q].remote = Directory
  /\ Complete(q, "answered")
  /\ UNCHANGED <<linked, todo, gone>>

\* app_coap_time_tick, once a second.
Tick ==
  /\ Idle
  /\ todo' = <<Scan(1), Age("status"), Age("statedesc")>>
  /\ gone' = [r \in Remotes |->
                IF gone[r] \in 1..LongGone THEN gone[r] + 1 ELSE gone[r]]
  /\ UNCHANGED <<net, app, linked, halted>>
----------------------------------------------------------------------------
(* The loops of the handlers.                                              *)

\* The next item of coap_time_tick.
ScanSet == { q \in Used : q >= Head(todo).at }

ScanEnd ==
  /\ Running("scan")
  /\ ScanSet = {}
  /\ todo' = Tail(todo)
  /\ UNCHANGED <<net, app, linked, halted, gone>>

\* An item whose time has come is sent again if it may be, and abandoned if
\* that was the last time or its next timeout would be too long.
Retransmits(q) == queue[q].retrans_count < MaxRetransmit
\* Mutant: the item starts anew, as if it had just been sent.
RetriedAnew(q) == [queue[q] EXCEPT !.timeout = queue[q].timeout_val]
Retried(q) ==
  IF Retransmits(q)
  THEN [queue[q] EXCEPT !.timeout = queue[q].timeout_val * 2,
                        !.timeout_val = queue[q].timeout_val * 2,
                        !.retrans_count = @ + 1]
  ELSE queue[q]
\* Mutant: one attempt more.
AbandonedLater(q) ==
  \/ Retried(q).timeout > MaxSpan
  \/ Retried(q).retrans_count > MaxRetransmit
Abandoned(q) ==
  \/ Retried(q).timeout > MaxSpan
  \/ Retried(q).retrans_count >= MaxRetransmit

ScanItem ==
  /\ Running("scan")
  /\ ScanSet # {}
  /\ todo' = <<Scan(Least(ScanSet) + 1)>> \o Tail(todo)
  /\ LET q == Least(ScanSet) IN
     \/ /\ queue[q].timeout = 0
        /\ Abandoned(q)
        /\ Complete(q, "timeout")
     \/ /\ queue[q].timeout = 0
        /\ ~Abandoned(q)
        /\ queue' = [queue EXCEPT ![q] = Retried(q)]
        /\ UNCHANGED <<count, issued, fate, app, halted>>
     \/ /\ queue[q].timeout # 0
        /\ queue' = [queue EXCEPT ![q].timeout = @ - 1]
        /\ UNCHANGED <<count, issued, fate, app, halted>>
  /\ UNCHANGED <<linked, gone>>

\* Mutants: the age is not looked at; every notification is confirmable; none is.
DueNever(res) == FALSE
ConfirmableAlways(res) == TRUE
ConfirmableNever(res) == FALSE

\* The second half of app_coap_time_tick, for each resource in turn.
Due(res) == expire[res] <= Delta
Confirmable(res) == msgCount[res] = 0
AgeResource ==
  /\ Running("age")
  /\ LET res == Head(todo).resource IN
     \/ /\ Due(res)
        /\ expire' = [expire EXCEPT ![res] = MaxAge]
        /\ msgCount' = [msgCount EXCEPT ![res] = (@ + 1) % ConEvery]
        /\ todo' = <<Notify(res, Confirmable(res), 1)>> \o Tail(todo)
     \/ /\ ~Due(res)
        /\ expire' = [expire EXCEPT ![res] = @ - 1]
        /\ todo' = Tail(todo)
        /\ UNCHANGED msgCount
  /\ UNCHANGED <<net, observers, linked, halted, gone>>

\* notify_all_led3_subscribers and notify_all_semantic_sts_subscribers.
NotifySet ==
  { s \in Slots : s >= Head(todo).at /\ observers[s].resource = Head(todo).resource }

NotifyEnd ==
  /\ Running("notify")
  /\ NotifySet = {}
  /\ todo' = Tail(todo)
  /\ UNCHANGED <<net, app, linked, halted, gone>>

\* One notification.  A confirmable one joins the queue after it was sent.
NotifyObserver(ok) ==
  /\ Running("notify")
  /\ NotifySet # {}
  /\ issued < MaxMessages
  /\ Written(ok)
  /\ issued' = issued + 1
  /\ LET s == Least(NotifySet)
         con == Head(todo).con IN
     /\ todo' = <<Notify(Head(todo).resource, con, s + 1)>> \o Tail(todo)
     /\ halted' = IF ~ok THEN "send" ELSE IF con /\ Full THEN "full" ELSE "no"
     /\ IF ok /\ con /\ ~Full
        THEN coap_queue_add(issued + 1, observers[s].remote, s)
        ELSE UNCHANGED <<queue, count, fate>>
  /\ UNCHANGED <<app, linked, gone>>
----------------------------------------------------------------------------
Handler == ScanEnd \/ ScanItem \/ AgeResource \/ NotifyEnd \/ \E ok \in BOOLEAN : NotifyObserver(ok)

Request(r) ==
  \E ok \in BOOLEAN :
    \/ \E res \in Resources : GetObserve(r, res, ok) \/ GetCancel(r, res, ok)
    \/ PutStatus(r, ok)

Button == ToggleButton \/ \E ok \in BOOLEAN : send_rd_message(ok)

Answer ==
  \/ \E n \in Messages, status \in {"answered", "reset"} : PeerAnswers(n, status)
  \/ \E q \in Items : DirectoryResponds(q)

Next ==
  \/ LinkUp \/ LinkDown
  \/ \E r \in Remotes : Leave(r) \/ Request(r)
  \/ Button \/ Answer \/ Tick \/ Handler

Spec == Init /\ [][Next]_vars

\* A handler runs to its end; the timer interrupt, once pending, is served
\* however many other interrupts are.
FairSpec == Spec /\ SF_vars(Tick) /\ WF_vars(Handler)
----------------------------------------------------------------------------
(* Properties.                                                             *)

Steps ==
  [op : {"scan", "age", "notify"}, at : Nat, resource : Announced \union {None},
   con : BOOLEAN]

\* The types of the variables; a slot may keep the remote of a former observer.
TypeOK ==
  /\ observers \in [Slots -> [resource : Resources \union {None},
                              remote : Remotes \union {None}]]
  /\ \A s \in Slots : observers[s].resource # None => observers[s].remote # None
  /\ queue \in [Items -> [msg : 0..MaxMessages, timeout : Nat, timeout_val : Nat,
                          retrans_count : Nat,
                          remote : Remotes \union {Directory, None},
                          p_arg : 0..MaxObservers]]
  /\ count \in 0..255
  /\ issued \in 0..MaxMessages
  /\ expire \in [Announced -> Nat]
  /\ msgCount \in [Announced -> Nat]
  /\ linked \in BOOLEAN
  /\ todo \in Seq(Steps)
  /\ halted \in {"no", "send", "full", "search"}
  /\ gone \in [Remotes -> Nat]
  /\ fate \in [Messages -> {"none", "queued", "done", "again"}]

\* While message ids have not wrapped, m_message_queue_count is the number of
\* items in use, although ACK and RST look items up by a message id that free
\* items have too.
CountExact == count = Cardinality(Used)

\* coap_queue.h says coap_queue_add returns NRF_ERROR_NO_MEM "if max number of
\* queued elements has been reached"; not so once the ids have wrapped.
NoMemMeansFull == halted = "full" => Used = Items

\* No remote observes a resource twice, so it gets each notification once.
ObserversUnique ==
  \A s1, s2 \in Slots :
    observers[s1] = observers[s2] /\ observers[s1].resource # None => s1 = s2

\* A message accepted by the queue stays in one item until its callback is
\* called, and the callback is called once, by whichever of an ACK, an RST, a
\* response and the timeout comes first.
OneOutcome ==
  \A n \in Messages :
    /\ fate[n] # "again"
    /\ fate[n] = "queued" <=> \E q \in Items : queue[q].msg = n
    /\ \A p, q \in Items : queue[p].msg = n /\ queue[q].msg = n => p = q

\* An observer has one unanswered confirmable notification at most: the first
\* has been abandoned when the next is due.
OneConPending ==
  \A p, q \in Used : queue[p].p_arg = queue[q].p_arg /\ queue[p].p_arg # 0 => p = q

\* Notifications alone never fill the queue, which halts the node: requests to
\* the resource directory must have taken more than their share.
DirectoryRequests == { q \in Used : queue[q].p_arg = 0 }
FullNeedsRequests ==
  halted = "full" => Cardinality(DirectoryRequests) + MaxObservers > QueueSize

\* APP_ERROR_CHECK in observer_con_message_callback asserts that the observer
\* of a notification that failed is found; it is not if it has been removed.
NotifyCallbackFinds == halted # "search"

\* Time stands still in the model when the ids run out.
Exhausted == issued = MaxMessages
Stopped == halted # "no" \/ Exhausted

\* Every message in the queue gets its outcome, whatever the network does.
OutcomeComes ==
  \A n \in Messages : fate[n] = "queued" ~> fate[n] # "queued" \/ Stopped

\* An observer that has left without a word does not keep its slot: the next
\* confirmable notification is not answered and removes it, unless the node halts.
DeadObserverRemoved ==
  \A r \in Remotes, res \in Announced :
    Idle /\ gone[r] > ConPeriod + Patience => Matching(r, res) = {}
============================================================================
