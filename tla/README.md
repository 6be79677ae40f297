# A verification of the Web of Things demo devices

TLA+ modules, TLC runs and TLAPS proofs about the programs of this repository:
virtual CoAP devices written in Java on Californium, services that connect
them, and the firmware of an nRF51 switch in C on Nordic's CoAP stack. Paths
are relative to `src/`; `<pkg>` stands for
`src/main/java/ch/ethz/inf/vs/wot/demo`.

## 1. Inventory

| Component | State it keeps | Operations | How it interacts |
|---|---|---|---|
| W3C light bulb (`w3c.Lightbulb`) | relay, colour (in `Lightbulb` and in `LEDColor`), a single-threaded executor, PowerToggle's own executor, a tree of action resources | PUT colour, POST switch, PUT observe, POST of Fade, On, Off, Blink, Toggle, DELETE of an action, `update()` | request threads, workers and observe callbacks share static fields; `update()` forwards to a LIFX bulb |
| nRF51 switch (`nrf51/examples/.../client_server_observe/main.c`) | ages and notification counters of its resources, link, lamp | GET, PUT, buttons, timer tick, link up and down, directory requests | interrupt handlers of one priority; callbacks from the CoAP stack |
| Nordic CoAP queue (`nrf51/components/iot/coap/coap_queue.c`) | items that wait for an answer, an 8-bit counter | init, add, remove, search by message id or token, iterate | used by `coap.c` only |
| Nordic CoAP observe server (`coap_observe.c`) | observer slots | register, unregister, search, iterate | called by the resources' handlers and the notification callback |
| Nordic CoAP engine (`coap.c`, `coap_transport_ipv6.c`) | message id counter | send, receive, tick (retransmission, timeout) | UDP below; callbacks into the application above |
| nRF51 timer library (`components/libraries/timer/app_timer.c`) | a list of running timers with differences of ticks, a queue of operations per priority, RTC1 | init, start, stop, RTC1 and SWI0 interrupts | started and stopped from interrupts of any priority; calls its clients' handlers |
| nRF51 buttons (`components/libraries/button/app_button.c`) | recorded level and recorded edge of each pin | edge of a pin, detection timer's handler | the timer library; the application's `button_event_handler` |
| nRF51 memory manager and packet buffers (`mem_manager.c`, `iot_pbuffer.c`) | which block and which packet buffer is free | allocate, free | every layer of the stack passes blocks on by pointer |
| nRF51 IPv6, ICMPv6, UDP (`iot/ipv6_stack`) | addresses and slots of the interface, number of interfaces, one socket | interface events, packets in and out, advertisements | 6LoWPAN (a binary library) below, CoAP above |
| nRF51 context manager (`iot_context_manager.c`) | contexts of the interface and their number | allocate, free, update, remove | called by IPv6 and ICMPv6, read by 6LoWPAN |
| Device servers (`utils.devices/.../DeviceServer.java`, Android copy) | `rdHandle`, a timer thread shared by the process | discovery, registration, refresh | the resource directory, external |
| Audio dock, Java and Android | power, input, volume, song, player state | PUT of each, playback thread | `MP3Player` shared by requests and playback threads |
| Air conditioner | power, target, vents, temperature | PUT of each, a timer every 5 s | static fields shared by timer and requests; `notifyText` |
| Smart TV | power, channel, input, volume, ambient colour | PUT of each, a timer every 50 ms | the same; Ambient observes its colour |
| Occupancy service | last state per sensor, `running` | observe callback, execution of a plan of requests | sensors, directory, reasoner |
| LIFX service | relay, colour, observation, a message sequence | PUT, observe callback, UDP thread per message | the bulbs, over UDP |
| Ambient service | one observation | callback that PUTs | TV and bulbs |
| Smartphone | address of directory and reasoner | button, requests | user, reasoner |
| Demo light bulb, thermostat, converter | at most one field per resource | GET, PUT | - |
| W3C and RESTdesc helpers, panels | none after start | documents, painting | - |
| nRF51 DNS and SNTP clients, `iot_timer`, scheduler, drivers, BLE, lwIP, tinydtls | - | unused by the application, hardware access, or external | - |

What makes each one correct:

* **Light bulb**: the LIFX bulb ends up showing relay and colour; an action runs
  once, alone in its executor, and not after it was deleted; its resource goes
  when the action is over; DELETE stops the action and no other one; accepted
  actions end.
* **nRF51 node**: no observer twice; each message that must be answered is
  called back once; the queue is full only when it is; a vanished observer is
  found out; a callback concerns the observer it was meant for.
* **Timers and buttons**: a timer expires after its interval, neither early nor a
  turn of the counter late; the tick never stops; a press that lasts is reported.
* **IP stack**: no block is freed twice or lost, no packet buffer kept; the tables
  of addresses and contexts agree with the link and with themselves.
* **Device servers**: a registered device goes on refreshing, and its entry does
  not expire because one refresh was lost or other servers kept the thread busy.
* **Audio dock**: the reported state is that of the newest playback; a rejected
  request changes nothing.
* **Air conditioner and TV**: observers see the last value; vents and screen
  agree with the power; the text of `notifyText` stays its full time.
* **Occupancy**: one plan at a time, and after each plan, failed or not, another.
* **LIFX**: the bulb converges to the last colour; the two proxies are independent.

Where it is hard: Java's request, timer, playback and callback threads share
unsynchronised statics; executors queue, cancel and interrupt; answers over
UDP come late, twice or never; the C code has fixed pools, pointers kept across
events, wrapping counters, interrupts between any two steps of lock-free code and an
assertion that stops the node. `PROJECT.json` lists these hazards line by line,
with the property that covers each or the reason why none does.

## 2. Modules

| Module | Models |
|---|---|
| `ActionLifecycle` | what the light bulb promises about an action (abstract) |
| `Lightbulb` | the W3C light bulb; refines `ActionLifecycle` |
| `MCLightbulb` | its instances for TLC |
| `LightbulbProofs` | its theorems: types, forwarding, tasks and resources; effect, cancellation and life cycle of actions |
| `CoapNode` | the nRF51 switch with the CoAP queue and observe server below it |
| `MCCoapNode` | its instances for TLC |
| `CoapNodeProofs`, `CoapNotifyProofs` | its theorems: types; observers, messages, counter; confirmable notifications and time |
| `AppTimer` | the timer library, its interrupts and RTC1 |
| `AppButton` | the buttons and the start of the tick timer, on `AppTimer`; a complete system |
| `MCAppButton` | its instances for TLC, with a view |
| `AppButtonProofs`, `AppButtonTimeProofs` | its theorems: types of timers and buttons, no recorded press is lost; deadlines, no early expiry, the compare register |
| `PacketMemory` | blocks and packet buffers, as operators on a record |
| `IpTables` | the tables of addresses and of contexts, as operators on records |
| `IpStack` | the handlers of CoAP, UDP, ICMPv6 and IPv6 that use both; a complete system |
| `MCIpStack` | its instances for TLC |
| `IpTableProofs`, `IpMemoryProofs` | its theorems: the two tables; blocks and packet buffers |
| `RdRegistration`, `MCRdRegistration` | the device servers of a process and the directory; its instance |
| `RdProofs` | its theorems: types, the timer thread, lost refreshes |

### 2.1 Lightbulb

An action of the module is what a thread does between two points where another
one can act. The threads are the worker of `Lightbulb.tasks`, the worker of
PowerToggle's executor and any number of request threads.

| Code | Module |
|---|---|
| `PowerRelay.on`, `Lightbulb.color`, `LEDColor.color` | `relay`, `color`, `ledColor` |
| `handlePOST` of an action: constructor submits, `add`, respond | `PostSubmit`, `PostAdd`, `PostRespond` |
| `handleDELETE`: look up, `cancel(true)`, `delete()` | `DeleteFind`, `DeleteCancel`, `DeleteRemove` |
| the tasks' `run()` | `WorkerTake`, `StartFade`, `StartOn`, `MakeClear`, `RelayOn`, `StartOff`, `StartBlink`, `Slept`, `LoopStep`, `LastStep`, `LoopFails`, `Interrupt`, `WorkerRemove` |
| `ToggleTask.run()` | `ToggleTake`, `ToggleRead`, `ToggleWrite`, `ToggleRemove` |
| `update()`: five reads and sends on the writer's thread | `ReadPower` to `SendColor` |
| PUT of the colour, POST of the switch, observe callback | `ColorPUT...`, `SwitchPOST`, `ObserveLoad` |

Abstractions. A colour is a hue and one of three alphas; a duration is its
number of steps. `LoopFails` stands for `new Color` throwing when the
accumulated floats leave 0..1. For a Fade of minutes that may be several steps
before the end of the loop, so any step of the loop may throw. Requests answered BAD_REQUEST change nothing and are left out, as
are painting, the power meters and what happens to the messages to the bulb.
The statics are not volatile: reads are taken as sequentially consistent
because Swing's lock in `led.repaint()` stands between each write and the reads
of `update()`. `DeleteCancel` and `WorkerTake` are atomic because FutureTask's
INTERRUPTING state and ThreadPoolExecutor's clearing of leftover interrupts
make them so.

Variables `powerKnown`, `colorKnown`, `raced`, `late` and `disturbed` are
history: no guard reads them. `late` saturates at `LateBound` = 3, one more than
any property compares it with.

### 2.2 CoapNode

The handlers of BLE events, timer and buttons have one interrupt priority and
run to completion. A handler that loops leaves the rest of its work in `todo`,
and each turn of the loop is a step; nothing else starts before `todo` is empty.
The module is `main.c` with FUNCTIONALITY 1, as it is compiled.

| Code | Module |
|---|---|
| `m_observers`, `m_queue`, `m_message_queue_count` | `observers`, `queue`, `count` |
| `m_message_id_counter`, `mid` | `issued`, `mid(q)` = `msg % MidSpace` |
| `expire_time`, `msg_count`, `msg_count_2` | `expire`, `msgCount` |
| `mp_interface` | `linked` |
| `app_error_handler`'s infinite loop | `halted` with the reason |
| GET with observe 0, GET with another value, PUT | `GetObserve`, `GetCancel`, `PutStatus` |
| `button_event_handler` | `ToggleButton`, `send_rd_message` |
| `app_coap_time_tick`, `coap_time_tick` | `Tick`, `ScanItem`, `ScanEnd`, `AgeResource` |
| `notify_all_*_subscribers` | `NotifyObserver`, `NotifyEnd` |
| `coap_transport_read`: ACK and RST by id; response by token | `PeerAnswers`, `DirectoryResponds` |
| `observer_con_message_callback` | `callback`, `SearchFails` |
| `ip_app_handler` | `LinkUp`, `LinkDown` |

The network is what actions of the module allow: an answer to a confirmable
message is possible from the time it was sent, arbitrarily late, again, or
never; a client in `Leavers` may go without a word (`Leave`, external).

Abstractions. The lamp's value, payloads, content formats, block transfer and
the memory pool are left out. Tokens are assumed distinct, so a response finds
its own item. A plain GET changes what a `GetCancel` that finds no observer
changes: nothing. `expire_time` starts at 0 (static storage, nothing sets it), so the first
tick notifies. A PUT notifies even if it was answered BAD_REQUEST. A send may
fail for want of a buffer at any time and fails while there is no link. An
answer for a message that was never put into the queue is not modelled: it
finds no item unless its id is 0.

`fate` and `gone` are history: `fate` is read by a guard only to say that the
message of an answer was once sent, `gone` to keep a client that left silent.

### 2.3 AppTimer and AppButton

RTC1 (expired timers) and SWI0 (changes of the list) have the same low priority
and do not interrupt each other. An edge of a pin is handled at high priority
and falls between any two of their steps, as does a tick of the counter;
`main()` goes on when both are done. So the low-priority code is cut exactly
where it reads or writes something that a tick or an edge can change: between
the handler's load and store of `m_pin_transition`, between the deletions and the
look into the queue of APP_HIGH, and between reading the counter, writing CC[0]
and reading the counter again. `low` is the place it has reached.

| Code | Module |
|---|---|
| COUNTER, CC[0], EVENTS_COMPARE, TASKS_CLEAR | `counter`, `cc` and `armed`, `rtcPending`, `clearing` |
| the linked list and `ticks_to_expire` | `list`, `toExpire` |
| `m_ticks_latest`, `m_ticks_elapsed`, `m_rtc1_reset`, `m_rtc1_running` | `latest`, `elapsed`, `rtcReset`, `rtcRunning` |
| the queues of APP_HIGH and of the thread mode | `opQueue["high"]`, `opQueue["main"]` |
| `timer_timeouts_check`, called handlers, ticks queued | `RtcHandler`, `HandlerReturns`, `QueueElapsed` |
| `timer_list_handler` | `UpdateList` (deletions, expiries, restarts, `main()`'s starts), `InsertHigh` |
| `compare_reg_update` | `ComputeCompare`, `WriteCompare`, `CheckCompare`, `StopRtc` |
| `gpiote_event_handler` | `Edge` |
| `detection_delay_timeout_handler` | `TestPin`, `StoreTransition`, `ReadPin`, `ReportPin` |
| `iot_timer_init`'s start of the tick timer, in two steps | `MainStarts`, `MainEnqueues` |

RTC1 is external: it counts, makes an event when the counter reaches CC[0] and,
as the specification that the code quotes says, may fail to when CC[0] is
written with the counter's value or the next one.

Properties that hold only because of a correction in the code are the ones worth
checking here: `Armed` needs the forced interrupt and RTC_COMPARE_OFFSET_MIN,
`DeadlinesKept` the arithmetic with values before and after `m_ticks_latest`.
`shifted` excludes the starts whose counter value belongs to a count that has
been cleared since (`app_timer.c:640` can only set it to 0), and a period
overslept as a whole. `excused` collects the edges that the code loses, each at
the step that loses it:

* the queue of operations is full (`app_button.c:82`, `:103`);
* the second edge of one pin stops the timer although another pin's edge is
  recorded (`app_button.c:78-88`; the comment in line 74 speaks of a detection
  period that is restarted);
* an edge falls between the load and the store of `m_pin_transition`
  (`app_button.c:54`), or between the store and the report of its own pin;

`SettledPinReported` says that there is no other way. The second of these ways
contradicts the comment: `app_button_restart` has its three edges, and
`RecordedEdgeTimed`, which excuses none, is violated (finding 3).

Bounds. Two timers are all this application creates. `CounterMod` must be large
against intervals (the assumption demands a factor of four); `MaxLag` is the
latency of the low priority in ticks. `MaxEdges` bounds the edges until the
buttons are at rest (`Rest` then starts anew), `MaxEarlyEdges` those before the
tick timer runs, when the buttons alone start and stop the counter. This bound
matters: a start that is called before `rtc1_stop` and performed after it still
holds the old counter value (`app_timer.c:640` corrects it only while
`m_rtc1_reset` is set), so its timer is late by that value, and `Armed` holds only
while it is small against `CounterMod`. Two edges cannot make it large; 16 with
intervals of 2 and a `CounterMod` of 22 can, and then TLC finds `Armed` violated.
The code's counter would have to run for minutes, kept up by presses alone,
before the tick timer is started. `View`
leaves out what nothing reads any more and, while nothing can clear the counter,
rotates its values.

### 2.4 IpStack

All handlers run at one priority or below it: a handler is one step, and the
interesting part is what happens inside it. A packet that arrives is in a block
of 6LoWPAN's; CoAP reads it into a second, answers from a third and fourth,
encodes into a fifth and sends it in a sixth, and each layer frees what it
thinks is its own. `IpStack` composes these calls as operators on a record of
the memory. 6LoWPAN may refuse any packet, so an operator that may send returns
the set of its outcomes, and a handler (`Returns`) ends in one of them.

| Code | Module |
|---|---|
| `nrf51_sdk_mem_alloc`, `nrf51_sdk_mem_free`, `iot_pbuffer_allocate`, `iot_pbuffer_free` | the operators of `PacketMemory` |
| `addr_set`, `ipv6_address_remove`, `interface_reset`, `iot_context_manager_*` | the operators of `IpTables` |
| `ipv6_send`, `coap_transport_write`, `internal_coap_message_send`, `coap_message_new` and `_delete` | operators of the same names |
| `ble_6lowpan_evt_handler` | `InterfaceAdd`, `InterfaceDelete`, `Arrives`, `Dropped` |
| `icmp6_input` | `EchoRequest`, `PrefixOption`, `ContextOption` |
| `coap_transport_read` | `Discarded`, `Ping`, `Answer`, `ConResponse`, `Request`, `BadRequest` |
| `app_coap_time_tick`, `button_event_handler` | `Tick`, `DirectoryRequest`, `Toggle` |
| the blocks 6LoWPAN holds until they are sent | `tx`, `Transmitted` |

Abstractions. The blocks of one size are alike and are counted. What a handler
sends is a sequence of encodings, whoever the observers are (`CoapNode` has
them). A packet is 48 bytes longer than its message. `coap_message_t` fits a
small block and message data a medium one, as in `sdk_config.h`. With
COAP_MAX_RETRANSMIT_COUNT 1 a due item is written once more and freed in the
same tick. An advertisement has one option per step. A prefix leads to an address
by overwriting the first bits of the link-local one, as many as it has, so it may
lead to any address, with fewer than 16 bits to the link-local address as well.
Only a prefix that begins with fe80 itself is ignored (`icmp6.c:486`), and then
whatever it leads to. `error` says that a send or an allocation of the last handler
failed, `halted` that the application's APP_ERROR_CHECK did not return.

6LoWPAN is binary and its header leaves open who frees a packet it refuses, so
`ipv6_send` has three outcomes: 6LoWPAN took the packet, refused it and freed its
block, or refused it and left it. What is lost in the last one is a loss only if
6LoWPAN really leaves it; `BlocksKept` therefore allows losses in every handler
in which a send failed, and never in another.

`AddressesKept` asks more than that the table is consistent: whatever an
advertisement sets or finds no room for, no other address goes. It does not say
that a link keeps its link-local address: "Ignore Link-Local address"
(`icmp6.c:485`) compares 16 bits of the prefix, however many it has, so a prefix
of, say, the 8 bits fe is not ignored, leads to the link-local address, and with
lifetime 0 removes it from the interface. `PrefixOption` does the same, and
`AddressesKept` counts this address as withdrawn like any other.

Bounds. Blocks of three sizes 4/2/1 instead of 8/4/1, two packet buffers, two
addresses for three that may be set, one context for two identifiers: every
table and pool gets full and every allocation can fail. Two messages per handler
and two queue items make a handler's later send fail after an earlier one.

### 2.5 RdRegistration

| Code | Module |
|---|---|
| `tasks`, one thread, and the task of each server | `worker`, `due` |
| constructor's task, discovery | `Discover`, `Found`, `NotFound` |
| registration, `onLoad`, `onError` | `Found`, `OnLoad`, `OnError` |
| `scheduleAtFixedRate` of the refresh | `Refresh`, `RefreshReturns`, `RefreshTimesOut` |
| the directory, external | `Grants`, `Refuses`, `Refreshed`, `Restart` |

The directory grants the minimum lifetime that the comment in
`DeviceServer.java:20` names. A step of time is as many seconds as one likes; in
the run it is five, so that the timeout is 1, RD_LIFETIME 4, the minimum 12.
Time does not pass while the timer thread has something to do, so a delay of its
tasks is one the code causes. The registration is an asynchronous `post`, which
`setTimeout(5000)` does not concern: its answer, or the end of CoAP's
retransmissions, may come at any time.

Two variables are history: `lost`, the refreshes in a row that did not reach the
directory, and `spent`, what of the entry's first lifetime had passed when the
answer to the registration arrived. The refreshes are scheduled from that answer,
not from the registration. So `OneLossTolerated` says: the directory drops the
entry of a server that refreshes it only after two lost refreshes, after a
restart, or, before the first refresh arrived, when `spent` and the longest that
the refreshes may take (`Worst`) together reach the lifetime. With the code's
numbers and one server, a lost first refresh is tolerated if the answer took less
than 15 s (60 - 40 - 5), and none needs to be lost if it took 40 s, which
retransmissions can. With two servers these are 10 s; with three, all of whose
requests time out, 5 s, and with four an answer at once does not help. The demo
starts two at most (the LIFX proxies).

Outside the properties, because no promise contradicts it: a discovery that
times out, a registration without an answer, a late answer that costs the entry,
or a restart of the directory leaves the device unregistered for good.

## 3. Runs

| Run | Shows | Instance |
|---|---|---|
| `lightbulb_update` | `NoLostUpdate`: however writes and `update()` calls of several threads interleave, once none is in progress the bulb has been sent the current values. `ActionEffect`: an undisturbed On, Off or Fade has its effect when it ends | one task, two request threads, two hues |
| `lightbulb_tasks` | `NoStaleResource`, `LocationNamesTask`, `CancelStopsTask`, `InterruptHitsItsTask`: what the races between POST, DELETE and the workers can and cannot do. `ImplementsLifecycle`: the module refines `ActionLifecycle`. And the type invariant | two tasks of every kind, one step |
| `lightbulb_live` | `CancelledTaskStops`: a deleted action leaves the executor. `ActionsEnd`: if clients delete every Blink, every accepted action ends | two tasks, Fade and Blink |
| `coap_node` | `ObserversUnique`; `OneOutcome`: one callback per queued message; `CountExact`; `OneConPending`: a confirmable notification is settled before the next is due; `FullNeedsRequests`: notifications alone never fill the queue; `NoMemMeansFull`: a notification is refused by a full queue only, as long as ids do not wrap. And the type invariant | two clients, two slots, two items, three generated ids |
| `coap_live` | `OutcomeComes`: every queued message gets an outcome. `DeadObserverRemoved`: an observer that left is removed within `ConPeriod + Patience` ticks | one client that may leave, one slot |
| `coap_callback` | violated: `NotifyCallbackFinds` (finding 1) | one client, two slots |
| `coap_id_wrap` | violated: `NoMemMeansFull` (finding 2) | `MidSpace` = 4 instead of 65536 |
| `app_button` | `DeadlinesKept`, `NeverEarly`: a timer expires when its interval is over, whatever is started and stopped around it. `Armed`: no timer sleeps for a turn of the counter. `SettledPinReported`: no press is lost but in the three ways. And the type invariant | two pins, two edges, queue of three |
| `app_button_live` | `TickRings`: the tick timer expires for ever. `PressReported`: a level that is kept is reported | one pin, queue of two |
| `app_button_restart` | violated: `RecordedEdgeTimed` (finding 3) | two pins, three edges, queue of six, never full |
| `ip_stack` | `BlocksKept`: a handler whose sends succeed returns every block. `PbuffersReturned`: every packet buffer, whatever fails. `AddressesConsistent`, `ContextsCounted`: the tables under links and advertisements in any order. `AddressesKept`: no address goes but the one withdrawn. And the type invariant | see 2.4 |
| `rd_registration` | `OneLossTolerated`: a lost refresh alone costs no entry unless the answer to the registration was late. `KeepsUp`: no task waits for longer than the others take; `RefreshesForEver`. And the type invariant | two servers, one restart |

Bounds. Two tasks suffice for every pairwise race of the light bulb: running
against waiting, the DELETE of one against the start of the other. One step
separates the first, a middle and the last turn of a loop; the first and last
coincide with `MaxSteps` = 0, which is enough for `update()`. In the node two
slots and two items make full, partly full and empty tables, two clients the
reuse of a slot. The time constants are scaled down but keep their order:
`AckTimeout` is shorter than the age, and the span ends the retransmission.
`coap_node` also runs with two retransmissions, so that an item is really
retransmitted and kept; `coap_live` runs with one, as in `sdk_config.h`.
`MaxMessages` bounds the ids the node generates. When it is reached
(`Exhausted`) the model's node cannot notify, so its time stops; the liveness
property excepts that case. Runs switch the deadlock check off because the
system may stop: every task ended, or the node halted in `app_error_handler`.

Symmetry is used in safety runs only, for tasks, request threads and clients.

Fairness. The light bulb: weak fairness for the two workers and for each
handler that has started; nobody must send a request. This is what Java's
scheduler gives on a machine that is not starved. The node: weak fairness for
handlers, which run to their end, and strong fairness for `Tick`, because a
pending timer interrupt is served as soon as no handler runs, however many
others are pending. Nothing is assumed of network, users and clients. Timers
and buttons: `[]<>~Busy`, the low priority is done again and again (edges do not
starve it); strong fairness for the counter's tick, which `MaxLag` disables while
an interrupt is late and which in hardware never stops; weak fairness for
TASKS_CLEAR and for `main()`, which nothing else can hold up once the interrupts
are served. Device servers: weak fairness for the threads and for time; nothing
is assumed of the directory. `ip_stack` has no liveness properties and no
fairness: what a handler must do it does within its step. Its node may halt, so
the deadlock check is off there; it is on in `app_button`, `app_button_live` and
`rd_registration`.

## 4. Findings

1. **`coap_callback`.** A client cancels its observation (GET with observe 1)
   while a confirmable notification to it waits for its ACK. When RST or the
   timeout follows, `observer_con_message_callback` searches with a null
   resource, and `APP_ERROR_CHECK` (`main.c:524`) halts the node for good. If the
   slot has been given to another client in between, the same callback
   unregisters that client (`main.c:519-526`).
2. **`coap_id_wrap`.** `coap_queue_item_by_mid_get` (`coap_queue.c:102`) also
   compares free items, whose id is 0. After 65535 generated ids the answer to
   the message with id 0 removes a free item; the counter later wraps to 255 and
   the queue refuses everything with NRF_ERROR_NO_MEM, which `coap_queue.h:58`
   reserves for a full queue. `NoMemOnlyWhenFull` proves that without the wrap
   this cannot happen.
3. **`app_button_restart`.** "If timer is already running, the detection period is
   restarted" (`app_button.c:74`). Every edge stops the timer, but the second edge
   of a pin only clears that pin's bit (`app_button.c:107`). An edge of another
   pin that was recorded in the meantime is left without a timer, and is not
   reported until some later edge starts it.

Seen while modelling, and not the subject of a run: an Off that was cancelled
leaves a low alpha, so that a later switch-on stays dark, and On then answers
"Already on"; the toggle's read and write can undo a POST between them;
`LEDColor.color` and `Lightbulb.color` may differ for good after two PUTs;
`setRelay` called by a task never calls `changed()`; a Toggle that ended before
it was listed stays listed for ever, as toggles have no DELETE; with
COAP_MAX_RETRANSMIT_COUNT 1 the retransmission and the abandonment fall in the
same tick; observers of `/restdesc` are registered though nothing notifies or
removes them; requests are not deduplicated. An encoded message that could be
written but not queued, or not written, is never freed (`coap.c:264`); if
6LoWPAN leaves a packet it refuses, its block is lost too, since `ipv6_send` has
reset the packet buffer (`ipv6.c:1013`) before `coap_transport_write` frees it
(`coap_transport_ipv6.c:203`); a prefix of fewer than 16 bits may withdraw the
link-local address although a comment says that it is ignored (2.4); a thread of
the light bulb that was overtaken between reading and sending sends a stale pair
last, which the bulb shows until the next write; `create_response` without
memory makes `coap_transport_read` return without freeing the message it read;
an echo request with a wrong checksum is answered. A STOP that comes between the
deletions and the insertions of the timer library is dropped
(`app_timer.c:630`). PUT of the TV's and the dock's volume matches no number
(`TvVolume.java:46`), AudioInput assigns before it validates, and the two LIFX
proxies share static state.

## 5. Proofs

The theorems hold for every value of the constants that satisfies the named
assumptions (`LightbulbAssumption`, `CoapAssumption`, `MemoryAssumption`,
`TimerAssumption`, `ButtonAssumption`, `TableAssumption`, `RegistrationAssumption`), which TLC evaluates in every run.

| Theorem | States | Argument |
|---|---|---|
| `LightbulbProofs!TypeCorrect` | `[]TypeOK` | one lemma per group of actions |
| `LightbulbProofs!BulbUpToDate` | `[]NoLostUpdate` | `NoLostUpdate` is not inductive: it says nothing while an update is in progress. `UpdatePending` says that a value that has not been sent is still to be read by some thread, or has been read since the last write and is about to be sent. It is inductive and implies `NoLostUpdate` when all threads are idle |
| `LightbulbProofs!StaleResourcesExplained`, `WrongLocationIsGone`, `InterruptIsPrecise` | `[]NoStaleResource`, `[]LocationNamesTask`, `[]InterruptHitsItsTask` | all three from `TaskFacts`, which adds what handlers know of a task (`HandlerFacts`) and what queues and workers know of it (`WorkerFacts`): only a submitted task is queued, the running one is `current`, only a DELETE in progress cancels |
| `LightbulbProofs!EffectAtTheEnd` | `[]ActionEffect` | `EffectInv`: what holds of the lamp from the first sleep of an undisturbed On, and at the end of Off and Fade; a step of another thread leaves the lamp alone or counts as a disturbance |
| `LightbulbProofs!CancelIsPrompt` | `[]CancelStopsTask` | `CancelStopsTask` is not inductive. `LateInv` adds that a cancelled task that still runs is interrupted or at its end, and that its late writes and the writes up to its next sleep (`Remaining`) together are within the bound |
| `LightbulbProofs!ActionsFollowLifecycle` | `Spec => ImplementsLifecycle` | a step simulation. `LifecycleInv` says that a task is in a queue at most once and, while queued, is neither running nor removed; one lemma per abstract action, then each step of `StepKinds` is such an action or a stutter |
| `CoapNodeProofs!TypeCorrect` | `[]TypeOK` | one lemma per handler; the slot a callback names is in range |
| `CoapNodeProofs!ObserversStayUnique` | `[]ObserversUnique` | inductive given the types: every step leaves the observers alone, registers one or removes one (`ObserverStep`) |
| `CoapNodeProofs!EveryMessageOnce` | `[]OneOutcome` | with `Fresh`: a message not yet issued has no fate, so the one that is added is in no item. Holds even if ids wrap, and whatever answers arrive |
| `CoapNodeProofs!CountStaysExact` | `[]CountExact`, assuming `MaxMessages < MidSpace` | then only an item in use has a message's id (`FoundIsUsed`), so every removal is of an item in use |
| `CoapNodeProofs!NoMemOnlyWhenFull` | `[]NoMemMeansFull`, same assumption | from `CountExact`: a counter at its limit means that all items are in use |
| `CoapNotifyProofs!OneNotificationPending` | `[]OneConPending`, from `TimeAssumption` | `TimingInv` relates two clocks. Both resources age at the same ticks, so their confirmable notifications fall into the same tick (`Clocks`); the handler that runs is one of a few shapes (`Shape`); the timeouts of an item tell its age, which stays below `ConPeriod` (`Lifetimes`), and at the moment a confirmable notification is sent no item of an earlier tick is left (`Turn`) |
| `CoapNotifyProofs!OnlyRequestsFill` | `[]FullNeedsRequests`, from `TimeAssumption` and `MaxMessages < MidSpace` | with `OneConPending`, items of notifications are no more than the slots; with `CountExact`, a full queue has all items in use |
| `CoapNotifyProofs!DeadObserversGo` | `[]DeadObserverRemoved`, from `TimeAssumption` and `MaxRetransmit = 1` | `DepartedInv`: an observer that left is gone, or has an item that nobody answers and whose timeout removes it, or its turn is still to come before `LongGone`. A bounded form of a liveness property, so it needs no fairness |
| `AppButtonProofs!TypeCorrect` | `[]TypeOK` | part of the inductive invariant `IInv`, below |
| `AppButtonProofs!PressesReported` | `[]SettledPinReported` | `IInv`, below. The property is not inductive: it says nothing while a scan is due |
| `AppButtonTimeProofs!DeadlinesAreKept`, `NoneIsEarly`, `AlwaysArmed` | `[]DeadlinesKept`, `[]NeverEarly`, `[]Armed`, assuming `TicksAreLong` and `MaxEarlyEdges = 0` | all three from `TimeInv`, below |
| `IpTableProofs!AlwaysAddressesConsistent`, `AlwaysAddressesKept` | `[]AddressesConsistent`, `AddressesKept` | every step treats the tables in one of five ways (`TableStep`); `AddressInv`: a slot refers to the entry of its own index or to none, the entries in use are those a slot refers to, no address is in two of them; without a link there are none and no interface is counted. An address survives the options that do not withdraw it because a slot is only emptied for the address it holds and an address is only written to an empty slot or its own (`Kept`) |
| `IpTableProofs!AlwaysContextsCounted` | `[]ContextsCounted` | `ContextInv`, in the same way: the table exists exactly while there is a link, and an update changes the counter only for an identifier that is not in it |
| `IpMemoryProofs!PbuffersAlwaysReturned` | `[]PbuffersReturned` | `MemoryInv`, below |
| `IpMemoryProofs!BlocksAlwaysKept` | `BlocksKept` | `MemoryInv`, below |
| `IpMemoryProofs!AlwaysTypeOK` | `[]TypeOK` | `MemoryInv`: a category has no more free blocks than blocks because no number of lost blocks is negative; with `AddressInv` and `ContextInv` |
| `RdProofs!TypeCorrect` | `[]TypeOK` | one lemma per thread, for the directory and for time |
| `RdProofs!ThreadKeepsUp` | `[]KeepsUp`, assuming `PeriodIsLongEnough` | `KeepsUpInv`: a task's delay so far, what the current task may still take and one timeout for each task due before it together never exceed one timeout per other server |
| `RdProofs!OneLossIsTolerated` | `OneLossTolerated`, assuming `PeriodIsLongEnough` | `EntryInv`: what stage of registration each variable shows (`Stages`), and how much longer an entry lasts than the time to its next refresh: its lifetime, less what the answer to the registration spent and less a period for the next refresh and for each that is under way or lost (`Margin`). `KeepsUpInv` bounds how late a refresh is |

The assumption `MaxMessages < MidSpace` is needed: `coap_id_wrap` violates
`NoMemMeansFull` without it. `TimeAssumption` says that an unanswered message,
whose timeouts double up to the span, is abandoned before `ConPeriod` is over:
2 * 10 + 1 <= 56 + 2 with the code's constants. The instances fulfil it,
`coap_node` with equality, so that one attempt more makes TLC violate
`OneConPending`. `PeriodIsLongEnough` says that one
timeout per server fits into a period: 2 of 4 in the instance of
`rd_registration`, and up to four servers with the times of the code.

The proof of `IpMemoryProofs` is bookkeeping. `Slack(m, c)` is the number of
blocks of the category c that are neither free nor with 6LoWPAN nor in a queue
item; `Balanced(m, b, p)` says that the handler accounts for `b[c]` of them,
that more are missing only after a failure, and that the packet buffers are `p`.
There is one lemma per operation, from `Allocated` and `Freed` up to
`CoapMessageSent` and `TimeTicked`, each for any `b` and `p`, so that nested
calls compose as they do in the code: `ipv6_input` holds a packet buffer and its
block, `coap_transport_read` in it a block more, `coap_message` in it two. A
block that a failed call still had is `Forgotten`. `notify` and `coap_time_tick`
work through sequences of any length; `NotifyUnfolded` and `TimeTickUnfolded`
unfold their recursive functions, and `UpTo` is the induction, stated as a fact
about sets of numbers.

The proof of `AppButtonProofs` is about lock-free code with an interrupt between
any two of its steps, so `IInv` has to say where each party stands:

- `TimersTyped`, `PinsTyped`, `QueuesKept` and `LowKept`: the list holds each
  running timer once, a queue holds what its users may have put there, and SWI0
  has read what it uses next, in particular `elapsed` from the insertions to the
  check of the compare register;
- `ScanKept` and `PinsKept`: which pins the detection handler has passed, and how
  level, recorded transition and reported level of a pin agree;
- `EdgesAwaited`: an edge that is recorded and was not refused by a full queue
  has a start of the detection timer in the queue, or that timer is running and
  does not expire before its handler sees the pin, or the handler that runs now
  has not passed the pin (`Ahead`).

The operations on the list of timers are described once, by what they keep of a
timer's time to expiry (`Due`); with two timers a list has one of five values. The
loops over user queues and list are recursive functions, unfolded and taken to any
length with `UpTo`. `TimerAssumption` asks for a queue of at least one place: the
start of the tick timer, the only entry of `main`'s queue, is always accepted. TLC
checked `IInv` on the instance of `app_button` before it was proved.

`AppButtonTimeProofs` adds to `IInv` where everybody stands in time. `DeadlinesKept`,
`NeverEarly` and `Armed` compare a counter modulo `CounterMod` with readings of it
that are several steps old, `Armed` says nothing while an interrupt works and
`NeverEarly` nothing outside the timeout handlers, so `TimeInv` has these parts:

- `Phased`: until SWI0 performs the start of the tick timer nothing has happened;
  from then on that timer is in the list for ever and nothing clears the counter;
- `OpsTimed`: the counter value a queued start noted is the counter now less the
  time it waited, and it is no older than the work that SWI0 has left to do;
- `Deadlines`: the time a timer has run is its interval plus what it is late
  (`Late`, the distance from `m_ticks_latest` to the counter less `Due`), and it is
  at most `Bound` late: once `Least` = `MaxLag + OffsetMin - 1`, twice for the
  tick timer, which an edge that stops the button's timer leaves first in the
  list when both are late;
- `Expiries`: the ticks RTC1 counted for SWI0 have passed, and whoever does not
  expire by them was not late when RTC1 looked, which is why none is early;
- `Alarm`: for each place of `low`, why the event of the first timer comes in time:
  RTC1 is pending or armed for it (`Awake`), the first timer has only just become
  the first (`Renewed`), or a compare value has been computed from a reading since
  which no more than the latency has passed (`Writing`).

`TimeInv` is inductive because of the bounds: they keep every distance far below
`CounterMod`, so that a difference modulo `CounterMod` is the true one, and every
lateness below a period, so that no tick is overslept. TLC checked it, on the
instance of `app_button` with `MaxEarlyEdges` = 0, before it was proved.

Its two hypotheses are meant. `TicksAreLong` says that the latency of SWI0 is at most
the detection delay, and that twice latency and RTC_COMPARE_OFFSET_MIN fit into a
tick. At 1024 ticks per second the code's 50 ms, 100 ms and offset of 3
(`main.c:60`, `sdk_config.h:654`) allow a latency of 48 ticks; the instances fulfil
the second part with equality. `TicksAreLong` cannot be dropped: with an interval of 2 for the
tick timer (detection delay 3, offset 2, latency 1), `TimerAssumption` holds and TLC
finds `DeadlinesKept` violated, since each late compare value adds the offset and
the tick falls behind until a whole period is overslept. `MaxEarlyEdges` = 0 says
that no button is pressed between `buttons_init` and `iot_timer_init` in
`main` (`main.c:1550-1562`): before the tick timer runs, the
buttons alone start, stop and clear the counter, and `Armed` is false for
sufficiently many such edges (2.3). With up to two of them, all three properties are
checked by `app_button`, on its instance only.

Every safety property of a passing run is thus stated by a theorem. Only
model-checked are the liveness properties, since this prover does not treat
fairness and ENABLED, and the three properties of `AppButtonTimeProofs` when edges
come early.

## 6. Plan

Done: the light bulb, the whole firmware of the switch from its buttons and
timers to its packets, except for encodings and binary libraries, and the
registration of the device servers. Next, in this order:

1. `AudioDock`: `MP3Player` with up to three playback threads. The reported state
   belongs to the newest playback, or the race that explains it.
2. `Devices`: air conditioner, TV and `notifyText`. The last value reaches the
   observers; vents and screen agree with the power when all threads rest; a
   text is cleared by its own timer.
3. `Occupancy`: sensors, `running`, plans of two or three requests with failures.
   One plan at a time; `running` is reset, with the failures that prevent it.
4. `Lifx` composed with `Lightbulb`'s `update()`: a message per thread, reordered
   or lost; what the bulb shows at rest.

Not modelled and not planned: Swing and Android user interfaces; thing
descriptions and RESTdesc documents (built once, no later state); byte-level
encoding of messages and options; the resource tree of the CoAP library, built
once; BLE and 6LoWPAN, which are binary; DNS and SNTP clients, lwIP and DTLS,
which the application does not use; Californium, the resource directory and the
reasoner, which appear through what they do to the modelled code. Most lines of
`nrf51` are register definitions, headers of the SoftDevice and board files
without behaviour, so only a small share of the C sources can ever be mapped.
