------------------------------ MODULE Lightbulb ------------------------------
(***************************************************************************)
(* The W3C light bulb server (src/w3c.Lightbulb): the relay and the colour *)
(* of the lamp, the actions Fade, On, Off and Blink that run one at a time *)
(* on Lightbulb.tasks, the Toggle action that runs on an executor of its   *)
(* own, the action resources POST creates and DELETE removes, and          *)
(* Lightbulb.update(), which forwards the lamp's state to a LIFX bulb.     *)
(*                                                                         *)
(* A thread is the worker of Lightbulb.tasks, the worker of PowerToggle's  *)
(* executor, or a request (or observe callback) thread of Californium.     *)
(* What an action of this module does is what its thread does between two  *)
(* points where another thread can act.  A request the code answers with   *)
(* BAD_REQUEST changes nothing and is not modelled.                        *)
(***************************************************************************)
EXTENDS Naturals, Sequences, FiniteSets

CONSTANTS Tasks,     \* the action resources that can be created
          Clients,   \* the request threads that change a property
          Hues,      \* colours without their transparency
          White,     \* Color.white, the initial colour
          Kinds,     \* the kinds of action that are requested
          MaxSteps,  \* the longest duration, in steps of STEP ms
          None       \* no task

Alphas  == {"clear", "partial", "full"}
Colours == [hue : Hues, alpha : Alphas]
Opaque(h) == [hue |-> h, alpha |-> "full"]

Timed == {"fade", "on", "off"}         \* kinds with a duration
Threads == Clients \union {"worker", "toggler"}

ASSUME LightbulbAssumption ==
  /\ White \in Hues
  /\ MaxSteps \in Nat
  /\ Kinds \subseteq Timed \union {"blink", "toggle"}
  /\ None \notin Tasks
  /\ {"worker", "toggler"} \intersect Clients = {}

(* The body of a POST: the kind of action, the number of whole steps that  *)
(* its duration takes before the last one, and the target of a fade.       *)
Jobs == { j \in [kind : Kinds, steps : 0..MaxSteps, target : Hues] :
            /\ j.kind \notin Timed => j.steps = 0
            /\ j.kind # "fade" => j.target = White }
NoJob == [kind |-> "none", steps |-> 0, target |-> White]

VARIABLES
  relay,        \* PowerRelay.on
  color,        \* Lightbulb.color
  ledColor,     \* LEDColor.color
  (* the action resources and the handlers that create and remove them *)
  job,          \* what each task does
  post,         \* how far the POST that creates a task has come
  location,     \* the Location-Path it was answered with
  listed,       \* is the task a child of its action resource
  del,          \* how far a DELETE of the task has come
  future,       \* the state of the Future of the task
  (* Lightbulb.tasks, a single thread executor *)
  queue, current, wpc, left, base, interrupted,
  (* PowerToggle's executor, also single threaded *)
  tqueue, tcurrent, tpc, tvalue,
  (* the threads that serve a PUT of the colour *)
  cpc, carg,
  (* the calls of Lightbulb.update() in progress, one per thread at most *)
  upd, updPower, updColor,
  (* history: what has happened, read by the properties only *)
  powerKnown,   \* a message with the relay's value was sent since its last write
  colorKnown,   \* the same for the colour, since a write of colour or relay
  raced,        \* the task ended before POST added its resource
  late,         \* writes of a task after its Future was cancelled
  disturbed     \* another thread wrote the lamp's state since current started

state    == <<relay, color, ledColor>>
tree     == <<job, post, location, listed, del>>
executor == <<queue, current, wpc, left, base, interrupted>>
togglers == <<tqueue, tcurrent, tpc, tvalue>>
clients  == <<cpc, carg>>
updates  == <<upd, updPower, updColor>>
history  == <<powerKnown, colorKnown, raced, late, disturbed>>
vars     == <<state, tree, future, executor, togglers, clients, updates, history>>

Init ==
  /\ relay = FALSE /\ color = Opaque(White) /\ ledColor = White
  /\ job = [t \in Tasks |-> NoJob]
  /\ post = [t \in Tasks |-> "none"]
  /\ location = [t \in Tasks |-> "none"]
  /\ listed = [t \in Tasks |-> FALSE]
  /\ del = [t \in Tasks |-> "none"]
  /\ future = [t \in Tasks |-> "none"]
  /\ queue = <<>> /\ current = None /\ wpc = "idle"
  /\ left = 0 /\ base = White /\ interrupted = FALSE
  /\ tqueue = <<>> /\ tcurrent = None /\ tpc = "idle" /\ tvalue = FALSE
  /\ cpc = [c \in Clients |-> "idle"]
  /\ carg = [c \in Clients |-> White]
  /\ upd = [th \in Threads |-> "idle"]
  /\ updPower = [th \in Threads |-> FALSE]
  /\ updColor = [th \in Threads |-> Opaque(White)]
  /\ powerKnown = TRUE /\ colorKnown = TRUE
  /\ raced = [t \in Tasks |-> FALSE]
  /\ late = [t \in Tasks |-> 0]
  /\ disturbed = FALSE

-----------------------------------------------------------------------------
(* The lamp.  setColor and setRelay write a static field and call update() *)
(* on the thread that called them: StartUpdate.                            *)

\* Fault: the argument of setPower is read before the field is written.
StartUpdateReadsFirst(th) ==
  /\ upd' = [upd EXCEPT ![th] = "sendPower"]
  /\ updPower' = [updPower EXCEPT ![th] = relay]
  /\ UNCHANGED updColor

StartUpdate(th) ==
  /\ upd' = [upd EXCEPT ![th] = "readPower"]
  /\ UNCHANGED <<updPower, updColor>>

\* A write by a cancelled task that has not noticed it yet, counted as far as
\* the properties tell such counts apart.
LateBound == 3
CountLate(th) ==
  late' = IF th = "worker" /\ future[current] = "cancelled" /\ late[current] < LateBound
          THEN [late EXCEPT ![current] = @ + 1]
          ELSE late

setColor(th, c) ==
  /\ color' = c
  /\ StartUpdate(th)
  /\ CountLate(th)
  /\ colorKnown' = FALSE
  /\ disturbed' = (disturbed \/ th # "worker")
  /\ UNCHANGED <<relay, powerKnown, raced>>

setRelay(th, v) ==
  /\ relay' = v
  /\ StartUpdate(th)
  /\ CountLate(th)
  /\ powerKnown' = FALSE
  /\ colorKnown' = FALSE
  /\ disturbed' = (disturbed \/ th # "worker")
  /\ UNCHANGED <<color, raced>>

Silent == UNCHANGED <<relay, color, updates, history>>

(* Lightbulb.update(): bulb.setPower(getRelay(), 0), then, if getRelay()   *)
(* still holds, bulb.setColor(color).  The argument is read first and the  *)
(* message leaves later, when the sending thread is started.  A local      *)
(* variable that goes out of scope is reset, here and below.               *)
ReadPower(th) ==
  /\ upd[th] = "readPower"
  /\ updPower' = [updPower EXCEPT ![th] = relay]
  /\ upd' = [upd EXCEPT ![th] = "sendPower"]
  /\ UNCHANGED <<state, updColor, history>>

SendPower(th) ==
  /\ upd[th] = "sendPower"
  /\ powerKnown' = (powerKnown \/ updPower[th] = relay)
  /\ upd' = [upd EXCEPT ![th] = "readRelay"]
  /\ updPower' = [updPower EXCEPT ![th] = FALSE]
  /\ UNCHANGED <<state, updColor, colorKnown, raced, late,
                 disturbed>>

ReadRelay(th) ==
  /\ upd[th] = "readRelay"
  /\ upd' = [upd EXCEPT ![th] = IF relay THEN "readColor" ELSE "idle"]
  /\ UNCHANGED <<state, updPower, updColor, history>>

ReadColor(th) ==
  /\ upd[th] = "readColor"
  /\ updColor' = [updColor EXCEPT ![th] = color]
  /\ upd' = [upd EXCEPT ![th] = "sendColor"]
  /\ UNCHANGED <<state, updPower, history>>

SendColor(th) ==
  /\ upd[th] = "sendColor"
  /\ colorKnown' = (colorKnown \/ updColor[th] = color)
  /\ upd' = [upd EXCEPT ![th] = "idle"]
  /\ updColor' = [updColor EXCEPT ![th] = Opaque(White)]
  /\ UNCHANGED <<state, updPower, powerKnown, raced, late,
                 disturbed>>

update(th) ==
  /\ \/ ReadPower(th)
     \/ SendPower(th)
     \/ ReadRelay(th)
     \/ ReadColor(th)
     \/ SendColor(th)
  /\ UNCHANGED <<tree, future, executor, togglers, clients>>

-----------------------------------------------------------------------------
(* Requests that write a property.                                         *)

\* POST pwr/switch, on a request thread.
SwitchPOST(c, v) ==
  /\ cpc[c] = "idle" /\ upd[c] = "idle"
  /\ setRelay(c, v)
  /\ UNCHANGED <<ledColor, tree, future, executor, togglers, clients>>

\* PUT led/color writes its own field, responds, reads the field again for
\* the argument of Lightbulb.setColor, and calls it.
ColorPUT(c, h) ==
  /\ cpc[c] = "idle" /\ upd[c] = "idle"
  /\ ledColor' = h
  /\ cpc' = [cpc EXCEPT ![c] = "assigned"]
  /\ UNCHANGED <<relay, color, carg, tree, future, executor, togglers, updates,
                 history>>

ColorPUTRead(c) ==
  /\ cpc[c] = "assigned"
  /\ carg' = [carg EXCEPT ![c] = ledColor]
  /\ cpc' = [cpc EXCEPT ![c] = "set"]
  /\ UNCHANGED <<state, tree, future, executor, togglers, updates, history>>

ColorPUTSet(c) ==
  /\ cpc[c] = "set"
  /\ setColor(c, Opaque(carg[c]))
  /\ cpc' = [cpc EXCEPT ![c] = "idle"]
  /\ carg' = [carg EXCEPT ![c] = White]
  /\ UNCHANGED <<ledColor, tree, future, executor, togglers>>

\* A notification from the resource led/obs observes.
ObserveLoad(c, h) ==
  /\ cpc[c] = "idle" /\ upd[c] = "idle"
  /\ setColor(c, Opaque(h))
  /\ UNCHANGED <<ledColor, tree, future, executor, togglers, clients>>

-----------------------------------------------------------------------------
(* POST on an action resource creates a task and answers with its path.    *)
(* The constructor submits the task to its executor: it can run, and end,  *)
(* before the handler adds it to the tree.                                 *)

PostSubmit(t, j) ==
  /\ post[t] = "none"
  /\ post' = [post EXCEPT ![t] = "submitted"]
  /\ job' = [job EXCEPT ![t] = j]
  /\ future' = [future EXCEPT ![t] = "queued"]
  /\ IF j.kind = "toggle"
     THEN tqueue' = Append(tqueue, t) /\ UNCHANGED queue
     ELSE queue' = Append(queue, t) /\ UNCHANGED tqueue
  /\ UNCHANGED <<location, listed, del, current, wpc, left, base, interrupted,
                 tcurrent, tpc, tvalue, ledColor, clients>>
  /\ Silent

\* Fault: the path is computed before the resource is added.
PostAddAnswersFirst(t) ==
  /\ post[t] = "submitted"
  /\ post' = [post EXCEPT ![t] = "done"]
  /\ location' = [location EXCEPT ![t] = "null"]
  /\ listed' = [listed EXCEPT ![t] = TRUE]
  /\ UNCHANGED <<job, del, future, executor, togglers, ledColor, clients>>
  /\ Silent

PostAdd(t) ==
  /\ post[t] = "submitted"
  /\ post' = [post EXCEPT ![t] = "added"]
  /\ listed' = [listed EXCEPT ![t] = TRUE]
  /\ UNCHANGED <<job, location, del, future, executor, togglers, ledColor, clients>>
  /\ Silent

\* The path of a resource that is not in the tree is null.
PostRespond(t) ==
  /\ post[t] = "added"
  /\ post' = [post EXCEPT ![t] = "done"]
  /\ location' = [location EXCEPT ![t] = IF listed[t] THEN "path" ELSE "null"]
  /\ UNCHANGED <<job, listed, del, future, executor, togglers, ledColor, clients>>
  /\ Silent

(* DELETE of a task, dispatched when the task is found in the tree.  The   *)
(* tasks of Toggle have no handleDELETE.                                   *)

DeleteFind(t) ==
  /\ listed[t] /\ del[t] = "none"
  /\ job[t].kind # "toggle"
  /\ del' = [del EXCEPT ![t] = "found"]
  /\ UNCHANGED <<job, post, location, listed, future, executor, togglers, ledColor,
                 clients>>
  /\ Silent

\* Fault: handle.cancel(false).
DeleteCancelNoInterrupt(t) ==
  /\ del[t] = "found"
  /\ del' = [del EXCEPT ![t] = "cancelled"]
  /\ future' = [future EXCEPT ![t] =
                  IF @ \in {"queued", "running"} THEN "cancelled" ELSE @]
  /\ UNCHANGED <<job, post, location, listed, executor, togglers, ledColor, clients>>
  /\ Silent

\* handle.cancel(true): a queued task is never run, a running one is
\* interrupted, an ended one is left alone.
DeleteCancel(t) ==
  /\ del[t] = "found"
  /\ del' = [del EXCEPT ![t] = "cancelled"]
  /\ future' = [future EXCEPT ![t] =
                  IF @ \in {"queued", "running"} THEN "cancelled" ELSE @]
  /\ interrupted' = (interrupted \/ future[t] = "running")
  /\ UNCHANGED <<job, post, location, listed, queue, current, wpc, left, base,
                 togglers, ledColor, clients>>
  /\ Silent

\* Fault: no this.delete().
DeleteRemoveForgotten(t) ==
  /\ del[t] = "cancelled"
  /\ del' = [del EXCEPT ![t] = "done"]
  /\ UNCHANGED <<job, post, location, listed, future, executor, togglers, ledColor,
                 clients>>
  /\ Silent

DeleteRemove(t) ==
  /\ del[t] = "cancelled"
  /\ del' = [del EXCEPT ![t] = "done"]
  /\ listed' = [listed EXCEPT ![t] = FALSE]
  /\ UNCHANGED <<job, post, location, future, executor, togglers, ledColor, clients>>
  /\ Silent

-----------------------------------------------------------------------------
(* The worker of Lightbulb.tasks.                                          *)

\* Fault: a plain thread that takes tasks off a queue: a left-over interrupt
\* hits the next task.
WorkerTakeInterrupted ==
  /\ current = None /\ queue # <<>>
  /\ queue' = Tail(queue)
  /\ IF future[Head(queue)] = "cancelled"
     THEN UNCHANGED <<current, wpc, future, disturbed>>
     ELSE /\ current' = Head(queue)
          /\ wpc' = "start"
          /\ future' = [future EXCEPT ![Head(queue)] = "running"]
          /\ disturbed' = FALSE
  /\ UNCHANGED <<left, base, interrupted, state, tree, togglers, clients, updates,
                 powerKnown, colorKnown, raced, late>>

\* Fault: the same, and a cancelled task runs when its turn comes.
WorkerTakeCancelled ==
  /\ current = None /\ queue # <<>>
  /\ queue' = Tail(queue)
  /\ current' = Head(queue)
  /\ wpc' = "start"
  /\ future' = [future EXCEPT ![Head(queue)] = "running"]
  /\ interrupted' = FALSE
  /\ disturbed' = FALSE
  /\ UNCHANGED <<left, base, state, tree, togglers, clients, updates, powerKnown,
                 colorKnown, raced, late>>

\* The executor clears a left-over interrupt before it runs a task, and
\* skips a task whose Future was cancelled.
WorkerTake ==
  /\ current = None /\ queue # <<>>
  /\ queue' = Tail(queue)
  /\ IF future[Head(queue)] = "cancelled"
     THEN UNCHANGED <<current, wpc, future, interrupted, disturbed>>
     ELSE /\ current' = Head(queue)
          /\ wpc' = "start"
          /\ future' = [future EXCEPT ![Head(queue)] = "running"]
          /\ interrupted' = FALSE
          /\ disturbed' = FALSE
  /\ UNCHANGED <<left, base, state, tree, togglers, clients, updates, powerKnown,
                 colorKnown, raced, late>>

\* run() may go on: it is at pc and its last call of update() has returned.
At(pc) == current # None /\ wpc = pc /\ upd["worker"] = "idle"

Frame == UNCHANGED <<ledColor, queue, togglers, clients>>

StartFade ==
  /\ At("start") /\ job[current].kind = "fade"
  /\ left' = job[current].steps
  /\ wpc' = "sleep"
  /\ UNCHANGED <<tree, future, current, base, interrupted>>
  /\ Frame /\ Silent

\* On reads the relay: "Already on" ends the task at once.
StartOn ==
  /\ At("start") /\ job[current].kind = "on"
  /\ wpc' = IF relay THEN "remove" ELSE "makeClear"
  /\ left' = job[current].steps
  /\ base' = color.hue
  /\ UNCHANGED <<tree, future, current, interrupted>>
  /\ Frame /\ Silent

MakeClear ==
  /\ At("makeClear")
  /\ setColor("worker", [hue |-> base, alpha |-> "clear"])
  /\ wpc' = "relayOn"
  /\ UNCHANGED <<tree, future, current, left, base, interrupted>>
  /\ Frame

RelayOn ==
  /\ At("relayOn")
  /\ setRelay("worker", TRUE)
  /\ wpc' = "sleep"
  /\ UNCHANGED <<tree, future, current, left, base, interrupted>>
  /\ Frame

StartOff ==
  /\ At("start") /\ job[current].kind = "off"
  /\ wpc' = IF relay THEN "sleep" ELSE "remove"
  /\ left' = job[current].steps
  /\ base' = color.hue
  /\ UNCHANGED <<tree, future, current, interrupted>>
  /\ Frame /\ Silent

StartBlink ==
  /\ At("start") /\ job[current].kind = "blink"
  /\ setRelay("worker", TRUE)
  /\ wpc' = "sleep"
  /\ UNCHANGED <<tree, future, current, left, base, interrupted>>
  /\ Frame

Slept ==
  /\ At("sleep") /\ ~interrupted
  /\ wpc' = "write"
  /\ UNCHANGED <<tree, future, current, left, base, interrupted>>
  /\ Frame /\ Silent

\* InterruptedException: On still calls this.delete(), the others do not.
Interrupt ==
  /\ At("sleep") /\ interrupted
  /\ interrupted' = FALSE
  /\ left' = 0
  /\ IF job[current].kind = "on"
     THEN wpc' = "remove" /\ UNCHANGED <<current, base>>
     ELSE wpc' = "idle" /\ current' = None /\ base' = White
  /\ UNCHANGED <<tree, future>>
  /\ Frame /\ Silent

(* A step of the loop: interpolated colours are any colours of their shape *)
(* (opaque for Fade, of the hue read at the start for On and Off).         *)
LoopColours ==
  CASE job[current].kind = "fade"  -> { Opaque(h) : h \in Hues }
    [] job[current].kind = "blink" -> Colours
    [] OTHER -> { [hue |-> base, alpha |-> a] : a \in Alphas }

\* Fault: i*STEP <= duration.
LoopingOnce == job[current].kind = "blink" \/ left >= 0

Looping == job[current].kind = "blink" \/ left > 0

LoopStep ==
  /\ At("write") /\ Looping
  /\ \E c \in LoopColours : setColor("worker", c)
  /\ left' = IF job[current].kind = "blink" THEN left ELSE left - 1
  /\ wpc' = "sleep"
  /\ UNCHANGED <<tree, future, current, base, interrupted>>
  /\ Frame

\* Components accumulated in single precision may leave 0..1 towards the end of a
\* long fade, in the last step of the loop or, the longer it is, steps earlier:
\* new Color throws, and the task ends without this.delete().
LoopFails ==
  /\ At("write") /\ job[current].kind # "blink" /\ Looping
  /\ future' = [future EXCEPT ![current] = IF @ = "running" THEN "failed" ELSE @]
  /\ current' = None
  /\ wpc' = "idle"
  /\ left' = 0
  /\ base' = White
  /\ UNCHANGED <<tree, interrupted>>
  /\ Frame /\ Silent

\* Fault: Off makes the colour clear and leaves the relay on.
LastStepDims ==
  /\ At("write") /\ ~Looping
  /\ \/ job[current].kind = "fade" /\ setColor("worker", Opaque(job[current].target))
     \/ job[current].kind = "on"   /\ setColor("worker", Opaque(base))
     \/ /\ job[current].kind = "off"
        /\ setColor("worker", [hue |-> base, alpha |-> "clear"])
  /\ wpc' = "remove"
  /\ UNCHANGED <<tree, future, current, left, base, interrupted>>
  /\ Frame

\* Fault: the last step is part of the loop, which goes on.
LastStepLoops ==
  /\ At("write") /\ ~Looping
  /\ setColor("worker", Opaque(base))
  /\ wpc' = "sleep"
  /\ UNCHANGED <<tree, future, current, left, base, interrupted>>
  /\ Frame

\* The last step, outside of the loop.
LastStep ==
  /\ At("write") /\ ~Looping
  /\ \/ job[current].kind = "fade" /\ setColor("worker", Opaque(job[current].target))
     \/ job[current].kind = "on"   /\ setColor("worker", Opaque(base))
     \/ job[current].kind = "off"  /\ setRelay("worker", FALSE)
  /\ wpc' = "remove"
  /\ UNCHANGED <<tree, future, current, left, base, interrupted>>
  /\ Frame

\* this.delete() removes the resource from its parent, if it has one already.
RemoveSelf(t) ==
  /\ listed' = [listed EXCEPT ![t] = FALSE]
  /\ raced' = [raced EXCEPT ![t] = (post[t] = "submitted")]
  /\ future' = [future EXCEPT ![t] = IF @ = "running" THEN "done" ELSE @]
  /\ UNCHANGED <<job, post, location, del, state, updates, clients, powerKnown,
                 colorKnown, late, disturbed>>

WorkerRemove ==
  /\ At("remove")
  /\ RemoveSelf(current)
  /\ current' = None
  /\ wpc' = "idle"
  /\ left' = 0
  /\ base' = White
  /\ UNCHANGED <<queue, interrupted, togglers>>

Worker ==
  \/ WorkerTake
  \/ StartFade \/ StartOn \/ StartOff \/ StartBlink
  \/ MakeClear \/ RelayOn
  \/ Slept \/ Interrupt
  \/ LoopStep \/ LoopFails \/ LastStep
  \/ WorkerRemove
  \/ update("worker")

-----------------------------------------------------------------------------
(* The worker of PowerToggle's executor: setRelay(!getRelay()) between two *)
(* sleeps.  Nothing interrupts it.                                         *)

ToggleTake ==
  /\ tcurrent = None /\ tqueue # <<>>
  /\ tcurrent' = Head(tqueue)
  /\ tqueue' = Tail(tqueue)
  /\ future' = [future EXCEPT ![Head(tqueue)] = "running"]
  /\ tpc' = "read"
  /\ UNCHANGED <<tvalue, tree, executor, ledColor, clients>>
  /\ Silent

ToggleRead ==
  /\ tpc = "read"
  /\ tvalue' = ~relay
  /\ tpc' = "write"
  /\ UNCHANGED <<tqueue, tcurrent, tree, future, executor, ledColor, clients>>
  /\ Silent

ToggleWrite ==
  /\ tpc = "write"
  /\ setRelay("toggler", tvalue)
  /\ tpc' = "remove"
  /\ tvalue' = FALSE
  /\ UNCHANGED <<tqueue, tcurrent, tree, future, executor, ledColor, clients>>

ToggleRemove ==
  /\ tpc = "remove" /\ upd["toggler"] = "idle"
  /\ RemoveSelf(tcurrent)
  /\ tcurrent' = None
  /\ tpc' = "idle"
  /\ UNCHANGED <<tqueue, tvalue, executor>>

Toggler ==
  \/ ToggleTake \/ ToggleRead \/ ToggleWrite \/ ToggleRemove
  \/ update("toggler")

-----------------------------------------------------------------------------
PostHandler(t) == PostAdd(t) \/ PostRespond(t)
DeleteHandler(t) == DeleteCancel(t) \/ DeleteRemove(t)
ClientThread(c) == ColorPUTRead(c) \/ ColorPUTSet(c) \/ update(c)

Request ==
  \/ \E t \in Tasks, j \in Jobs : PostSubmit(t, j)
  \/ \E t \in Tasks : DeleteFind(t)
  \/ \E c \in Clients, v \in BOOLEAN : SwitchPOST(c, v)
  \/ \E c \in Clients, h \in Hues : ColorPUT(c, h) \/ ObserveLoad(c, h)

Next ==
  \/ Request
  \/ \E t \in Tasks : PostHandler(t) \/ DeleteHandler(t)
  \/ \E c \in Clients : ClientThread(c)
  \/ Worker
  \/ Toggler

Spec == Init /\ [][Next]_vars

\* Threads that can run do run; nobody is obliged to send a request.
Fairness ==
  /\ WF_vars(Worker)
  /\ WF_vars(Toggler)
  /\ \A t \in Tasks : WF_vars(PostHandler(t)) /\ WF_vars(DeleteHandler(t))
  /\ \A c \in Clients : WF_vars(ClientThread(c))

FairSpec == Spec /\ Fairness
-----------------------------------------------------------------------------
(* Properties.                                                             *)

UpdatePcs == {"idle", "readPower", "sendPower", "readRelay", "readColor", "sendColor"}
WorkerPcs == {"idle", "start", "makeClear", "relayOn", "sleep", "write", "remove"}

LampType ==
  /\ relay \in BOOLEAN
  /\ color \in Colours
  /\ upd \in [Threads -> UpdatePcs]
  /\ updPower \in [Threads -> BOOLEAN]
  /\ updColor \in [Threads -> Colours]
  /\ powerKnown \in BOOLEAN /\ colorKnown \in BOOLEAN /\ disturbed \in BOOLEAN
  /\ late \in [Tasks -> Nat]

TreeType ==
  /\ job \in [Tasks -> [kind : Kinds \union {"none"}, steps : 0..MaxSteps,
                        target : Hues]]
  /\ post \in [Tasks -> {"none", "submitted", "added", "done"}]
  /\ location \in [Tasks -> {"none", "path", "null"}]
  /\ listed \in [Tasks -> BOOLEAN]
  /\ del \in [Tasks -> {"none", "found", "cancelled", "done"}]
  /\ future \in [Tasks -> {"none", "queued", "running", "cancelled", "done",
                        "failed"}]
  /\ raced \in [Tasks -> BOOLEAN]

ExecutorType ==
  /\ queue \in Seq(Tasks)
  /\ current \in Tasks \union {None}
  /\ wpc \in WorkerPcs
  /\ left \in 0..MaxSteps
  /\ base \in Hues
  /\ interrupted \in BOOLEAN

TogglerType ==
  /\ tqueue \in Seq(Tasks)
  /\ tcurrent \in Tasks \union {None}
  /\ tpc \in {"idle", "read", "write", "remove"}
  /\ tvalue \in BOOLEAN

ClientType ==
  /\ ledColor \in Hues
  /\ cpc \in [Clients -> {"idle", "assigned", "set"}]
  /\ carg \in [Clients -> Hues]

\* Every variable has its type.
TypeOK == LampType /\ TreeType /\ ExecutorType /\ TogglerType /\ ClientType

\* No lost update: writes and the calls of update() of several threads
\* interleave freely, yet whenever no update() is in progress the bulb has
\* been sent the relay's value, and the colour if the relay is on, since
\* they were last written.
NoLostUpdate ==
  (\A th \in Threads : upd[th] = "idle") => powerKnown /\ (relay => colorKnown)

\* Why: a value the bulb has not been sent is still to be read, or was read
\* since the last write and is about to be sent, by some update().
PowerPending ==
  \/ powerKnown
  \/ \E th \in Threads : \/ upd[th] = "readPower"
                         \/ upd[th] = "sendPower" /\ updPower[th] = relay
ColorPending ==
  \/ colorKnown \/ ~relay
  \/ \E th \in Threads :
       \/ upd[th] \in {"readPower", "sendPower", "readRelay", "readColor"}
       \/ upd[th] = "sendColor" /\ updColor[th] = color
UpdatePending == PowerPending /\ ColorPending

\* The run of a task is over, or will never begin.
Ended(t) == future[t] \in {"done", "failed", "cancelled"} /\ t # current

\* A resource that outlives its task has one of two causes: the task ended
\* before POST added the resource, or failed (or a DELETE is about to remove it).
NoStaleResource ==
  \A t \in Tasks :
    listed[t] /\ Ended(t) =>
      raced[t] \/ future[t] = "failed" \/ del[t] \in {"found", "cancelled"}

\* POST answers with a wrong path only for a resource that is already gone.
LocationNamesTask ==
  \A t \in Tasks : location[t] = "null" => ~listed[t]

\* DELETE returns while the task may still run, but the task writes the lamp
\* once more at most (On twice: the clear colour and the relay).
CancelStopsTask ==
  \A t \in Tasks : late[t] <= IF job[t].kind = "on" THEN 2 ELSE 1

\* The interrupt of a DELETE hits the task it was meant for: it is never
\* pending while the worker runs a task that was not cancelled.
InterruptHitsItsTask ==
  interrupted /\ current # None => future[current] = "cancelled"

\* Why: what the handlers and the workers know of a task.
HandlerFacts ==
  \A t \in Tasks :
    /\ listed[t] \/ del[t] # "none" => post[t] \in {"added", "done"}
    /\ location[t] # "none" => post[t] = "done"
    /\ future[t] # "none" => post[t] # "none"
    /\ del[t] # "none" => job[t].kind # "toggle"
    /\ del[t] = "done" => ~listed[t]
    /\ future[t] = "cancelled" => del[t] \in {"cancelled", "done"}
    /\ post[t] = "submitted" /\ Ended(t) => raced[t] \/ future[t] = "failed"
WorkerFacts ==
  /\ \A i \in DOMAIN queue :
       post[queue[i]] # "none" /\ job[queue[i]].kind # "toggle"
  /\ \A i \in DOMAIN tqueue :
       post[tqueue[i]] # "none" /\ job[tqueue[i]].kind = "toggle"
  /\ current # None =>
       /\ post[current] # "none" /\ job[current].kind # "toggle"
       /\ future[current] \in {"running", "cancelled"}
  /\ tcurrent # None => post[tcurrent] # "none" /\ job[tcurrent].kind = "toggle"
  /\ \A t \in Tasks :
       future[t] = "running" /\ job[t].kind # "toggle" => t = current
TaskFacts ==
  HandlerFacts /\ WorkerFacts /\ InterruptHitsItsTask /\ NoStaleResource
    /\ LocationNamesTask

\* A task that comes to its end, and was not disturbed by another thread,
\* has had its effect: On leaves the relay on, Off leaves it off, Fade leaves
\* the target colour.
ActionEffect ==
  wpc = "remove" /\ ~disturbed =>
    /\ job[current].kind = "on" => relay
    /\ job[current].kind = "off" => ~relay
    /\ job[current].kind = "fade" => color = Opaque(job[current].target)

\* Each action goes through the life cycle of ActionLifecycle.
Phase(t) ==
  IF future[t] = "none" THEN "absent"
  ELSE IF future[t] = "queued" THEN "accepted"
  ELSE IF t \in {current, tcurrent} THEN "active" ELSE "over"
Lane(t) ==
  IF future[t] = "none" THEN "none"
  ELSE IF job[t].kind = "toggle" THEN "power" ELSE "light"
Visible(t) ==
  IF listed[t] THEN "yes"
  ELSE IF post[t] \in {"added", "done"} THEN "no" ELSE "never"
Lifecycle == INSTANCE ActionLifecycle WITH
  phase <- [t \in Tasks |-> Phase(t)],
  lane <- [t \in Tasks |-> Lane(t)],
  visible <- [t \in Tasks |-> Visible(t)]
ImplementsLifecycle == Lifecycle!ASpec

\* The executor is free of a cancelled task eventually, even of a Blink.
CancelledTaskStops ==
  \A t \in Tasks : del[t] = "cancelled" ~> current # t

\* "action must be stopped with a delete": if the clients delete every Blink
\* that runs, every action that was accepted comes to its end.
BlinksDeleted ==
  \A t \in Tasks :
    current = t /\ job[t].kind = "blink" ~> future[t] = "cancelled"
ActionsEnd ==
  BlinksDeleted => \A t \in Tasks : future[t] = "queued" ~> Ended(t) /\ t # tcurrent
==============================================================================
