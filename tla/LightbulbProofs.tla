--------------------------- MODULE LightbulbProofs ---------------------------
(***************************************************************************)
(* Theorems about Lightbulb, for every set of tasks, clients and hues and  *)
(* for every bound on durations: types; forwarding to the bulb; tasks and  *)
(* their resources, where the races between POST, DELETE and the executor  *)
(* do no more harm than NoStaleResource, LocationNamesTask and             *)
(* InterruptHitsItsTask allow; and what becomes of an action: undisturbed, *)
(* it has its effect (EffectInv); cancelled, it writes the lamp once more  *)
(* at most, On twice (LateInv); and whatever POST, DELETE and the          *)
(* executors do, it goes through ActionLifecycle (LifecycleInv).           *)
(***************************************************************************)
EXTENDS Lightbulb, SequenceTheorems, TLAPS

-----------------------------------------------------------------------------
(* Type correctness, one lemma per group of variables or actions.          *)

LEMMA OpaqueIsColour == ASSUME NEW h \in Hues PROVE Opaque(h) \in Colours
BY DEF Opaque, Colours, Alphas

LEMMA WhiteIsHue == White \in Hues /\ Opaque(White) \in Colours
BY LightbulbAssumption, OpaqueIsColour

LEMMA EmptyQueue == <<>> \in Seq(Tasks)
BY SMT

LEMMA InitType == Init => TypeOK
<1> SUFFICES ASSUME Init PROVE TypeOK
  OBVIOUS
<1>1. LampType
  BY WhiteIsHue DEF Init, LampType, UpdatePcs
<1>2. TreeType
  <2>1. NoJob \in [kind : Kinds \union {"none"}, steps : 0..MaxSteps, target : Hues]
    BY LightbulbAssumption DEF NoJob
  <2> QED
    BY <2>1 DEF Init, TreeType
<1>3. ExecutorType
  <2>1. 0 \in 0..MaxSteps
    BY LightbulbAssumption
  <2> QED
    BY <2>1, WhiteIsHue, EmptyQueue DEF Init, ExecutorType, WorkerPcs
<1>4. TogglerType
  BY EmptyQueue DEF Init, TogglerType
<1>5. ClientType
  BY WhiteIsHue DEF Init, ClientType
<1> QED
  BY <1>1, <1>2, <1>3, <1>4, <1>5 DEF TypeOK

LEMMA LateType ==
  ASSUME LampType, NEW th \in Threads, CountLate(th)
  PROVE  late' \in [Tasks -> Nat]
<1>1. late \in [Tasks -> Nat]
  BY DEF LampType
<1>2. CASE late' = late
  BY <1>1, <1>2
<1>3. CASE late' = [late EXCEPT ![current] = @ + 1]
  <2>1. CASE current \in Tasks
    BY <1>1, <1>3, <2>1
  <2>2. CASE current \notin Tasks
    BY <1>1, <1>3, <2>2
  <2> QED
    BY <2>1, <2>2
<1> QED
  BY <1>2, <1>3 DEF CountLate

LEMMA SetColorType ==
  ASSUME LampType, NEW th \in Threads, NEW c \in Colours, setColor(th, c)
  PROVE  LampType' /\ raced' = raced
<1>1. late' \in [Tasks -> Nat]
  BY LateType DEF setColor
<1> QED
  BY <1>1 DEF setColor, StartUpdate, LampType, UpdatePcs

LEMMA SetRelayType ==
  ASSUME LampType, NEW th \in Threads, NEW v \in BOOLEAN, setRelay(th, v)
  PROVE  LampType' /\ raced' = raced
<1>1. late' \in [Tasks -> Nat]
  BY LateType DEF setRelay
<1> QED
  BY <1>1 DEF setRelay, StartUpdate, LampType, UpdatePcs

LEMMA SilentType ==
  ASSUME LampType, Silent
  PROVE  LampType' /\ raced' = raced
BY DEF Silent, LampType, updates, history

\* update() changes nothing but its own progress and the history.
LEMMA UpdateType ==
  ASSUME TypeOK, NEW th \in Threads, update(th)
  PROVE  TypeOK'
<1>1. LampType' /\ raced' = raced
  <2>1. CASE ReadPower(th)
    BY <2>1 DEF ReadPower, TypeOK, LampType, UpdatePcs, state, history
  <2>2. CASE SendPower(th)
    BY <2>2 DEF SendPower, TypeOK, LampType, UpdatePcs, state
  <2>3. CASE ReadRelay(th)
    BY <2>3 DEF ReadRelay, TypeOK, LampType, UpdatePcs, state, history
  <2>4. CASE ReadColor(th)
    BY <2>4 DEF ReadColor, TypeOK, LampType, UpdatePcs, state, history
  <2>5. CASE SendColor(th)
    BY <2>5, WhiteIsHue DEF SendColor, TypeOK, LampType, UpdatePcs, state
  <2> QED
    BY <2>1, <2>2, <2>3, <2>4, <2>5 DEF update
<1>2. ledColor' = ledColor
  BY DEF update, ReadPower, SendPower, ReadRelay, ReadColor, SendColor, state
<1>3. UNCHANGED <<tree, future, executor, togglers, clients>>
  BY DEF update
<1>4. TreeType' /\ ExecutorType' /\ TogglerType' /\ ClientType'
  BY <1>1, <1>2, <1>3 DEF TypeOK, TreeType, ExecutorType, TogglerType, ClientType,
     tree, executor, togglers, clients
<1> QED
  BY <1>1, <1>4 DEF TypeOK

LEMMA ClientThreads == \A c \in Clients : c \in Threads
BY DEF Threads

LEMMA WorkerThreads == "worker" \in Threads /\ "toggler" \in Threads
BY DEF Threads

\* Taking the first task of a queue, and appending one.
LEMMA QueueOps ==
  ASSUME NEW q \in Seq(Tasks)
  PROVE  /\ q # <<>> => Head(q) \in Tasks /\ Tail(q) \in Seq(Tasks)
         /\ \A t \in Tasks : Append(q, t) \in Seq(Tasks)
BY HeadTailProperties, AppendProperties

LEMMA ClientType_Step ==
  ASSUME TypeOK, NEW c \in Clients,
         \/ \E v \in BOOLEAN : SwitchPOST(c, v)
         \/ \E h \in Hues : ColorPUT(c, h) \/ ObserveLoad(c, h)
         \/ ColorPUTRead(c) \/ ColorPUTSet(c)
  PROVE  TypeOK'
<1> USE ClientThreads
<1>1. ASSUME NEW v \in BOOLEAN, SwitchPOST(c, v) PROVE TypeOK'
  <2>1. LampType' /\ raced' = raced
    BY <1>1, SetRelayType DEF SwitchPOST, TypeOK
  <2> QED
    BY <1>1, <2>1 DEF SwitchPOST, TypeOK, TreeType, ExecutorType, TogglerType,
       ClientType, tree, executor, togglers, clients
<1>2. ASSUME NEW h \in Hues, ColorPUT(c, h) PROVE TypeOK'
  BY <1>2 DEF ColorPUT, TypeOK, LampType, TreeType, ExecutorType, TogglerType,
     ClientType, tree, executor, togglers, updates, history
<1>3. ASSUME NEW h \in Hues, ObserveLoad(c, h) PROVE TypeOK'
  <2>1. LampType' /\ raced' = raced
    BY <1>3, SetColorType, OpaqueIsColour DEF ObserveLoad, TypeOK
  <2> QED
    BY <1>3, <2>1 DEF ObserveLoad, TypeOK, TreeType, ExecutorType, TogglerType,
       ClientType, tree, executor, togglers, clients
<1>4. CASE ColorPUTRead(c)
  BY <1>4 DEF ColorPUTRead, TypeOK, LampType, TreeType, ExecutorType, TogglerType,
     ClientType, tree, executor, togglers, updates, history, state
<1>5. CASE ColorPUTSet(c)
  <2>1. carg[c] \in Hues
    BY DEF TypeOK, ClientType
  <2>2. LampType' /\ raced' = raced
    BY <1>5, <2>1, SetColorType, OpaqueIsColour DEF ColorPUTSet, TypeOK
  <2> QED
    BY <1>5, <2>2, WhiteIsHue DEF ColorPUTSet, TypeOK, TreeType, ExecutorType,
       TogglerType, ClientType, tree, executor, togglers
<1> QED
  BY <1>1, <1>2, <1>3, <1>4, <1>5

LEMMA JobType == \A j \in Jobs :
  j \in [kind : Kinds \union {"none"}, steps : 0..MaxSteps, target : Hues]
BY DEF Jobs

LEMMA PostType_Step ==
  ASSUME TypeOK, NEW t \in Tasks,
         (\E j \in Jobs : PostSubmit(t, j)) \/ PostAdd(t) \/ PostRespond(t)
  PROVE  TypeOK'
<1>1. ASSUME NEW j \in Jobs, PostSubmit(t, j) PROVE TypeOK'
  <2>1. LampType' /\ raced' = raced
    BY <1>1, SilentType DEF PostSubmit, TypeOK
  <2>2. TreeType'
    BY <1>1, <2>1, JobType DEF PostSubmit, TypeOK, TreeType
  <2>3. queue' \in Seq(Tasks) /\ tqueue' \in Seq(Tasks)
    BY <1>1, QueueOps DEF PostSubmit, TypeOK, ExecutorType, TogglerType
  <2>4. ExecutorType' /\ TogglerType' /\ ClientType'
    BY <1>1, <2>3 DEF PostSubmit, TypeOK, ExecutorType, TogglerType, ClientType,
       clients
  <2> QED
    BY <2>1, <2>2, <2>4 DEF TypeOK
<1>2. CASE PostAdd(t) \/ PostRespond(t)
  <2>1. LampType' /\ raced' = raced
    BY <1>2, SilentType DEF PostAdd, PostRespond, TypeOK
  <2>2. TreeType'
    BY <1>2, <2>1 DEF PostAdd, PostRespond, TypeOK, TreeType
  <2> QED
    BY <1>2, <2>1, <2>2 DEF PostAdd, PostRespond, TypeOK, ExecutorType, TogglerType,
       ClientType, executor, togglers, clients
<1> QED
  BY <1>1, <1>2

LEMMA DeleteType_Step ==
  ASSUME TypeOK, NEW t \in Tasks, DeleteFind(t) \/ DeleteCancel(t) \/ DeleteRemove(t)
  PROVE  TypeOK'
<1>1. LampType' /\ raced' = raced
  BY SilentType DEF DeleteFind, DeleteCancel, DeleteRemove, TypeOK
<1>2. TreeType'
  BY <1>1 DEF DeleteFind, DeleteCancel, DeleteRemove, TypeOK, TreeType
<1>3. ExecutorType' /\ TogglerType' /\ ClientType'
  BY DEF DeleteFind, DeleteCancel, DeleteRemove, TypeOK, ExecutorType, TogglerType,
     ClientType, executor, togglers, clients
<1> QED
  BY <1>1, <1>2, <1>3 DEF TypeOK

\* One lemma per step of the worker, by what the step does to the lamp.
LEMMA WorkerTakeType == ASSUME TypeOK, WorkerTake PROVE TypeOK'
<1>1. queue # <<>> /\ queue \in Seq(Tasks)
  BY DEF WorkerTake, TypeOK, ExecutorType
<1>2. Head(queue) \in Tasks /\ queue' \in Seq(Tasks)
  BY <1>1, QueueOps DEF WorkerTake
<1>3. LampType' /\ raced' = raced
  BY DEF WorkerTake, TypeOK, LampType, state, updates
<1>4. TreeType'
  BY <1>2, <1>3 DEF WorkerTake, TypeOK, TreeType, tree
<1>5. ExecutorType'
  BY <1>2 DEF WorkerTake, TypeOK, ExecutorType, WorkerPcs
<1>6. TogglerType' /\ ClientType'
  BY DEF WorkerTake, TypeOK, TogglerType, ClientType, togglers, clients, state
<1> QED
  BY <1>3, <1>4, <1>5, <1>6 DEF TypeOK

\* Steps that leave the lamp alone.
LEMMA WorkerSilentType ==
  ASSUME TypeOK, StartFade \/ StartOn \/ StartOff \/ Slept \/ Interrupt
  PROVE  TypeOK'
<1>1. current \in Tasks /\ job[current].steps \in 0..MaxSteps /\ color.hue \in Hues
  BY DEF StartFade, StartOn, StartOff, Slept, Interrupt, At, TypeOK, ExecutorType,
     TreeType, LampType, Colours
<1>2. LampType' /\ raced' = raced
  BY SilentType DEF StartFade, StartOn, StartOff, Slept, Interrupt, TypeOK
<1>3. TreeType'
  BY <1>2 DEF StartFade, StartOn, StartOff, Slept, Interrupt, TypeOK, TreeType, tree
<1>4. TogglerType' /\ ClientType' /\ queue' = queue
  BY DEF StartFade, StartOn, StartOff, Slept, Interrupt, Frame, TypeOK, TogglerType,
     ClientType, togglers, clients
<1>5. 0 \in 0..MaxSteps /\ White \in Hues
  BY LightbulbAssumption
<1>6. ExecutorType'
  BY <1>1, <1>4, <1>5 DEF StartFade, StartOn, StartOff, Slept, Interrupt, TypeOK,
     ExecutorType, WorkerPcs
<1> QED
  BY <1>2, <1>3, <1>4, <1>6 DEF TypeOK

\* Steps that write the lamp's state.
LEMMA WorkerWriteType ==
  ASSUME TypeOK, MakeClear \/ RelayOn \/ StartBlink \/ LoopStep \/ LastStep
  PROVE  TypeOK'
<1>1. current \in Tasks /\ base \in Hues /\ job[current].target \in Hues
  BY DEF MakeClear, RelayOn, StartBlink, LoopStep, LastStep, At, TypeOK,
     ExecutorType, TreeType
<1>2. LampType' /\ raced' = raced
  <2>1. LampType
    BY DEF TypeOK
  <2>2. \A a \in Alphas : [hue |-> base, alpha |-> a] \in Colours
    BY <1>1 DEF Colours
  <2>3. "clear" \in Alphas
    BY DEF Alphas
  <2>4. CASE MakeClear
    BY <2>1, <2>2, <2>3, <2>4, SetColorType, WorkerThreads DEF MakeClear
  <2>5. CASE RelayOn \/ StartBlink
    BY <2>1, <2>5, SetRelayType, WorkerThreads DEF RelayOn, StartBlink
  <2>6. CASE LoopStep
    <3>1. LoopColours \subseteq Colours
      BY <2>2, OpaqueIsColour DEF LoopColours
    <3> QED
      BY <2>1, <2>6, <3>1, SetColorType, WorkerThreads DEF LoopStep
  <2>7. CASE LastStep
    <3>1. Opaque(base) \in Colours /\ Opaque(job[current].target) \in Colours
      BY <1>1, OpaqueIsColour
    <3> QED
      BY <2>1, <2>7, <3>1, SetColorType, SetRelayType, WorkerThreads DEF LastStep
  <2> QED
    BY <2>4, <2>5, <2>6, <2>7
<1>3. TreeType'
  BY <1>2 DEF MakeClear, RelayOn, StartBlink, LoopStep, LastStep, TypeOK, TreeType,
     tree
<1>4. TogglerType' /\ ClientType' /\ queue' = queue
  BY DEF MakeClear, RelayOn, StartBlink, LoopStep, LastStep, Frame, TypeOK,
     TogglerType, ClientType, togglers, clients
<1>5. left' \in 0..MaxSteps
  <2>1. left \in 0..MaxSteps
    BY DEF TypeOK, ExecutorType
  <2>2. CASE left' = left
    BY <2>1, <2>2
  <2>3. CASE left' = left - 1 /\ left > 0
    BY <2>1, <2>3, LightbulbAssumption
  <2> QED
    BY <2>2, <2>3 DEF MakeClear, RelayOn, StartBlink, LoopStep, LastStep, Looping
<1>6. ExecutorType'
  BY <1>4, <1>5 DEF MakeClear, RelayOn, StartBlink, LoopStep, LastStep, TypeOK,
     ExecutorType, WorkerPcs
<1> QED
  BY <1>2, <1>3, <1>4, <1>6 DEF TypeOK

LEMMA LoopFailsType == ASSUME TypeOK, LoopFails PROVE TypeOK'
<1>1. LampType' /\ raced' = raced
  BY SilentType DEF LoopFails, TypeOK
<1>2. current \in Tasks /\ 0 \in 0..MaxSteps /\ White \in Hues
  BY LightbulbAssumption DEF LoopFails, At, TypeOK, ExecutorType
<1>3. TreeType'
  BY <1>1, <1>2 DEF LoopFails, TypeOK, TreeType, tree
<1>4. TogglerType' /\ ClientType' /\ ExecutorType'
  BY <1>2 DEF LoopFails, Frame, TypeOK, TogglerType, ClientType, ExecutorType, togglers,
     clients, WorkerPcs
<1> QED
  BY <1>1, <1>3, <1>4 DEF TypeOK

LEMMA RemoveSelfType ==
  ASSUME TypeOK, NEW t, RemoveSelf(t)
  PROVE  LampType' /\ TreeType' /\ ClientType'
BY DEF RemoveSelf, TypeOK, LampType, TreeType, ClientType, state, updates, clients

LEMMA WorkerRemoveType == ASSUME TypeOK, WorkerRemove PROVE TypeOK'
<1>1. LampType' /\ TreeType' /\ ClientType'
  BY RemoveSelfType DEF WorkerRemove
<1>2. 0 \in 0..MaxSteps /\ White \in Hues
  BY LightbulbAssumption
<1>3. ExecutorType' /\ TogglerType'
  BY <1>2 DEF WorkerRemove, TypeOK, ExecutorType, TogglerType, togglers, WorkerPcs
<1> QED
  BY <1>1, <1>3 DEF TypeOK

LEMMA TogglerType_Step ==
  ASSUME TypeOK, ToggleTake \/ ToggleRead \/ ToggleWrite \/ ToggleRemove
  PROVE  TypeOK'
<1>1. CASE ToggleTake
  <2>1. tqueue # <<>> /\ tqueue \in Seq(Tasks)
    BY <1>1 DEF ToggleTake, TypeOK, TogglerType
  <2>2. Head(tqueue) \in Tasks /\ tqueue' \in Seq(Tasks)
    BY <1>1, <2>1, QueueOps DEF ToggleTake
  <2>3. LampType' /\ raced' = raced
    BY <1>1, SilentType DEF ToggleTake, TypeOK
  <2>4. TreeType' /\ TogglerType'
    BY <1>1, <2>2, <2>3 DEF ToggleTake, TypeOK, TreeType, TogglerType, tree
  <2>5. ExecutorType' /\ ClientType'
    BY <1>1 DEF ToggleTake, TypeOK, ExecutorType, ClientType, executor, clients
  <2> QED
    BY <2>3, <2>4, <2>5 DEF TypeOK
<1>2. CASE ToggleRead
  <2>1. LampType' /\ raced' = raced
    BY <1>2, SilentType DEF ToggleRead, TypeOK
  <2>2. (~relay) \in BOOLEAN
    BY DEF TypeOK, LampType
  <2> QED
    BY <1>2, <2>1, <2>2 DEF ToggleRead, TypeOK, TreeType, TogglerType, ExecutorType,
       ClientType, tree, executor, clients
<1>3. CASE ToggleWrite
  <2>1. tvalue \in BOOLEAN
    BY DEF TypeOK, TogglerType
  <2>2. LampType' /\ raced' = raced
    BY <1>3, <2>1, SetRelayType, WorkerThreads DEF ToggleWrite, TypeOK
  <2> QED
    BY <1>3, <2>2 DEF ToggleWrite, TypeOK, TreeType, TogglerType, ExecutorType,
       ClientType, tree, executor, clients
<1>4. CASE ToggleRemove
  <2>1. LampType' /\ TreeType' /\ ClientType'
    BY <1>4, RemoveSelfType DEF ToggleRemove
  <2> QED
    BY <1>4, <2>1 DEF ToggleRemove, TypeOK, ExecutorType, TogglerType, executor
<1> QED
  BY <1>1, <1>2, <1>3, <1>4

LEMMA NextType == TypeOK /\ [Next]_vars => TypeOK'
<1> SUFFICES ASSUME TypeOK, [Next]_vars PROVE TypeOK'
  OBVIOUS
<1>1. CASE Request
  BY <1>1, ClientType_Step, PostType_Step, DeleteType_Step DEF Request
<1>2. ASSUME NEW t \in Tasks, PostHandler(t) \/ DeleteHandler(t) PROVE TypeOK'
  BY <1>2, PostType_Step, DeleteType_Step DEF PostHandler, DeleteHandler
<1>3. ASSUME NEW c \in Clients, ClientThread(c) PROVE TypeOK'
  BY <1>3, ClientType_Step, UpdateType, ClientThreads DEF ClientThread
<1>4. CASE Worker
  BY <1>4, WorkerTakeType, WorkerSilentType, WorkerWriteType, LoopFailsType,
     WorkerRemoveType, UpdateType, WorkerThreads DEF Worker
<1>5. CASE Toggler
  BY <1>5, TogglerType_Step, UpdateType, WorkerThreads DEF Toggler
<1>6. CASE UNCHANGED vars
  BY <1>6 DEF vars, state, tree, executor, togglers, clients, updates, history,
     TypeOK, LampType, TreeType, ExecutorType, TogglerType, ClientType
<1> QED
  BY <1>1, <1>2, <1>3, <1>4, <1>5, <1>6 DEF Next

\* Every variable keeps its type, whatever the bounds: in particular the loop
\* counter of a fade never becomes negative.
THEOREM TypeCorrect == Spec => []TypeOK
<1>1. Init => TypeOK
  BY InitType
<1>2. TypeOK /\ [Next]_vars => TypeOK'
  BY NextType
<1> QED
  BY <1>1, <1>2, PTL DEF Spec

-----------------------------------------------------------------------------
(* No lost update.  Writes leave a pending update() behind; update() only   *)
(* stops being pending by sending the current value, or on finding the      *)
(* relay off.                                                               *)

LEMMA InitPending == Init => UpdatePending
BY DEF Init, UpdatePending, PowerPending, ColorPending

LEMMA WritePending ==
  ASSUME TypeOK, UpdatePending, NEW th \in Threads,
         \/ \E c \in Colours : setColor(th, c)
         \/ \E v \in BOOLEAN : setRelay(th, v)
  PROVE  UpdatePending'
<1>1. upd'[th] = "readPower"
  BY DEF TypeOK, LampType, setColor, setRelay, StartUpdate
<1> QED
  BY <1>1 DEF UpdatePending, PowerPending, ColorPending

LEMMA UnchangedPending ==
  ASSUME UpdatePending, UNCHANGED <<relay, color, upd, updPower, updColor,
                                    powerKnown, colorKnown>>
  PROVE  UpdatePending'
BY DEF UpdatePending, PowerPending, ColorPending

LEMMA UpdateStepPending ==
  ASSUME TypeOK, UpdatePending, NEW th \in Threads, update(th)
  PROVE  UpdatePending'
<1> USE DEF TypeOK, LampType
<1>1. relay' = relay /\ color' = color
  BY DEF update, ReadPower, SendPower, ReadRelay, ReadColor, SendColor, state
<1>2. \A o \in Threads \ {th} :
        upd'[o] = upd[o] /\ updPower'[o] = updPower[o] /\ updColor'[o] = updColor[o]
  BY DEF update, ReadPower, SendPower, ReadRelay, ReadColor, SendColor
<1>3. PowerPending'
  <2>1. CASE ReadPower(th)
    BY <2>1 DEF ReadPower, PowerPending, state
  <2>2. CASE SendPower(th)
    BY <2>2, <1>1, <1>2 DEF SendPower, PowerPending, UpdatePending
  <2>3. CASE ReadRelay(th) \/ ReadColor(th) \/ SendColor(th)
    <3>1. powerKnown' = powerKnown /\ upd[th] \notin {"readPower", "sendPower"}
      BY <2>3 DEF ReadRelay, ReadColor, SendColor, history
    <3> QED
      BY <3>1, <1>1, <1>2 DEF PowerPending, UpdatePending
  <2> QED
    BY <2>1, <2>2, <2>3 DEF update
<1>4. ColorPending'
  <2>1. CASE ReadPower(th) \/ SendPower(th)
    <3>1. upd'[th] \in {"sendPower", "readRelay"}
      BY <2>1 DEF ReadPower, SendPower
    <3> QED
      BY <3>1 DEF ColorPending
  <2>2. CASE ReadRelay(th)
    <3>1. relay => upd'[th] = "readColor"
      BY <2>2 DEF ReadRelay
    <3> QED
      BY <3>1, <1>1 DEF ColorPending
  <2>3. CASE ReadColor(th)
    <3>1. upd'[th] = "sendColor" /\ updColor'[th] = color
      BY <2>3 DEF ReadColor
    <3> QED
      BY <3>1, <1>1 DEF ColorPending
  <2>4. CASE SendColor(th)
    BY <2>4, <1>1, <1>2 DEF SendColor, ColorPending, UpdatePending
  <2> QED
    BY <2>1, <2>2, <2>3, <2>4 DEF update
<1> QED
  BY <1>3, <1>4 DEF UpdatePending

\* Every step that writes the lamp's state goes through setColor or setRelay.
LEMMA NextPending == TypeOK /\ UpdatePending /\ [Next]_vars => UpdatePending'
<1> SUFFICES ASSUME TypeOK, UpdatePending, [Next]_vars PROVE UpdatePending'
  OBVIOUS
<1> DEFINE Quiet == UNCHANGED <<relay, color, upd, updPower, updColor,
                                powerKnown, colorKnown>>
           Written == \E th \in Threads : \/ \E c \in Colours : setColor(th, c)
                                          \/ \E v \in BOOLEAN : setRelay(th, v)
           Updated == \E th \in Threads : update(th)
<1>1. CASE Request
  <2>1. ASSUME NEW t \in Tasks, NEW j \in Jobs, PostSubmit(t, j) PROVE Quiet
    BY <2>1 DEF PostSubmit, Silent, updates, history
  <2>2. ASSUME NEW t \in Tasks, DeleteFind(t) PROVE Quiet
    BY <2>2 DEF DeleteFind, Silent, updates, history
  <2>3. ASSUME NEW c \in Clients, NEW v \in BOOLEAN, SwitchPOST(c, v) PROVE Written
    BY <2>3, ClientThreads DEF SwitchPOST
  <2>4. ASSUME NEW c \in Clients, NEW h \in Hues, ColorPUT(c, h) PROVE Quiet
    BY <2>4 DEF ColorPUT, updates, history
  <2>5. ASSUME NEW c \in Clients, NEW h \in Hues, ObserveLoad(c, h) PROVE Written
    BY <2>5, ClientThreads, OpaqueIsColour DEF ObserveLoad
  <2>6. Quiet \/ Written
    BY <1>1, <2>1, <2>2, <2>3, <2>4, <2>5 DEF Request
  <2> QED
    BY <2>6, UnchangedPending, WritePending
<1>2. ASSUME NEW t \in Tasks, PostHandler(t) \/ DeleteHandler(t) PROVE UpdatePending'
  <2>1. Quiet
    BY <1>2 DEF PostHandler, DeleteHandler, PostAdd, PostRespond, DeleteCancel,
       DeleteRemove, Silent, updates, history
  <2> QED
    BY <2>1, UnchangedPending
<1>3. ASSUME NEW c \in Clients, ClientThread(c) PROVE UpdatePending'
  <2>1. CASE ColorPUTRead(c)
    BY <2>1, UnchangedPending DEF ColorPUTRead, state, updates, history
  <2>2. CASE ColorPUTSet(c)
    <3>1. Opaque(carg[c]) \in Colours
      BY OpaqueIsColour DEF TypeOK, ClientType
    <3> QED
      BY <2>2, <3>1, WritePending, ClientThreads DEF ColorPUTSet
  <2>3. CASE update(c)
    BY <2>3, UpdateStepPending, ClientThreads
  <2> QED
    BY <1>3, <2>1, <2>2, <2>3 DEF ClientThread
<1>4. CASE Worker
  <2>1. CASE WorkerTake
    BY <2>1, UnchangedPending DEF WorkerTake, state, updates
  <2>2. CASE StartFade \/ StartOn \/ StartOff \/ Slept \/ Interrupt \/ LoopFails
    BY <2>2, UnchangedPending DEF StartFade, StartOn, StartOff, Slept, Interrupt,
       LoopFails, Silent, updates, history
  <2>3. CASE MakeClear \/ RelayOn \/ StartBlink \/ LoopStep \/ LastStep
    <3>1. \/ \E c : setColor("worker", c)
          \/ \E v \in BOOLEAN : setRelay("worker", v)
      BY <2>3 DEF MakeClear, RelayOn, StartBlink, LoopStep, LastStep
    <3>2. upd'["worker"] = "readPower"
      BY <3>1, WorkerThreads DEF setColor, setRelay, StartUpdate, TypeOK, LampType
    <3> QED
      BY <3>2, WorkerThreads DEF UpdatePending, PowerPending, ColorPending
  <2>4. CASE WorkerRemove
    BY <2>4, UnchangedPending DEF WorkerRemove, RemoveSelf, state, updates
  <2>5. CASE update("worker")
    BY <2>5, UpdateStepPending, WorkerThreads
  <2> QED
    BY <1>4, <2>1, <2>2, <2>3, <2>4, <2>5 DEF Worker
<1>5. CASE Toggler
  <2>1. CASE ToggleTake \/ ToggleRead
    BY <2>1, UnchangedPending DEF ToggleTake, ToggleRead, Silent, updates, history
  <2>2. CASE ToggleWrite
    BY <2>2, WritePending, WorkerThreads DEF ToggleWrite, TypeOK, TogglerType
  <2>3. CASE ToggleRemove
    BY <2>3, UnchangedPending DEF ToggleRemove, RemoveSelf, state, updates
  <2>4. CASE update("toggler")
    BY <2>4, UpdateStepPending, WorkerThreads
  <2> QED
    BY <1>5, <2>1, <2>2, <2>3, <2>4 DEF Toggler
<1>6. CASE UNCHANGED vars
  BY <1>6, UnchangedPending DEF vars, state, updates, history
<1> QED
  BY <1>1, <1>2, <1>3, <1>4, <1>5, <1>6 DEF Next

\* Whenever no call of Lightbulb.update() is in progress, the bulb has been
\* sent the relay's value since its last write, and the colour if it is on:
\* setColor and setRelay need no lock to keep the bulb up to date, because
\* the last writer calls update() after its write.
THEOREM BulbUpToDate == Spec => []NoLostUpdate
<1>1. Init => TypeOK /\ UpdatePending
  BY InitType, InitPending
<1>2. TypeOK /\ UpdatePending /\ [Next]_vars => (TypeOK /\ UpdatePending)'
  BY NextType, NextPending
<1>3. TypeOK /\ UpdatePending => NoLostUpdate
  BY DEF UpdatePending, PowerPending, ColorPending, NoLostUpdate
<1> QED
  BY <1>1, <1>2, <1>3, PTL DEF Spec

-----------------------------------------------------------------------------
(* Tasks and their resources.                                              *)

LEMMA QueueElements ==
  ASSUME NEW q \in Seq(Tasks)
  PROVE  /\ q # <<>> => Head(q) = q[1] /\ 1 \in DOMAIN q
         /\ q # <<>> => \A i \in DOMAIN Tail(q) : \E k \in DOMAIN q : Tail(q)[i] = q[k]
         /\ \A t \in Tasks : \A i \in DOMAIN Append(q, t) :
              Append(q, t)[i] = t \/ \E k \in DOMAIN q : Append(q, t)[i] = q[k]
         /\ \A i \in DOMAIN q : q[i] \in Tasks
<1>1. DOMAIN q = 1..Len(q) /\ Len(q) \in Nat /\ \A i \in 1..Len(q) : q[i] \in Tasks
  BY LenProperties, ElementOfSeq
<1>2. ASSUME q # <<>>
      PROVE  /\ Head(q) = q[1] /\ 1 \in DOMAIN q
             /\ \A i \in DOMAIN Tail(q) : \E k \in DOMAIN q : Tail(q)[i] = q[k]
  <2>1. Len(q) \in Nat \ {0}
    BY <1>2, EmptySeq
  <2>2. /\ Head(q) = q[1] /\ Tail(q) \in Seq(Tasks) /\ Len(Tail(q)) = Len(q) - 1
        /\ \A i \in 1..Len(Tail(q)) : Tail(q)[i] = q[i + 1]
    BY <1>2, HeadTailProperties
  <2>3. DOMAIN Tail(q) = 1..Len(Tail(q))
    BY <2>2, LenProperties
  <2>4. ASSUME NEW i \in DOMAIN Tail(q) PROVE \E k \in DOMAIN q : Tail(q)[i] = q[k]
    <3>1. i + 1 \in DOMAIN q /\ Tail(q)[i] = q[i + 1]
      BY <2>1, <2>2, <2>3, <2>4, <1>1
    <3> QED
      BY <3>1
  <2> QED
    BY <1>1, <2>1, <2>2, <2>4
<1>3. ASSUME NEW t \in Tasks, NEW i \in DOMAIN Append(q, t)
      PROVE  Append(q, t)[i] = t \/ \E k \in DOMAIN q : Append(q, t)[i] = q[k]
  <2>1. /\ Append(q, t) \in Seq(Tasks) /\ Len(Append(q, t)) = Len(q) + 1
        /\ \A k \in 1..Len(q) : Append(q, t)[k] = q[k]
        /\ Append(q, t)[Len(q) + 1] = t
    BY AppendProperties
  <2>2. i \in 1..(Len(q) + 1)
    BY <2>1, LenProperties
  <2> QED
    BY <2>1, <2>2, <1>1
<1> QED
  BY <1>1, <1>2, <1>3

LEMMA InitTask == Init => TaskFacts
<1> SUFFICES ASSUME Init PROVE TaskFacts
  OBVIOUS
<1>1. HandlerFacts
  BY DEF Init, HandlerFacts
<1>2. WorkerFacts
  BY DEF Init, WorkerFacts
<1> QED
  BY <1>1, <1>2 DEF Init, TaskFacts, InterruptHitsItsTask, NoStaleResource,
     LocationNamesTask

\* Steps that concern the lamp only.
TaskVars == <<tree, future, queue, current, interrupted, tqueue, tcurrent, raced>>

LEMMA UnchangedTask == ASSUME TaskFacts, UNCHANGED TaskVars PROVE TaskFacts'
<1>1. HandlerFacts'
  BY DEF TaskFacts, HandlerFacts, TaskVars, tree, Ended
<1>2. WorkerFacts'
  BY DEF TaskFacts, WorkerFacts, TaskVars, tree
<1>3. InterruptHitsItsTask' /\ NoStaleResource' /\ LocationNamesTask'
  BY DEF TaskFacts, InterruptHitsItsTask, NoStaleResource, LocationNamesTask,
     TaskVars, tree, Ended
<1> QED
  BY <1>1, <1>2, <1>3 DEF TaskFacts

LEMMA PostSubmitTask ==
  ASSUME TypeOK, TaskFacts, NEW t \in Tasks, NEW j \in Jobs, PostSubmit(t, j)
  PROVE  TaskFacts'
<1> USE DEF TypeOK, TreeType
<1>1. UNCHANGED <<listed, location, del, current, interrupted, tcurrent, raced>>
  BY DEF PostSubmit, Silent, history
<1>2. /\ post[t] = "none" /\ post' = [post EXCEPT ![t] = "submitted"]
      /\ job' = [job EXCEPT ![t] = j]
      /\ future' = [future EXCEPT ![t] = "queued"]
  BY DEF PostSubmit
<1>3. HandlerFacts'
  BY <1>1, <1>2 DEF TaskFacts, HandlerFacts, Ended
<1>4. WorkerFacts'
  <2>1. queue \in Seq(Tasks) /\ tqueue \in Seq(Tasks)
    BY DEF ExecutorType, TogglerType
  <2>2. \A u \in Tasks : post[u] # "none" => post'[u] # "none" /\ job'[u] = job[u]
    BY <1>2
  <2>3. post'[t] # "none" /\ job'[t] = j
    BY <1>2
  <2>4. /\ \A i \in DOMAIN queue : queue[i] \in Tasks
        /\ \A i \in DOMAIN tqueue : tqueue[i] \in Tasks
    BY <2>1, QueueElements
  <2>5. \A i \in DOMAIN queue' :
          post'[queue'[i]] # "none" /\ job'[queue'[i]].kind # "toggle"
    <3>1. CASE queue' = queue
      BY <3>1, <2>2, <2>4 DEF TaskFacts, WorkerFacts
    <3>2. CASE queue' = Append(queue, t) /\ j.kind # "toggle"
      <4> SUFFICES ASSUME NEW i \in DOMAIN queue'
                   PROVE post'[queue'[i]] # "none" /\ job'[queue'[i]].kind # "toggle"
        OBVIOUS
      <4>1. queue'[i] = t \/ \E k \in DOMAIN queue : queue'[i] = queue[k]
        BY <3>2, <2>1, QueueElements
      <4> QED
        BY <4>1, <3>2, <2>2, <2>3, <2>4 DEF TaskFacts, WorkerFacts
    <3> QED
      BY <3>1, <3>2 DEF PostSubmit
  <2>6. \A i \in DOMAIN tqueue' :
          post'[tqueue'[i]] # "none" /\ job'[tqueue'[i]].kind = "toggle"
    <3>1. CASE tqueue' = tqueue
      BY <3>1, <2>2, <2>4 DEF TaskFacts, WorkerFacts
    <3>2. CASE tqueue' = Append(tqueue, t) /\ j.kind = "toggle"
      <4> SUFFICES ASSUME NEW i \in DOMAIN tqueue'
                   PROVE post'[tqueue'[i]] # "none" /\ job'[tqueue'[i]].kind = "toggle"
        OBVIOUS
      <4>1. tqueue'[i] = t \/ \E k \in DOMAIN tqueue : tqueue'[i] = tqueue[k]
        BY <3>2, <2>1, QueueElements
      <4> QED
        BY <4>1, <3>2, <2>2, <2>3, <2>4 DEF TaskFacts, WorkerFacts
    <3> QED
      BY <3>1, <3>2 DEF PostSubmit
  <2>7. /\ current # None => current # t /\ current \in Tasks
        /\ tcurrent # None => tcurrent # t /\ tcurrent \in Tasks
    BY <1>2 DEF TaskFacts, WorkerFacts, ExecutorType, TogglerType
  <2> QED
    BY <1>1, <1>2, <2>2, <2>5, <2>6, <2>7 DEF TaskFacts, WorkerFacts
<1>5. InterruptHitsItsTask'
  <2>1. current # None => current # t /\ current \in Tasks
    BY <1>2 DEF TaskFacts, WorkerFacts, ExecutorType
  <2> QED
    BY <1>1, <1>2, <2>1 DEF TaskFacts, InterruptHitsItsTask
<1>6. NoStaleResource' /\ LocationNamesTask'
  BY <1>1, <1>2 DEF TaskFacts, NoStaleResource, LocationNamesTask, Ended
<1> QED
  BY <1>3, <1>4, <1>5, <1>6 DEF TaskFacts

LEMMA PostHandlerTask ==
  ASSUME TypeOK, TaskFacts, NEW t \in Tasks, PostHandler(t)
  PROVE  TaskFacts'
<1> USE DEF TypeOK, TreeType
<1>1. UNCHANGED <<job, del, future, queue, current, interrupted, tqueue, tcurrent,
                  raced>>
  BY DEF PostHandler, PostAdd, PostRespond, Silent, history, executor, togglers
<1>2. HandlerFacts'
  BY <1>1 DEF PostHandler, PostAdd, PostRespond, TaskFacts, HandlerFacts, Ended
<1>3. WorkerFacts'
  <2>1. \A u \in Tasks : post[u] # "none" => post'[u] # "none"
    BY DEF PostHandler, PostAdd, PostRespond
  <2>2. /\ \A i \in DOMAIN queue : queue[i] \in Tasks
        /\ \A i \in DOMAIN tqueue : tqueue[i] \in Tasks
    BY QueueElements DEF ExecutorType, TogglerType
  <2> QED
    BY <1>1, <2>1, <2>2 DEF TaskFacts, WorkerFacts, ExecutorType, TogglerType
<1>4. InterruptHitsItsTask'
  BY <1>1 DEF TaskFacts, InterruptHitsItsTask
<1>5. NoStaleResource' /\ LocationNamesTask'
  BY <1>1 DEF PostHandler, PostAdd, PostRespond, TaskFacts, HandlerFacts,
     NoStaleResource, LocationNamesTask, Ended
<1> QED
  BY <1>2, <1>3, <1>4, <1>5 DEF TaskFacts

LEMMA DeleteTask ==
  ASSUME TypeOK, TaskFacts, NEW t \in Tasks,
         DeleteFind(t) \/ DeleteCancel(t) \/ DeleteRemove(t)
  PROVE  TaskFacts'
<1> USE DEF TypeOK, TreeType
<1>1. UNCHANGED <<job, post, location, queue, current, tqueue, tcurrent, raced>>
  BY DEF DeleteFind, DeleteCancel, DeleteRemove, Silent, history, executor, togglers
<1>2. HandlerFacts'
  <2>1. CASE DeleteFind(t)
    BY <1>1, <2>1 DEF DeleteFind, TaskFacts, HandlerFacts, Ended
  <2>2. CASE DeleteCancel(t)
    BY <1>1, <2>2 DEF DeleteCancel, TaskFacts, HandlerFacts, Ended
  <2>3. CASE DeleteRemove(t)
    BY <1>1, <2>3 DEF DeleteRemove, TaskFacts, HandlerFacts, Ended
  <2> QED
    BY <2>1, <2>2, <2>3
<1>3. \A u \in Tasks :
        /\ future'[u] = "running" => future[u] = "running"
        /\ future[u] \in {"running", "cancelled"} =>
             future'[u] \in {"running", "cancelled"}
  BY DEF DeleteFind, DeleteCancel, DeleteRemove
<1>4. WorkerFacts'
  BY <1>1, <1>3 DEF TaskFacts, WorkerFacts, ExecutorType
<1>5. InterruptHitsItsTask'
  <2>1. CASE DeleteFind(t) \/ DeleteRemove(t)
    BY <1>1, <2>1 DEF DeleteFind, DeleteRemove, TaskFacts, InterruptHitsItsTask,
       executor
  <2>2. CASE DeleteCancel(t)
    <3>1. job[t].kind # "toggle"
      BY <2>2 DEF DeleteCancel, TaskFacts, HandlerFacts
    <3>2. future[t] = "running" => t = current
      BY <3>1 DEF TaskFacts, WorkerFacts
    <3> QED
      BY <1>1, <2>2, <3>2 DEF DeleteCancel, TaskFacts, InterruptHitsItsTask,
         ExecutorType
  <2> QED
    BY <2>1, <2>2
<1>6. NoStaleResource' /\ LocationNamesTask'
  <2>1. CASE DeleteFind(t)
    BY <1>1, <2>1 DEF DeleteFind, TaskFacts, NoStaleResource, LocationNamesTask, Ended
  <2>2. CASE DeleteCancel(t)
    BY <1>1, <2>2 DEF DeleteCancel, TaskFacts, NoStaleResource, LocationNamesTask,
       Ended
  <2>3. CASE DeleteRemove(t)
    BY <1>1, <2>3 DEF DeleteRemove, TaskFacts, NoStaleResource, LocationNamesTask,
       Ended
  <2> QED
    BY <2>1, <2>2, <2>3
<1> QED
  BY <1>2, <1>4, <1>5, <1>6 DEF TaskFacts

LEMMA WorkerTakeTask == ASSUME TypeOK, TaskFacts, WorkerTake PROVE TaskFacts'
<1> USE DEF TypeOK, TreeType
<1>1. /\ UNCHANGED <<job, post, location, listed, del, tqueue, tcurrent, raced>>
      /\ current = None /\ queue # <<>> /\ queue \in Seq(Tasks)
  BY DEF WorkerTake, tree, togglers, ExecutorType
<1>2. PICK h \in Tasks : /\ h = Head(queue) /\ 1 \in DOMAIN queue /\ h = queue[1]
  BY <1>1, QueueElements
<1>3. post[h] # "none" /\ job[h].kind # "toggle"
  BY <1>2 DEF TaskFacts, WorkerFacts
<1>4. \A i \in DOMAIN queue' :
        post[queue'[i]] # "none" /\ job[queue'[i]].kind # "toggle"
  <2> SUFFICES ASSUME NEW i \in DOMAIN queue'
               PROVE post[queue'[i]] # "none" /\ job[queue'[i]].kind # "toggle"
    OBVIOUS
  <2>1. queue' = Tail(queue)
    BY DEF WorkerTake
  <2>2. \E k \in DOMAIN queue : Tail(queue)[i] = queue[k]
    BY <1>1, <2>1, QueueElements
  <2> QED
    BY <2>1, <2>2 DEF TaskFacts, WorkerFacts
<1>5. CASE future[h] = "cancelled"
  <2>1. UNCHANGED <<current, future, interrupted>>
    BY <1>2, <1>5 DEF WorkerTake
  <2>2. HandlerFacts' /\ NoStaleResource' /\ LocationNamesTask' /\ InterruptHitsItsTask'
    BY <1>1, <2>1 DEF TaskFacts, HandlerFacts, NoStaleResource, LocationNamesTask,
       InterruptHitsItsTask, Ended
  <2>3. WorkerFacts'
    BY <1>1, <1>4, <2>1 DEF TaskFacts, WorkerFacts
  <2> QED
    BY <2>2, <2>3 DEF TaskFacts
<1>6. CASE future[h] # "cancelled"
  <2>1. /\ current' = h /\ interrupted' = FALSE
        /\ future' = [future EXCEPT ![h] = "running"]
    BY <1>2, <1>6 DEF WorkerTake
  <2>2. h # None
    BY LightbulbAssumption
  <2>3. \A t \in Tasks : Ended(t)' => Ended(t) /\ future[t]' = future[t]
    BY <1>1, <2>1, LightbulbAssumption DEF Ended
  <2>4. HandlerFacts'
    BY <1>1, <1>3, <2>1, <2>3 DEF TaskFacts, HandlerFacts
  <2>5. WorkerFacts'
    BY <1>1, <1>3, <1>4, <2>1, LightbulbAssumption DEF TaskFacts, WorkerFacts
  <2>6. InterruptHitsItsTask' /\ NoStaleResource' /\ LocationNamesTask'
    BY <1>1, <2>1, <2>3 DEF TaskFacts, InterruptHitsItsTask, NoStaleResource,
       LocationNamesTask
  <2> QED
    BY <2>4, <2>5, <2>6 DEF TaskFacts
<1> QED
  BY <1>5, <1>6

LEMMA InterruptTask == ASSUME TypeOK, TaskFacts, Interrupt PROVE TaskFacts'
<1> USE DEF TypeOK, TreeType
<1>1. /\ UNCHANGED <<job, post, location, listed, del, future, queue, tqueue, tcurrent,
                     raced>>
      /\ current \in Tasks /\ interrupted /\ ~interrupted'
      /\ current' \in {current, None}
  BY DEF Interrupt, At, tree, Frame, togglers, Silent, history, ExecutorType
<1>2. future[current] = "cancelled"
  BY <1>1, LightbulbAssumption DEF TaskFacts, InterruptHitsItsTask
<1>3. /\ del[current] \in {"cancelled", "done"}
      /\ del[current] = "done" => ~listed[current]
      /\ post[current] \in {"added", "done"}
  BY <1>1, <1>2 DEF TaskFacts, HandlerFacts
<1>4. \A t \in Tasks : Ended(t)' => Ended(t) \/ t = current
  BY <1>1 DEF Ended
<1>5. HandlerFacts'
  BY <1>1, <1>3, <1>4 DEF TaskFacts, HandlerFacts
<1>6. WorkerFacts'
  BY <1>1, <1>2 DEF TaskFacts, WorkerFacts
<1>7. InterruptHitsItsTask' /\ LocationNamesTask'
  BY <1>1 DEF TaskFacts, InterruptHitsItsTask, LocationNamesTask
<1>8. NoStaleResource'
  BY <1>1, <1>3, <1>4 DEF TaskFacts, NoStaleResource
<1> QED
  BY <1>5, <1>6, <1>7, <1>8 DEF TaskFacts

LEMMA LoopFailsTask == ASSUME TypeOK, TaskFacts, LoopFails PROVE TaskFacts'
<1> USE DEF TypeOK, TreeType
<1>1. /\ UNCHANGED <<job, post, location, listed, del, queue, interrupted, tqueue,
                     tcurrent, raced>>
      /\ current \in Tasks /\ current' = None
      /\ future' = [future EXCEPT ![current] = IF @ = "running" THEN "failed" ELSE @]
  BY DEF LoopFails, At, tree, Frame, togglers, Silent, history, ExecutorType
<1>2. \A t \in Tasks : t # current => (Ended(t)' <=> Ended(t))
  BY <1>1, LightbulbAssumption DEF Ended
<1>3. future[current] \in {"running", "cancelled"}
  BY <1>1, LightbulbAssumption DEF TaskFacts, WorkerFacts
<1>4. /\ future'[current] \in {"failed", "cancelled"}
      /\ future'[current] = "cancelled" => future[current] = "cancelled"
  BY <1>1, <1>3
<1>5. HandlerFacts'
  BY <1>1, <1>2, <1>4 DEF TaskFacts, HandlerFacts, Ended
<1>6. WorkerFacts'
  BY <1>1 DEF TaskFacts, WorkerFacts
<1>7. InterruptHitsItsTask' /\ LocationNamesTask'
  BY <1>1 DEF TaskFacts, InterruptHitsItsTask, LocationNamesTask
<1>8. NoStaleResource'
  <2> SUFFICES ASSUME NEW t \in Tasks, (listed[t] /\ Ended(t))'
               PROVE (raced[t] \/ future[t] = "failed"
                       \/ del[t] \in {"found", "cancelled"})'
    BY DEF NoStaleResource
  <2>1. CASE t # current
    BY <1>1, <1>2, <2>1 DEF TaskFacts, NoStaleResource
  <2>2. CASE t = current
    BY <1>1, <1>4, <2>2 DEF TaskFacts, HandlerFacts
  <2> QED
    BY <2>1, <2>2
<1> QED
  BY <1>5, <1>6, <1>7, <1>8 DEF TaskFacts

LEMMA WorkerRemoveTask == ASSUME TypeOK, TaskFacts, WorkerRemove PROVE TaskFacts'
<1> USE DEF TypeOK, TreeType
<1>1. /\ UNCHANGED <<job, post, location, del, queue, interrupted, tqueue, tcurrent>>
      /\ current \in Tasks /\ current' = None
      /\ listed' = [listed EXCEPT ![current] = FALSE]
      /\ raced' = [raced EXCEPT ![current] = (post[current] = "submitted")]
      /\ future' = [future EXCEPT ![current] = IF @ = "running" THEN "done" ELSE @]
  BY DEF WorkerRemove, RemoveSelf, At, togglers, ExecutorType
<1>2. \A t \in Tasks : t # current => (Ended(t)' <=> Ended(t))
  BY <1>1, LightbulbAssumption DEF Ended
<1>3. HandlerFacts'
  BY <1>1, <1>2 DEF TaskFacts, HandlerFacts
<1>4. WorkerFacts'
  BY <1>1 DEF TaskFacts, WorkerFacts
<1>5. InterruptHitsItsTask' /\ LocationNamesTask'
  BY <1>1 DEF TaskFacts, InterruptHitsItsTask, LocationNamesTask
<1>6. NoStaleResource'
  BY <1>1, <1>2 DEF TaskFacts, NoStaleResource
<1> QED
  BY <1>3, <1>4, <1>5, <1>6 DEF TaskFacts

LEMMA ToggleTakeTask == ASSUME TypeOK, TaskFacts, ToggleTake PROVE TaskFacts'
<1> USE DEF TypeOK, TreeType
<1>1. /\ UNCHANGED <<job, post, location, listed, del, queue, current, interrupted,
                     raced>>
      /\ tqueue # <<>> /\ tqueue \in Seq(Tasks)
  BY DEF ToggleTake, tree, executor, Silent, history, TogglerType
<1>2. PICK h \in Tasks : h = Head(tqueue) /\ 1 \in DOMAIN tqueue /\ h = tqueue[1]
  BY <1>1, QueueElements
<1>3. post[h] # "none" /\ job[h].kind = "toggle"
  BY <1>2 DEF TaskFacts, WorkerFacts
<1>4. \A i \in DOMAIN tqueue' :
        post[tqueue'[i]] # "none" /\ job[tqueue'[i]].kind = "toggle"
  <2> SUFFICES ASSUME NEW i \in DOMAIN tqueue'
               PROVE post[tqueue'[i]] # "none" /\ job[tqueue'[i]].kind = "toggle"
    OBVIOUS
  <2>1. tqueue' = Tail(tqueue)
    BY DEF ToggleTake
  <2>2. \E k \in DOMAIN tqueue : Tail(tqueue)[i] = tqueue[k]
    BY <1>1, <2>1, QueueElements
  <2> QED
    BY <2>1, <2>2 DEF TaskFacts, WorkerFacts
<1>5. future' = [future EXCEPT ![h] = "running"]
  BY <1>2 DEF ToggleTake
<1>6. current # h
  BY <1>3, LightbulbAssumption DEF TaskFacts, WorkerFacts
<1>7. \A t \in Tasks : Ended(t)' => Ended(t) /\ future[t]' = future[t]
  BY <1>1, <1>5 DEF Ended
<1>8. HandlerFacts'
  BY <1>1, <1>3, <1>5, <1>7 DEF TaskFacts, HandlerFacts
<1>9. WorkerFacts'
  <2>1. tcurrent' = h /\ (current # None => current \in Tasks)
    BY <1>2 DEF ToggleTake, ExecutorType
  <2> QED
    BY <1>1, <1>3, <1>4, <1>5, <1>6, <2>1 DEF TaskFacts, WorkerFacts
<1>10. InterruptHitsItsTask' /\ NoStaleResource' /\ LocationNamesTask'
  BY <1>1, <1>5, <1>6, <1>7 DEF TaskFacts, InterruptHitsItsTask, NoStaleResource,
     LocationNamesTask
<1> QED
  BY <1>8, <1>9, <1>10 DEF TaskFacts

LEMMA ToggleRemoveTask ==
  ASSUME TypeOK, TaskFacts, ToggleRemove
  PROVE  TaskFacts'
<1> USE DEF TypeOK, TreeType
<1>1. /\ UNCHANGED <<job, post, location, del, queue, current, interrupted, tqueue>>
      /\ tcurrent' = None
      /\ listed' = [listed EXCEPT ![tcurrent] = FALSE]
      /\ raced' = [raced EXCEPT ![tcurrent] = (post[tcurrent] = "submitted")]
      /\ future' = [future EXCEPT ![tcurrent] = IF @ = "running" THEN "done" ELSE @]
  BY DEF ToggleRemove, RemoveSelf, executor
<1>2. \A t \in Tasks : t # tcurrent => (Ended(t)' <=> Ended(t))
  BY <1>1 DEF Ended
<1>3. HandlerFacts'
  BY <1>1, <1>2 DEF TaskFacts, HandlerFacts
<1>4. WorkerFacts'
  BY <1>1 DEF TaskFacts, WorkerFacts
<1>5. InterruptHitsItsTask' /\ LocationNamesTask'
  <2>1. current # None => current \in Tasks
    BY DEF ExecutorType
  <2> QED
    BY <1>1, <2>1 DEF TaskFacts, InterruptHitsItsTask, LocationNamesTask
<1>6. NoStaleResource'
  BY <1>1, <1>2 DEF TaskFacts, NoStaleResource
<1> QED
  BY <1>3, <1>4, <1>5, <1>6 DEF TaskFacts

LEMMA NextTask == TypeOK /\ TaskFacts /\ [Next]_vars => TaskFacts'
<1> SUFFICES ASSUME TypeOK, TaskFacts, [Next]_vars PROVE TaskFacts'
  OBVIOUS
<1> DEFINE LampOnly == UNCHANGED TaskVars
<1>1. \A th : update(th) => LampOnly
  BY DEF update, ReadPower, SendPower, ReadRelay, ReadColor, SendColor, history,
     executor, togglers, TaskVars
<1>2. CASE Request
  <2>1. ASSUME NEW t \in Tasks, DeleteFind(t) PROVE TaskFacts'
    BY <2>1, DeleteTask
  <2>2. ASSUME NEW c \in Clients, NEW v \in BOOLEAN, SwitchPOST(c, v) PROVE LampOnly
    BY <2>2 DEF SwitchPOST, setRelay, executor, togglers, TaskVars
  <2>3. ASSUME NEW c \in Clients, NEW h \in Hues, ColorPUT(c, h) PROVE LampOnly
    BY <2>3 DEF ColorPUT, history, executor, togglers, TaskVars
  <2>4. ASSUME NEW c \in Clients, NEW h \in Hues, ObserveLoad(c, h) PROVE LampOnly
    BY <2>4 DEF ObserveLoad, setColor, executor, togglers, TaskVars
  <2> QED
    BY <1>2, <2>1, <2>2, <2>3, <2>4, PostSubmitTask, UnchangedTask DEF Request
<1>3. ASSUME NEW t \in Tasks, PostHandler(t) \/ DeleteHandler(t) PROVE TaskFacts'
  BY <1>3, PostHandlerTask, DeleteTask DEF DeleteHandler
<1>4. ASSUME NEW c \in Clients, ClientThread(c) PROVE TaskFacts'
  <2>1. LampOnly
    BY <1>4, <1>1 DEF ClientThread, ColorPUTRead, ColorPUTSet, setColor, history,
       executor, togglers, TaskVars
  <2> QED
    BY <2>1, UnchangedTask
<1>5. CASE Worker
  <2>1. CASE StartFade \/ StartOn \/ StartOff \/ Slept
    BY <2>1, UnchangedTask DEF StartFade, StartOn, StartOff, Slept, Frame, Silent,
       history, togglers, TaskVars
  <2>2. CASE MakeClear \/ RelayOn \/ StartBlink \/ LoopStep \/ LastStep
    <3>1. raced' = raced
      BY <2>2 DEF MakeClear, RelayOn, StartBlink, LoopStep, LastStep, setColor,
         setRelay
    <3> QED
      BY <2>2, <3>1, UnchangedTask DEF MakeClear, RelayOn, StartBlink, LoopStep,
         LastStep, Frame, togglers, TaskVars
  <2> QED
    BY <1>5, <1>1, <2>1, <2>2, WorkerTakeTask, InterruptTask, LoopFailsTask,
       WorkerRemoveTask, UnchangedTask DEF Worker
<1>6. CASE Toggler
  <2>1. CASE ToggleRead \/ ToggleWrite
    BY <2>1, UnchangedTask DEF ToggleRead, ToggleWrite, setRelay, Silent, history,
       executor, TaskVars
  <2> QED
    BY <1>6, <1>1, <2>1, ToggleTakeTask, ToggleRemoveTask, UnchangedTask DEF Toggler
<1>7. CASE UNCHANGED vars
  BY <1>7, UnchangedTask DEF vars, history, executor, togglers, TaskVars
<1> QED
  BY <1>2, <1>3, <1>4, <1>5, <1>6, <1>7 DEF Next

LEMMA TaskInvariant == Spec => []TaskFacts
<1>1. Init => TypeOK /\ TaskFacts
  BY InitType, InitTask
<1>2. TypeOK /\ TaskFacts /\ [Next]_vars => (TypeOK /\ TaskFacts)'
  BY NextType, NextTask
<1> QED
  BY <1>1, <1>2, PTL DEF Spec

\* A resource outlives its task only if the task ended before POST added it or
\* failed, or until the DELETE that stopped it has removed it.
THEOREM StaleResourcesExplained == Spec => []NoStaleResource
<1>1. TaskFacts => NoStaleResource
  BY DEF TaskFacts
<1> QED
  BY <1>1, TaskInvariant, PTL

\* A POST that answers with a wrong path has created a resource that is gone.
THEOREM WrongLocationIsGone == Spec => []LocationNamesTask
<1>1. TaskFacts => LocationNamesTask
  BY DEF TaskFacts
<1> QED
  BY <1>1, TaskInvariant, PTL

\* A DELETE never interrupts another task than its own, although it reads the
\* Future, and interrupts the worker, while the worker changes tasks.
THEOREM InterruptIsPrecise == Spec => []InterruptHitsItsTask
<1>1. TaskFacts => InterruptHitsItsTask
  BY DEF TaskFacts
<1> QED
  BY <1>1, TaskInvariant, PTL

-----------------------------------------------------------------------------
(* The course of an action.                                                *)

\* The steps of POST, DELETE and the two executors, and all others, which
\* leave the tasks alone.
TaskStep ==
  \/ \E t \in Tasks, j \in Jobs : PostSubmit(t, j)
  \/ \E t \in Tasks : DeleteFind(t) \/ PostHandler(t) \/ DeleteHandler(t)
  \/ WorkerTake \/ Interrupt \/ LoopFails \/ WorkerRemove
  \/ ToggleTake \/ ToggleRemove
LampOnly == UNCHANGED TaskVars /\ (tpc' = tpc \/ tpc = "read" \/ tpc = "write")

LEMMA StepKinds ==
  ASSUME [Next]_vars
  PROVE  TaskStep \/ LampOnly
<1> USE DEF LampOnly, TaskVars, tree, executor, togglers, history, Silent
<1>1. ASSUME NEW th, update(th)
      PROVE  LampOnly
  BY <1>1 DEF update, ReadPower, SendPower, ReadRelay, ReadColor, SendColor
<1>2. ASSUME NEW c \in Clients,
             \/ \E v \in BOOLEAN : SwitchPOST(c, v)
             \/ \E h \in Hues : ColorPUT(c, h) \/ ObserveLoad(c, h)
             \/ ClientThread(c)
      PROVE  LampOnly
  BY <1>1, <1>2 DEF SwitchPOST, ColorPUT, ObserveLoad, ClientThread, ColorPUTRead,
     ColorPUTSet, setRelay, setColor
<1>3. CASE StartFade \/ StartOn \/ StartOff \/ Slept
  BY <1>3 DEF StartFade, StartOn, StartOff, Slept, Frame
<1>4. CASE MakeClear \/ RelayOn \/ StartBlink \/ LoopStep \/ LastStep
  <2>1. raced' = raced
    BY <1>4 DEF MakeClear, RelayOn, StartBlink, LoopStep, LastStep, setColor, setRelay
  <2> QED
    BY <1>4, <2>1 DEF MakeClear, RelayOn, StartBlink, LoopStep, LastStep, Frame
<1>5. CASE ToggleRead \/ ToggleWrite
  BY <1>5 DEF ToggleRead, ToggleWrite, setRelay
<1>6. CASE UNCHANGED vars
  BY <1>6 DEF vars
<1> QED
  BY <1>1, <1>2, <1>3, <1>4, <1>5, <1>6 DEF Next, Request, Worker, Toggler, TaskStep

\* A job is fixed when its task is created.
LEMMA JobsStay ==
  ASSUME TypeOK, TaskFacts, [Next]_vars, NEW t \in Tasks, post[t] # "none"
  PROVE  job'[t] = job[t]
<1>1. ASSUME NEW u \in Tasks, NEW j \in Jobs, PostSubmit(u, j)
      PROVE  job'[t] = job[t]
  BY <1>1 DEF PostSubmit, TypeOK, TreeType
<1>2. CASE \E u \in Tasks : DeleteFind(u) \/ PostHandler(u) \/ DeleteHandler(u)
  BY <1>2 DEF DeleteFind, PostHandler, DeleteHandler, PostAdd, PostRespond,
     DeleteCancel, DeleteRemove
<1>3. CASE WorkerTake \/ Interrupt \/ LoopFails \/ WorkerRemove \/ ToggleTake
             \/ ToggleRemove
  BY <1>3 DEF WorkerTake, Interrupt, LoopFails, WorkerRemove, ToggleTake,
     ToggleRemove, RemoveSelf, tree
<1>4. CASE LampOnly
  BY <1>4 DEF LampOnly, TaskVars, tree
<1> QED
  BY <1>1, <1>2, <1>3, <1>4, StepKinds DEF TaskStep

-----------------------------------------------------------------------------
(* The effect of an action.                                                *)

WorkerBusy == wpc # "idle" <=> current # None

EffectInv ==
  /\ WorkerBusy
  /\ current # None /\ ~disturbed =>
       /\ job[current].kind = "on" /\ wpc \in {"sleep", "write", "remove"} => relay
       /\ job[current].kind = "off" /\ wpc = "remove" => ~relay
       /\ job[current].kind = "fade" /\ wpc = "remove" =>
            color = Opaque(job[current].target)

\* Steps that leave the worker's task alone and do not change the lamp behind
\* its back.
EffectFrame ==
  /\ UNCHANGED <<current, wpc>>
  /\ UNCHANGED <<relay, color, disturbed>> \/ disturbed'

LEMMA FrameEffect ==
  ASSUME TypeOK, TaskFacts, EffectInv, [Next]_vars, EffectFrame
  PROVE  EffectInv'
<1>1. current # None => current \in Tasks /\ post[current] # "none"
  BY DEF TypeOK, ExecutorType, TaskFacts, WorkerFacts
<1>2. current # None => job'[current] = job[current]
  BY <1>1, JobsStay
<1> QED
  BY <1>2 DEF EffectInv, EffectFrame, WorkerBusy

LEMMA WorkerEffect ==
  ASSUME TypeOK, TaskFacts, EffectInv, Worker
  PROVE  EffectInv'
<1>1. current # None => current \in Tasks
  BY DEF TypeOK, ExecutorType
<1>2. CASE WorkerTake
  <2>1. CASE future[Head(queue)] = "cancelled"
    BY <1>2, <2>1 DEF WorkerTake, EffectInv, WorkerBusy
  <2>2. CASE future[Head(queue)] # "cancelled"
    <3>1. Head(queue) \in Tasks
      BY <1>2, QueueElements DEF WorkerTake, TypeOK, ExecutorType
    <3> QED
      BY <1>2, <2>2, <3>1, LightbulbAssumption DEF WorkerTake, EffectInv, WorkerBusy
  <2> QED
    BY <2>1, <2>2
<1>3. CASE StartFade \/ StartOn \/ StartOff \/ Slept
  BY <1>3 DEF StartFade, StartOn, StartOff, Slept, At, Silent, history, tree,
     EffectInv, WorkerBusy
<1>4. CASE Interrupt
  <2>1. CASE job[current].kind = "on"
    BY <1>4, <2>1 DEF Interrupt, At, Silent, history, tree, EffectInv, WorkerBusy
  <2>2. CASE job[current].kind # "on"
    BY <1>4, <2>2 DEF Interrupt, At, Silent, history, tree, EffectInv, WorkerBusy
  <2> QED
    BY <2>1, <2>2
<1>5. CASE MakeClear \/ RelayOn \/ StartBlink
  BY <1>5 DEF MakeClear, RelayOn, StartBlink, At, setColor, setRelay, tree,
     EffectInv, WorkerBusy
<1>6. CASE LoopStep
  <2>1. PICK c \in LoopColours : setColor("worker", c)
    BY <1>6 DEF LoopStep
  <2> QED
    BY <1>6, <2>1 DEF LoopStep, At, setColor, tree, EffectInv, WorkerBusy
<1>7. CASE LastStep
  <2>1. /\ UNCHANGED <<job, current>> /\ current # None
        /\ wpc = "write" /\ wpc' = "remove" /\ (disturbed' <=> disturbed)
    BY <1>7 DEF LastStep, At, setColor, setRelay, tree, TypeOK, LampType
  <2>2. CASE job[current].kind = "fade"
    BY <1>7, <2>1, <2>2 DEF LastStep, setColor, EffectInv, WorkerBusy
  <2>3. CASE job[current].kind = "on"
    BY <1>7, <2>1, <2>3 DEF LastStep, setColor, EffectInv, WorkerBusy
  <2>4. CASE job[current].kind = "off"
    BY <1>7, <2>1, <2>4 DEF LastStep, setRelay, EffectInv, WorkerBusy
  <2> QED
    BY <1>7, <2>2, <2>3, <2>4 DEF LastStep
<1>8. CASE LoopFails \/ WorkerRemove
  BY <1>8 DEF LoopFails, WorkerRemove, EffectInv, WorkerBusy
<1>9. CASE update("worker")
  BY <1>9 DEF update, ReadPower, SendPower, ReadRelay, ReadColor, SendColor, state,
     tree, executor, history, EffectInv, WorkerBusy
<1> QED
  BY <1>2, <1>3, <1>4, <1>5, <1>6, <1>7, <1>8, <1>9 DEF Worker

LEMMA OthersFrame ==
  ASSUME [Next]_vars, ~Worker
  PROVE  EffectFrame
<1> USE DEF EffectFrame
<1>1. ASSUME NEW t \in Tasks, NEW j \in Jobs, PostSubmit(t, j)
      PROVE  EffectFrame
  BY <1>1 DEF PostSubmit, Silent, history
<1>2. ASSUME NEW t \in Tasks, DeleteFind(t) \/ PostHandler(t) \/ DeleteHandler(t)
      PROVE  EffectFrame
  BY <1>2 DEF DeleteFind, PostHandler, DeleteHandler, PostAdd, PostRespond,
     DeleteCancel, DeleteRemove, Silent, executor, history
<1>3. ASSUME NEW c \in Clients, NEW v \in BOOLEAN, SwitchPOST(c, v)
      PROVE  EffectFrame
  BY <1>3, LightbulbAssumption DEF SwitchPOST, setRelay, executor
<1>4. ASSUME NEW c \in Clients, NEW h \in Hues, ColorPUT(c, h) \/ ObserveLoad(c, h)
      PROVE  EffectFrame
  BY <1>4, LightbulbAssumption DEF ColorPUT, ObserveLoad, setColor, executor, history
<1>5. ASSUME NEW th, update(th)
      PROVE  EffectFrame
  BY <1>5 DEF update, ReadPower, SendPower, ReadRelay, ReadColor, SendColor, state,
     executor, history
<1>6. ASSUME NEW c \in Clients, ClientThread(c)
      PROVE  EffectFrame
  BY <1>5, <1>6, LightbulbAssumption DEF ClientThread, ColorPUTRead, ColorPUTSet,
     setColor, state, executor, history
<1>7. CASE Toggler
  BY <1>5, <1>7 DEF Toggler, ToggleTake, ToggleRead, ToggleWrite, ToggleRemove,
     RemoveSelf, setRelay, Silent, executor, history, state
<1>8. CASE UNCHANGED vars
  BY <1>8 DEF vars, state, executor, history
<1> QED
  BY <1>1, <1>2, <1>3, <1>4, <1>6, <1>7, <1>8 DEF Next, Request

LEMMA EffectInvariant == Spec => []EffectInv
<1>1. Init => EffectInv
  BY DEF Init, EffectInv, WorkerBusy
<1>2. TypeOK /\ TaskFacts /\ EffectInv /\ [Next]_vars => EffectInv'
  BY WorkerEffect, OthersFrame, FrameEffect
<1> QED
  BY <1>1, <1>2, TypeCorrect, TaskInvariant, PTL DEF Spec

\* An action that comes to its end, and that no other thread disturbed, has
\* left the lamp as it promises: On with the relay on, Off with the relay off,
\* Fade with its target colour (run() of the tasks).
THEOREM EffectAtTheEnd == Spec => []ActionEffect
<1>1. EffectInv => ActionEffect
  BY DEF EffectInv, WorkerBusy, ActionEffect
<1> QED
  BY <1>1, EffectInvariant, PTL

-----------------------------------------------------------------------------
(* The writes of a cancelled task.                                         *)

Writes(t) == IF job[t].kind = "on" THEN 2 ELSE 1

\* How often an interrupted task writes until it next sleeps or ends.
Remaining ==
  CASE wpc = "start" -> IF job[current].kind = "on" THEN 2
                        ELSE IF job[current].kind = "blink" THEN 1 ELSE 0
    [] wpc = "makeClear" -> 2
    [] wpc \in {"relayOn", "write"} -> 1
    [] OTHER -> 0

CancelFacts ==
  /\ interrupted \/ wpc = "remove"
  /\ late[current] + Remaining <= Writes(current)

LateInv ==
  /\ current # None /\ wpc \in {"makeClear", "relayOn"} => job[current].kind = "on"
  /\ \A t \in Tasks : late[t] # 0 => future[t] = "cancelled"
  /\ CancelStopsTask
  /\ current # None /\ future[current] = "cancelled" => CancelFacts

\* Steps that leave the worker's task alone.
LateVars == <<job, future, current, wpc, interrupted, late>>

LEMMA FrameLate ==
  ASSUME LateInv, UNCHANGED LateVars
  PROVE  LateInv'
BY DEF LateInv, LateVars, CancelFacts, CancelStopsTask, Writes, Remaining

LEMMA RemainingBound ==
  ASSUME LateInv, current # None
  PROVE  Remaining <= Writes(current) /\ Remaining \in 0..2
BY DEF LateInv, Remaining, Writes

LEMMA HandlersLate ==
  ASSUME TypeOK, TaskFacts, LateInv, NEW t \in Tasks,
         \/ \E j \in Jobs : PostSubmit(t, j)
         \/ DeleteFind(t) \/ PostHandler(t) \/ DeleteHandler(t)
  PROVE  LateInv'
<1> USE DEF TypeOK, LampType, TreeType, ExecutorType
<1>1. CASE DeleteFind(t) \/ PostHandler(t) \/ DeleteRemove(t)
  BY <1>1, FrameLate DEF DeleteFind, PostHandler, PostAdd, PostRespond, DeleteRemove,
     Silent, executor, history, LateVars
<1>2. ASSUME NEW j \in Jobs, PostSubmit(t, j)
      PROVE  LateInv'
  <2>1. /\ UNCHANGED <<current, wpc, interrupted, late>> /\ post[t] = "none"
        /\ job' = [job EXCEPT ![t] = j] /\ future' = [future EXCEPT ![t] = "queued"]
    BY <1>2 DEF PostSubmit, Silent, history
  <2>2. late[t] = 0
    BY <2>1 DEF LateInv, TaskFacts, HandlerFacts
  <2>3. current # None => current # t /\ current \in Tasks
    BY <2>1 DEF TaskFacts, WorkerFacts
  <2>4. CancelStopsTask'
    BY <2>1, <2>2 DEF LateInv, CancelStopsTask
  <2> QED
    BY <2>1, <2>2, <2>3, <2>4 DEF LateInv, CancelFacts, Writes, Remaining
<1>3. CASE DeleteCancel(t)
  <2>1. /\ UNCHANGED <<job, current, wpc, late>>
        /\ interrupted' = (interrupted \/ future[t] = "running")
        /\ future' = [future EXCEPT ![t] =
                        IF @ \in {"queued", "running"} THEN "cancelled" ELSE @]
    BY <1>3 DEF DeleteCancel, Silent, history
  <2>2. CancelStopsTask'
    BY <2>1 DEF LateInv, CancelStopsTask
  <2>3. ASSUME current # None, future'[current] = "cancelled"
        PROVE  CancelFacts'
    <3>1. CASE future[current] = "cancelled"
      BY <2>1, <2>3, <3>1 DEF LateInv, CancelFacts, Writes, Remaining
    <3>2. CASE future[current] # "cancelled"
      <4>1. current = t /\ future[t] = "running" /\ late[current] = 0
        BY <2>1, <2>3, <3>2 DEF LateInv, TaskFacts, WorkerFacts
      <4>2. Remaining <= Writes(current) /\ Remaining \in 0..2
        BY <2>3, RemainingBound
      <4>3. Remaining' = Remaining /\ Writes(current)' = Writes(current)
        BY <2>1 DEF Remaining, Writes
      <4>4. interrupted' /\ late'[current'] = 0 /\ current' = current
        BY <2>1, <4>1
      <4>5. late'[current'] + Remaining' <= Writes(current)'
        BY <4>2, <4>3, <4>4
      <4> QED
        BY <4>4, <4>5 DEF CancelFacts
    <3> QED
      BY <3>1, <3>2
  <2> QED
    BY <2>1, <2>2, <2>3 DEF LateInv
<1> QED
  BY <1>1, <1>2, <1>3 DEF DeleteHandler

\* A write of the worker: a cancelled task has one fewer left.
LEMMA WriteLate ==
  ASSUME TypeOK, TaskFacts, LateInv, current # None, Remaining >= 1,
         UNCHANGED <<job, future, current, interrupted>>, wpc' # "start",
         wpc # "remove", CountLate("worker"), Remaining' <= Remaining - 1 \/ ~interrupted,
         wpc' \in {"makeClear", "relayOn"} => job[current].kind = "on"
  PROVE  LateInv'
<1> USE DEF TypeOK, LampType, TreeType, ExecutorType
<1>1. current \in Tasks /\ Remaining \in 0..2 /\ Remaining' \in 0..2
  BY RemainingBound DEF Remaining
<1>2. CASE future[current] # "cancelled"
  <2>1. late' = late
    BY <1>2 DEF CountLate
  <2> QED
    BY <1>2, <2>1 DEF LateInv, CancelStopsTask
<1>3. CASE future[current] = "cancelled"
  <2>1. interrupted /\ late[current] + Remaining <= Writes(current)
    BY <1>3 DEF LateInv, CancelFacts
  <2>2. late[current] < LateBound
    BY <1>1, <2>1 DEF Writes, LateBound
  <2>3. late' = [late EXCEPT ![current] = @ + 1]
    BY <1>3, <2>2 DEF CountLate
  <2>4. Writes(current)' = Writes(current)
    BY DEF Writes
  <2>5. late'[current] + Remaining' <= Writes(current)' /\ late'[current] <= Writes(current)
    BY <1>1, <2>1, <2>3, <2>4 DEF Writes
  <2>6. CancelStopsTask'
    BY <1>1, <2>3, <2>5 DEF LateInv, CancelStopsTask, Writes
  <2> QED
    BY <1>1, <1>3, <2>1, <2>3, <2>5, <2>6 DEF LateInv, CancelFacts
<1> QED
  BY <1>2, <1>3

LEMMA WorkerLate ==
  ASSUME TypeOK, TaskFacts, LateInv, WorkerBusy, Worker
  PROVE  LateInv'
<1> USE DEF TypeOK, LampType, TreeType, ExecutorType
<1>1. CASE WorkerTake
  <2>1. UNCHANGED <<job, late>> /\ current = None
    BY <1>1 DEF WorkerTake, tree
  <2>2. CASE future[Head(queue)] = "cancelled"
    BY <1>1, <2>1, <2>2 DEF WorkerTake, LateInv, CancelStopsTask
  <2>3. CASE future[Head(queue)] # "cancelled"
    <3>1. Head(queue) \in Tasks
      BY <1>1, QueueElements DEF WorkerTake
    <3>2. /\ current' = Head(queue) /\ wpc' = "start"
          /\ future' = [future EXCEPT ![Head(queue)] = "running"]
      BY <1>1, <2>3 DEF WorkerTake
    <3> QED
      BY <2>1, <2>3, <3>1, <3>2 DEF LateInv, CancelStopsTask
  <2> QED
    BY <2>2, <2>3
<1>2. CASE StartFade \/ StartOn \/ StartOff \/ Slept
  <2>1. /\ UNCHANGED <<job, future, current, interrupted, late>> /\ current # None
        /\ wpc' \in {"makeClear", "relayOn"} => job[current].kind = "on"
        /\ interrupted => Remaining' <= Remaining /\ wpc' # "idle"
        /\ wpc # "remove"
    BY <1>2 DEF StartFade, StartOn, StartOff, Slept, At, Silent, history, tree,
       Remaining
  <2> QED
    BY <2>1, RemainingBound DEF LateInv, CancelFacts, CancelStopsTask, Writes, Remaining
<1>3. CASE Interrupt
  <2>1. UNCHANGED <<job, future, late>>
    BY <1>3 DEF Interrupt, At, Silent, history, tree
  <2>2. \/ wpc' = "remove" /\ current' = current
        \/ wpc' = "idle" /\ current' = None
    BY <1>3 DEF Interrupt
  <2>3. Remaining = 0 /\ Remaining' = 0
    BY <1>3, <2>2 DEF Interrupt, At, Remaining
  <2> QED
    BY <2>1, <2>2, <2>3 DEF LateInv, CancelFacts, CancelStopsTask, Writes
<1>4. CASE MakeClear
  BY <1>4, WriteLate DEF MakeClear, At, setColor, tree, Remaining, LateInv
<1>5. CASE RelayOn
  BY <1>5, WriteLate DEF RelayOn, At, setRelay, tree, Remaining
<1>6. CASE StartBlink
  BY <1>6, WriteLate DEF StartBlink, At, setRelay, tree, Remaining
<1>7. CASE LoopStep
  <2>1. PICK c \in LoopColours : setColor("worker", c)
    BY <1>7 DEF LoopStep
  <2> QED
    BY <1>7, <2>1, WriteLate DEF LoopStep, At, setColor, tree, Remaining
<1>8. CASE LastStep
  <2>1. CountLate("worker")
    BY <1>8 DEF LastStep, setColor, setRelay
  <2> QED
    BY <1>8, <2>1, WriteLate DEF LastStep, At, tree, Remaining
<1>9. CASE LoopFails \/ WorkerRemove
  <2>1. /\ UNCHANGED <<job, late>> /\ current' = None
        /\ future' = future \/ \E v : future' = [future EXCEPT ![current] = v]
                                      /\ future[current] = "running"
    <3>1. /\ UNCHANGED <<job, late>> /\ current' = None
          /\ \E v : future' = [future EXCEPT ![current] = IF @ = "running" THEN v ELSE @]
      BY <1>9 DEF LoopFails, WorkerRemove, RemoveSelf, Silent, history, tree
    <3> QED
      BY <3>1
  <2> QED
    BY <2>1 DEF LateInv, CancelStopsTask
<1>10. CASE update("worker")
  BY <1>10, FrameLate DEF update, ReadPower, SendPower, ReadRelay, ReadColor,
     SendColor, tree, executor, history, LateVars
<1> QED
  BY <1>1, <1>2, <1>3, <1>4, <1>5, <1>6, <1>7, <1>8, <1>9, <1>10 DEF Worker

LEMMA OthersLate ==
  ASSUME TypeOK, TaskFacts, LateInv, [Next]_vars, ~Worker
  PROVE  LateInv'
<1> USE DEF TypeOK, LampType, TreeType, ExecutorType
<1>1. ASSUME NEW t \in Tasks,
             \/ \E j \in Jobs : PostSubmit(t, j)
             \/ DeleteFind(t) \/ PostHandler(t) \/ DeleteHandler(t)
      PROVE  LateInv'
  BY <1>1, HandlersLate
<1>2. ASSUME NEW c \in Clients,
             \/ \E v \in BOOLEAN : SwitchPOST(c, v)
             \/ \E h \in Hues : ColorPUT(c, h) \/ ObserveLoad(c, h)
             \/ ColorPUTRead(c) \/ ColorPUTSet(c)
      PROVE  LateInv'
  <2>1. late' = late
    BY <1>2, LightbulbAssumption DEF SwitchPOST, ColorPUT, ObserveLoad, ColorPUTRead,
       ColorPUTSet, setRelay, setColor, CountLate, history
  <2>2. UNCHANGED <<tree, future, executor>>
    BY <1>2 DEF SwitchPOST, ColorPUT, ObserveLoad, ColorPUTRead, ColorPUTSet
  <2> QED
    BY <2>1, <2>2, FrameLate DEF LateVars, tree, executor
<1>3. ASSUME NEW th, update(th)
      PROVE  LateInv'
  BY <1>3, FrameLate DEF update, ReadPower, SendPower, ReadRelay, ReadColor,
     SendColor, tree, executor, history, LateVars
<1>4. CASE ToggleRead \/ ToggleWrite
  BY <1>4, FrameLate DEF ToggleRead, ToggleWrite, setRelay, CountLate, Silent, tree,
     executor, history, LateVars
<1>5. CASE ToggleTake
  <2>1. UNCHANGED <<job, current, wpc, interrupted, late>>
    BY <1>5 DEF ToggleTake, Silent, tree, executor, history
  <2>2. PICK h \in Tasks : h = Head(tqueue) /\ 1 \in DOMAIN tqueue /\ h = tqueue[1]
    BY <1>5, QueueElements DEF ToggleTake, TogglerType
  <2>3. job[h].kind = "toggle" /\ h # current
    BY <2>2, LightbulbAssumption DEF TaskFacts, WorkerFacts
  <2>4. future' = [future EXCEPT ![h] = "running"] /\ late[h] = 0
    BY <1>5, <2>2, <2>3 DEF ToggleTake, LateInv, TaskFacts, HandlerFacts
  <2> QED
    BY <2>1, <2>3, <2>4, LightbulbAssumption DEF LateInv, CancelStopsTask, CancelFacts,
       Writes, Remaining
<1>6. CASE ToggleRemove
  <2>1. UNCHANGED <<job, current, wpc, interrupted, late>>
    BY <1>6 DEF ToggleRemove, RemoveSelf, executor
  <2>2. \A t \in Tasks : future'[t] = "cancelled" <=> future[t] = "cancelled"
    BY <1>6 DEF ToggleRemove, RemoveSelf
  <2> QED
    BY <2>1, <2>2 DEF LateInv, CancelStopsTask, CancelFacts, Writes, Remaining
<1>7. CASE UNCHANGED vars
  BY <1>7, FrameLate DEF vars, tree, executor, history, LateVars
<1> QED
  BY <1>1, <1>2, <1>3, <1>4, <1>5, <1>6, <1>7 DEF Next, Request, ClientThread, Toggler

\* A DELETE returns while its task may still run, but the task then changes
\* the lamp once more at most, and On twice (DeleteCancel against the sleeps of
\* run()).
THEOREM CancelIsPrompt == Spec => []CancelStopsTask
<1>1. Init => LateInv
  BY DEF Init, LateInv, CancelStopsTask
<1>2. TypeOK /\ TaskFacts /\ EffectInv /\ LateInv /\ [Next]_vars => LateInv'
  BY WorkerLate, OthersLate DEF EffectInv
<1>3. LateInv => CancelStopsTask
  BY DEF LateInv
<1> QED
  BY <1>1, <1>2, <1>3, TypeCorrect, TaskInvariant, EffectInvariant, PTL DEF Spec

-----------------------------------------------------------------------------
(* The life cycle of an action: facts about the executors and the tree     *)
(* that TaskFacts does not contain.                                        *)

Distinct(q) == \A i, j \in DOMAIN q : q[i] = q[j] => i = j

LifecycleInv ==
  /\ \A t \in Tasks :
       /\ post[t] # "none" => future[t] # "none"
       /\ future[t] = "queued" =>
            /\ post[t] \in {"added", "done"} => listed[t]
            /\ del[t] \in {"none", "found"}
  /\ Distinct(queue)
  /\ \A i \in DOMAIN queue : future[queue[i]] \in {"queued", "cancelled"}
  /\ Distinct(tqueue)
  /\ \A i \in DOMAIN tqueue : future[tqueue[i]] = "queued"
  /\ tcurrent # None => future[tcurrent] = "running"
  /\ tpc # "idle" => tcurrent # None

LEMMA DistinctQueue ==
  ASSUME NEW q \in Seq(Tasks), Distinct(q)
  PROVE  /\ q # <<>> => /\ Distinct(Tail(q))
                        /\ \A i \in DOMAIN Tail(q) : Tail(q)[i] # Head(q)
         /\ \A t \in Tasks : (\A i \in DOMAIN q : q[i] # t) => Distinct(Append(q, t))
<1>1. DOMAIN q = 1..Len(q) /\ Len(q) \in Nat
  BY LenProperties
<1>2. ASSUME q # <<>>
      PROVE  /\ Distinct(Tail(q))
             /\ \A i \in DOMAIN Tail(q) : Tail(q)[i] # Head(q)
  <2>1. Len(q) \in Nat \ {0}
    BY <1>2, EmptySeq
  <2>2. /\ Head(q) = q[1] /\ Tail(q) \in Seq(Tasks) /\ Len(Tail(q)) = Len(q) - 1
        /\ \A i \in 1..Len(Tail(q)) : Tail(q)[i] = q[i + 1]
    BY <1>2, HeadTailProperties
  <2>3. DOMAIN Tail(q) = 1..Len(Tail(q))
    BY <2>2, LenProperties
  <2>4. \A i \in DOMAIN Tail(q) : i \in Nat \ {0} /\ i + 1 \in DOMAIN q /\ Tail(q)[i] = q[i + 1]
    BY <1>1, <2>1, <2>2, <2>3
  <2>5. 1 \in DOMAIN q
    BY <1>1, <2>1
  <2>6. ASSUME NEW i \in DOMAIN Tail(q)
        PROVE  Tail(q)[i] # Head(q)
    BY <2>2, <2>4, <2>5, <2>6 DEF Distinct
  <2>7. ASSUME NEW i \in DOMAIN Tail(q), NEW j \in DOMAIN Tail(q), Tail(q)[i] = Tail(q)[j]
        PROVE  i = j
    <3>1. i + 1 = j + 1
      BY <2>4, <2>7 DEF Distinct
    <3> QED
      BY <2>4, <3>1
  <2> QED
    BY <2>6, <2>7 DEF Distinct
<1>3. ASSUME NEW t \in Tasks, \A i \in DOMAIN q : q[i] # t
      PROVE  Distinct(Append(q, t))
  <2>1. /\ Append(q, t) \in Seq(Tasks) /\ Len(Append(q, t)) = Len(q) + 1
        /\ \A k \in 1..Len(q) : Append(q, t)[k] = q[k]
        /\ Append(q, t)[Len(q) + 1] = t
    BY AppendProperties
  <2>2. DOMAIN Append(q, t) = 1..(Len(q) + 1)
    BY <2>1, LenProperties
  <2>3. \A i \in DOMAIN Append(q, t) : i \in DOMAIN q \/ i = Len(q) + 1
    BY <1>1, <2>2
  <2> QED
    BY <1>1, <1>3, <2>1, <2>3 DEF Distinct
<1> QED
  BY <1>2, <1>3

LEMMA InitLifecycle == Init => LifecycleInv
BY DEF Init, LifecycleInv, Distinct

LEMMA UnchangedLifecycle ==
  ASSUME LifecycleInv, LampOnly
  PROVE  LifecycleInv'
BY DEF LifecycleInv, LampOnly, TaskVars, tree

LEMMA PostSubmitLifecycle ==
  ASSUME TypeOK, TaskFacts, LifecycleInv, NEW t \in Tasks, NEW j \in Jobs,
         PostSubmit(t, j)
  PROVE  LifecycleInv'
<1>1. /\ post[t] = "none" /\ future[t] = "none" /\ del[t] = "none"
      /\ post' = [post EXCEPT ![t] = "submitted"]
      /\ future' = [future EXCEPT ![t] = "queued"]
      /\ UNCHANGED <<listed, del, tcurrent, tpc>>
  BY DEF PostSubmit, TaskFacts, HandlerFacts, TypeOK, TreeType
<1>2. queue \in Seq(Tasks) /\ tqueue \in Seq(Tasks)
  BY DEF TypeOK, ExecutorType, TogglerType
<1>3. /\ \A i \in DOMAIN queue : queue[i] \in Tasks /\ queue[i] # t
      /\ \A i \in DOMAIN tqueue : tqueue[i] \in Tasks /\ tqueue[i] # t
  BY <1>1, <1>2, QueueElements DEF TaskFacts, WorkerFacts
<1>4. Distinct(queue') /\ Distinct(tqueue')
  BY <1>2, <1>3, DistinctQueue DEF LifecycleInv, PostSubmit
<1>5. /\ \A i \in DOMAIN queue' : future'[queue'[i]] \in {"queued", "cancelled"}
      /\ \A i \in DOMAIN tqueue' : future'[tqueue'[i]] = "queued"
  <2>1. /\ \A i \in DOMAIN queue : future'[queue[i]] \in {"queued", "cancelled"}
        /\ \A i \in DOMAIN tqueue : future'[tqueue[i]] = "queued"
        /\ future'[t] = "queued"
    BY <1>1, <1>3 DEF LifecycleInv, TypeOK, TreeType
  <2>2. /\ queue' = queue \/ queue' = Append(queue, t)
        /\ tqueue' = tqueue \/ tqueue' = Append(tqueue, t)
    BY DEF PostSubmit
  <2>3. /\ \A i \in DOMAIN queue' : queue'[i] = t \/ \E k \in DOMAIN queue : queue'[i] = queue[k]
        /\ \A i \in DOMAIN tqueue' :
             tqueue'[i] = t \/ \E k \in DOMAIN tqueue : tqueue'[i] = tqueue[k]
    <3>1. ASSUME NEW q \in Seq(Tasks), NEW r, r = q \/ r = Append(q, t),
                 NEW i \in DOMAIN r
          PROVE  r[i] = t \/ \E k \in DOMAIN q : r[i] = q[k]
      <4>1. CASE r = q
        BY <3>1, <4>1
      <4>2. CASE r = Append(q, t)
        BY <3>1, <4>2, QueueElements
      <4> QED
        BY <3>1, <4>1, <4>2
    <3>2. ASSUME NEW i \in DOMAIN queue'
          PROVE  queue'[i] = t \/ \E k \in DOMAIN queue : queue'[i] = queue[k]
      BY <1>2, <2>2, <3>1
    <3>3. ASSUME NEW i \in DOMAIN tqueue'
          PROVE  tqueue'[i] = t \/ \E k \in DOMAIN tqueue : tqueue'[i] = tqueue[k]
      BY <1>2, <2>2, <3>1
    <3> QED
      BY <3>2, <3>3
  <2>4. ASSUME NEW i \in DOMAIN queue'
        PROVE  future'[queue'[i]] \in {"queued", "cancelled"}
    BY <2>1, <2>3
  <2>5. ASSUME NEW i \in DOMAIN tqueue'
        PROVE  future'[tqueue'[i]] = "queued"
    BY <2>1, <2>3
  <2> QED
    BY <2>4, <2>5
<1>6. tcurrent # None => tcurrent # t /\ tcurrent \in Tasks
  BY <1>1 DEF TaskFacts, WorkerFacts, TypeOK, TogglerType
<1> QED
  BY <1>1, <1>4, <1>5, <1>6 DEF LifecycleInv, TypeOK, TreeType

LEMMA HandlersLifecycle ==
  ASSUME TypeOK, TaskFacts, LifecycleInv, NEW t \in Tasks,
         PostHandler(t) \/ DeleteFind(t) \/ DeleteHandler(t)
  PROVE  LifecycleInv'
<1> USE DEF TypeOK, TreeType
<1>1. UNCHANGED <<queue, tqueue, tcurrent, tpc>>
  BY DEF PostHandler, PostAdd, PostRespond, DeleteFind, DeleteHandler, DeleteCancel,
     DeleteRemove, Silent, executor, togglers
<1>2. CASE PostHandler(t)
  BY <1>1, <1>2 DEF PostHandler, PostAdd, PostRespond, LifecycleInv, TogglerType
<1>3. CASE DeleteFind(t)
  BY <1>1, <1>3 DEF DeleteFind, LifecycleInv
<1>4. CASE DeleteCancel(t)
  <2>1. /\ \A i \in DOMAIN queue : queue[i] \in Tasks
        /\ \A i \in DOMAIN tqueue : tqueue[i] \in Tasks /\ tqueue[i] # t
        /\ tcurrent # None => tcurrent \in Tasks /\ tcurrent # t
    BY <1>4, QueueElements DEF DeleteCancel, TaskFacts, HandlerFacts, WorkerFacts,
       ExecutorType, TogglerType
  <2> QED
    BY <1>1, <1>4, <2>1 DEF DeleteCancel, LifecycleInv
<1>5. CASE DeleteRemove(t)
  BY <1>1, <1>5 DEF DeleteRemove, LifecycleInv
<1> QED
  BY <1>2, <1>3, <1>4, <1>5 DEF DeleteHandler

LEMMA ExecutorsLifecycle ==
  ASSUME TypeOK, TaskFacts, LifecycleInv,
         WorkerTake \/ Interrupt \/ LoopFails \/ WorkerRemove \/ ToggleTake \/ ToggleRemove
  PROVE  LifecycleInv'
<1> USE DEF TypeOK, TreeType, ExecutorType, TogglerType
<1>1. /\ \A i \in DOMAIN queue : queue[i] \in Tasks
      /\ \A i \in DOMAIN tqueue : tqueue[i] \in Tasks
  BY QueueElements
<1>2. CASE WorkerTake
  <2>1. PICK h \in Tasks : h = Head(queue) /\ 1 \in DOMAIN queue /\ h = queue[1]
    BY <1>2, QueueElements DEF WorkerTake
  <2>2. /\ queue' = Tail(queue) /\ UNCHANGED <<post, listed, del, tqueue, tcurrent, tpc>>
        /\ future' = future \/ future' = [future EXCEPT ![h] = "running"]
    BY <1>2, <2>1 DEF WorkerTake, tree, togglers
  <2>3. /\ Distinct(queue')
        /\ \A i \in DOMAIN queue' : queue'[i] # h /\ \E k \in DOMAIN queue : queue'[i] = queue[k]
    BY <1>2, <2>1, <2>2, QueueElements, DistinctQueue DEF WorkerTake, LifecycleInv
  <2>4. /\ \A i \in DOMAIN tqueue : tqueue[i] # h
        /\ tcurrent # h
    BY <2>1, LightbulbAssumption DEF TaskFacts, WorkerFacts
  <2> QED
    BY <1>1, <2>2, <2>3, <2>4 DEF LifecycleInv
<1>3. CASE Interrupt
  BY <1>3 DEF Interrupt, tree, Frame, togglers, LifecycleInv
<1>4. CASE LoopFails \/ WorkerRemove
  <2>1. /\ current \in Tasks /\ future[current] \in {"running", "cancelled"}
        /\ UNCHANGED <<post, del, queue, tqueue, tcurrent, tpc>>
        /\ \A t \in Tasks : t # current => UNCHANGED <<listed[t], future[t]>>
        /\ future[current] = "cancelled" => future'[current] = future[current]
        /\ future'[current] \notin {"none", "queued"}
    BY <1>4 DEF LoopFails, WorkerRemove, RemoveSelf, At, tree, Frame, togglers,
       TaskFacts, WorkerFacts
  <2>2. /\ \A i \in DOMAIN tqueue : tqueue[i] # current
        /\ tcurrent # current
    BY <2>1, LightbulbAssumption DEF TaskFacts, WorkerFacts
  <2>3. \A i \in DOMAIN queue : future'[queue[i]] \in {"queued", "cancelled"}
    BY <1>1, <2>1 DEF LifecycleInv
  <2> QED
    BY <1>1, <2>1, <2>2, <2>3 DEF LifecycleInv
<1>5. CASE ToggleTake
  <2>1. PICK h \in Tasks : h = Head(tqueue) /\ 1 \in DOMAIN tqueue /\ h = tqueue[1]
    BY <1>5, QueueElements DEF ToggleTake
  <2>2. /\ tqueue' = Tail(tqueue) /\ UNCHANGED <<post, listed, del, queue>>
        /\ future' = [future EXCEPT ![h] = "running"] /\ tcurrent' = h
    BY <1>5, <2>1 DEF ToggleTake, tree, executor
  <2>3. /\ Distinct(tqueue')
        /\ \A i \in DOMAIN tqueue' :
             tqueue'[i] # h /\ \E k \in DOMAIN tqueue : tqueue'[i] = tqueue[k]
    BY <1>5, <2>1, <2>2, QueueElements, DistinctQueue DEF ToggleTake, LifecycleInv
  <2>4. \A i \in DOMAIN queue : queue[i] # h
    BY <2>1 DEF TaskFacts, WorkerFacts
  <2> QED
    BY <1>1, <2>1, <2>2, <2>3, <2>4, LightbulbAssumption DEF LifecycleInv
<1>6. CASE ToggleRemove
  <2>1. /\ tcurrent \in Tasks /\ future[tcurrent] = "running"
        /\ UNCHANGED <<post, del, queue, tqueue>> /\ tcurrent' = None /\ tpc' = "idle"
        /\ \A t \in Tasks : t # tcurrent => UNCHANGED <<listed[t], future[t]>>
        /\ future'[tcurrent] = "done"
    BY <1>6 DEF ToggleRemove, RemoveSelf, executor, LifecycleInv
  <2>2. /\ \A i \in DOMAIN queue : queue[i] # tcurrent
        /\ \A i \in DOMAIN tqueue : tqueue[i] # tcurrent
    BY <2>1 DEF TaskFacts, WorkerFacts, LifecycleInv
  <2> QED
    BY <1>1, <2>1, <2>2 DEF LifecycleInv
<1> QED
  BY <1>2, <1>3, <1>4, <1>5, <1>6

LEMMA NextLifecycle ==
  ASSUME TypeOK, TaskFacts, LifecycleInv, [Next]_vars
  PROVE  LifecycleInv'
<1>1. ASSUME NEW t \in Tasks,
             \/ \E j \in Jobs : PostSubmit(t, j)
             \/ DeleteFind(t) \/ PostHandler(t) \/ DeleteHandler(t)
      PROVE  LifecycleInv'
  BY <1>1, PostSubmitLifecycle, HandlersLifecycle
<1>2. CASE WorkerTake \/ Interrupt \/ LoopFails \/ WorkerRemove \/ ToggleTake
             \/ ToggleRemove
  BY <1>2, ExecutorsLifecycle
<1>3. CASE LampOnly
  BY <1>3, UnchangedLifecycle
<1> QED
  BY <1>1, <1>2, <1>3, StepKinds DEF TaskStep

LEMMA LifecycleInvariant == Spec => []LifecycleInv
<1>1. TypeOK /\ TaskFacts /\ LifecycleInv /\ [Next]_vars => LifecycleInv'
  BY NextLifecycle
<1> QED
  BY <1>1, InitLifecycle, TypeCorrect, TaskInvariant, PTL DEF Spec

-----------------------------------------------------------------------------
(* The refinement: what a step does to the mapped variables.               *)

LEMMA AbstractInit == Init => Lifecycle!AInit
<1>1. ASSUME Init, NEW t \in Tasks
      PROVE  Phase(t) = "absent" /\ Lane(t) = "none" /\ Visible(t) = "never"
  <2>1. future[t] = "none" /\ ~listed[t] /\ post[t] = "none"
    BY <1>1 DEF Init
  <2> QED
    BY <2>1 DEF Phase, Lane, Visible
<1> QED
  BY <1>1 DEF Lifecycle!AInit

\* All but the task t, and its resource, look the same.
Same(t) == Phase(t)' = Phase(t) /\ Lane(t)' = Lane(t)
SameBut(t) == \A u \in Tasks \ {t} : Same(u)
SameVisible == \A u \in Tasks : Visible(u)' = Visible(u)

LEMMA AbstractStutter ==
  ASSUME \A u \in Tasks : Same(u), SameVisible
  PROVE  UNCHANGED Lifecycle!avars
BY DEF Same, SameVisible, Lifecycle!avars

LEMMA AbstractAccept ==
  ASSUME NEW t \in Tasks, SameBut(t), SameVisible, Phase(t) = "absent",
         Phase(t)' = "accepted", Lane(t)' \in {"light", "power"}
  PROVE  Lifecycle!ANext
<1>1. Lifecycle!Accept(t, Lane(t)')
  BY DEF Same, SameBut, SameVisible, Lifecycle!Accept
<1> QED
  BY <1>1 DEF Lifecycle!ANext

LEMMA AbstractStart ==
  ASSUME NEW t \in Tasks, SameBut(t), SameVisible, Phase(t) = "accepted",
         Phase(t)' = "active", Lane(t)' = Lane(t),
         \A u \in Tasks : Lane(u) = Lane(t) => Phase(u) # "active"
  PROVE  Lifecycle!ANext
<1>1. Lifecycle!Start(t)
  BY DEF Same, SameBut, SameVisible, Lifecycle!Start
<1> QED
  BY <1>1 DEF Lifecycle!ANext

LEMMA AbstractEnd ==
  ASSUME NEW t \in Tasks, SameBut(t), Phase(t) = "active", Phase(t)' = "over",
         Lane(t)' = Lane(t), \A u \in Tasks \ {t} : Visible(u)' = Visible(u),
         Visible(t)' = Visible(t) \/ (Visible(t) = "yes" /\ Visible(t)' = "no")
  PROVE  Lifecycle!ANext
<1>1. Lifecycle!End(t)
  BY DEF Same, SameBut, Lifecycle!End
<1> QED
  BY <1>1 DEF Lifecycle!ANext

LEMMA AbstractCancel ==
  ASSUME NEW t \in Tasks, SameBut(t), SameVisible, Phase(t) = "accepted",
         Visible(t) = "yes", Phase(t)' = "over", Lane(t)' = Lane(t)
  PROVE  Lifecycle!ANext
<1>1. Lifecycle!Cancel(t)
  BY DEF Same, SameBut, SameVisible, Lifecycle!Cancel
<1> QED
  BY <1>1 DEF Lifecycle!ANext

LEMMA AbstractVisible ==
  ASSUME NEW t \in Tasks, \A u \in Tasks : Same(u),
         \A u \in Tasks \ {t} : Visible(u)' = Visible(u),
         \/ Phase(t) # "absent" /\ Visible(t) = "never" /\ Visible(t)' = "yes"
         \/ Visible(t) = "yes" /\ Visible(t)' = "no"
  PROVE  Lifecycle!ANext
<1>1. Lifecycle!Publish(t) \/ Lifecycle!Withdraw(t)
  BY DEF Same, Lifecycle!Publish, Lifecycle!Withdraw
<1> QED
  BY <1>1 DEF Lifecycle!ANext

LEMMA PhaseCases ==
  ASSUME TypeOK, TaskFacts, LifecycleInv, NEW t \in Tasks
  PROVE  /\ Phase(t) = "absent" <=> future[t] = "none"
         /\ Phase(t) = "accepted" <=> future[t] = "queued"
         /\ Phase(t) = "active" <=> t \in {current, tcurrent}
         /\ Phase(t) = "over" <=> future[t] \notin {"none", "queued"}
                                  /\ t \notin {current, tcurrent}
<1>1. t \in {current, tcurrent} => future[t] \in {"running", "cancelled"}
  BY LightbulbAssumption DEF TaskFacts, WorkerFacts, LifecycleInv
<1> QED
  BY <1>1 DEF Phase

LEMMA LaneCases ==
  ASSUME TypeOK, NEW t \in Tasks
  PROVE  /\ Lane(t) = "none" <=> future[t] = "none"
         /\ Lane(t) = "power" <=> future[t] # "none" /\ job[t].kind = "toggle"
         /\ Lane(t) = "light" <=> future[t] # "none" /\ job[t].kind # "toggle"
BY DEF Lane

LEMMA VisibleCases ==
  ASSUME TypeOK, TaskFacts, NEW t \in Tasks
  PROVE  /\ Visible(t) = "yes" <=> listed[t]
         /\ Visible(t) = "no" <=> ~listed[t] /\ post[t] \in {"added", "done"}
         /\ Visible(t) = "never" <=> post[t] \in {"none", "submitted"}
BY DEF Visible, TypeOK, TreeType, TaskFacts, HandlerFacts

LEMMA SubmitRefines ==
  ASSUME TypeOK, TaskFacts, LifecycleInv, NEW t \in Tasks, NEW j \in Jobs,
         PostSubmit(t, j)
  PROVE  Lifecycle!ANext
<1>1. /\ future[t] = "none" /\ ~listed[t] /\ post[t] = "none"
      /\ future' = [future EXCEPT ![t] = "queued"]
      /\ job' = [job EXCEPT ![t] = j]
      /\ post' = [post EXCEPT ![t] = "submitted"]
      /\ UNCHANGED <<listed, current, tcurrent>>
  BY DEF PostSubmit, TaskFacts, HandlerFacts, TypeOK, TreeType
<1>2. Phase(t) = "absent" /\ Phase(t)' = "accepted" /\ Lane(t)' \in {"light", "power"}
  BY <1>1 DEF Phase, Lane, TypeOK, TreeType
<1>3. SameBut(t)
  BY <1>1 DEF SameBut, Same, Phase, Lane, TypeOK, TreeType
<1>4. SameVisible
  BY <1>1 DEF SameVisible, Visible, TypeOK, TreeType
<1> QED
  BY <1>2, <1>3, <1>4, AbstractAccept

LEMMA HandlersRefine ==
  ASSUME TypeOK, TaskFacts, LifecycleInv, NEW t \in Tasks,
         DeleteFind(t) \/ PostHandler(t) \/ DeleteHandler(t)
  PROVE  Lifecycle!ANext \/ UNCHANGED Lifecycle!avars
<1> USE DEF TypeOK, TreeType
<1>1. UNCHANGED <<job, current, tcurrent>>
  BY DEF DeleteFind, PostHandler, PostAdd, PostRespond, DeleteHandler, DeleteCancel,
     DeleteRemove, Silent, executor, togglers
<1>2. CASE PostAdd(t)
  <2>1. \A u \in Tasks : Same(u)
    BY <1>1, <1>2 DEF PostAdd, Same, Phase, Lane
  <2>2. \A u \in Tasks \ {t} : Visible(u)' = Visible(u)
    BY <1>2 DEF PostAdd, Visible
  <2>3. Phase(t) # "absent" /\ Visible(t) = "never" /\ Visible(t)' = "yes"
    BY <1>2, PhaseCases, VisibleCases DEF PostAdd, Visible, LifecycleInv
  <2> QED
    BY <2>1, <2>2, <2>3, AbstractVisible
<1>3. CASE PostRespond(t) \/ DeleteFind(t)
  <2>1. \A u \in Tasks : Same(u)
    BY <1>1, <1>3 DEF PostRespond, DeleteFind, Same, Phase, Lane
  <2>2. SameVisible
    BY <1>3 DEF PostRespond, DeleteFind, SameVisible, Visible
  <2> QED
    BY <2>1, <2>2, AbstractStutter
<1>4. CASE DeleteCancel(t)
  <2>1. SameVisible
    BY <1>4 DEF DeleteCancel, SameVisible, Visible
  <2>2. SameBut(t) /\ Lane(t)' = Lane(t)
    BY <1>1, <1>4 DEF DeleteCancel, SameBut, Same, Phase, Lane
  <2>3. CASE future[t] = "queued"
    <3>1. listed[t] /\ future'[t] = "cancelled" /\ t \notin {current, tcurrent}
      BY <1>4, <2>3, PhaseCases DEF DeleteCancel, LifecycleInv, TaskFacts, HandlerFacts
    <3>2. Phase(t) = "accepted" /\ Visible(t) = "yes" /\ Phase(t)' = "over"
      BY <1>1, <2>3, <3>1 DEF Phase, Visible
    <3> QED
      BY <2>1, <2>2, <3>2, AbstractCancel
  <2>4. CASE future[t] # "queued"
    <3>1. Phase(t)' = Phase(t)
      BY <1>1, <1>4, <2>4 DEF DeleteCancel, Phase
    <3> QED
      BY <2>1, <2>2, <3>1, AbstractStutter DEF SameBut, Same
  <2> QED
    BY <2>3, <2>4
<1>5. CASE DeleteRemove(t)
  <2>1. \A u \in Tasks : Same(u)
    BY <1>1, <1>5 DEF DeleteRemove, Same, Phase, Lane
  <2>2. \A u \in Tasks \ {t} : Visible(u)' = Visible(u)
    BY <1>5 DEF DeleteRemove, Visible
  <2>3. CASE listed[t]
    <3>1. Visible(t) = "yes" /\ Visible(t)' = "no"
      BY <1>5, <2>3 DEF DeleteRemove, Visible, TaskFacts, HandlerFacts
    <3> QED
      BY <2>1, <2>2, <3>1, AbstractVisible
  <2>4. CASE ~listed[t]
    <3>1. Visible(t)' = Visible(t)
      BY <1>5, <2>4 DEF DeleteRemove, Visible
    <3> QED
      BY <2>1, <2>2, <3>1, AbstractStutter DEF SameVisible
  <2> QED
    BY <2>3, <2>4
<1> QED
  BY <1>2, <1>3, <1>4, <1>5 DEF PostHandler, DeleteHandler

\* A worker takes the head h of its queue.
LEMMA TakeRefines ==
  ASSUME TypeOK, TaskFacts, LifecycleInv, NEW h \in Tasks, future[h] = "queued",
         UNCHANGED <<job, post, listed>>, future' = [future EXCEPT ![h] = "running"],
         \/ /\ current = None /\ current' = h /\ tcurrent' = tcurrent
            /\ job[h].kind # "toggle"
         \/ /\ tcurrent = None /\ tcurrent' = h /\ current' = current
            /\ job[h].kind = "toggle"
  PROVE  Lifecycle!ANext
<1>1. Phase(h) = "accepted" /\ Phase(h)' = "active"
  BY DEF Phase, TypeOK, TreeType
<1>2. SameBut(h) /\ Lane(h)' = Lane(h)
  BY LightbulbAssumption DEF SameBut, Same, Phase, Lane, TypeOK, TreeType
<1>3. SameVisible
  BY DEF SameVisible, Visible
<1>4. ASSUME NEW u \in Tasks, Lane(u) = Lane(h)
      PROVE  Phase(u) # "active"
  <2>1. job[u].kind = "toggle" <=> job[h].kind = "toggle"
    BY <1>4, LaneCases
  <2>2. u \notin {current, tcurrent}
    BY <2>1, LightbulbAssumption DEF TaskFacts, WorkerFacts
  <2> QED
    BY <2>2, PhaseCases
<1> QED
  BY <1>1, <1>2, <1>3, <1>4, AbstractStart

\* A worker ends its task t and removes its resource, or leaves it.
LEMMA EndRefines ==
  ASSUME TypeOK, TaskFacts, LifecycleInv, NEW t \in Tasks,
         UNCHANGED <<job, post>>,
         \/ t = current /\ t # tcurrent /\ current' = None /\ tcurrent' = tcurrent
         \/ t = tcurrent /\ t # current /\ tcurrent' = None /\ current' = current,
         future'[t] \notin {"none", "queued"},
         \A u \in Tasks \ {t} : UNCHANGED <<future[u], listed[u]>>,
         listed'[t] = listed[t] \/ listed'[t] = FALSE
  PROVE  Lifecycle!ANext
<1>1. Phase(t) = "active" /\ Phase(t)' = "over"
  <2>1. Phase(t) = "active"
    BY PhaseCases
  <2>2. t \notin {current', tcurrent'}
    BY LightbulbAssumption
  <2> QED
    BY <2>1, <2>2 DEF Phase
<1>2. SameBut(t) /\ Lane(t)' = Lane(t)
  <2>1. future[t] # "none"
    BY <1>1, PhaseCases
  <2>2. \A u \in Tasks \ {t} : u \in {current', tcurrent'} <=> u \in {current, tcurrent}
    BY LightbulbAssumption
  <2> QED
    BY <2>1, <2>2 DEF SameBut, Same, Phase, Lane
<1>3. \A u \in Tasks \ {t} : Visible(u)' = Visible(u)
  BY DEF Visible
<1>4. Visible(t)' = Visible(t) \/ (Visible(t) = "yes" /\ Visible(t)' = "no")
  <2>1. listed[t] \in BOOLEAN /\ (listed[t] => post[t] \in {"added", "done"})
    BY DEF TypeOK, TreeType, TaskFacts, HandlerFacts
  <2>2. CASE listed'[t] = listed[t]
    BY <2>2 DEF Visible
  <2>3. CASE listed'[t] = FALSE
    BY <2>1, <2>3 DEF Visible
  <2> QED
    BY <2>2, <2>3
<1> QED
  BY <1>1, <1>2, <1>3, <1>4, AbstractEnd

LEMMA ExecutorsRefine ==
  ASSUME TypeOK, TaskFacts, LifecycleInv,
         WorkerTake \/ Interrupt \/ LoopFails \/ WorkerRemove \/ ToggleTake \/ ToggleRemove
  PROVE  Lifecycle!ANext \/ UNCHANGED Lifecycle!avars
<1> USE DEF TypeOK, TreeType, ExecutorType, TogglerType
<1>1. /\ current # None => current \in Tasks /\ current # tcurrent
                           /\ future[current] \in {"running", "cancelled"}
      /\ tcurrent # None => tcurrent \in Tasks /\ tcurrent # current
                            /\ future[tcurrent] = "running"
  BY DEF TaskFacts, WorkerFacts, LifecycleInv
<1>2. ASSUME UNCHANGED <<job, post, listed, future, current, tcurrent>>
      PROVE  UNCHANGED Lifecycle!avars
  BY <1>2, AbstractStutter DEF Same, SameVisible, Phase, Lane, Visible
<1>3. CASE WorkerTake
  <2>1. PICK h \in Tasks : h = Head(queue) /\ 1 \in DOMAIN queue /\ h = queue[1]
    BY <1>3, QueueElements DEF WorkerTake
  <2>2. /\ future[h] \in {"queued", "cancelled"} /\ job[h].kind # "toggle"
        /\ UNCHANGED <<job, post, listed, tcurrent>> /\ current = None
    BY <1>3, <2>1 DEF WorkerTake, tree, togglers, LifecycleInv, TaskFacts, WorkerFacts
  <2>3. CASE future[h] = "cancelled"
    BY <1>2, <1>3, <2>1, <2>2, <2>3 DEF WorkerTake
  <2>4. CASE future[h] = "queued"
    <3>1. current' = h /\ future' = [future EXCEPT ![h] = "running"]
      BY <1>3, <2>1, <2>4 DEF WorkerTake
    <3> QED
      BY <2>2, <2>4, <3>1, TakeRefines
  <2> QED
    BY <2>2, <2>3, <2>4
<1>4. CASE Interrupt
  <2>1. /\ current # None /\ interrupted
        /\ UNCHANGED <<job, post, listed, future, tcurrent>>
        /\ current' = current \/ current' = None
    BY <1>4 DEF Interrupt, At, tree, Frame, togglers
  <2>2. future[current] = "cancelled"
    BY <2>1 DEF TaskFacts, InterruptHitsItsTask
  <2>3. CASE current' = current
    BY <1>2, <2>1, <2>3
  <2>4. CASE current' = None
    BY <1>1, <2>1, <2>2, <2>4, EndRefines
  <2> QED
    BY <2>1, <2>3, <2>4
<1>5. CASE LoopFails \/ WorkerRemove
  <2>1. /\ current # None /\ current' = None
        /\ UNCHANGED <<job, post, tcurrent>>
        /\ \A u \in Tasks \ {current} : UNCHANGED <<future[u], listed[u]>>
        /\ future'[current] \notin {"none", "queued"}
        /\ listed'[current] = listed[current] \/ listed'[current] = FALSE
    BY <1>1, <1>5 DEF LoopFails, WorkerRemove, RemoveSelf, At, tree, Frame, togglers
  <2> QED
    BY <1>1, <2>1, EndRefines
<1>6. CASE ToggleTake
  <2>1. PICK h \in Tasks : h = Head(tqueue) /\ 1 \in DOMAIN tqueue /\ h = tqueue[1]
    BY <1>6, QueueElements DEF ToggleTake
  <2>2. /\ future[h] = "queued" /\ job[h].kind = "toggle"
        /\ UNCHANGED <<job, post, listed, current>> /\ tcurrent = None /\ tcurrent' = h
        /\ future' = [future EXCEPT ![h] = "running"]
    BY <1>6, <2>1 DEF ToggleTake, tree, executor, LifecycleInv, TaskFacts, WorkerFacts
  <2> QED
    BY <2>2, TakeRefines
<1>7. CASE ToggleRemove
  <2>1. /\ tcurrent # None /\ tcurrent' = None
        /\ UNCHANGED <<job, post, current>>
        /\ \A u \in Tasks \ {tcurrent} : UNCHANGED <<future[u], listed[u]>>
        /\ future'[tcurrent] \notin {"none", "queued"}
        /\ listed'[tcurrent] = FALSE
    BY <1>1, <1>7 DEF ToggleRemove, RemoveSelf, executor, LifecycleInv
  <2> QED
    BY <1>1, <2>1, EndRefines
<1> QED
  BY <1>3, <1>4, <1>5, <1>6, <1>7

LEMMA NextRefines ==
  ASSUME TypeOK, TaskFacts, LifecycleInv, [Next]_vars
  PROVE  [Lifecycle!ANext]_Lifecycle!avars
<1>1. CASE LampOnly
  <2>1. \A u \in Tasks : Same(u)
    BY <1>1 DEF LampOnly, TaskVars, tree, Same, Phase, Lane
  <2>2. SameVisible
    BY <1>1 DEF LampOnly, TaskVars, tree, SameVisible, Visible
  <2> QED
    BY <2>1, <2>2, AbstractStutter
<1> QED
  BY <1>1, StepKinds, SubmitRefines, HandlersRefine, ExecutorsRefine DEF TaskStep

\* Whatever requests, executors and cancellations interleave, an action is
\* accepted once, runs at most once and alone on its executor, never after it
\* was cancelled while waiting, and its resource appears once at most.
THEOREM ActionsFollowLifecycle == Spec => ImplementsLifecycle
<1>1. Init => Lifecycle!AInit
  BY AbstractInit
<1>2. TypeOK /\ TaskFacts /\ LifecycleInv /\ [Next]_vars
        => [Lifecycle!ANext]_Lifecycle!avars
  BY NextRefines
<1> QED
  BY <1>1, <1>2, TypeCorrect, TaskInvariant, LifecycleInvariant, PTL
     DEF Spec, ImplementsLifecycle, Lifecycle!ASpec
==============================================================================
