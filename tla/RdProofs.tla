----------------------------- MODULE RdProofs -----------------------------
(***************************************************************************)
(* The device servers keep their entries in the directory alive, for any   *)
(* number of servers and any times that leave room: the timer thread is    *)
(* never further behind than one timeout per other server (KeepsUpInv),    *)
(* and so an entry outlives one lost refresh, unless the answer to the     *)
(* registration was late (EntryInv).                                       *)
(***************************************************************************)
EXTENDS RdRegistration, TLAPS, FiniteSetTheorems

N == Cardinality(Servers)

\* The refreshes of all servers fit into one period when none is answered.
PeriodIsLongEnough == Timeout * N <= Lifetime

-----------------------------------------------------------------------------
(* Types.                                                                  *)

Task == [for : {"discover", "refresh"}, server : Servers,
         at : {"sent", "answered"}, left : 0..Timeout]

LEMMA TaskFacts ==
  /\ \A s \in Servers, t \in {"discover", "refresh"} : Waits(s, t) \in Task
  /\ Idle.for = "nothing" /\ Idle \notin Task
  /\ TypeOK => (worker \in Task \/ worker = Idle)
BY RegistrationAssumption DEF Task, Waits, Idle, TypeOK

LEMMA InitTypes == Init => TypeOK
<1> SUFFICES ASSUME Init PROVE TypeOK
  OBVIOUS
<1>1. due \in [Servers -> Int \union {Never}]
  BY RegistrationAssumption DEF Init
<1> QED
  BY <1>1, RegistrationAssumption DEF Init, TypeOK, Handles

LEMMA ThreadTypes ==
  ASSUME TypeOK, Thread
  PROVE  TypeOK'
<1>1. ASSUME NEW s \in Servers, Discover(s)
      PROVE  TypeOK'
  BY <1>1, TaskFacts DEF Discover, TypeOK, Task
<1>2. ASSUME NEW s \in Servers, Refresh(s)
      PROVE  TypeOK'
  <2>1. due[s] \in Int
    BY <1>2 DEF Refresh, First, Ready, Scheduled, TypeOK
  <2>2. due' \in [Servers -> Int \union {Never}]
    BY <1>2, <2>1, RegistrationAssumption DEF Refresh, TypeOK
  <2> QED
    BY <1>2, <2>2, TaskFacts DEF Refresh, TypeOK, Task
<1>3. CASE Found
  <2>1. worker.server \in Servers
    BY <1>3, TaskFacts DEF Found, Task
  <2> QED
    BY <1>3, <2>1, RegistrationAssumption DEF Found, TypeOK
<1>4. CASE NotFound \/ RefreshReturns
  BY <1>4 DEF NotFound, RefreshReturns, TypeOK
<1>5. CASE RefreshTimesOut
  <2>1. worker.server \in Servers
    BY <1>5, TaskFacts DEF RefreshTimesOut, Task
  <2>2. \A n \in 0..MaxCount : Counted(n) \in 0..MaxCount
    BY RegistrationAssumption DEF Counted
  <2>3. lost' \in [Servers -> 0..MaxCount]
    BY <1>5, <2>1, <2>2 DEF RefreshTimesOut, TypeOK
  <2> QED
    BY <1>5, <2>3 DEF RefreshTimesOut, TypeOK
<1> QED
  BY <1>1, <1>2, <1>3, <1>4, <1>5 DEF Thread

LEMMA AnswerTypes ==
  ASSUME TypeOK, Answer
  PROVE  TypeOK'
<1>1. ASSUME NEW s \in Servers, OnLoad(s)
      PROVE  TypeOK'
  <2>1. due' \in [Servers -> Int \union {Never}] /\ handle' \in [Servers -> Handles]
    BY <1>1, RegistrationAssumption DEF OnLoad, TypeOK, Handles
  <2>2. entry[s] \in 0..Minimum /\ Minimum - entry[s] \in 0..Minimum
    BY RegistrationAssumption DEF TypeOK
  <2>3. spent' \in [Servers -> 0..Minimum]
    BY <1>1, <2>2 DEF OnLoad, TypeOK
  <2> QED
    BY <1>1, <2>1, <2>3 DEF OnLoad, TypeOK
<1>2. ASSUME NEW s \in Servers, OnError(s)
      PROVE  TypeOK'
  BY <1>2 DEF OnError, TypeOK
<1> QED
  BY <1>1, <1>2 DEF Answer

LEMMA DirectoryTypes ==
  ASSUME TypeOK, Directory
  PROVE  TypeOK'
<1>1. ASSUME NEW s \in Servers, Grants(s)
      PROVE  TypeOK'
  BY <1>1, RegistrationAssumption DEF Grants, TypeOK
<1>2. ASSUME NEW s \in Servers, Refuses(s)
      PROVE  TypeOK'
  BY <1>2 DEF Refuses, TypeOK
<1>3. CASE Refreshed
  <2>1. worker \in Task
    BY <1>3, TaskFacts DEF Refreshed
  <2>2. worker' \in Task
    BY <1>3, <2>1 DEF Refreshed, Task
  <2>3. entry' \in [Servers -> 0..Minimum] /\ lost' \in [Servers -> 0..MaxCount]
    BY <1>3, <2>1, RegistrationAssumption DEF Refreshed, TypeOK, Task
  <2>4. spent' \in [Servers -> 0..Minimum]
    BY <1>3, <2>1, RegistrationAssumption DEF Refreshed, TypeOK, Task
  <2> QED
    BY <1>3, <2>2, <2>3, <2>4 DEF Refreshed, TypeOK, Task
<1>4. CASE Restart
  BY <1>4, RegistrationAssumption DEF Restart, TypeOK
<1> QED
  BY <1>1, <1>2, <1>3, <1>4 DEF Directory

LEMMA TickTypes ==
  ASSUME TypeOK, Tick
  PROVE  TypeOK'
<1>1. due' \in [Servers -> Int \union {Never}]
  BY DEF Tick, TypeOK, Scheduled
<1>2. worker' = Idle \/ worker' \in Task
  <2>1. CASE worker = Idle
    BY <2>1 DEF Tick
  <2>2. CASE worker # Idle
    <3>1. worker \in Task /\ worker.left > 0
      BY <2>2, TaskFacts DEF Tick
    <3> QED
      BY <2>2, <3>1, RegistrationAssumption DEF Tick, Task
  <2> QED
    BY <2>1, <2>2
<1>3. entry' \in [Servers -> 0..Minimum]
  BY RegistrationAssumption DEF Tick, TypeOK
<1> QED
  BY <1>1, <1>2, <1>3 DEF Tick, TypeOK, Task

LEMMA StepTypes == TypeOK /\ [Next]_vars => TypeOK'
<1>1. ASSUME TypeOK, UNCHANGED vars
      PROVE  TypeOK'
  BY <1>1 DEF vars, TypeOK
<1> QED
  BY <1>1, ThreadTypes, AnswerTypes, DirectoryTypes, TickTypes DEF Next

\* Every variable keeps its type.
THEOREM TypeCorrect == Spec => []TypeOK
BY InitTypes, StepTypes, PTL DEF Spec

-----------------------------------------------------------------------------
(* The timer thread keeps up.                                              *)

\* What n requests that time out take.
Wait(n) == Timeout * n
Left    == IF worker = Idle THEN 0 ELSE worker.left

\* The servers that the thread may serve before s.
Ahead(s) == {r \in Scheduled \ {s} : due[r] <= due[s]}

\* The refresh that is under way belongs to a server whose next one is not due
\* soon.  A task that is late has waited for the servers that are no longer
\* ahead of it, each for a timeout at most.
KeepsUpInv ==
  /\ worker # Idle /\ due[worker.server] # Never =>
       due[worker.server] >= Lifetime - Wait(N) + worker.left
  /\ \A s \in Ready : Left - due[s] + Wait(Cardinality(Ahead(s))) <= Wait(N - 1)

LEMMA WaitFacts ==
  ASSUME NEW m \in Nat, NEW n \in Nat
  PROVE  /\ Wait(n) \in Nat
         /\ Wait(n + 1) = Wait(n) + Timeout
         /\ m <= n => Wait(m) <= Wait(n)
<1>1. Timeout \in Nat
  BY RegistrationAssumption
<1>2. Timeout * n \in Nat /\ Timeout * m \in Nat
  BY <1>1
<1>3. Timeout * (n + 1) = Timeout * n + Timeout
  BY <1>1
<1>4. ASSUME m <= n
      PROVE  Timeout * m <= Timeout * n
  <2>1. n - m \in Nat /\ n = m + (n - m)
    BY <1>4
  <2>2. Timeout * n = Timeout * m + Timeout * (n - m) /\ Timeout * (n - m) \in Nat
    BY <1>1, <2>1
  <2> QED
    BY <1>2, <2>2
<1> QED
  BY <1>2, <1>3, <1>4 DEF Wait

LEMMA ServerCount ==
  /\ N \in Nat
  /\ \A s \in Servers : N >= 1 /\ Cardinality(Servers \ {s}) = N - 1
  /\ \A S \in SUBSET Servers : IsFiniteSet(S) /\ Cardinality(S) \in Nat
<1>1. IsFiniteSet(Servers)
  BY RegistrationAssumption
<1>2. N \in Nat
  BY <1>1, FS_CardinalityType DEF N
<1>3. ASSUME NEW S \in SUBSET Servers
      PROVE  IsFiniteSet(S) /\ Cardinality(S) \in Nat
  BY <1>1, FS_Subset, FS_CardinalityType
<1>4. ASSUME NEW s \in Servers
      PROVE  Cardinality(Servers \ {s}) = N - 1
  BY <1>1, FS_RemoveElement DEF N
<1>5. ASSUME NEW s \in Servers
      PROVE  N >= 1
  <2>1. Cardinality(Servers \ {s}) \in Nat
    BY <1>3
  <2> QED
    BY <1>2, <1>4, <2>1
<1> QED
  BY <1>2, <1>3, <1>4, <1>5

LEMMA Others ==
  ASSUME NEW s \in Servers
  PROVE  /\ N \in Nat /\ N >= 1 /\ N - 1 \in Nat /\ (N - 1) + 1 = N
         /\ Wait(N - 1) \in Nat /\ Wait(N) \in Nat
         /\ Wait(N) = Wait(N - 1) + Timeout
<1>1. N \in Nat /\ N >= 1
  BY ServerCount
<1>2. N - 1 \in Nat /\ (N - 1) + 1 = N
  BY <1>1
<1>3. Wait(N - 1) \in Nat /\ Wait(N) \in Nat /\ Wait((N - 1) + 1) = Wait(N - 1) + Timeout
  BY <1>1, <1>2, WaitFacts
<1> QED
  BY <1>1, <1>2, <1>3

LEMMA AheadSubset ==
  \A s : /\ Ahead(s) \in SUBSET (Servers \ {s})
         /\ Ahead(s)' \in SUBSET (Servers \ {s})
         /\ Wait(Cardinality(Ahead(s))) \in Nat
         /\ Wait(Cardinality(Ahead(s)')) \in Nat
<1> SUFFICES ASSUME NEW s
             PROVE  /\ Ahead(s) \in SUBSET (Servers \ {s})
                    /\ Ahead(s)' \in SUBSET (Servers \ {s})
                    /\ Wait(Cardinality(Ahead(s))) \in Nat
                    /\ Wait(Cardinality(Ahead(s)')) \in Nat
  OBVIOUS
<1>1. Ahead(s) \in SUBSET (Servers \ {s}) /\ Ahead(s)' \in SUBSET (Servers \ {s})
  BY DEF Ahead, Scheduled
<1>2. Cardinality(Ahead(s)) \in Nat /\ Cardinality(Ahead(s)') \in Nat
  BY <1>1, ServerCount
<1> QED
  BY <1>1, <1>2, WaitFacts

LEMMA Subsets ==
  ASSUME NEW S \in SUBSET Servers, NEW R \in SUBSET S
  PROVE  Cardinality(R) <= Cardinality(S)
<1>1. IsFiniteSet(S)
  BY ServerCount
<1> QED
  BY <1>1, FS_Subset

\* What is ahead of a task takes at most what all the other servers take.
LEMMA AheadOthers ==
  ASSUME NEW s \in Servers, NEW R \in SUBSET (Servers \ {s})
  PROVE  Wait(Cardinality(R)) <= Wait(N - 1)
<1>1. Cardinality(R) \in Nat /\ N - 1 \in Nat /\ Cardinality(R) <= N - 1
  BY ServerCount, Subsets
<1> QED
  BY <1>1, WaitFacts

\* One of them less: one timeout less.
LEMMA OneLess ==
  ASSUME NEW s \in Servers, NEW R \in SUBSET (Servers \ {s}), NEW r \in Servers,
         r # s, r \notin R
  PROVE  Wait(Cardinality(R)) + Timeout <= Wait(N - 1)
<1>1. IsFiniteSet(R) /\ Cardinality(R) \in Nat
  BY ServerCount
<1>2. Cardinality(R \union {r}) = Cardinality(R) + 1
  BY <1>1, FS_AddElement
<1>3. R \union {r} \in SUBSET (Servers \ {s})
  OBVIOUS
<1>4. Wait(Cardinality(R) + 1) <= Wait(N - 1)
  BY <1>2, <1>3, AheadOthers
<1> QED
  BY <1>1, <1>4, WaitFacts

LEMMA Served ==
  ASSUME NEW S \in SUBSET Servers, NEW r \in S, NEW R \in SUBSET (S \ {r})
  PROVE  Wait(Cardinality(R)) + Timeout <= Wait(Cardinality(S))
<1>1. IsFiniteSet(S) /\ Cardinality(S) \in Nat /\ Cardinality(R) \in Nat
  BY ServerCount
<1>2. Cardinality(S \ {r}) = Cardinality(S) - 1
  BY <1>1, FS_RemoveElement
<1>3. Cardinality(R) <= Cardinality(S \ {r})
  BY Subsets
<1>4. Cardinality(R) + 1 <= Cardinality(S)
  BY <1>1, <1>2, <1>3
<1>5. Wait(Cardinality(R) + 1) <= Wait(Cardinality(S))
  BY <1>1, <1>4, WaitFacts
<1> QED
  BY <1>1, <1>5, WaitFacts

LEMMA Times ==
  ASSUME TypeOK
  PROVE  /\ Scheduled \subseteq Servers
         /\ \A s \in Scheduled : due[s] \in Int
         /\ \A s \in Servers : s \notin Scheduled => due[s] = Never
         /\ Left \in 0..Timeout
         /\ \A s : Ahead(s) \in SUBSET (Servers \ {s})
<1>1. Left \in 0..Timeout
  BY TaskFacts, RegistrationAssumption DEF Left, Task
<1> QED
  BY <1>1 DEF Scheduled, Ahead, TypeOK

LEMMA LateBound ==
  ASSUME TypeOK, KeepsUpInv, NEW s \in Scheduled
  PROVE  due[s] >= Left - Wait(N - 1) \/ due[s] > 0
<1>1. Cardinality(Ahead(s)) \in Nat
  BY Times, ServerCount
<1>2. Wait(Cardinality(Ahead(s))) \in Nat /\ Wait(N - 1) \in Nat
  BY <1>1, WaitFacts, ServerCount, Times
<1>3. due[s] \in Int /\ Left \in Int
  BY Times
<1>4. CASE due[s] <= 0
  <2>1. Left - due[s] + Wait(Cardinality(Ahead(s))) <= Wait(N - 1)
    BY <1>4 DEF KeepsUpInv, Ready
  <2> QED
    BY <1>2, <1>3, <2>1
<1> QED
  BY <1>3, <1>4

LEMMA InitKeepsUp ==
  ASSUME Init
  PROVE  KeepsUpInv
<1>1. TypeOK
  BY InitTypes
<1>2. worker = Idle /\ Left = 0
  BY DEF Init, Left
<1>3. ASSUME NEW s \in Ready
      PROVE  Left - due[s] + Wait(Cardinality(Ahead(s))) <= Wait(N - 1)
  <2>1. s \in Servers /\ due[s] \in Int /\ due[s] <= 0
    BY <1>1, Times DEF Ready
  <2>2. due[s] = 0
    BY <2>1, RegistrationAssumption DEF Init
  <2>3. Wait(Cardinality(Ahead(s))) <= Wait(N - 1)
    BY <1>1, <2>1, Times, AheadOthers
  <2>4. Wait(Cardinality(Ahead(s))) \in Nat
    BY <1>1, Times, ServerCount, WaitFacts
  <2> QED
    BY <1>2, <2>2, <2>3, <2>4
<1> QED
  BY <1>2, <1>3 DEF KeepsUpInv

\* A step after which nothing is late that was not, no task is nearer, and the
\* worker is done or goes on as it was.
LEMMA EasedKeepsUp ==
  ASSUME TypeOK, TypeOK', KeepsUpInv,
         worker' = Idle \/ (worker' # Idle /\ worker # Idle
           /\ worker'.server = worker.server /\ worker'.left = worker.left),
         worker' # Idle => due'[worker.server] \in {due[worker.server], Never},
         \A s \in Ready' : s \in Ready /\ due'[s] = due[s] /\ Ahead(s)' \subseteq Ahead(s)
  PROVE  KeepsUpInv'
<1>1. Left' <= Left /\ Left \in Int /\ Left' \in Int
  BY Times, TaskFacts, RegistrationAssumption DEF Left, Task, TypeOK
<1>2. ASSUME NEW s \in Ready'
      PROVE  Left' - due'[s] + Wait(Cardinality(Ahead(s)')) <= Wait(N - 1)
  <2>1. s \in Ready /\ due'[s] = due[s] /\ due[s] \in Int /\ s \in Servers
    BY Times DEF Ready
  <2>2. Ahead(s) \in SUBSET Servers /\ Ahead(s)' \in SUBSET Ahead(s)
    BY Times
  <2>3. Cardinality(Ahead(s)') <= Cardinality(Ahead(s))
    BY <2>2, Subsets
  <2>4. Cardinality(Ahead(s)') \in Nat /\ Cardinality(Ahead(s)) \in Nat
    BY <2>2, ServerCount
  <2>5. Wait(Cardinality(Ahead(s)')) <= Wait(Cardinality(Ahead(s)))
    BY <2>3, <2>4, WaitFacts
  <2>6. Wait(Cardinality(Ahead(s)')) \in Nat /\ Wait(Cardinality(Ahead(s))) \in Nat
        /\ Wait(N - 1) \in Nat
    BY <2>1, <2>4, WaitFacts, ServerCount
  <2>7. Left - due[s] + Wait(Cardinality(Ahead(s))) <= Wait(N - 1)
    BY <2>1 DEF KeepsUpInv
  <2> QED
    BY <1>1, <2>1, <2>5, <2>6, <2>7
<1>3. worker' # Idle /\ due'[worker'.server] # Never =>
        due'[worker'.server] >= Lifetime - Wait(N) + worker'.left
  BY DEF KeepsUpInv
<1> QED
  BY <1>2, <1>3 DEF KeepsUpInv

\* The thread begins with the task that is due for longest.
LEMMA BeginKeepsUp ==
  ASSUME PeriodIsLongEnough, TypeOK, TypeOK', KeepsUpInv, NEW s \in Servers,
         worker = Idle, First(s),
         worker' # Idle, worker'.server = s, worker'.left = Timeout,
         \A r \in Servers \ {s} : due'[r] = due[r],
         due'[s] \in {Never, due[s] + Lifetime}
  PROVE  KeepsUpInv'
<1>0. /\ s \in Ready /\ due[s] \in Int /\ due[s] <= 0 /\ Left = 0 /\ Left' = Timeout
      /\ Timeout \in Nat /\ Lifetime \in Nat /\ Timeout >= 1
  BY Times, RegistrationAssumption DEF First, Ready, Left
<1>1. N - 1 \in Nat /\ N \in Nat /\ Wait(N) = Wait(N - 1) + Timeout
      /\ Wait(N - 1) \in Nat /\ Wait(N) <= Lifetime
  BY Others DEF PeriodIsLongEnough, Wait
<1>2. due[s] >= 0 - Wait(N - 1)
  BY <1>0, <1>1, LateBound DEF Ready
<1>3. due'[s] # Never => due'[s] \in Int /\ due'[s] >= Lifetime - Wait(N) + Timeout /\ due'[s] > 0
  BY <1>0, <1>1, <1>2
<1>4. ASSUME NEW r \in Ready'
      PROVE  Left' - due'[r] + Wait(Cardinality(Ahead(r)')) <= Wait(N - 1)
  <2>1. r \in Servers /\ due'[r] \in Int /\ due'[r] <= 0 /\ due'[r] # Never
    BY Times, RegistrationAssumption DEF Ready, Scheduled, TypeOK
  <2>2. r # s /\ due'[r] = due[r] /\ r \in Ready
    BY <1>3, <2>1 DEF Ready, Scheduled
  <2>3. s \in Ahead(r)
    BY <1>0, <2>2 DEF First, Ahead, Ready
  <2>4. Ahead(r)' \subseteq Ahead(r) \ {s}
    <3> SUFFICES ASSUME NEW q \in Ahead(r)'
                 PROVE  q \in Ahead(r) \ {s}
      OBVIOUS
    <3>1. q \in Servers /\ q # r /\ due'[q] # Never /\ due'[q] <= due'[r]
      BY DEF Ahead, Scheduled
    <3>2. q # s
      BY <1>3, <2>1, <3>1
    <3> QED
      BY <2>2, <3>1, <3>2 DEF Ahead, Scheduled
  <2>5. Wait(Cardinality(Ahead(r)')) + Timeout <= Wait(Cardinality(Ahead(r)))
    BY <2>3, <2>4, Times, Served
  <2>6. Left - due[r] + Wait(Cardinality(Ahead(r))) <= Wait(N - 1)
    BY <2>2 DEF KeepsUpInv
  <2>7. Wait(Cardinality(Ahead(r)')) \in Nat /\ Wait(Cardinality(Ahead(r))) \in Nat
    BY <2>4, Times, ServerCount, WaitFacts
  <2> QED
    BY <1>0, <1>1, <2>1, <2>2, <2>5, <2>6, <2>7
<1> QED
  BY <1>3, <1>4 DEF KeepsUpInv

LEMMA TickKeepsUp ==
  ASSUME PeriodIsLongEnough, TypeOK, KeepsUpInv, Tick
  PROVE  KeepsUpInv'
<1>0. TypeOK' /\ Timeout \in Nat /\ Lifetime \in Nat /\ N \in Nat /\ Wait(N) \in Nat
      /\ Wait(N) <= Lifetime
  BY TickTypes, ServerCount, WaitFacts, RegistrationAssumption DEF PeriodIsLongEnough, Wait
<1>1. /\ \A s \in Servers : due'[s] = IF s \in Scheduled THEN due[s] - 1 ELSE Never
      /\ Scheduled' = Scheduled
  <2>1. \A s \in Servers : due'[s] = IF s \in Scheduled THEN due[s] - 1 ELSE Never
    BY DEF Tick
  <2>2. \A s \in Scheduled : due[s] - 1 # Never
    BY Times, RegistrationAssumption
  <2> QED
    BY <2>1, <2>2 DEF Scheduled
<1>2. CASE worker = Idle
  <2>1. worker' = Idle /\ Left' = 0 /\ Ready = {}
    BY <1>2 DEF Tick, Left
  <2>2. ASSUME NEW s \in Ready'
        PROVE  Left' - due'[s] + Wait(Cardinality(Ahead(s)')) <= Wait(N - 1)
    <3>1. s \in Scheduled /\ due[s] \in Int /\ due[s] - 1 <= 0 /\ s \in Servers
      BY <1>1, Times DEF Ready
    <3>2. due'[s] = 0
      BY <1>1, <2>1, <3>1 DEF Ready
    <3>3. Wait(Cardinality(Ahead(s)')) <= Wait(N - 1)
      BY <3>1, AheadSubset, AheadOthers
    <3>4. Wait(Cardinality(Ahead(s)')) \in Nat
      BY AheadSubset
    <3> QED
      BY <2>1, <3>2, <3>3, <3>4
  <2> QED
    BY <2>1, <2>2 DEF KeepsUpInv
<1>3. CASE worker # Idle
  <2>1. /\ worker \in Task /\ worker.left > 0
        /\ worker' \in Task /\ worker' # Idle
        /\ worker'.server = worker.server /\ worker'.left = worker.left - 1
    <3>1. worker \in Task /\ worker.left > 0 /\ worker' = [worker EXCEPT !.left = @ - 1]
      BY <1>3, TaskFacts DEF Tick
    <3>2. worker' \in Task
      BY <3>1, RegistrationAssumption DEF Task
    <3> QED
      BY <3>1, <3>2, TaskFacts DEF Task
  <2>2. Left = worker.left /\ Left' = worker.left - 1 /\ worker.left \in Nat
        /\ worker.left <= Timeout /\ worker.server \in Servers
    BY <1>3, <2>1, RegistrationAssumption DEF Left, Task
  <2>3. due'[worker.server] # Never =>
          /\ due'[worker.server] \in Int
          /\ due'[worker.server] >= Lifetime - Wait(N) + worker'.left
    <3> SUFFICES ASSUME due'[worker.server] # Never
                 PROVE  /\ due'[worker.server] \in Int
                        /\ due'[worker.server] >= Lifetime - Wait(N) + worker'.left
      OBVIOUS
    <3>1. worker.server \in Scheduled /\ due[worker.server] \in Int
      BY <1>1, <2>2, Times
    <3>2. due[worker.server] >= Lifetime - Wait(N) + worker.left
      BY <1>3, <3>1 DEF KeepsUpInv, Scheduled
    <3> QED
      BY <1>0, <1>1, <2>1, <2>2, <3>1, <3>2
  <2>4. ASSUME NEW s \in Ready'
        PROVE  Left' - due'[s] + Wait(Cardinality(Ahead(s)')) <= Wait(N - 1)
    <3>1. s \in Scheduled /\ s \in Servers /\ due[s] \in Int /\ due'[s] = due[s] - 1
          /\ due'[s] <= 0
      BY <1>1, Times DEF Ready
    <3>2. Wait(Cardinality(Ahead(s)')) \in Nat
      BY AheadSubset
    <3>3. CASE due[s] <= 0
      <4>1. Ahead(s)' = Ahead(s)
        BY <1>1, <3>1, Times DEF Ahead
      <4>2. Left - due[s] + Wait(Cardinality(Ahead(s))) <= Wait(N - 1)
        BY <3>1, <3>3 DEF KeepsUpInv, Ready
      <4> QED
        BY <2>2, <3>1, <3>2, <4>1, <4>2
    <3>4. CASE due[s] > 0 /\ Left' = 0
      <4>1. due'[s] = 0
        BY <3>1, <3>4
      <4>2. Wait(Cardinality(Ahead(s)')) <= Wait(N - 1)
        BY <3>1, AheadSubset, AheadOthers
      <4> QED
        BY <3>2, <3>4, <4>1, <4>2
    <3>5. CASE due[s] > 0 /\ Left' > 0
      <4>1. due'[s] = 0
        BY <3>1, <3>5
      <4>2. worker.server # s /\ worker.server \notin Ahead(s)'
        <5>1. due'[worker.server] # Never => due'[worker.server] > 0
          BY <1>0, <2>1, <2>2, <2>3, <3>5
        <5>2. due'[s] # Never
          BY <4>1, RegistrationAssumption
        <5>3. worker.server # s
          BY <4>1, <5>1, <5>2
        <5>4. worker.server \notin Ahead(s)'
          <6> SUFFICES ASSUME worker.server \in Ahead(s)' PROVE FALSE
            OBVIOUS
          <6>1. due'[worker.server] # Never /\ due'[worker.server] <= due'[s]
            BY DEF Ahead, Scheduled
          <6>2. due'[worker.server] \in Int
            BY <2>3, <6>1
          <6> QED
            BY <4>1, <5>1, <6>1, <6>2
        <5> QED
          BY <5>3, <5>4
      <4>3. Wait(Cardinality(Ahead(s)')) + Timeout <= Wait(N - 1)
        <5>1. Ahead(s)' \in SUBSET (Servers \ {s})
          BY AheadSubset
        <5> QED
          BY <2>2, <3>1, <4>2, <5>1, OneLess
      <4>4. N - 1 \in Nat /\ Wait(N - 1) \in Nat
        BY <3>1, Others
      <4> QED
        BY <1>0, <2>2, <3>2, <4>1, <4>3, <4>4
    <3>6. Left' = 0 \/ Left' > 0
      BY <2>1, <2>2
    <3>7. due[s] <= 0 \/ due[s] > 0
      BY <3>1
    <3> QED
      BY <3>3, <3>4, <3>5, <3>6, <3>7
  <2> QED
    BY <2>1, <2>3, <2>4 DEF KeepsUpInv
<1> QED
  BY <1>2, <1>3

LEMMA StepKeepsUp ==
  ASSUME PeriodIsLongEnough, TypeOK, KeepsUpInv, [Next]_vars
  PROVE  KeepsUpInv'
<1>0. TypeOK'
  BY StepTypes
<1>1. ASSUME NEW s \in Servers, Discover(s)
      PROVE  KeepsUpInv'
  <2>1. worker' # Idle /\ worker'.server = s /\ worker'.left = Timeout
    BY <1>1 DEF Discover, Waits, Idle
  <2>2. (\A r \in Servers \ {s} : due'[r] = due[r]) /\ due'[s] = Never
    BY <1>1 DEF Discover, TypeOK
  <2> QED
    BY <1>0, <1>1, <2>1, <2>2, BeginKeepsUp DEF Discover
<1>2. ASSUME NEW s \in Servers, Refresh(s)
      PROVE  KeepsUpInv'
  <2>1. worker' # Idle /\ worker'.server = s /\ worker'.left = Timeout
    BY <1>2 DEF Refresh, Waits, Idle
  <2>2. (\A r \in Servers \ {s} : due'[r] = due[r]) /\ due'[s] = due[s] + Lifetime
    BY <1>2 DEF Refresh, TypeOK
  <2> QED
    BY <1>0, <1>2, <2>1, <2>2, BeginKeepsUp DEF Refresh
<1>3. CASE Found \/ NotFound \/ RefreshTimesOut \/ RefreshReturns
  <2>1. worker' = Idle /\ due' = due
    BY <1>3 DEF Found, NotFound, RefreshTimesOut, RefreshReturns
  <2>2. \A s \in Ready' : s \in Ready /\ due'[s] = due[s] /\ Ahead(s)' \subseteq Ahead(s)
    BY <2>1 DEF Ready, Scheduled, Ahead
  <2> QED
    BY <1>0, <2>1, <2>2, EasedKeepsUp
<1>4. ASSUME NEW s \in Servers, OnLoad(s)
      PROVE  KeepsUpInv'
  <2>1. /\ worker' = worker /\ due'[s] = Lifetime /\ Lifetime \in Nat /\ Lifetime > 0
        /\ Lifetime # Never /\ \A r \in Servers \ {s} : due'[r] = due[r]
    BY <1>4, RegistrationAssumption DEF OnLoad, TypeOK
  <2>2. ASSUME NEW r \in Ready'
        PROVE  /\ r \in Ready /\ due'[r] = due[r]
               /\ Left' - due'[r] + Wait(Cardinality(Ahead(r)')) <= Wait(N - 1)
    <3>1. r \in Servers /\ due'[r] \in Int /\ due'[r] <= 0 /\ due'[r] # Never
      BY <1>0 DEF Ready, Scheduled, TypeOK
    <3>2. r # s /\ due'[r] = due[r] /\ r \in Ready
      BY <2>1, <3>1 DEF Ready, Scheduled
    <3>3. Ahead(r)' \subseteq Ahead(r)
      BY <2>1, <3>1, <3>2, <1>0 DEF Ahead, Scheduled, TypeOK
    <3>4. Cardinality(Ahead(r)') <= Cardinality(Ahead(r)) /\ Cardinality(Ahead(r)) \in Nat
          /\ Cardinality(Ahead(r)') \in Nat
      BY <3>3, Times, Subsets, ServerCount
    <3>5. Wait(Cardinality(Ahead(r)')) <= Wait(Cardinality(Ahead(r)))
          /\ Wait(Cardinality(Ahead(r)')) \in Nat /\ Wait(Cardinality(Ahead(r))) \in Nat
      BY <3>4, WaitFacts
    <3>6. Left' = Left /\ Left \in Int /\ N - 1 \in Nat /\ Wait(N - 1) \in Nat
      BY <2>1, <3>1, Times, Others, RegistrationAssumption DEF Left
    <3>7. Left - due[r] + Wait(Cardinality(Ahead(r))) <= Wait(N - 1)
      BY <3>2 DEF KeepsUpInv
    <3> QED
      BY <3>1, <3>2, <3>5, <3>6, <3>7
  <2>3. worker' # Idle /\ due'[worker'.server] # Never =>
          due'[worker'.server] >= Lifetime - Wait(N) + worker'.left
    <3> SUFFICES ASSUME worker # Idle, due'[worker.server] # Never
                 PROVE  due'[worker.server] >= Lifetime - Wait(N) + worker.left
      BY <2>1
    <3>1. worker.server \in Servers /\ worker.left \in Nat /\ worker.left <= Timeout
      BY TaskFacts, RegistrationAssumption DEF Task
    <3>2. N \in Nat /\ N >= 1 /\ Wait(1) <= Wait(N) /\ Wait(N) \in Nat /\ Wait(1) = Timeout
      <4>1. Wait(1) <= Wait(N) /\ Wait(N) \in Nat /\ N \in Nat /\ N >= 1
        BY Others, WaitFacts
      <4>2. Wait(1) = Timeout
        BY RegistrationAssumption DEF Wait
      <4> QED
        BY <4>1, <4>2
    <3>3. CASE worker.server = s
      BY <2>1, <3>1, <3>2, <3>3, RegistrationAssumption
    <3>4. CASE worker.server # s
      BY <2>1, <3>1, <3>4 DEF KeepsUpInv
    <3> QED
      BY <3>3, <3>4
  <2> QED
    BY <2>2, <2>3 DEF KeepsUpInv
<1>5. ASSUME worker' = worker \/ (worker \in Task /\ worker' = [worker EXCEPT !.at = "answered"]),
             due' = due
      PROVE  KeepsUpInv'
  <2>1. \A s \in Ready' : s \in Ready /\ due'[s] = due[s] /\ Ahead(s)' \subseteq Ahead(s)
    BY <1>5 DEF Ready, Scheduled, Ahead
  <2>2. worker' = Idle \/ (worker' # Idle /\ worker # Idle
          /\ worker'.server = worker.server /\ worker'.left = worker.left)
    <3>1. CASE worker' = worker
      BY <3>1
    <3>2. CASE worker \in Task /\ worker' = [worker EXCEPT !.at = "answered"]
      <4>1. worker' \in Task /\ worker'.server = worker.server /\ worker'.left = worker.left
        BY <3>2 DEF Task
      <4> QED
        BY <3>2, <4>1, TaskFacts
    <3> QED
      BY <1>5, <3>1, <3>2
  <2> QED
    BY <1>0, <1>5, <2>1, <2>2, EasedKeepsUp
<1>6. CASE \E s \in Servers : OnError(s) \/ Grants(s) \/ Refuses(s)
  BY <1>5, <1>6 DEF OnError, Grants, Refuses
<1>7. CASE Refreshed
  BY <1>5, <1>7, TaskFacts DEF Refreshed
<1>8. CASE Restart \/ UNCHANGED vars
  BY <1>5, <1>8 DEF Restart, vars
<1>9. CASE Tick
  BY <1>9, TickKeepsUp
<1> QED
  BY <1>1, <1>2, <1>3, <1>4, <1>6, <1>7, <1>8, <1>9 DEF Next, Thread, Answer, Directory

\* If the refreshes of all servers fit into one period even when none is
\* answered, no task of the shared timer thread waits for longer than each of
\* the other servers takes once (DeviceServer.tasks).
THEOREM ThreadKeepsUp ==
  ASSUME PeriodIsLongEnough
  PROVE  Spec => []KeepsUp
<1>1. Init => TypeOK /\ KeepsUpInv
  BY InitTypes, InitKeepsUp
<1>2. TypeOK /\ KeepsUpInv /\ [Next]_vars => TypeOK' /\ KeepsUpInv'
  BY StepTypes, StepKeepsUp
<1>3. TypeOK /\ KeepsUpInv => KeepsUp
  <2> SUFFICES ASSUME TypeOK, KeepsUpInv, NEW s \in Scheduled
               PROVE  due[s] >= -(Timeout * (Cardinality(Servers) - 1))
    BY DEF KeepsUp
  <2>1. due[s] >= Left - Wait(N - 1) \/ due[s] > 0
    BY LateBound
  <2>2. Left \in Nat /\ due[s] \in Int /\ N - 1 \in Nat /\ Wait(N - 1) \in Nat
    BY Times, Others, RegistrationAssumption
  <2>3. due[s] >= -Wait(N - 1)
    BY <2>1, <2>2
  <2> QED
    BY <2>3 DEF Wait, N
<1> QED
  BY <1>1, <1>2, <1>3, PTL DEF Spec

-----------------------------------------------------------------------------
(* An entry outlives one lost refresh.                                     *)

Serving(s) == worker.for = "refresh" /\ worker.server = s

\* How far a server is on its way from discovery to its refreshes.
Stages ==
  /\ \A s \in Servers :
       /\ post[s] # "none" => handle[s] = "null" /\ due[s] = Never
       /\ handle[s] # "null" => due[s] # Never /\ due[s] <= Lifetime
       /\ handle[s] = "null" => lost[s] = 0
       /\ Serving(s) => handle[s] # "null" /\ (worker.at = "answered" => lost[s] = 0)
  /\ worker.for = "discover" =>
       /\ handle[worker.server] = "null" /\ post[worker.server] = "none"
       /\ due[worker.server] = Never

\* The refreshes that did not reach the directory since the last one that did,
\* the one that is under way included.
Behind(s) == lost[s] + (IF Serving(s) /\ worker.at = "sent" THEN 1 ELSE 0)

\* What is left of an entry when the next refresh is due: each lost refresh
\* costs a period, and the late answer to the registration what it spent.
Margin(s) ==
  handle[s] = "entry" /\ entry[s] > 0 /\ lost[s] <= 1 =>
    \A b \in 0..2 : Behind(s) = b =>
      entry[s] - due[s] >= Minimum - spent[s] - (b + 1) * Lifetime

EntryInv == Stages /\ \A s \in Servers : Margin(s)

Constants ==
  /\ Lifetime \in Nat /\ Timeout \in Nat /\ Minimum \in Nat /\ MaxCount \in Nat
  /\ Lifetime >= 1 /\ Timeout >= 1 /\ MaxCount >= 2 /\ \A n \in Int : n # Never

LEMMA ConstantFacts == Constants
BY RegistrationAssumption DEF Constants

LEMMA InitEntry == Init => EntryInv
BY DEF Init, EntryInv, Stages, Margin, Serving, Idle

LEMMA ThreadEntry ==
  ASSUME TypeOK, EntryInv, Thread
  PROVE  EntryInv'
<1> USE ConstantFacts DEF Constants
<1>1. ASSUME NEW s \in Servers, Discover(s)
      PROVE  EntryInv'
  <2>1. /\ worker' = [for |-> "discover", server |-> s, at |-> "sent", left |-> Timeout]
        /\ worker = Idle /\ due[s] # Never /\ handle[s] = "null"
        /\ due' = [due EXCEPT ![s] = Never]
        /\ UNCHANGED <<handle, post, entry, lost, spent>>
    BY <1>1 DEF Discover, First, Ready, Scheduled, Waits
  <2>2. \A r \in Servers : ~Serving(r) /\ ~Serving(r)'
    BY <2>1 DEF Serving, Idle
  <2>3. \A r \in Servers : due'[r] = IF r = s THEN Never ELSE due[r]
    BY <2>1 DEF TypeOK
  <2>4. Stages'
    BY <2>1, <2>2, <2>3 DEF EntryInv, Stages
  <2>5. \A r \in Servers : Behind(r)' = Behind(r)
    BY <2>1, <2>2 DEF Behind
  <2>6. \A r \in Servers : Margin(r)'
    BY <2>1, <2>3, <2>5 DEF EntryInv, Margin
  <2> QED
    BY <2>4, <2>6 DEF EntryInv
<1>2. ASSUME NEW s \in Servers, Refresh(s)
      PROVE  EntryInv'
  <2>1. /\ worker' = [for |-> "refresh", server |-> s, at |-> "sent", left |-> Timeout]
        /\ worker = Idle /\ due[s] \in Int /\ due[s] <= 0 /\ handle[s] # "null"
        /\ due' = [due EXCEPT ![s] = @ + Lifetime]
        /\ UNCHANGED <<handle, post, entry, lost, spent>>
    BY <1>2 DEF Refresh, First, Ready, Scheduled, Waits, TypeOK
  <2>2. \A r \in Servers : ~Serving(r) /\ (Serving(r)' <=> r = s)
    BY <2>1 DEF Serving, Idle
  <2>3. \A r \in Servers : due'[r] = IF r = s THEN due[s] + Lifetime ELSE due[r]
    BY <2>1 DEF TypeOK
  <2>4. Stages'
    BY <2>1, <2>2, <2>3 DEF EntryInv, Stages
  <2>5. \A r \in Servers : Behind(r) = lost[r] /\ lost[r] \in Nat
          /\ Behind(r)' = IF r = s THEN lost[r] + 1 ELSE lost[r]
    BY <2>1, <2>2 DEF Behind, TypeOK
  <2>6. ASSUME NEW r \in Servers
        PROVE  Margin(r)'
    <3>1. CASE r # s
      BY <2>1, <2>3, <2>5, <3>1 DEF EntryInv, Margin
    <3>2. CASE r = s
      <4> SUFFICES ASSUME handle[s] = "entry", entry[s] > 0, lost[s] <= 1,
                          NEW b \in 0..2, Behind(s)' = b
                   PROVE  entry[s] - due'[s] >= Minimum - spent[s] - (b + 1) * Lifetime
        BY <2>1, <3>2 DEF Margin
      <4>1. Behind(s) = b - 1 /\ b - 1 \in 0..2
        BY <2>5
      <4>2. entry[s] - due[s] >= Minimum - spent[s] - ((b - 1) + 1) * Lifetime
        BY <4>1 DEF EntryInv, Margin
      <4>3. entry[s] \in Nat /\ spent[s] \in Nat
        BY DEF TypeOK
      <4>4. b \in {1, 2}
        BY <2>5
      <4> QED
        BY <2>1, <2>3, <4>2, <4>3, <4>4
    <3> QED
      BY <3>1, <3>2
  <2> QED
    BY <2>4, <2>6 DEF EntryInv
<1>3. CASE Found
  <2>1. /\ worker \in Task /\ worker' = Idle /\ worker.for = "discover" /\ worker.server \in Servers
        /\ \A r \in Servers : post'[r] = IF r = worker.server THEN "sent" ELSE post[r]
        /\ UNCHANGED <<due, handle, entry, lost, spent>>
    BY <1>3, TaskFacts DEF Found, Task, TypeOK
  <2>2. \A r \in Servers : ~Serving(r) /\ ~Serving(r)' /\ worker'.for # "discover"
    BY <2>1 DEF Serving, Idle
  <2>3. Stages'
    BY <2>1, <2>2, TaskFacts DEF EntryInv, Stages
  <2>4. \A r \in Servers : Behind(r)' = Behind(r)
    BY <2>1, <2>2 DEF Behind
  <2> QED
    BY <2>1, <2>3, <2>4 DEF EntryInv, Margin
<1>4. CASE NotFound
  <2>1. worker' = Idle /\ worker.for = "discover" /\ UNCHANGED <<due, handle, post, entry, lost, spent>>
    BY <1>4 DEF NotFound
  <2>2. \A r \in Servers : ~Serving(r) /\ ~Serving(r)'
    BY <2>1 DEF Serving, Idle
  <2>3. \A r \in Servers : Behind(r)' = Behind(r)
    BY <2>1, <2>2 DEF Behind
  <2> QED
    BY <2>1, <2>2, <2>3, TaskFacts DEF EntryInv, Margin, Stages
<1>5. CASE RefreshReturns
  <2>1. /\ worker' = Idle /\ worker.for = "refresh" /\ worker.at = "answered"
        /\ UNCHANGED <<due, handle, post, entry, lost, spent>>
    BY <1>5 DEF RefreshReturns
  <2>2. \A r \in Servers : ~Serving(r)'
    BY <2>1 DEF Serving, Idle
  <2>3. \A r \in Servers : Behind(r)' = Behind(r)
    BY <2>1, <2>2 DEF Behind
  <2> QED
    BY <2>1, <2>2, <2>3, TaskFacts DEF EntryInv, Margin, Stages
<1>6. CASE RefreshTimesOut
  <2> DEFINE s == worker.server
  <2>1. /\ worker \in Task /\ worker' = Idle /\ worker.for = "refresh" /\ s \in Servers
        /\ \A r \in Servers :
             lost'[r] = IF r = s /\ worker.at = "sent" THEN Counted(lost[r]) ELSE lost[r]
        /\ UNCHANGED <<due, handle, post, entry, spent>>
    BY <1>6, TaskFacts DEF RefreshTimesOut, Task, TypeOK
  <2>2. \A r \in Servers : ~Serving(r)' /\ (Serving(r) <=> r = s)
    BY <2>1 DEF Serving, Idle
  <2>3. Stages'
    BY <2>1, <2>2, TaskFacts DEF EntryInv, Stages
  <2>4. \A r \in Servers : lost[r] \in 0..MaxCount /\ lost'[r] \in Nat
    BY <2>1 DEF TypeOK, Counted
  <2>5. \A r \in Servers : lost'[r] <= 1 => Behind(r)' = Behind(r) /\ lost[r] <= 1
    BY <2>1, <2>2, <2>4 DEF Behind, Counted
  <2> QED
    BY <2>1, <2>3, <2>5 DEF EntryInv, Margin
<1> QED
  BY <1>1, <1>2, <1>3, <1>4, <1>5, <1>6 DEF Thread

LEMMA AnswerEntry ==
  ASSUME TypeOK, EntryInv, Answer
  PROVE  EntryInv'
<1> USE ConstantFacts DEF Constants
<1>1. ASSUME NEW s \in Servers, OnLoad(s)
      PROVE  EntryInv'
  <2>1. /\ UNCHANGED <<worker, entry, lost>>
        /\ post[s] \in {"granted", "refused"} /\ handle[s] = "null" /\ lost[s] = 0
        /\ \A r \in Servers :
             /\ handle'[r] = IF r # s THEN handle[r]
                             ELSE IF post[s] = "granted" THEN "entry" ELSE "root"
             /\ due'[r] = IF r = s THEN Lifetime ELSE due[r]
             /\ post'[r] = IF r = s THEN "none" ELSE post[r]
             /\ spent'[r] = IF r = s THEN Minimum - entry[s] ELSE spent[r]
    BY <1>1 DEF OnLoad, TypeOK, EntryInv, Stages
  <2>2. \A r \in Servers : Serving(r)' = Serving(r) /\ Behind(r)' = Behind(r)
    BY <2>1 DEF Serving, Behind
  <2>3. ~Serving(s) /\ (worker.for = "discover" => worker.server # s)
    BY <2>1 DEF EntryInv, Stages
  <2>4. Stages'
    <3>1. \A r \in Servers : Serving(r)' => Serving(r)
      BY <2>2
    <3>2. worker.for = "discover" => worker.server \in Servers
      BY TaskFacts DEF Task
    <3> QED
      BY <2>1, <2>3, <3>1, <3>2 DEF EntryInv, Stages
  <2>5. ASSUME NEW r \in Servers
        PROVE  Margin(r)'
    <3>1. CASE r # s
      BY <2>1, <2>2, <3>1 DEF EntryInv, Margin
    <3>2. CASE r = s
      <4> SUFFICES ASSUME handle'[s] = "entry", entry[s] > 0, NEW b \in 0..2, Behind(s)' = b
                   PROVE  entry[s] - due'[s] >= Minimum - spent'[s] - (b + 1) * Lifetime
        BY <2>1, <3>2 DEF Margin
      <4>1. b = 0 /\ due'[s] = Lifetime
        BY <2>1, <2>2, <2>3 DEF Behind
      <4>2. spent'[s] = Minimum - entry[s]
        BY <2>1
      <4>3. entry[s] \in Nat
        BY DEF TypeOK
      <4> QED
        BY <4>1, <4>2, <4>3
    <3> QED
      BY <3>1, <3>2
  <2> QED
    BY <2>4, <2>5 DEF EntryInv
<1>2. ASSUME NEW s \in Servers, OnError(s)
      PROVE  EntryInv'
  <2>1. /\ UNCHANGED <<due, handle, worker, entry, lost, spent>>
        /\ \A r \in Servers : post'[r] = IF r = s THEN "none" ELSE post[r]
    BY <1>2 DEF OnError, TypeOK
  <2>2. \A r \in Servers : Serving(r)' = Serving(r) /\ Behind(r)' = Behind(r)
    BY <2>1 DEF Serving, Behind
  <2>3. worker.for = "discover" => worker.server \in Servers
    BY TaskFacts DEF Task
  <2>4. Stages'
    BY <2>1, <2>3 DEF EntryInv, Stages, Serving
  <2> QED
    BY <2>1, <2>2, <2>4 DEF EntryInv, Margin
<1> QED
  BY <1>1, <1>2 DEF Answer

LEMMA DirectoryEntry ==
  ASSUME TypeOK, EntryInv, Directory
  PROVE  EntryInv'
<1> USE ConstantFacts DEF Constants
<1>0. worker.for = "discover" => worker.server \in Servers
  BY TaskFacts DEF Task
<1>1. ASSUME NEW s \in Servers, Grants(s)
      PROVE  EntryInv'
  <2>1. /\ UNCHANGED <<due, handle, worker, lost, spent>>
        /\ post[s] = "sent" /\ handle[s] = "null"
        /\ \A r \in Servers :
             /\ post'[r] = IF r = s THEN "granted" ELSE post[r]
             /\ entry'[r] = IF r = s THEN Minimum ELSE entry[r]
    BY <1>1 DEF Grants, TypeOK, EntryInv, Stages
  <2>2. \A r \in Servers : Serving(r)' = Serving(r) /\ Behind(r)' = Behind(r)
    BY <2>1 DEF Serving, Behind
  <2>3. Stages'
    BY <1>0, <2>1 DEF EntryInv, Stages, Serving
  <2> QED
    BY <2>1, <2>2, <2>3 DEF EntryInv, Margin
<1>2. ASSUME NEW s \in Servers, Refuses(s)
      PROVE  EntryInv'
  <2>1. /\ UNCHANGED <<due, handle, worker, entry, lost, spent>>
        /\ post[s] = "sent"
        /\ \A r \in Servers : post'[r] = IF r = s THEN "refused" ELSE post[r]
    BY <1>2 DEF Refuses, TypeOK
  <2>2. \A r \in Servers : Serving(r)' = Serving(r) /\ Behind(r)' = Behind(r)
    BY <2>1 DEF Serving, Behind
  <2>3. Stages'
    BY <1>0, <2>1 DEF EntryInv, Stages, Serving
  <2> QED
    BY <2>1, <2>2, <2>3 DEF EntryInv, Margin
<1>3. CASE Refreshed
  <2> DEFINE s == worker.server
  <2>1. /\ worker \in Task /\ worker.for = "refresh" /\ s \in Servers
        /\ worker' = [worker EXCEPT !.at = "answered"]
        /\ UNCHANGED <<due, handle, post>>
        /\ \A r \in Servers :
             /\ entry'[r] = IF r = s /\ handle[s] = "entry" /\ entry[s] > 0
                            THEN Minimum ELSE entry[r]
             /\ lost'[r] = IF r = s THEN 0 ELSE lost[r]
             /\ spent'[r] = IF r = s /\ handle[s] = "entry" /\ entry[s] > 0
                            THEN 0 ELSE spent[r]
    BY <1>3, TaskFacts DEF Refreshed, Task, TypeOK
  <2>2. worker'.for = "refresh" /\ worker'.server = s /\ worker'.at = "answered"
    BY <2>1 DEF Task
  <2>3. \A r \in Servers : (Serving(r)' <=> r = s) /\ (Serving(r) <=> r = s)
    BY <2>1, <2>2 DEF Serving
  <2>4. handle[s] # "null" /\ due[s] \in Int /\ due[s] <= Lifetime
    BY <2>1, <2>3 DEF EntryInv, Stages, TypeOK
  <2> HIDE DEF s
  <2>5. Stages'
    BY <2>1, <2>2, <2>3, <2>4 DEF EntryInv, Stages
  <2>6. ASSUME NEW r \in Servers
        PROVE  Margin(r)'
    <3>1. CASE r # s
      <4>1. Behind(r)' = Behind(r)
        BY <2>1, <2>3, <3>1 DEF Behind
      <4> QED
        BY <2>1, <3>1, <4>1 DEF EntryInv, Margin
    <3>2. CASE r = s
      <4>1. Behind(r)' = 0
        BY <2>1, <2>2, <3>2 DEF Behind
      <4>2. handle'[r] = "entry" /\ entry'[r] > 0 => entry'[r] = Minimum /\ spent'[r] = 0
        <5>1. entry[s] \in Nat
          BY <2>1 DEF TypeOK
        <5> QED
          BY <2>1, <3>2, <5>1
      <4> QED
        BY <2>1, <2>4, <3>2, <4>1, <4>2 DEF Margin
    <3> QED
      BY <3>1, <3>2
  <2> QED
    BY <2>5, <2>6 DEF EntryInv
<1>4. CASE Restart
  <2>1. /\ UNCHANGED <<due, handle, worker, post, lost, spent>>
        /\ \A r \in Servers : entry'[r] = 0
    BY <1>4 DEF Restart
  <2> QED
    BY <1>0, <2>1 DEF EntryInv, Stages, Margin, Serving
<1> QED
  BY <1>1, <1>2, <1>3, <1>4 DEF Directory

LEMMA TickEntry ==
  ASSUME TypeOK, EntryInv, Tick
  PROVE  EntryInv'
<1> USE ConstantFacts DEF Constants
<1>1. /\ UNCHANGED <<handle, post, lost, spent>>
      /\ worker' = IF worker = Idle THEN Idle ELSE [worker EXCEPT !.left = @ - 1]
      /\ \A r \in Servers :
           /\ due'[r] = IF due[r] # Never THEN due[r] - 1 ELSE Never
           /\ entry'[r] = IF entry[r] > 0 THEN entry[r] - 1 ELSE 0
  BY DEF Tick, Scheduled
<1>2. /\ worker'.for = worker.for /\ worker'.at = worker.at
      /\ worker.for \in {"discover", "refresh"} =>
           worker'.server = worker.server /\ worker.server \in Servers
  <2>1. CASE worker = Idle
    BY <1>1, <2>1, TaskFacts
  <2>2. CASE worker # Idle
    <3>1. worker \in Task
      BY <2>2, TaskFacts
    <3> QED
      BY <1>1, <2>2, <3>1 DEF Task
  <2> QED
    BY <2>1, <2>2
<1>3. \A r \in Servers : (Serving(r)' <=> Serving(r)) /\ Behind(r)' = Behind(r)
  BY <1>1, <1>2 DEF Serving, Behind
<1>4. \A r \in Servers : /\ entry[r] \in Nat /\ spent[r] \in Nat
                         /\ due[r] # Never => due[r] \in Int
  BY DEF TypeOK
<1>5. Stages'
  BY <1>1, <1>2, <1>3, <1>4 DEF EntryInv, Stages
<1>6. ASSUME NEW r \in Servers
      PROVE  Margin(r)'
  <2> SUFFICES ASSUME handle[r] = "entry", entry'[r] > 0, lost[r] <= 1,
                      NEW b \in 0..2, Behind(r)' = b
               PROVE  entry'[r] - due'[r] >= Minimum - spent[r] - (b + 1) * Lifetime
    BY <1>1 DEF Margin
  <2>1. entry[r] > 0 /\ entry'[r] = entry[r] - 1
    BY <1>1
  <2>2. due[r] # Never /\ due'[r] = due[r] - 1
    BY <1>1 DEF EntryInv, Stages
  <2>3. entry[r] - due[r] >= Minimum - spent[r] - (b + 1) * Lifetime
    BY <1>3, <2>1 DEF EntryInv, Margin
  <2> QED
    BY <1>4, <2>1, <2>2, <2>3
<1> QED
  BY <1>5, <1>6 DEF EntryInv

LEMMA StepEntry == TypeOK /\ EntryInv /\ [Next]_vars => EntryInv'
<1>1. ASSUME EntryInv, UNCHANGED vars
      PROVE  EntryInv'
  BY <1>1 DEF vars, EntryInv, Stages, Margin, Serving, Behind
<1> QED
  BY <1>1, ThreadEntry, AnswerEntry, DirectoryEntry, TickEntry DEF Next

\* Unless two refreshes were lost or the answer to the registration was too late,
\* an entry has more than a step left whenever time passes.
LEMMA EntryOutlives ==
  ASSUME PeriodIsLongEnough, TypeOK, KeepsUpInv, EntryInv, Tick,
         NEW s \in Servers, handle[s] = "entry", entry[s] > 0, lost[s] <= 1,
         spent[s] + Worst(lost[s]) < Minimum
  PROVE  entry[s] > 1
<1> USE ConstantFacts DEF Constants
<1>1. N \in Nat /\ Wait(N - 1) \in Nat /\ Wait(N) \in Nat /\ Wait(N) = Wait(N - 1) + Timeout
  BY Others
<1>2. s \in Scheduled /\ due[s] \in Int /\ entry[s] \in Nat /\ lost[s] \in 0..1
      /\ spent[s] \in Nat
  BY DEF EntryInv, Stages, Scheduled, TypeOK
<1>3. Worst(lost[s]) = (lost[s] + 1) * Lifetime + Wait(N)
  BY DEF Worst, Wait, N
<1>4. ASSUME NEW b \in 0..2, Behind(s) = b
      PROVE  entry[s] - due[s] >= Minimum - spent[s] - (b + 1) * Lifetime
  BY <1>4 DEF EntryInv, Margin
<1>5. CASE ~Serving(s)
  <2>1. Behind(s) = lost[s] /\ lost[s] \in 0..2
    BY <1>2, <1>5 DEF Behind
  <2>2. entry[s] - due[s] >= Minimum - spent[s] - (lost[s] + 1) * Lifetime
    BY <1>4, <2>1
  <2>3. due[s] > 0 - Wait(N - 1)
    <3>1. CASE worker = Idle
      <4>1. s \notin Ready
        BY <3>1 DEF Tick
      <4> QED
        BY <1>1, <1>2, <4>1 DEF Ready
    <3>2. CASE worker # Idle
      <4>1. Left > 0 /\ Left \in Int
        BY <3>2, Times DEF Tick, Left
      <4>2. due[s] >= Left - Wait(N - 1) \/ due[s] > 0
        BY <1>2, LateBound
      <4> QED
        BY <1>1, <1>2, <4>1, <4>2
    <3> QED
      BY <3>1, <3>2
  <2>4. lost[s] = 0 \/ lost[s] = 1
    BY <1>2
  <2> QED
    BY <1>1, <1>2, <1>3, <2>2, <2>3, <2>4
<1>6. CASE Serving(s)
  <2>1. worker # Idle /\ worker.server = s /\ worker.left > 0 /\ worker.left \in Nat
    BY <1>6, TaskFacts DEF Serving, Tick, Task
  <2>2. due[s] >= Lifetime - Wait(N) + worker.left
    BY <1>2, <2>1 DEF KeepsUpInv, Scheduled
  <2>3. Behind(s) = lost[s] \/ Behind(s) = lost[s] + 1
    BY <1>2 DEF Behind
  <2>4. lost[s] \in 0..2 /\ lost[s] + 1 \in 0..2
    BY <1>2
  <2>5. \/ entry[s] - due[s] >= Minimum - spent[s] - (lost[s] + 1) * Lifetime
        \/ entry[s] - due[s] >= Minimum - spent[s] - ((lost[s] + 1) + 1) * Lifetime
    BY <1>4, <2>3, <2>4
  <2>6. lost[s] = 0 \/ lost[s] = 1
    BY <1>2
  <2> QED
    BY <1>1, <1>2, <1>3, <2>1, <2>2, <2>5, <2>6
<1> QED
  BY <1>5, <1>6

LEMMA OnlyTimeDrops ==
  ASSUME TypeOK, [Next]_vars, NEW s \in Servers,
         entry[s] > 0, entry'[s] = 0, restarts' = restarts
  PROVE  Tick /\ entry[s] = 1
<1>1. Minimum \in Nat /\ Minimum # 0
  BY RegistrationAssumption
<1>2. entry[s] \in Nat /\ restarts \in Nat
  BY RegistrationAssumption DEF TypeOK
<1>3. \/ Tick \/ Restart \/ Refreshed \/ (\E r \in Servers : Grants(r)) \/ entry' = entry
  BY DEF Next, Thread, Answer, Directory, Discover, Refresh, Found, NotFound, RefreshTimesOut,
         RefreshReturns, OnLoad, OnError, Refuses, vars
<1>4. ~Restart
  BY <1>2 DEF Restart
<1>5. ~Refreshed
  BY <1>1, <1>2 DEF Refreshed, TypeOK
<1>6. ~ \E r \in Servers : Grants(r)
  BY <1>1, <1>2 DEF Grants, TypeOK
<1>7. Tick
  BY <1>2, <1>3, <1>4, <1>5, <1>6
<1>8. entry'[s] = entry[s] - 1
  BY <1>7 DEF Tick
<1> QED
  BY <1>2, <1>7, <1>8

\* However many servers share the timer thread, as long as their refreshes fit
\* into one period: the directory drops an entry only after a restart, after two
\* refreshes in a row were lost, or when the answer to the registration came so late
\* that what it left of the lifetime does not cover the refreshes lost since; once a
\* refresh has arrived that lateness is made good (onLoad, scheduleAtFixedRate).
THEOREM OneLossIsTolerated ==
  ASSUME PeriodIsLongEnough
  PROVE  Spec => OneLossTolerated
<1> DEFINE Inv == TypeOK /\ KeepsUpInv /\ EntryInv
           Kept == \A s \in Servers :
             entry[s] > 0 /\ entry'[s] = 0 /\ handle[s] = "entry" /\ restarts' = restarts
               => lost[s] > 1 \/ spent[s] + Worst(lost[s]) >= Minimum
<1>1. Init => Inv
  BY InitTypes, InitKeepsUp, InitEntry
<1>2. Inv /\ [Next]_vars => Inv'
  BY StepTypes, StepKeepsUp, StepEntry
<1>3. Inv /\ [Next]_vars => [Kept]_vars
  <2> SUFFICES ASSUME Inv, [Next]_vars, NEW s \in Servers,
                      entry[s] > 0, entry'[s] = 0, handle[s] = "entry", restarts' = restarts,
                      ~(lost[s] > 1), ~(spent[s] + Worst(lost[s]) >= Minimum)
               PROVE  FALSE
    OBVIOUS
  <2>1. Tick /\ entry[s] = 1
    BY OnlyTimeDrops
  <2>2. lost[s] <= 1 /\ lost[s] \in Nat /\ spent[s] \in Nat
    BY RegistrationAssumption DEF TypeOK
  <2>3. Worst(lost[s]) \in Int
    <3>1. N \in Nat /\ Wait(N) \in Nat
      BY ServerCount, WaitFacts
    <3>2. (lost[s] + 1) * Lifetime \in Int
      BY <2>2, RegistrationAssumption
    <3> QED
      BY <3>1, <3>2 DEF Worst, Wait, N
  <2>4. spent[s] + Worst(lost[s]) < Minimum
    BY <2>2, <2>3, RegistrationAssumption
  <2> QED
    BY <2>1, <2>2, <2>4, EntryOutlives
<1> QED
  BY <1>1, <1>2, <1>3, PTL DEF Spec, OneLossTolerated
=============================================================================
