--------------------------- MODULE IpMemoryProofs ---------------------------
(***************************************************************************)
(* The memory of IpStack: no handler loses a block unless a send fails,     *)
(* none frees a block twice, and all packet buffers come back.              *)
(*                                                                         *)
(* The argument is bookkeeping.  Slack(m, c) is the number of blocks of a   *)
(* category that are neither free nor with 6LoWPAN nor in a queue item.     *)
(* Balanced(m, b, ...) says that the handler accounts for b[c] of them, and *)
(* that more are missing only after a failure.  Each operation moves m and  *)
(* b together.                                                             *)
(***************************************************************************)
EXTENDS IpTableProofs, SequenceTheorems

-----------------------------------------------------------------------------
(* Induction up to n, as a fact about sets.                                *)

LEMMA UpTo ==
  ASSUME NEW n \in Nat, NEW S, 0 \in S,
         \A k \in 0..n : k \in S /\ k < n => k + 1 \in S
  PROVE  0..n \subseteq S
<1> SUFFICES ASSUME ~(0..n \subseteq S) PROVE FALSE
  OBVIOUS
<1> DEFINE R == {k \in 0..n : k \notin S}
           j == Least(R)
<1>1. R \subseteq Nat /\ R # {}
  OBVIOUS
<1>2. j \in R /\ \A y \in R : j <= y
  BY <1>1, LeastIn
<1> HIDE DEF j
<1>3. j # 0 /\ j - 1 \in 0..n /\ j - 1 < n
  BY <1>2
<1>4. j - 1 \in S
  BY <1>2, <1>3
<1> QED
  BY <1>2, <1>3, <1>4

-----------------------------------------------------------------------------
(* The items of the queue.                                                 *)

Held(q, c) == Cardinality({x \in Waiting(q) : x[1][1] = c})

LEMMA MemoryTypes ==
  /\ Categories \subseteq Nat /\ None \notin Categories /\ None \notin Pbuffers
  /\ FreeSlot \notin Categories /\ Small \in Categories /\ Medium \in Categories
  /\ Pbuffers \subseteq Nat
  /\ BlockCount \in [Categories -> Nat]
  /\ QueueSize \in Nat /\ MaxSends \in Nat /\ Sizes \subseteq Categories
  /\ \A e \in Encodings \union {Brief} : e[1] \in Categories /\ e[2] \in Categories
  /\ \A i \in Items : i[1] \in Categories /\ i[2] \in Categories
BY MemoryAssumption, StackAssumption
   DEF Categories, Pbuffers, FreeSlot, Small, Medium, Items, Brief

LEMMA ItemsFinite == IsFiniteSet(Items)
<1>1. IsFiniteSet(Categories)
  <2>1. \A a, b \in Int : IsFiniteSet(a..b)
    BY FS_Interval
  <2>2. 0 \in Int /\ 2 \in Int
    OBVIOUS
  <2> QED
    BY <2>1, <2>2 DEF Categories
<1>2. {e[2] : e \in Encodings} \in SUBSET Categories
  BY MemoryTypes
<1>3. IsFiniteSet({e[2] : e \in Encodings})
  BY <1>1, <1>2, FS_Subset
<1> QED
  BY <1>1, <1>3, FS_Product DEF Items

LEMMA WaitingFinite ==
  ASSUME NEW q
  PROVE  /\ IsFiniteSet(Waiting(q)) /\ Length(q) \in Nat
         /\ \A c : IsFiniteSet({x \in Waiting(q) : x[1][1] = c}) /\ Held(q, c) \in Nat
<1>1. IsFiniteSet(1..QueueSize)
  BY MemoryTypes, FS_Interval
<1>2. IsFiniteSet(Items \X (1..QueueSize))
  BY <1>1, ItemsFinite, FS_Product
<1>3. Waiting(q) \in SUBSET (Items \X (1..QueueSize))
  BY DEF Waiting
<1>4. IsFiniteSet(Waiting(q))
  BY <1>2, <1>3, FS_Subset
<1>5. \A c : {x \in Waiting(q) : x[1][1] = c} \in SUBSET Waiting(q)
  OBVIOUS
<1>6. \A c : IsFiniteSet({x \in Waiting(q) : x[1][1] = c})
  BY <1>4, <1>5, FS_Subset
<1> QED
  BY <1>4, <1>6, FS_CardinalityType DEF Length, Held

QueueType == [Items -> 0..QueueSize]

\* One item more of a kind is one block more of its category.
LEMMA OneItem ==
  ASSUME NEW q \in QueueType, NEW r \in QueueType, NEW i \in Items,
         r = [q EXCEPT ![i] = @ + 1]
  PROVE  /\ Length(r) = Length(q) + 1
         /\ \A c : Held(r, c) = IF c = i[1] THEN Held(q, c) + 1 ELSE Held(q, c)
<1> DEFINE new == <<i, q[i] + 1>>
<1>1. q[i] + 1 \in 1..QueueSize /\ r[i] = q[i] + 1
  BY MemoryTypes DEF QueueType
<1>2. Waiting(r) = Waiting(q) \union {new} /\ new \notin Waiting(q)
  <2>1. ASSUME NEW x \in Items \X (1..QueueSize)
        PROVE  x[2] <= r[x[1]] <=> x[2] <= q[x[1]] \/ x = new
    BY <1>1, <2>1, MemoryTypes DEF QueueType
  <2>2. new \in Items \X (1..QueueSize) /\ ~(new[2] <= q[new[1]])
    BY <1>1, MemoryTypes DEF QueueType
  <2> HIDE DEF new
  <2> QED
    BY <2>1, <2>2 DEF Waiting
<1>3. Length(r) = Length(q) + 1
  BY <1>2, WaitingFinite, FS_AddElement DEF Length
<1>4. ASSUME NEW c
      PROVE  Held(r, c) = IF c = i[1] THEN Held(q, c) + 1 ELSE Held(q, c)
  <2> DEFINE S == {x \in Waiting(q) : x[1][1] = c}
  <2>0. new[1][1] = i[1]
    OBVIOUS
  <2>1. CASE c = i[1]
    <3>1. {x \in Waiting(r) : x[1][1] = c} = S \union {new} /\ new \notin S
      <4> HIDE DEF new
      <4> QED
        BY <1>2, <2>0, <2>1
    <3>2. IsFiniteSet(S) /\ Cardinality(S) = Held(q, c)
      BY WaitingFinite DEF Held
    <3>3. Cardinality(S \union {new}) = Cardinality(S) + 1
      BY <3>1, <3>2, FS_AddElement
    <3> QED
      BY <2>1, <3>1, <3>2, <3>3 DEF Held
  <2>2. CASE c # i[1]
    <3>1. {x \in Waiting(r) : x[1][1] = c} = S
      <4> HIDE DEF new
      <4> QED
        BY <1>2, <2>0, <2>2
    <3> QED
      BY <2>2, <3>1 DEF Held
  <2> QED
    BY <2>1, <2>2
<1> QED
  BY <1>3, <1>4

\* A queue with room has room for an item of each kind.
LEMMA RoomForItem ==
  ASSUME NEW q \in QueueType, Length(q) < QueueSize, NEW i \in Items
  PROVE  q[i] < QueueSize
<1>0. q[i] \in 0..QueueSize /\ QueueSize \in Nat
  BY MemoryTypes DEF QueueType
<1> SUFFICES ASSUME q[i] = QueueSize PROVE FALSE
  BY <1>0
<1> DEFINE f == [n \in 1..QueueSize |-> <<i, n>>]
<1>1. f \in Injection(1..QueueSize, Waiting(q))
  <2>1. \A n \in 1..QueueSize : f[n] \in Waiting(q)
    BY DEF Waiting
  <2>2. \A m, n \in 1..QueueSize : f[m] = f[n] => m = n
    OBVIOUS
  <2> QED
    BY <2>1, <2>2 DEF Injection, IsInjective
<1>2. Cardinality(1..QueueSize) <= Cardinality(Waiting(q))
  BY <1>1, WaitingFinite, FS_Injection
<1>3. Cardinality(1..QueueSize) = QueueSize
  <2>1. \A a, b \in Int : Cardinality(a..b) = IF a > b THEN 0 ELSE b - a + 1
    BY FS_Interval
  <2>2. Cardinality(1..QueueSize) = IF 1 > QueueSize THEN 0 ELSE QueueSize - 1 + 1
    BY <2>1, MemoryTypes
  <2> QED
    BY <2>2, MemoryTypes
<1> QED
  BY <1>2, <1>3, WaitingFinite, MemoryTypes DEF Length

-----------------------------------------------------------------------------
(* The balance of a handler's memory.                                      *)

Slack(m, c) == BlockCount[c] - m.free[c] - m.tx[c] - Held(m.queue, c)

MemoryType ==
  [free : [Categories -> Nat], pbuf : [Pbuffers -> Categories \union {FreeSlot}],
   tx : [Categories -> Nat], queue : QueueType, got : Categories \union {None},
   slot : Pbuffers \union {None}, ok : BOOLEAN, error : BOOLEAN, halted : BOOLEAN,
   early : BOOLEAN]

Balance == [Categories -> Int]

\* The memory m, of whose blocks b[c] are accounted for, with the packet
\* buffers p: blocks are missing, or a handler gives up early, only after a
\* failure.
Balanced(m, b, p) ==
  /\ m \in MemoryType /\ Length(m.queue) <= QueueSize
  /\ m.pbuf = p
  /\ (~m.ok \/ m.early \/ m.halted => m.error)
  /\ \A c \in Categories : Slack(m, c) >= b[c] /\ (~m.error => Slack(m, c) = b[c])

\* One block of a category more, or less; None is no block.
More(b, c) == IF c = None THEN b ELSE [b EXCEPT ![c] = @ + 1]
Less(b, c) == [b EXCEPT ![c] = @ - 1]

LEMMA MoreLess ==
  ASSUME NEW b \in Balance, NEW c \in Categories
  PROVE  /\ More(b, c) \in Balance /\ Less(More(b, c), c) = b
         /\ \A d \in Categories : More(b, c)[d] = IF d = c THEN b[d] + 1 ELSE b[d]
<1>1. c # None
  BY MemoryTypes
<1>2. More(b, c) = [b EXCEPT ![c] = b[c] + 1] /\ b[c] \in Int
  BY <1>1 DEF More, Balance
<1>3. More(b, c) \in Balance
  BY <1>2 DEF Balance
<1>4. \A d \in Categories : More(b, c)[d] = IF d = c THEN b[d] + 1 ELSE b[d]
  BY <1>2 DEF Balance
<1>5. Less(More(b, c), c) = b
  <2> DEFINE e == More(b, c)
  <2>1. e \in Balance /\ \A d \in Categories : e[d] = IF d = c THEN b[d] + 1 ELSE b[d]
    BY <1>3, <1>4
  <2> HIDE DEF e
  <2>2. [e EXCEPT ![c] = @ - 1] \in Balance
    BY <2>1 DEF Balance
  <2>3. \A d \in Categories : [e EXCEPT ![c] = @ - 1][d] = b[d]
    BY <2>1 DEF Balance
  <2> QED
    BY <2>2, <2>3 DEF Balance, Less, e
<1> QED
  BY <1>3, <1>4, <1>5

LEMMA SlackType ==
  ASSUME NEW m \in MemoryType, NEW c \in Categories
  PROVE  /\ m.free[c] \in Nat /\ m.tx[c] \in Nat /\ Held(m.queue, c) \in Nat
         /\ BlockCount[c] \in Nat /\ Slack(m, c) \in Int
<1>1. m.free \in [Categories -> Nat] /\ m.tx \in [Categories -> Nat]
  BY DEF MemoryType
<1>2. m.free[c] \in Nat /\ m.tx[c] \in Nat /\ BlockCount[c] \in Nat
  BY <1>1, MemoryTypes
<1>3. Held(m.queue, c) \in Nat
  BY WaitingFinite
<1> QED
  BY <1>2, <1>3 DEF Slack

\* Failures, and blocks that are forgotten after one.
LEMMA FailsBalanced ==
  ASSUME NEW b \in Balance, NEW p, NEW m, Balanced(m, b, p)
  PROVE  Balanced(Fails(m), b, p) /\ Fails(m).error /\ Fails(m).halted = m.halted
         /\ Balanced(Halts(Fails(m)), b, p) /\ Halts(Fails(m)).error
         /\ (m.error => Balanced(Halts(m), b, p) /\ Halts(m).error)
<1>1. Fails(m) \in MemoryType /\ Halts(Fails(m)) \in MemoryType /\ Halts(m) \in MemoryType
  BY DEF Balanced, Fails, Halts, MemoryType
<1>2. m \in MemoryType
  BY DEF Balanced
<1> QED
  BY <1>1, <1>2 DEF Balanced, Fails, Halts, MemoryType, Slack

LEMMA Forgotten ==
  ASSUME NEW b \in Balance, NEW p, NEW m, NEW c \in Categories, Balanced(m, More(b, c), p), m.error
  PROVE  Balanced(m, b, p)
<1>1. \A d \in Categories : Slack(m, d) \in Int
  BY SlackType DEF Balanced
<1>2. \A d \in Categories : b[d] \in Int /\ More(b, c)[d] >= b[d]
  BY MoreLess DEF Balance
<1> QED
  BY <1>1, <1>2, MoreLess DEF Balanced, Balance

-----------------------------------------------------------------------------
(* Blocks and packet buffers.                                              *)

\* What an operation on blocks leaves alone.
Aside(a, m) ==
  /\ a.queue = m.queue /\ a.error = m.error /\ a.ok = m.ok
  /\ a.halted = m.halted /\ a.early = m.early

LEMMA FirstIn ==
  ASSUME NEW S, S \subseteq Nat, S # {}
  PROVE  First(S) \in S
<1>1. First(S) = Least(S)
  BY DEF First, Least
<1> QED
  BY <1>1, LeastIn

LEMMA Allocated ==
  ASSUME NEW b \in Balance, NEW p, NEW m, Balanced(m, b, p), NEW size
  PROVE  /\ Balanced(mem_alloc(m, size), More(b, mem_alloc(m, size).got), p)
         /\ mem_alloc(m, size).got \in Categories \union {None}
         /\ Aside(mem_alloc(m, size), m) /\ mem_alloc(m, size).slot = m.slot
<1>0. m \in MemoryType
  BY DEF Balanced
<1>1. CASE Fitting(m, size) = {}
  <2>1. mem_alloc(m, size) = [m EXCEPT !.got = None]
    BY <1>1 DEF mem_alloc
  <2>2. [m EXCEPT !.got = None] \in MemoryType
    BY <1>0 DEF MemoryType
  <2> QED
    BY <1>0, <2>1, <2>2 DEF Balanced, More, Slack, Aside, MemoryType
<1>2. CASE Fitting(m, size) # {}
  <2> DEFINE c == First(Fitting(m, size))
             a == [m EXCEPT !.free[c] = @ - 1, !.got = c]
  <2>1. mem_alloc(m, size) = a
    BY <1>2 DEF mem_alloc
  <2>2. c \in Categories /\ m.free[c] > 0
    <3>1. Fitting(m, size) \subseteq Nat
      BY MemoryTypes DEF Fitting
    <3>2. c \in Fitting(m, size)
      BY <1>2, <3>1, FirstIn
    <3> QED
      BY <3>2 DEF Fitting
  <2> HIDE DEF c
  <2>3. /\ a.free = [m.free EXCEPT ![c] = @ - 1] /\ a.got = c /\ a.tx = m.tx
        /\ a.pbuf = m.pbuf /\ a.slot = m.slot /\ Aside(a, m)
    BY <1>0 DEF MemoryType, Aside
  <2>4. a.free \in [Categories -> Nat]
    <3>1. m.free \in [Categories -> Nat] /\ m.free[c] - 1 \in Nat
      BY <1>0, <2>2, SlackType DEF MemoryType
    <3> QED
      BY <3>1, <2>2, <2>3
  <2>5. a \in MemoryType
    BY <1>0, <2>2, <2>4 DEF MemoryType
  <2>6. c # None
    BY <2>2, MemoryTypes
  <2> HIDE DEF a
  <2>7. ASSUME NEW d \in Categories
        PROVE  Slack(a, d) = IF d = c THEN Slack(m, d) + 1 ELSE Slack(m, d)
    <3>1. a.free[d] = IF d = c THEN m.free[d] - 1 ELSE m.free[d]
      BY <1>0, <2>2, <2>3 DEF MemoryType
    <3>2. a.tx[d] = m.tx[d] /\ Held(a.queue, d) = Held(m.queue, d)
      BY <2>3 DEF Aside
    <3> QED
      BY <1>0, <3>1, <3>2, SlackType DEF Slack
  <2>8. ASSUME NEW d \in Categories
        PROVE  /\ Slack(a, d) >= More(b, c)[d]
               /\ ~a.error => Slack(a, d) = More(b, c)[d]
    <3>1. b[d] \in Int /\ Slack(m, d) \in Int
      BY <1>0, SlackType DEF Balance
    <3>2. Slack(m, d) >= b[d] /\ (~m.error => Slack(m, d) = b[d])
      BY DEF Balanced
    <3>3. More(b, c)[d] = IF d = c THEN b[d] + 1 ELSE b[d]
      BY <2>2, MoreLess
    <3> QED
      BY <2>3, <2>7, <3>1, <3>2, <3>3 DEF Aside
  <2> QED
    BY <2>1, <2>2, <2>3, <2>5, <2>8 DEF Balanced, Aside
<1> QED
  BY <1>1, <1>2

LEMMA Freed ==
  ASSUME NEW b \in Balance, NEW p, NEW m, NEW c \in Categories, Balanced(m, More(b, c), p)
  PROVE  /\ Balanced(mem_free(m, c), b, p) /\ Aside(mem_free(m, c), m)
         /\ mem_free(m, c).slot = m.slot /\ mem_free(m, c).got = m.got
<1> DEFINE a == [m EXCEPT !.free[c] = @ + 1]
<1>0. m \in MemoryType
  BY DEF Balanced
<1>1. mem_free(m, c) = a
  BY DEF mem_free
<1>2. /\ a.free = [m.free EXCEPT ![c] = @ + 1] /\ a.tx = m.tx /\ a.pbuf = m.pbuf
      /\ a.slot = m.slot /\ a.got = m.got /\ Aside(a, m)
  BY <1>0 DEF MemoryType, Aside
<1>3. a \in MemoryType
  <2>1. [m.free EXCEPT ![c] = @ + 1] \in [Categories -> Nat]
    BY <1>0 DEF MemoryType
  <2> QED
    BY <1>0, <2>1 DEF MemoryType
<1> HIDE DEF a
<1>4. ASSUME NEW d \in Categories
      PROVE  Slack(a, d) = IF d = c THEN Slack(m, d) - 1 ELSE Slack(m, d)
  <2>1. a.free[d] = IF d = c THEN m.free[d] + 1 ELSE m.free[d]
    BY <1>0, <1>2 DEF MemoryType
  <2>2. a.tx[d] = m.tx[d] /\ Held(a.queue, d) = Held(m.queue, d)
    BY <1>2 DEF Aside
  <2> QED
    BY <1>0, <2>1, <2>2, SlackType DEF Slack
<1>5. ASSUME NEW d \in Categories
      PROVE  Slack(a, d) >= b[d] /\ (~a.error => Slack(a, d) = b[d])
  <2>1. b[d] \in Int /\ Slack(m, d) \in Int
    BY <1>0, SlackType DEF Balance
  <2>2. Slack(m, d) >= More(b, c)[d] /\ (~m.error => Slack(m, d) = More(b, c)[d])
    BY DEF Balanced
  <2>3. More(b, c)[d] = IF d = c THEN b[d] + 1 ELSE b[d]
    BY MoreLess
  <2> QED
    BY <1>2, <1>4, <2>1, <2>2, <2>3 DEF Aside
<1> QED
  BY <1>1, <1>2, <1>3, <1>5 DEF Balanced, Aside

PbufferType == [Pbuffers -> Categories \union {FreeSlot}]

LEMMA Repointed ==
  ASSUME NEW b \in Balance, NEW p, NEW m, Balanced(m, b, p),
         NEW q \in PbufferType, NEW i \in Pbuffers \union {None}
  PROVE  /\ p \in PbufferType
         /\ Balanced([m EXCEPT !.pbuf = q], b, q) /\ Aside([m EXCEPT !.pbuf = q], m)
         /\ Balanced([m EXCEPT !.slot = i], b, p) /\ Aside([m EXCEPT !.slot = i], m)
         /\ Balanced([m EXCEPT !.slot = i, !.pbuf = q], b, q)
         /\ Aside([m EXCEPT !.slot = i, !.pbuf = q], m)
<1>1. m \in MemoryType /\ m.pbuf = p
  BY DEF Balanced
<1>2. p \in PbufferType
  BY <1>1 DEF MemoryType, PbufferType
<1>3. /\ [m EXCEPT !.pbuf = q] \in MemoryType /\ [m EXCEPT !.slot = i] \in MemoryType
      /\ [m EXCEPT !.slot = i, !.pbuf = q] \in MemoryType
  BY <1>1 DEF MemoryType, PbufferType
<1>4. Balanced([m EXCEPT !.pbuf = q], b, q) /\ Aside([m EXCEPT !.pbuf = q], m)
  BY <1>1, <1>3 DEF Balanced, Slack, MemoryType, Aside
<1>5. Balanced([m EXCEPT !.slot = i], b, p) /\ Aside([m EXCEPT !.slot = i], m)
  BY <1>1, <1>3 DEF Balanced, Slack, MemoryType, Aside
<1>6. /\ Balanced([m EXCEPT !.slot = i, !.pbuf = q], b, q)
      /\ Aside([m EXCEPT !.slot = i, !.pbuf = q], m)
  BY <1>1, <1>3 DEF Balanced, Slack, MemoryType, Aside
<1> QED
  BY <1>2, <1>4, <1>5, <1>6

LEMMA PbufferAllocated ==
  ASSUME NEW b \in Balance, NEW p, NEW m, Balanced(m, b, p), NEW size,
         NEW a, a = pbuffer_allocate(m, size)
  PROVE  /\ Aside(a, m)
         /\ a.slot = None => Balanced(a, b, p)
         /\ a.slot # None =>
              /\ a.slot \in Pbuffers /\ p[a.slot] = FreeSlot /\ a.got \in Categories
              /\ Balanced(a, More(b, a.got), [p EXCEPT ![a.slot] = a.got])
<1>0. m \in MemoryType /\ m.pbuf = p /\ p \in PbufferType
  BY DEF Balanced, MemoryType, PbufferType
<1>1. CASE Unused(m) = {}
  <2>1. a = [m EXCEPT !.slot = None]
    BY <1>1 DEF pbuffer_allocate
  <2>2. a.slot = None
    BY <1>0, <2>1 DEF MemoryType
  <2>3. None \in Pbuffers \union {None}
    OBVIOUS
  <2>4. Balanced([m EXCEPT !.slot = None], b, p) /\ Aside([m EXCEPT !.slot = None], m)
    BY <1>0, <2>3, Repointed
  <2> QED
    BY <2>1, <2>2, <2>4
<1>2. CASE Unused(m) # {}
  <2> DEFINE n == mem_alloc(m, size)
             i == First(Unused(m))
             q == [n.pbuf EXCEPT ![i] = n.got]
  <2>1. a = IF n.got = None THEN [n EXCEPT !.slot = None]
            ELSE [n EXCEPT !.slot = i, !.pbuf[i] = n.got]
    BY <1>2 DEF pbuffer_allocate
  <2>2. i \in Pbuffers /\ p[i] = FreeSlot
    <3>1. Unused(m) \subseteq Nat
      BY MemoryTypes DEF Unused
    <3>2. i \in Unused(m)
      BY <1>2, <3>1, FirstIn
    <3> QED
      BY <1>0, <3>2 DEF Unused
  <2>3. /\ Balanced(n, More(b, n.got), p) /\ n.got \in Categories \union {None}
        /\ Aside(n, m)
    BY Allocated
  <2> HIDE DEF n, i
  <2>4. n \in MemoryType /\ n.pbuf = p
    BY <2>3 DEF Balanced
  <2>5. CASE n.got = None
    <3>1. a = [n EXCEPT !.slot = None] /\ Balanced(n, b, p)
      BY <2>1, <2>3, <2>5 DEF More
    <3>2. a.slot = None
      BY <3>1, <2>4 DEF MemoryType
    <3>3. None \in Pbuffers \union {None}
      OBVIOUS
    <3>4. Balanced([n EXCEPT !.slot = None], b, p) /\ Aside([n EXCEPT !.slot = None], n)
      BY <1>0, <3>1, <3>3, Repointed
    <3> QED
      BY <2>3, <3>1, <3>2, <3>4 DEF Aside
  <2>6. CASE n.got # None
    <3>1. n.got \in Categories /\ More(b, n.got) \in Balance
      BY <2>3, <2>6, MoreLess
    <3>2. q \in PbufferType /\ q = [p EXCEPT ![i] = n.got]
      BY <1>0, <2>2, <2>4, <3>1 DEF PbufferType
    <3>3. a = [n EXCEPT !.slot = i, !.pbuf = q]
      BY <2>1, <2>6
    <3> HIDE DEF q
    <3>4. a.slot = i /\ a.got = n.got /\ i # None
      BY <2>2, <2>4, <3>3, MemoryTypes DEF MemoryType
    <3>5. i \in Pbuffers \union {None} /\ q \in PbufferType
      BY <2>2, <3>2
    <3>6. /\ Balanced([n EXCEPT !.slot = i, !.pbuf = q], More(b, n.got), q)
          /\ Aside([n EXCEPT !.slot = i, !.pbuf = q], n)
      BY <2>3, <3>1, <3>5, Repointed
    <3> QED
      BY <2>2, <2>3, <3>1, <3>2, <3>3, <3>4, <3>6 DEF Aside
  <2> QED
    BY <2>5, <2>6
<1> QED
  BY <1>1, <1>2

\* A packet buffer is freed without its memory, or with it.
LEMMA PbufferFreed ==
  ASSUME NEW b \in Balance, NEW p, NEW m, NEW i \in Pbuffers
  PROVE  /\ Balanced(m, b, p) =>
              /\ Balanced(pbuffer_free(m, i, FALSE), b, [p EXCEPT ![i] = FreeSlot])
              /\ Aside(pbuffer_free(m, i, FALSE), m)
              /\ p[i] = FreeSlot =>
                   /\ Balanced(pbuffer_free(m, i, TRUE), b, [p EXCEPT ![i] = FreeSlot])
                   /\ Aside(pbuffer_free(m, i, TRUE), m)
         /\ p[i] \in Categories /\ Balanced(m, More(b, p[i]), p) =>
              /\ Balanced(pbuffer_free(m, i, TRUE), b, [p EXCEPT ![i] = FreeSlot])
              /\ Aside(pbuffer_free(m, i, TRUE), m)
<1>1. ASSUME NEW n, Balanced(n, b, p)
      PROVE  /\ Balanced([n EXCEPT !.pbuf[i] = FreeSlot], b, [p EXCEPT ![i] = FreeSlot])
             /\ Aside([n EXCEPT !.pbuf[i] = FreeSlot], n)
  <2>1. n.pbuf = p /\ p \in PbufferType
    BY <1>1 DEF Balanced, MemoryType, PbufferType
  <2>2. [p EXCEPT ![i] = FreeSlot] \in PbufferType
    BY <2>1 DEF PbufferType
  <2>3. [n EXCEPT !.pbuf[i] = FreeSlot] = [n EXCEPT !.pbuf = [p EXCEPT ![i] = FreeSlot]]
    BY <2>1
  <2> QED
    BY <1>1, <2>2, <2>3, Repointed
<1>2. pbuffer_free(m, i, FALSE) = [m EXCEPT !.pbuf[i] = FreeSlot]
  BY DEF pbuffer_free
<1>3. pbuffer_free(m, i, TRUE) = [mem_free(m, m.pbuf[i]) EXCEPT !.pbuf[i] = FreeSlot]
  BY DEF pbuffer_free
<1>4. ASSUME Balanced(m, b, p), p[i] = FreeSlot
      PROVE  pbuffer_free(m, i, TRUE) = [m EXCEPT !.pbuf[i] = FreeSlot]
  <2>1. m.pbuf[i] = FreeSlot /\ FreeSlot \notin Categories
    BY <1>4, MemoryTypes DEF Balanced
  <2> QED
    BY <1>3, <2>1 DEF mem_free
<1>5. ASSUME Balanced(m, More(b, p[i]), p), p[i] \in Categories
      PROVE  /\ Balanced(pbuffer_free(m, i, TRUE), b, [p EXCEPT ![i] = FreeSlot])
             /\ Aside(pbuffer_free(m, i, TRUE), m)
  <2> DEFINE n == mem_free(m, p[i])
  <2>1. m.pbuf[i] = p[i]
    BY <1>5 DEF Balanced
  <2>2. Balanced(n, b, p) /\ Aside(n, m)
    BY <1>5, Freed
  <2>3. pbuffer_free(m, i, TRUE) = [n EXCEPT !.pbuf[i] = FreeSlot]
    BY <1>3, <2>1
  <2> HIDE DEF n
  <2> QED
    BY <1>1, <2>2, <2>3 DEF Aside
<1> QED
  BY <1>1, <1>2, <1>4, <1>5
-----------------------------------------------------------------------------
(* Sending.                                                                *)

LEMMA Ipv6Sent ==
  ASSUME NEW b \in Balance, NEW p, NEW m, NEW i \in Pbuffers, p[i] \in Categories,
         Balanced(m, More(b, p[i]), p), NEW s \in ipv6_send(m, i)
  PROVE  Balanced(s, b, [p EXCEPT ![i] = FreeSlot]) /\ s.queue = m.queue
<1> DEFINE c == m.pbuf[i]
           n == [m EXCEPT !.ok = TRUE, !.tx[c] = @ + 1]
<1>0. m \in MemoryType /\ m.pbuf = p /\ c = p[i]
  BY DEF Balanced
<1>1. Balanced(Fails(m), b, p) /\ Fails(m).queue = m.queue
  <2>1. More(b, c) \in Balance
    BY <1>0, MoreLess
  <2>2. Balanced(Fails(m), More(b, p[i]), p) /\ Fails(m).error
    BY <1>0, <2>1, FailsBalanced
  <2>3. Balanced(Fails(m), b, p)
    BY <2>2, Forgotten
  <2>4. Fails(m).queue = m.queue
    BY <1>0 DEF Fails, MemoryType
  <2> QED
    BY <2>3, <2>4
<1>2. Balanced(n, b, p) /\ n.queue = m.queue
  <2>1. /\ n.tx = [m.tx EXCEPT ![c] = @ + 1] /\ n.free = m.free /\ n.pbuf = m.pbuf
        /\ n.queue = m.queue /\ n.ok = TRUE /\ n.error = m.error /\ n.early = m.early
        /\ n.halted = m.halted
    BY <1>0 DEF MemoryType
  <2>2. [m.tx EXCEPT ![c] = @ + 1] \in [Categories -> Nat]
    BY <1>0 DEF MemoryType
  <2>3. n \in MemoryType
    BY <1>0, <2>2 DEF MemoryType
  <2> HIDE DEF n
  <2>4. ASSUME NEW d \in Categories
        PROVE  Slack(n, d) >= b[d] /\ (~n.error => Slack(n, d) = b[d])
    <3>1. n.tx[d] = IF d = c THEN m.tx[d] + 1 ELSE m.tx[d]
      BY <1>0, <2>1 DEF MemoryType
    <3>2. n.free[d] = m.free[d] /\ Held(n.queue, d) = Held(m.queue, d)
      BY <2>1
    <3>3. Slack(n, d) = IF d = c THEN Slack(m, d) - 1 ELSE Slack(m, d)
      <4>1. /\ m.free[d] \in Nat /\ m.tx[d] \in Nat /\ Held(m.queue, d) \in Nat
            /\ BlockCount[d] \in Nat
        BY <1>0, SlackType
      <4> HIDE DEF c
      <4> QED
        BY <3>1, <3>2, <4>1 DEF Slack
    <3>4. b[d] \in Int /\ Slack(m, d) \in Int
      BY <1>0, SlackType DEF Balance
    <3>5. Slack(m, d) >= More(b, c)[d] /\ (~m.error => Slack(m, d) = More(b, c)[d])
      BY <1>0 DEF Balanced
    <3>6. More(b, c)[d] = IF d = c THEN b[d] + 1 ELSE b[d]
      BY <1>0, MoreLess
    <3> QED
      BY <2>1, <3>3, <3>4, <3>5, <3>6
  <2> QED
    BY <1>0, <2>1, <2>3, <2>4 DEF Balanced
<1>3. Balanced(mem_free(Fails(m), c), b, p) /\ mem_free(Fails(m), c).queue = m.queue
  <2>1. Balanced(Fails(m), More(b, c), p) /\ Fails(m).queue = m.queue
    <3>1. More(b, c) \in Balance
      BY <1>0, MoreLess
    <3> QED
      BY <1>0, <1>1, <3>1, FailsBalanced
  <2>2. Balanced(mem_free(Fails(m), c), b, p) /\ Aside(mem_free(Fails(m), c), Fails(m))
    BY <1>0, <2>1, Freed
  <2> QED
    BY <2>1, <2>2 DEF Aside
<1>4. PICK k \in {n, Fails(m), mem_free(Fails(m), c)} : s = pbuffer_free(k, i, FALSE)
  BY DEF ipv6_send
<1>5. Balanced(k, b, p) /\ k.queue = m.queue
  BY <1>1, <1>2, <1>3, <1>4
<1>6. /\ Balanced(pbuffer_free(k, i, FALSE), b, [p EXCEPT ![i] = FreeSlot])
      /\ Aside(pbuffer_free(k, i, FALSE), k)
  BY <1>5, PbufferFreed
<1> QED
  BY <1>4, <1>5, <1>6 DEF Aside

\* A packet is written: whatever becomes of it, its memory is not the caller's.
LEMMA Written ==
  ASSUME NEW b \in Balance, NEW p, NEW m, Balanced(m, b, p), NEW size,
         NEW s \in coap_transport_write(m, size)
  PROVE  Balanced(s, b, p) /\ s.queue = m.queue
<1> DEFINE a == pbuffer_allocate(m, size)
           q == [p EXCEPT ![a.slot] = a.got]
<1>0. p \in PbufferType
  BY DEF Balanced, MemoryType, PbufferType
<1>1. /\ Aside(a, m)
      /\ a.slot = None => Balanced(a, b, p)
      /\ a.slot # None =>
           /\ a.slot \in Pbuffers /\ p[a.slot] = FreeSlot /\ a.got \in Categories
           /\ Balanced(a, More(b, a.got), [p EXCEPT ![a.slot] = a.got])
  BY PbufferAllocated
<1>2. IF a.slot = None THEN s = Fails(a)
      ELSE \E t \in IF ifCount = 1 THEN ipv6_send(a, a.slot) ELSE {Fails(a)} :
             s = IF t.ok THEN t ELSE pbuffer_free(t, a.slot, TRUE)
  BY DEF coap_transport_write
<1> HIDE DEF a
<1>3. CASE a.slot = None
  <2>1. Balanced(Fails(a), b, p)
    BY <1>1, <1>3, FailsBalanced
  <2>2. Fails(a).queue = a.queue
    BY <1>1, <1>3 DEF Fails, Balanced, MemoryType
  <2> QED
    BY <1>1, <1>2, <1>3, <2>1, <2>2 DEF Aside
<1>4. CASE a.slot # None
  <2> DEFINE i == a.slot
  <2>1. i \in Pbuffers /\ p[i] = FreeSlot /\ a.got \in Categories
    BY <1>1, <1>4
  <2>2. q \in PbufferType /\ q[i] = a.got /\ [q EXCEPT ![i] = FreeSlot] = p
    BY <1>0, <2>1 DEF PbufferType
  <2>3. Balanced(a, More(b, q[i]), q) /\ More(b, q[i]) \in Balance
    BY <1>1, <1>4, <2>1, <2>2, MoreLess
  <2> HIDE DEF q
  <2>4. PICK t \in IF ifCount = 1 THEN ipv6_send(a, i) ELSE {Fails(a)} :
          s = IF t.ok THEN t ELSE pbuffer_free(t, i, TRUE)
    BY <1>2, <1>4
  <2> HIDE DEF i
  <2>5. CASE ifCount = 1
    <3>1. Balanced(t, b, p) /\ t.queue = a.queue
      BY <2>1, <2>2, <2>3, <2>4, <2>5, Ipv6Sent
    <3>2. Balanced(pbuffer_free(t, i, TRUE), b, [p EXCEPT ![i] = FreeSlot])
          /\ Aside(pbuffer_free(t, i, TRUE), t)
      BY <2>1, <3>1, PbufferFreed
    <3>3. [p EXCEPT ![i] = FreeSlot] = p
      BY <1>0, <2>1 DEF PbufferType
    <3> QED
      BY <1>1, <2>4, <3>1, <3>2, <3>3 DEF Aside
  <2>6. CASE ifCount # 1
    <3>1. t = Fails(a) /\ ~t.ok /\ t.queue = a.queue
      BY <2>3, <2>4, <2>6 DEF Fails, Balanced, MemoryType
    <3>2. Balanced(t, More(b, q[i]), q)
      BY <2>3, <3>1, FailsBalanced
    <3>3. /\ Balanced(pbuffer_free(t, i, TRUE), b, [q EXCEPT ![i] = FreeSlot])
          /\ Aside(pbuffer_free(t, i, TRUE), t)
      BY <2>1, <2>2, <3>2, PbufferFreed
    <3> QED
      BY <1>1, <2>2, <2>4, <3>1, <3>3 DEF Aside
  <2> QED
    BY <2>5, <2>6
<1> QED
  BY <1>3, <1>4

\* icmp6_send.
LEMMA Icmp6Sent ==
  ASSUME NEW b \in Balance, NEW p, NEW m, Balanced(m, b, p), NEW size,
         NEW s \in icmp6_send(m, size)
  PROVE  Balanced(s, b, p)
<1> DEFINE a == pbuffer_allocate(m, size)
           q == [p EXCEPT ![a.slot] = a.got]
<1>0. p \in PbufferType
  BY DEF Balanced, MemoryType, PbufferType
<1>1. /\ Aside(a, m)
      /\ a.slot = None => Balanced(a, b, p)
      /\ a.slot # None =>
           /\ a.slot \in Pbuffers /\ p[a.slot] = FreeSlot /\ a.got \in Categories
           /\ Balanced(a, More(b, a.got), [p EXCEPT ![a.slot] = a.got])
  BY PbufferAllocated
<1>2. IF a.slot = None THEN s = Fails(a) ELSE s \in ipv6_send(a, a.slot)
  BY DEF icmp6_send
<1> HIDE DEF a
<1>3. CASE a.slot = None
  BY <1>1, <1>2, <1>3, FailsBalanced
<1>4. CASE a.slot # None
  <2>1. a.slot \in Pbuffers /\ p[a.slot] = FreeSlot /\ a.got \in Categories
    BY <1>1, <1>4
  <2>2. q \in PbufferType /\ q[a.slot] = a.got /\ [q EXCEPT ![a.slot] = FreeSlot] = p
    BY <1>0, <2>1 DEF PbufferType
  <2>3. Balanced(a, More(b, q[a.slot]), q)
    BY <1>1, <1>4, <2>2
  <2> HIDE DEF q
  <2>4. Balanced(s, b, [q EXCEPT ![a.slot] = FreeSlot])
    BY <1>2, <1>4, <2>1, <2>2, <2>3, Ipv6Sent
  <2> QED
    BY <2>2, <2>4
<1> QED
  BY <1>3, <1>4

LEMMA Queued ==
  ASSUME NEW b \in Balance, NEW p, NEW m, NEW block \in Categories, NEW packet,
         <<block, packet>> \in Items, Balanced(m, More(b, block), p)
  PROVE  Balanced(coap_queue_add(m, block, packet), b, p)
<1> DEFINE i == <<block, packet>>
<1>0. m \in MemoryType /\ m.queue \in QueueType /\ Length(m.queue) <= QueueSize
  BY DEF Balanced, MemoryType
<1>1. CASE Length(m.queue) = QueueSize
  <2>1. coap_queue_add(m, block, packet) = Fails(m)
    BY <1>1 DEF coap_queue_add
  <2>2. More(b, block) \in Balance
    BY MoreLess
  <2>3. Balanced(Fails(m), More(b, block), p) /\ Fails(m).error
    BY <2>2, FailsBalanced
  <2> QED
    BY <2>1, <2>3, Forgotten
<1>2. CASE Length(m.queue) # QueueSize
  <2> DEFINE r == [m.queue EXCEPT ![i] = @ + 1]
             n == [m EXCEPT !.queue = r]
  <2>1. coap_queue_add(m, block, packet) = n
    BY <1>0, <1>2 DEF coap_queue_add
  <2>2. Length(m.queue) < QueueSize
    BY <1>0, <1>2, WaitingFinite, MemoryTypes
  <2>3. m.queue[i] < QueueSize
    BY <1>0, <2>2, RoomForItem
  <2>4. r \in QueueType
    BY <1>0, <2>3, MemoryTypes DEF QueueType
  <2>5. /\ Length(r) = Length(m.queue) + 1
        /\ \A c : Held(r, c) = IF c = block THEN Held(m.queue, c) + 1 ELSE Held(m.queue, c)
    <3>1. i[1] = block
      OBVIOUS
    <3> QED
      BY <1>0, <2>4, <3>1, OneItem
  <2> HIDE DEF i, r
  <2>6. n \in MemoryType
    BY <1>0, <2>4 DEF MemoryType
  <2>7. /\ n.queue = r /\ n.free = m.free /\ n.tx = m.tx /\ n.pbuf = m.pbuf /\ n.ok = m.ok
        /\ n.error = m.error /\ n.early = m.early /\ n.halted = m.halted
    BY <1>0 DEF MemoryType
  <2> HIDE DEF n
  <2>8. ASSUME NEW d \in Categories
        PROVE  Slack(n, d) >= b[d] /\ (~n.error => Slack(n, d) = b[d])
    <3>1. Held(n.queue, d) = IF d = block THEN Held(m.queue, d) + 1 ELSE Held(m.queue, d)
      BY <2>5, <2>7
    <3>2. n.free[d] = m.free[d] /\ n.tx[d] = m.tx[d]
      BY <2>7
    <3>3. /\ m.free[d] \in Nat /\ m.tx[d] \in Nat /\ Held(m.queue, d) \in Nat
          /\ BlockCount[d] \in Nat
      BY <1>0, SlackType
    <3>4. Slack(n, d) = IF d = block THEN Slack(m, d) - 1 ELSE Slack(m, d)
      BY <3>1, <3>2, <3>3 DEF Slack
    <3>5. b[d] \in Int /\ Slack(m, d) \in Int
      BY <1>0, SlackType DEF Balance
    <3>6. Slack(m, d) >= More(b, block)[d] /\ (~m.error => Slack(m, d) = More(b, block)[d])
      BY DEF Balanced
    <3>7. More(b, block)[d] = IF d = block THEN b[d] + 1 ELSE b[d]
      BY MoreLess
    <3> QED
      BY <2>7, <3>4, <3>5, <3>6, <3>7
  <2>9. Length(n.queue) <= QueueSize
    BY <2>2, <2>5, <2>7, WaitingFinite, MemoryTypes
  <2> QED
    BY <2>1, <2>6, <2>7, <2>8, <2>9 DEF Balanced
<1> QED
  BY <1>1, <1>2

\* An encoding, whose message may be queued.
Encoding(e, queued) ==
  /\ e \in Encodings \union {Brief}
  /\ queued \in BOOLEAN /\ (queued => e \in Encodings)

LEMMA MessageSent ==
  ASSUME NEW b \in Balance, NEW p, NEW m, Balanced(m, b, p), NEW e, NEW queued,
         Encoding(e, queued), NEW s \in internal_coap_message_send(m, e, queued)
  PROVE  Balanced(s, b, p) /\ (~queued => s.queue = m.queue)
<1> DEFINE a == mem_alloc(m, e[1])
<1>1. /\ Balanced(a, More(b, a.got), p) /\ a.got \in Categories \union {None} /\ Aside(a, m)
  BY Allocated
<1>2. IF a.got = None THEN s = Fails(a)
      ELSE \E w \in coap_transport_write(a, e[2]) :
             s = CASE ~w.ok            -> w
                   [] w.ok /\ queued   -> coap_queue_add(w, a.got, e[2])
                   [] w.ok /\ ~queued  -> mem_free(w, a.got)
  BY DEF internal_coap_message_send
<1> HIDE DEF a
<1>3. CASE a.got = None
  <2>1. Balanced(a, b, p)
    BY <1>1, <1>3 DEF More
  <2>2. Fails(a).queue = a.queue
    BY <2>1 DEF Fails, Balanced, MemoryType
  <2> QED
    BY <1>1, <1>2, <1>3, <2>1, <2>2, FailsBalanced DEF Aside
<1>4. CASE a.got # None
  <2> DEFINE c == a.got
  <2>1. c \in Categories /\ More(b, c) \in Balance
    BY <1>1, <1>4, MoreLess
  <2>2. PICK w \in coap_transport_write(a, e[2]) :
          s = CASE ~w.ok            -> w
                [] w.ok /\ queued   -> coap_queue_add(w, c, e[2])
                [] w.ok /\ ~queued  -> mem_free(w, c)
    BY <1>2, <1>4
  <2> HIDE DEF c
  <2>3. Balanced(a, More(b, c), p)
    BY <1>1 DEF c
  <2>4. Balanced(w, More(b, c), p) /\ w.queue = a.queue
    BY <2>1, <2>3, Written
  <2>5. w.ok \in BOOLEAN /\ queued \in BOOLEAN /\ (~w.ok => w.error)
    BY <2>4 DEF Balanced, MemoryType, Encoding
  <2>6. CASE ~w.ok
    <3>1. s = w
      BY <2>2, <2>6
    <3> QED
      BY <1>1, <2>1, <2>4, <2>5, <2>6, <3>1, Forgotten DEF Aside
  <2>7. CASE w.ok /\ queued
    <3>1. s = coap_queue_add(w, c, e[2])
      BY <2>2, <2>7
    <3>2. <<c, e[2]>> \in Items
      BY <2>1, <2>7 DEF Encoding, Items
    <3> QED
      BY <2>1, <2>4, <2>7, <3>1, <3>2, Queued
  <2>8. CASE w.ok /\ ~queued
    <3>1. s = mem_free(w, c)
      BY <2>2, <2>8
    <3> QED
      BY <1>1, <2>1, <2>4, <3>1, Freed DEF Aside
  <2> QED
    BY <2>5, <2>6, <2>7, <2>8
<1> QED
  BY <1>3, <1>4

LEMMA Acknowledged ==
  ASSUME NEW b \in Balance, NEW p, NEW m, Balanced(m, b, p), NEW s \in Acknowledge(m)
  PROVE  Balanced(s, b, p) /\ s.queue = m.queue
<1>1. PICK queued : queued = FALSE
  OBVIOUS
<1>2. s \in internal_coap_message_send(m, Brief, queued) /\ Encoding(Brief, queued)
  BY <1>1 DEF Acknowledge, Encoding
<1>3. Balanced(s, b, p) /\ (~queued => s.queue = m.queue)
  BY <1>2, MessageSent
<1> QED
  BY <1>1, <1>3

LEMMA CoapMessageSent ==
  ASSUME NEW b \in Balance, NEW p, NEW m, Balanced(m, b, p), NEW e, NEW queued,
         NEW skips \in BOOLEAN,
         Encoding(e, queued), NEW s \in coap_message(m, e, queued, skips)
  PROVE  Balanced(s, b, p)
<1>a. PICK struct : struct = mem_alloc(m, Small)
  OBVIOUS
<1>b. PICK data : data = mem_alloc(struct, Medium)
  OBVIOUS
<1>1. Balanced(struct, More(b, struct.got), p) /\ struct.got \in Categories \union {None}
  BY <1>a, Allocated
<1> DEFINE x == struct.got
           y == data.got
           b1 == More(b, x)
           b2 == More(b1, y)
<1>3. b1 \in Balance
  BY <1>1, MoreLess DEF More
<1> HIDE DEF b1
<1>4. Balanced(data, b2, p) /\ y \in Categories \union {None}
  BY <1>b, <1>1, <1>3, Allocated DEF b1
<1>5. b2 \in Balance
  BY <1>3, <1>4, MoreLess DEF More
<1>6. \A n : n.error /\ Balanced(n, b2, p) => Balanced(n, b, p)
  <2> SUFFICES ASSUME NEW n, n.error, Balanced(n, b2, p) PROVE Balanced(n, b, p)
    OBVIOUS
  <2>1. Balanced(n, b1, p)
    BY <1>3, <1>4, Forgotten DEF More
  <2> QED
    BY <1>1, <2>1, Forgotten DEF b1, More
<1> HIDE DEF b2
<1>7. CASE struct.got = None \/ data.got = None
  <2>1. s = Halts(Fails(m))
    BY <1>a, <1>b, <1>7 DEF coap_message
  <2> QED
    BY <2>1, FailsBalanced
<1>8. CASE ~(struct.got = None \/ data.got = None)
  <2>1. PICK sent \in internal_coap_message_send([data EXCEPT !.ok = TRUE], e, queued) :
          s = IF sent.ok \/ skips THEN mem_free(mem_free(sent, y), x) ELSE Halts(sent)
    BY <1>a, <1>b, <1>8 DEF coap_message
  <2>2. Balanced([data EXCEPT !.ok = TRUE], b2, p)
    <3>1. [data EXCEPT !.ok = TRUE] \in MemoryType
      BY <1>4 DEF Balanced, MemoryType
    <3> QED
      BY <1>4, <3>1 DEF Balanced, MemoryType, Slack
  <2>3. Balanced(sent, b2, p)
    BY <1>5, <2>1, <2>2, MessageSent
  <2>4. x \in Categories /\ y \in Categories
    BY <1>1, <1>4, <1>8
  <2> HIDE DEF x, y
  <2>5. CASE sent.ok \/ skips
    <3>1. Balanced(mem_free(sent, y), b1, p)
      BY <1>3, <2>3, <2>4, Freed DEF b2
    <3>2. Balanced(mem_free(mem_free(sent, y), x), b, p)
      BY <2>4, <3>1, Freed DEF b1
    <3> QED
      BY <2>1, <2>5, <3>2
  <2>6. CASE ~(sent.ok \/ skips)
    <3>1. s = Halts(sent) /\ sent.error
      BY <2>1, <2>3, <2>6 DEF Balanced
    <3>2. Balanced(s, b2, p) /\ s.error
      BY <1>5, <2>3, <3>1, FailsBalanced
    <3> QED
      BY <1>6, <3>2
  <2> QED
    BY <2>5, <2>6
<1> QED
  BY <1>7, <1>8

-----------------------------------------------------------------------------
(* Handlers that send or free once for each element of a sequence.         *)

LEMMA MessagesType ==
  ASSUME NEW messages \in Messages
  PROVE  Len(messages) \in Nat /\ \A n \in 1..Len(messages) : messages[n] \in Encodings
<1>1. PICK n \in Nat : messages \in [1..n -> Encodings]
  BY MemoryTypes DEF Messages
<1>2. messages \in Seq(Encodings)
  BY <1>1, SeqDef
<1> QED
  BY <1>2, LenProperties, ElementOfSeq

\* The messages up to the n-th one more are sent, from any of the memories all.
SendNext(messages, con, n, all) ==
  UNION {IF m.halted THEN {m} ELSE coap_message(m, messages[n], con, FALSE) : m \in all}

\* The recursive definition in notify has a solution.
LEMMA NotifyDefined ==
  ASSUME NEW outcomes, NEW messages, NEW con, NEW N \in Nat
  PROVE  \E after : after = [n \in 0..N |->
           IF n = 0 THEN outcomes ELSE SendNext(messages, con, n, after[n - 1])]
<1> DEFINE Good == {k \in 0..N : \E f : f = [n \in 0..k |->
                      IF n = 0 THEN outcomes ELSE SendNext(messages, con, n, f[n - 1])]}
<1> SUFFICES N \in Good
  OBVIOUS
<1>1. 0 \in Good
  <2> DEFINE f == [n \in 0..0 |-> outcomes]
  <2>1. f = [n \in 0..0 |-> IF n = 0 THEN outcomes ELSE SendNext(messages, con, n, f[n - 1])]
    OBVIOUS
  <2> HIDE DEF f
  <2>2. \E g : g = [n \in 0..0 |->
                IF n = 0 THEN outcomes ELSE SendNext(messages, con, n, g[n - 1])]
    BY <2>1
  <2> QED
    BY <2>2
<1>2. ASSUME NEW k \in 0..N, k \in Good, k < N
      PROVE  k + 1 \in Good
  <2>1. PICK f : f = [n \in 0..k |->
                   IF n = 0 THEN outcomes ELSE SendNext(messages, con, n, f[n - 1])]
    BY <1>2
  <2> DEFINE g == [n \in 0..(k + 1) |->
                   IF n = k + 1 THEN SendNext(messages, con, n, f[k]) ELSE f[n]]
  <2>2. ASSUME NEW n \in 0..(k + 1)
        PROVE  g[n] = IF n = 0 THEN outcomes ELSE SendNext(messages, con, n, g[n - 1])
    <3>1. CASE n = k + 1
      BY <3>1
    <3>2. CASE n # k + 1
      <4>1. n \in 0..k /\ g[n] = f[n] /\ (n # 0 => g[n - 1] = f[n - 1])
        BY <3>2
      <4>2. f[n] = IF n = 0 THEN outcomes ELSE SendNext(messages, con, n, f[n - 1])
        BY <2>1, <4>1
      <4> HIDE DEF g
      <4> QED
        BY <4>1, <4>2
    <3> QED
      BY <3>1, <3>2
  <2>3. g = [n \in 0..(k + 1) |-> g[n]]
    OBVIOUS
  <2> HIDE DEF g
  <2>4. g = [n \in 0..(k + 1) |->
               IF n = 0 THEN outcomes ELSE SendNext(messages, con, n, g[n - 1])]
    BY <2>2, <2>3
  <2>5. k + 1 \in 0..N
    BY <1>2
  <2> QED
    BY <2>4, <2>5
<1> HIDE DEF Good
<1>3. 0..N \subseteq Good
  BY <1>1, <1>2, UpTo
<1> QED
  BY <1>3

LEMMA NotifyUnfolded ==
  ASSUME NEW outcomes, NEW messages \in Messages, NEW con
  PROVE  \E after :
           /\ notify(outcomes, messages, con) = after[Len(messages)]
           /\ after[0] = outcomes
           /\ \A n \in 1..Len(messages) :
                after[n] = SendNext(messages, con, n, after[n - 1])
<1> DEFINE N == Len(messages)
           after[n \in 0..N] ==
             IF n = 0 THEN outcomes ELSE SendNext(messages, con, n, after[n - 1])
<1>1. N \in Nat
  BY MessagesType
<1>2. notify(outcomes, messages, con) = after[N]
  BY DEF notify, SendNext
<1> HIDE DEF N
<1>3. after = [n \in 0..N |->
                 IF n = 0 THEN outcomes ELSE SendNext(messages, con, n, after[n - 1])]
  BY <1>1, NotifyDefined
<1> HIDE DEF after
<1>4. after[0] = outcomes
  BY <1>1, <1>3
<1>5. ASSUME NEW n \in 1..N
      PROVE  after[n] = SendNext(messages, con, n, after[n - 1])
  <2>1. n \in 0..N /\ n # 0
    BY <1>1
  <2> QED
    BY <1>3, <2>1
<1> QED
  BY <1>2, <1>4, <1>5 DEF N

LEMMA Notified ==
  ASSUME NEW b \in Balance, NEW p, NEW outcomes, \A m \in outcomes : Balanced(m, b, p),
         NEW messages \in Messages, NEW con \in BOOLEAN,
         NEW s \in notify(outcomes, messages, con)
  PROVE  Balanced(s, b, p)
<1> DEFINE N == Len(messages)
<1>1. N \in Nat /\ \A n \in 1..N : messages[n] \in Encodings
  BY MessagesType
<1>2. PICK after :
        /\ notify(outcomes, messages, con) = after[N]
        /\ after[0] = outcomes
        /\ \A n \in 1..N : after[n] = SendNext(messages, con, n, after[n - 1])
  BY NotifyUnfolded
<1> HIDE DEF N
<1> DEFINE Good == {n \in 0..N : \A m \in after[n] : Balanced(m, b, p)}
<1>3. 0 \in Good
  BY <1>1, <1>2
<1>4. ASSUME NEW k \in 0..N, k \in Good, k < N
      PROVE  k + 1 \in Good
  <2>1. k + 1 \in 0..N /\ k + 1 - 1 = k /\ k + 1 \in 1..N
    BY <1>1, <1>4
  <2>2. after[k + 1] = SendNext(messages, con, k + 1, after[k])
    BY <1>2, <2>1
  <2>3. Encoding(messages[k + 1], con)
    BY <1>1, <2>1 DEF Encoding
  <2>4. ASSUME NEW t \in after[k + 1]
        PROVE  Balanced(t, b, p)
    <3>1. PICK m \in after[k] :
            t \in IF m.halted THEN {m} ELSE coap_message(m, messages[k + 1], con, FALSE)
      BY <2>2 DEF SendNext
    <3>2. Balanced(m, b, p)
      BY <1>4, <3>1
    <3> QED
      BY <2>3, <3>1, <3>2, CoapMessageSent
  <2> QED
    BY <2>1, <2>4
<1> HIDE DEF Good
<1>5. 0..N \subseteq Good
  BY <1>1, <1>3, <1>4, UpTo
<1>6. N \in Good
  BY <1>1, <1>5
<1> QED
  BY <1>2, <1>6 DEF Good

LEMMA ErrorResponded ==
  ASSUME NEW b \in Balance, NEW p, NEW m, Balanced(m, b, p), NEW s \in error_response(m)
  PROVE  Balanced(s, b, p)
<1>a. PICK struct : struct = mem_alloc(m, Small)
  OBVIOUS
<1>b. PICK data : data = IF struct.got = None THEN struct ELSE mem_alloc(struct, Medium)
  OBVIOUS
<1>1. Balanced(struct, More(b, struct.got), p) /\ struct.got \in Categories \union {None}
  BY <1>a, Allocated
<1> DEFINE x == struct.got
           y == data.got
           b1 == More(b, x)
           b2 == IF x = None THEN b ELSE More(b1, y)
<1>2. b1 \in Balance
  BY <1>1, MoreLess DEF More
<1> HIDE DEF b1
<1>3. Balanced(data, b2, p) /\ y \in Categories \union {None}
  <2>1. CASE x = None
    BY <1>b, <1>1, <2>1 DEF b1, More
  <2>2. CASE x # None
    BY <1>b, <1>1, <1>2, <2>2, Allocated DEF b1
  <2> QED
    BY <2>1, <2>2
<1>4. b2 \in Balance
  BY <1>2, <1>3, MoreLess DEF More
<1>5. CASE x = None \/ y = None
  <2> DEFINE f == Fails(data)
  <2>1. s = [f EXCEPT !.early = TRUE]
    BY <1>a, <1>b, <1>5 DEF error_response
  <2>2. Balanced(f, b2, p) /\ f.error
    BY <1>3, <1>4, FailsBalanced
  <2> HIDE DEF f
  <2>3. Balanced(s, b2, p) /\ s.error
    <3>1. s \in MemoryType
      BY <2>1, <2>2 DEF Balanced, MemoryType
    <3> QED
      BY <2>1, <2>2, <3>1 DEF Balanced, MemoryType, Slack
  <2>4. CASE x = None
    BY <2>3, <2>4
  <2>5. CASE x # None
    <3>1. x \in Categories /\ y = None
      BY <1>1, <1>5, <2>5
    <3>2. b2 = More(b, x)
      BY <2>5, <3>1 DEF b1, More
    <3> QED
      BY <2>3, <3>1, <3>2, Forgotten
  <2> QED
    BY <2>4, <2>5
<1>6. CASE ~(x = None \/ y = None)
  <2>1. PICK sent \in internal_coap_message_send(data, Brief, FALSE) :
          s = mem_free(mem_free(sent, y), x)
    BY <1>a, <1>b, <1>6 DEF error_response
  <2>2. Encoding(Brief, FALSE)
    BY DEF Encoding
  <2>3. Balanced(sent, b2, p)
    BY <1>3, <1>4, <2>1, <2>2, MessageSent
  <2>4. x \in Categories /\ y \in Categories /\ b2 = More(b1, y)
    BY <1>1, <1>3, <1>6
  <2> HIDE DEF x, y, b2
  <2>5. Balanced(mem_free(sent, y), b1, p)
    BY <1>2, <2>3, <2>4, Freed
  <2> QED
    BY <2>1, <2>4, <2>5, Freed DEF b1
<1> QED
  BY <1>5, <1>6

\* The item's block returns as the item goes.
LEMMA AnsweredBalanced ==
  ASSUME NEW b \in Balance, NEW p, NEW m, Balanced(m, b, p), NEW i \in Items, m.queue[i] > 0
  PROVE  /\ Balanced(Answered(m, i), b, p)
         /\ Answered(m, i).queue = [m.queue EXCEPT ![i] = @ - 1]
<1> DEFINE c == i[1]
           r == [m.queue EXCEPT ![i] = @ - 1]
           f == [m.free EXCEPT ![c] = @ + 1]
           n == [m EXCEPT !.free = f, !.queue = r]
<1>0. m \in MemoryType /\ m.queue \in QueueType /\ Length(m.queue) <= QueueSize
  BY DEF Balanced, MemoryType
<1>1. c \in Categories
  BY MemoryTypes
<1> HIDE DEF c
<1>2. Answered(m, i) = n
  <2>1. mem_free(m, c) = [m EXCEPT !.free = f]
    BY <1>1 DEF mem_free
  <2>2. Answered(m, i) = [[m EXCEPT !.free = f] EXCEPT !.queue[i] = @ - 1]
    BY <2>1 DEF Answered, c
  <2> HIDE DEF f
  <2> QED
    BY <1>0, <2>2 DEF MemoryType
<1>3. r \in QueueType
  BY <1>0, MemoryTypes DEF QueueType
<1>4. /\ Length(m.queue) = Length(r) + 1
      /\ \A d : Held(m.queue, d) = IF d = c THEN Held(r, d) + 1 ELSE Held(r, d)
  <2>1. m.queue = [r EXCEPT ![i] = @ + 1]
    <3>1. m.queue[i] \in Int
      BY <1>0, MemoryTypes DEF QueueType
    <3> QED
      BY <1>0, <3>1 DEF QueueType
  <2> HIDE DEF r
  <2> QED
    BY <1>0, <1>3, <2>1, OneItem DEF c
<1>5. f \in [Categories -> Nat]
  BY <1>0, <1>1 DEF MemoryType
<1> HIDE DEF f, r
<1>6. n \in MemoryType
  BY <1>0, <1>3, <1>5 DEF MemoryType
<1>7. /\ n.queue = r /\ n.free = f /\ n.tx = m.tx /\ n.pbuf = m.pbuf /\ n.ok = m.ok
      /\ n.error = m.error /\ n.early = m.early /\ n.halted = m.halted
  BY <1>0 DEF MemoryType
<1> HIDE DEF n
<1>8. ASSUME NEW d \in Categories
      PROVE  Slack(n, d) = Slack(m, d)
  <2>1. Held(m.queue, d) = IF d = c THEN Held(n.queue, d) + 1 ELSE Held(n.queue, d)
    BY <1>4, <1>7
  <2>2. n.free[d] = (IF d = c THEN m.free[d] + 1 ELSE m.free[d]) /\ n.tx[d] = m.tx[d]
    BY <1>0, <1>7 DEF f, MemoryType
  <2>3. /\ m.free[d] \in Nat /\ m.tx[d] \in Nat /\ Held(m.queue, d) \in Nat
        /\ BlockCount[d] \in Nat /\ Held(n.queue, d) \in Nat
    BY <1>0, SlackType, WaitingFinite
  <2> QED
    BY <2>1, <2>2, <2>3 DEF Slack
<1>9. Length(n.queue) <= QueueSize
  BY <1>0, <1>4, <1>7, WaitingFinite, MemoryTypes
<1> QED
  BY <1>0, <1>2, <1>6, <1>7, <1>8, <1>9 DEF Balanced, r

-----------------------------------------------------------------------------
(* The items that are due at a tick, one after the other.                  *)

Abandon(due, n, all) ==
  {Answered(w, due[n]) : w \in UNION {coap_transport_write(m, due[n][2]) : m \in all}}

LEMMA TimeTickDefined ==
  ASSUME NEW start, NEW due, NEW N \in Nat
  PROVE  \E after : after = [n \in 0..N |->
           IF n = 0 THEN start ELSE Abandon(due, n, after[n - 1])]
<1> DEFINE Good == {k \in 0..N : \E f : f = [n \in 0..k |->
                      IF n = 0 THEN start ELSE Abandon(due, n, f[n - 1])]}
<1> SUFFICES N \in Good
  OBVIOUS
<1>1. 0 \in Good
  <2> DEFINE f == [n \in 0..0 |-> start]
  <2>1. f = [n \in 0..0 |-> IF n = 0 THEN start ELSE Abandon(due, n, f[n - 1])]
    OBVIOUS
  <2> HIDE DEF f
  <2>2. \E g : g = [n \in 0..0 |-> IF n = 0 THEN start ELSE Abandon(due, n, g[n - 1])]
    BY <2>1
  <2> QED
    BY <2>2
<1>2. ASSUME NEW k \in 0..N, k \in Good, k < N
      PROVE  k + 1 \in Good
  <2>1. PICK f : f = [n \in 0..k |-> IF n = 0 THEN start ELSE Abandon(due, n, f[n - 1])]
    BY <1>2
  <2> DEFINE g == [n \in 0..(k + 1) |-> IF n = k + 1 THEN Abandon(due, n, f[k]) ELSE f[n]]
  <2>2. ASSUME NEW n \in 0..(k + 1)
        PROVE  g[n] = IF n = 0 THEN start ELSE Abandon(due, n, g[n - 1])
    <3>1. CASE n = k + 1
      BY <3>1
    <3>2. CASE n # k + 1
      <4>1. n \in 0..k /\ g[n] = f[n] /\ (n # 0 => g[n - 1] = f[n - 1])
        BY <3>2
      <4>2. f[n] = IF n = 0 THEN start ELSE Abandon(due, n, f[n - 1])
        BY <2>1, <4>1
      <4> HIDE DEF g
      <4> QED
        BY <4>1, <4>2
    <3> QED
      BY <3>1, <3>2
  <2>3. g = [n \in 0..(k + 1) |-> g[n]]
    OBVIOUS
  <2> HIDE DEF g
  <2>4. g = [n \in 0..(k + 1) |-> IF n = 0 THEN start ELSE Abandon(due, n, g[n - 1])]
    BY <2>2, <2>3
  <2>5. k + 1 \in 0..N
    BY <1>2
  <2> QED
    BY <2>4, <2>5
<1> HIDE DEF Good
<1>3. 0..N \subseteq Good
  BY <1>1, <1>2, UpTo
<1> QED
  BY <1>3

LEMMA TimeTickUnfolded ==
  ASSUME NEW due, Len(due) \in Nat
  PROVE  \E after :
           /\ coap_time_tick(due) = after[Len(due)]
           /\ after[0] = {Memory}
           /\ \A n \in 1..Len(due) : after[n] = Abandon(due, n, after[n - 1])
<1>a. PICK start : start = {Memory}
  OBVIOUS
<1> DEFINE N == Len(due)
           after[n \in 0..N] == IF n = 0 THEN start ELSE Abandon(due, n, after[n - 1])
<1>0. N \in Nat
  OBVIOUS
<1>1. coap_time_tick(due) = after[N]
  BY <1>a DEF coap_time_tick, Abandon
<1> HIDE DEF N
<1>2. after = [n \in 0..N |-> IF n = 0 THEN start ELSE Abandon(due, n, after[n - 1])]
  BY <1>0, TimeTickDefined
<1> HIDE DEF after
<1>3. after[0] = {Memory}
  BY <1>a, <1>0, <1>2
<1>4. ASSUME NEW n \in 1..N
      PROVE  after[n] = Abandon(due, n, after[n - 1])
  <2>1. n \in 0..N /\ n # 0
    BY <1>0
  <2> QED
    BY <1>2, <2>1
<1> QED
  BY <1>1, <1>3, <1>4 DEF N

\* How many of the items i are still to come from the n-th on.
Coming(due, i, n) == Cardinality({k \in n..Len(due) : due[k] = i})

LEMMA ComingNext ==
  ASSUME NEW due, Len(due) \in Nat, NEW i, NEW n \in 1..Len(due)
  PROVE  /\ Coming(due, i, n) \in Nat /\ Coming(due, i, n + 1) \in Nat
         /\ Coming(due, i, n) =
              IF due[n] = i THEN Coming(due, i, n + 1) + 1 ELSE Coming(due, i, n + 1)
<1> DEFINE S == {k \in n..Len(due) : due[k] = i}
           T == {k \in (n + 1)..Len(due) : due[k] = i}
<1>1. IsFiniteSet(n..Len(due)) /\ IsFiniteSet((n + 1)..Len(due))
  BY FS_Interval
<1>2. S \in SUBSET (n..Len(due)) /\ T \in SUBSET ((n + 1)..Len(due))
  OBVIOUS
<1>3. IsFiniteSet(S) /\ IsFiniteSet(T)
  BY <1>1, <1>2, FS_Subset
<1>4. Cardinality(S) \in Nat /\ Cardinality(T) \in Nat
  BY <1>3, FS_CardinalityType
<1>5. n \notin T /\ S = IF due[n] = i THEN T \union {n} ELSE T
  OBVIOUS
<1> HIDE DEF S, T
<1>6. Cardinality(T \union {n}) = Cardinality(T) + 1
  BY <1>3, <1>5, FS_AddElement
<1>7. Coming(due, i, n) = Cardinality(S) /\ Coming(due, i, n + 1) = Cardinality(T)
  BY DEF Coming, S, T
<1> QED
  BY <1>4, <1>5, <1>6, <1>7

LEMMA TimeTicked ==
  ASSUME NEW b \in Balance, NEW p, Balanced(Memory, b, p), NEW due \in Dues,
         NEW s \in coap_time_tick(due)
  PROVE  Balanced(s, b, p)
<1> DEFINE N == Len(due)
<1>1. /\ N \in Nat /\ \A n \in 1..N : due[n] \in Items
      /\ \A i \in Items : Coming(due, i, 1) <= queue[i]
  <2>1. PICK n \in Nat : due \in [1..n -> Items]
    BY MemoryTypes DEF Dues
  <2>2. due \in Seq(Items)
    BY <2>1, SeqDef
  <2>3. N \in Nat /\ DOMAIN due = 1..N /\ \A k \in 1..N : due[k] \in Items
    BY <2>2, LenProperties, ElementOfSeq
  <2>4. \A i \in Items : Cardinality({k \in DOMAIN due : due[k] = i}) <= queue[i]
    BY DEF Dues
  <2> QED
    BY <2>3, <2>4 DEF Coming
<1>2. PICK after :
        /\ coap_time_tick(due) = after[N]
        /\ after[0] = {Memory}
        /\ \A n \in 1..N : after[n] = Abandon(due, n, after[n - 1])
  BY <1>1, TimeTickUnfolded
<1> DEFINE Good == {n \in 0..N : \A m \in after[n] :
                      /\ Balanced(m, b, p)
                      /\ \A i \in Items : Coming(due, i, n + 1) <= m.queue[i]}
<1>3. 0 \in Good
  <2>1. Memory.queue = queue /\ 0 + 1 = 1 /\ 0 \in 0..N
    BY <1>1 DEF Memory
  <2> HIDE DEF N
  <2> QED
    BY <1>1, <1>2, <2>1
<1>4. ASSUME NEW k \in 0..N, k \in Good, k < N
      PROVE  k + 1 \in Good
  <2> DEFINE n == k + 1
             j == due[n]
  <2>1. n \in 0..N /\ n - 1 = k /\ n \in 1..N /\ j \in Items
    BY <1>1, <1>4
  <2> HIDE DEF n
  <2>2. after[n] = Abandon(due, n, after[k])
    BY <1>2, <2>1
  <2>3. ASSUME NEW t \in after[n]
        PROVE  /\ Balanced(t, b, p)
               /\ \A i \in Items : Coming(due, i, n + 1) <= t.queue[i]
    <3>1. PICK m \in after[k] : \E w \in coap_transport_write(m, j[2]) : t = Answered(w, j)
      BY <2>2, <2>3 DEF Abandon
    <3>1a. PICK w \in coap_transport_write(m, j[2]) : t = Answered(w, j)
      BY <3>1
    <3>2. Balanced(m, b, p) /\ \A i \in Items : Coming(due, i, n) <= m.queue[i]
      BY <1>4, <3>1 DEF n
    <3>3. Balanced(w, b, p) /\ w.queue = m.queue
      BY <3>1a, <3>2, Written
    <3>4. w.queue \in QueueType
      BY <3>3 DEF Balanced, MemoryType
    <3>5. \A i \in Items : w.queue[i] \in Nat
      BY <3>4, MemoryTypes DEF QueueType
    <3>6. \A i \in Items : /\ Coming(due, i, n) \in Nat /\ Coming(due, i, n + 1) \in Nat
                           /\ Coming(due, i, n) = IF j = i THEN Coming(due, i, n + 1) + 1
                                                  ELSE Coming(due, i, n + 1)
      BY <1>1, <2>1, ComingNext
    <3> HIDE DEF j
    <3>7. w.queue[j] > 0
      BY <2>1, <3>2, <3>3, <3>5, <3>6
    <3>8. Balanced(t, b, p) /\ t.queue = [w.queue EXCEPT ![j] = @ - 1]
      BY <2>1, <3>1a, <3>3, <3>7, AnsweredBalanced
    <3>9. ASSUME NEW i \in Items
          PROVE  Coming(due, i, n + 1) <= t.queue[i]
      <4>1. t.queue[i] = IF i = j THEN w.queue[i] - 1 ELSE w.queue[i]
        BY <3>4, <3>8 DEF QueueType
      <4> QED
        BY <3>2, <3>3, <3>5, <3>6, <4>1
    <3> QED
      BY <3>8, <3>9
  <2>4. n \in Good
    BY <2>1, <2>3
  <2> QED
    BY <2>4 DEF n
<1> HIDE DEF Good
<1>5. 0..N \subseteq Good
  BY <1>1, <1>3, <1>4, UpTo
<1>6. N \in Good
  BY <1>1, <1>5
<1> QED
  BY <1>2, <1>6 DEF Good

-----------------------------------------------------------------------------
(* The states between handlers.                                            *)

AllLost   == [c \in Categories |-> Lost(c)]
NoBuffers == [i \in Pbuffers |-> FreeSlot]

MemoryInv ==
  /\ free \in [Categories -> Nat] /\ tx \in [Categories -> Nat]
  /\ queue \in QueueType /\ Length(queue) <= QueueSize
  /\ pbuf = NoBuffers
  /\ error \in BOOLEAN /\ halted \in BOOLEAN
  /\ \A c \in Categories : Lost(c) >= 0

LostMayGrow == \A c \in Categories : Lost(c)' >= Lost(c) /\ (~error' => Lost(c)' = Lost(c))

LEMMA LostIsSlack ==
  /\ \A c : Lost(c) = BlockCount[c] - free[c] - tx[c] - Held(queue, c)
  /\ MemoryInv => AllLost \in Balance
<1>1. \A c : Lost(c) = BlockCount[c] - free[c] - tx[c] - Held(queue, c)
  BY DEF Lost, Held
<1>2. ASSUME MemoryInv
      PROVE  AllLost \in Balance
  <2>1. ASSUME NEW c \in Categories
        PROVE  Lost(c) \in Int
    <3>1. /\ BlockCount[c] \in Nat /\ free[c] \in Nat /\ tx[c] \in Nat
          /\ Held(queue, c) \in Nat
      BY <1>2, MemoryTypes, WaitingFinite DEF MemoryInv
    <3> QED
      BY <1>1, <3>1
  <2> QED
    BY <2>1 DEF AllLost, Balance
<1> QED
  BY <1>1, <1>2

LEMMA MemoryBalanced ==
  ASSUME MemoryInv
  PROVE  Balanced(Memory, AllLost, NoBuffers)
<1>1. NoBuffers \in PbufferType
  BY DEF NoBuffers, PbufferType
<1>2. Memory \in MemoryType
  BY <1>1 DEF Memory, MemoryType, MemoryInv, PbufferType
<1>3. \A c \in Categories : Slack(Memory, c) = Lost(c)
  BY LostIsSlack DEF Slack, Memory
<1>4. \A c \in Categories : Lost(c) \in Int /\ AllLost[c] = Lost(c)
  BY LostIsSlack DEF AllLost, Balance
<1>5. /\ Memory.queue = queue /\ Memory.pbuf = pbuf /\ Memory.ok /\ ~Memory.early
      /\ ~Memory.halted
  BY DEF Memory
<1>6. \A c \in Categories : Slack(Memory, c) >= AllLost[c] /\ Slack(Memory, c) = AllLost[c]
  BY <1>3, <1>4
<1> QED
  BY <1>2, <1>5, <1>6 DEF Balanced, MemoryInv

\* A handler with balanced outcomes keeps the invariant and the blocks.
LEMMA ReturnsBalanced ==
  ASSUME MemoryInv, NEW outcomes, Returns(outcomes),
         \A m \in outcomes : Balanced(m, AllLost, NoBuffers)
  PROVE  MemoryInv' /\ LostMayGrow
<1>1. PICK m \in outcomes :
        /\ IF m.halted
           THEN halted' = TRUE /\ UNCHANGED <<free, pbuf, tx, queue>>
           ELSE /\ free' = m.free /\ pbuf' = m.pbuf /\ tx' = m.tx /\ queue' = m.queue
                /\ UNCHANGED halted
        /\ error' = m.error
  BY DEF Returns
<1>2. Balanced(m, AllLost, NoBuffers) /\ m \in MemoryType
  BY <1>1 DEF Balanced
<1>3. error' \in BOOLEAN /\ m.halted \in BOOLEAN /\ (m.halted => error')
  BY <1>1, <1>2 DEF Balanced, MemoryType
<1>4. \A c : Lost(c)' = BlockCount[c] - free'[c] - tx'[c] - Held(queue', c)
  BY DEF Lost, Held, Waiting
<1>5. \A c \in Categories : Lost(c) \in Int /\ AllLost[c] = Lost(c) /\ Lost(c) >= 0
  BY LostIsSlack DEF AllLost, Balance, MemoryInv
<1>6. NoBuffers' = NoBuffers
  BY DEF NoBuffers
<1>7. CASE m.halted
  <2>1. \A c \in Categories : Lost(c)' = Lost(c)
    BY <1>1, <1>4, <1>7, LostIsSlack
  <2>2. Length(queue)' = Length(queue)
    BY <1>1, <1>7 DEF Length, Waiting
  <2> QED
    BY <1>1, <1>3, <1>5, <1>6, <1>7, <2>1, <2>2 DEF MemoryInv, LostMayGrow
<1>8. CASE ~m.halted
  <2>1. /\ free' = m.free /\ pbuf' = m.pbuf /\ tx' = m.tx /\ queue' = m.queue
        /\ halted' = halted /\ error' = m.error
    BY <1>1, <1>8
  <2>2. \A c \in Categories : Lost(c)' = Slack(m, c)
    BY <1>4, <2>1 DEF Slack
  <2>3. \A c \in Categories : Slack(m, c) >= AllLost[c] /\ (~m.error => Slack(m, c) = AllLost[c])
    BY <1>2 DEF Balanced
  <2>4. \A c \in Categories : Slack(m, c) \in Int
    BY <1>2, SlackType
  <2>5. LostMayGrow /\ \A c \in Categories : Lost(c)' >= 0
    BY <1>5, <2>1, <2>2, <2>3, <2>4 DEF LostMayGrow
  <2>6. Length(queue)' = Length(m.queue) /\ Length(m.queue) <= QueueSize /\ m.pbuf = NoBuffers
    BY <1>2, <2>1 DEF Length, Waiting, Balanced
  <2>7. /\ free' \in [Categories -> Nat] /\ tx' \in [Categories -> Nat]
        /\ queue' \in QueueType
    BY <1>2, <2>1 DEF MemoryType
  <2> QED
    BY <1>3, <1>6, <2>1, <2>5, <2>6, <2>7 DEF MemoryInv
<1> QED
  BY <1>3, <1>7, <1>8

-----------------------------------------------------------------------------
(* Packets that arrive.                                                    *)

PacketBalance(p) == More(AllLost, p.packet.got)
PacketBuffers(p) == [NoBuffers EXCEPT ![Received(p.packet).slot] = p.packet.got]
Reading(p, m) == Balanced(m, More(PacketBalance(p), p.read.got), PacketBuffers(p))

LEMMA PacketFacts ==
  ASSUME MemoryInv, NEW size, NEW p \in Packets(size)
  PROVE  /\ p.packet.got \in Categories /\ PacketBalance(p) \in Balance
         /\ Balanced(p.packet, PacketBalance(p), NoBuffers)
         /\ Unused(p.packet) # {} =>
              /\ Received(p.packet).slot \in Pbuffers
              /\ Balanced(Received(p.packet), PacketBalance(p), PacketBuffers(p))
              /\ p.read.got \in Categories \union {None}
              /\ Reading(p, p.read) /\ p.read.queue = queue
<1> DEFINE c == p.packet.got
           m == p.packet
<1>1. m = mem_alloc(Memory, size) /\ c # None /\ p.read = mem_alloc(Received(m), Small)
  BY DEF Packets, Reads
<1>2. AllLost \in Balance
  BY LostIsSlack
<1>3. /\ Balanced(m, More(AllLost, c), NoBuffers) /\ c \in Categories \union {None}
      /\ Aside(m, Memory)
  BY <1>1, <1>2, MemoryBalanced, Allocated
<1>4. c \in Categories /\ PacketBalance(p) \in Balance
  BY <1>1, <1>2, <1>3, MoreLess DEF PacketBalance
<1>5. Balanced(m, PacketBalance(p), NoBuffers)
  BY <1>3 DEF PacketBalance
<1>6. ASSUME Unused(m) # {}
      PROVE  /\ Received(m).slot \in Pbuffers
             /\ Balanced(Received(m), PacketBalance(p), PacketBuffers(p))
             /\ p.read.got \in Categories \union {None}
             /\ Reading(p, p.read) /\ p.read.queue = queue
  <2> DEFINE i == First(Unused(m))
             q == [NoBuffers EXCEPT ![i] = c]
  <2>1. Received(m) = [m EXCEPT !.slot = i, !.pbuf[i] = c]
    BY <1>6 DEF Received, pbuffer_allocate_no_mem
  <2>2. i \in Pbuffers
    <3>1. Unused(m) \subseteq Pbuffers
      BY DEF Unused
    <3>2. i \in Unused(m)
      BY <1>6, <3>1, FirstIn, MemoryTypes
    <3> QED
      BY <3>1, <3>2
  <2> HIDE DEF i, c
  <2>3. m.pbuf = NoBuffers /\ m \in MemoryType
    BY <1>5 DEF Balanced
  <2> HIDE DEF m
  <2>4. q \in PbufferType
    BY <1>4, <2>2 DEF NoBuffers, PbufferType
  <2>5. Received(m) = [m EXCEPT !.slot = i, !.pbuf = q] /\ Received(m).slot = i
    BY <2>1, <2>3 DEF MemoryType
  <2>6. PacketBuffers(p) = q
    BY <2>5 DEF PacketBuffers, m, c
  <2> HIDE DEF q
  <2>7. i \in Pbuffers \union {None}
    BY <2>2
  <2>8. /\ Balanced([m EXCEPT !.slot = i, !.pbuf = q], PacketBalance(p), q)
        /\ Aside([m EXCEPT !.slot = i, !.pbuf = q], m)
    BY <1>4, <1>5, <2>4, <2>7, Repointed
  <2>9. Balanced(Received(m), PacketBalance(p), PacketBuffers(p)) /\ Aside(Received(m), m)
    BY <2>5, <2>6, <2>8
  <2>10. /\ Balanced(mem_alloc(Received(m), Small),
                     More(PacketBalance(p), mem_alloc(Received(m), Small).got),
                     PacketBuffers(p))
         /\ mem_alloc(Received(m), Small).got \in Categories \union {None}
         /\ Aside(mem_alloc(Received(m), Small), Received(m))
    BY <1>4, <2>9, Allocated
  <2>11. Reading(p, p.read) /\ p.read.got \in Categories \union {None}
    BY <1>1, <2>10 DEF Reading
  <2>12. p.read.queue = queue
    BY <1>1, <1>3, <2>9, <2>10 DEF Aside, Memory
  <2> QED
    BY <2>2, <2>5, <2>9, <2>11, <2>12
<1> QED
  BY <1>4, <1>5, <1>6 DEF m

LEMMA ArrivesBalanced ==
  ASSUME MemoryInv, NEW size, NEW p \in Packets(size), NEW dest, NEW outcomes,
         Unused(p.packet) # {} =>
           \A h \in outcomes : Balanced(h, PacketBalance(p), PacketBuffers(p)),
         NEW m \in ipv6_input(p.packet, dest, outcomes)
  PROVE  Balanced(m, AllLost, NoBuffers)
<1> DEFINE c == p.packet.got
           i == Received(p.packet).slot
<1>1. AllLost \in Balance /\ c \in Categories
  BY LostIsSlack, PacketFacts
<1>2. CASE Taken(p.packet, dest)
  <2>1. PICK h \in outcomes : m = pbuffer_free(h, i, TRUE)
    BY <1>2 DEF ipv6_input
  <2>2. Unused(p.packet) # {}
    BY <1>2 DEF Taken
  <2>3. i \in Pbuffers /\ Balanced(h, PacketBalance(p), PacketBuffers(p))
    BY <2>1, <2>2, PacketFacts
  <2>4. PacketBuffers(p)[i] = c /\ [PacketBuffers(p) EXCEPT ![i] = FreeSlot] = NoBuffers
    BY <2>3 DEF PacketBuffers, NoBuffers
  <2>5. Balanced(h, More(AllLost, PacketBuffers(p)[i]), PacketBuffers(p))
    BY <2>3, <2>4 DEF PacketBalance
  <2> HIDE DEF c, i
  <2> QED
    BY <1>1, <2>1, <2>3, <2>4, <2>5, PbufferFreed
<1>3. CASE ~Taken(p.packet, dest)
  <2>1. m = mem_free(p.packet, c)
    BY <1>3 DEF ipv6_input
  <2>2. Balanced(p.packet, More(AllLost, c), NoBuffers)
    BY PacketFacts DEF PacketBalance
  <2> HIDE DEF c
  <2> QED
    BY <1>1, <2>1, <2>2, Freed
<1> QED
  BY <1>2, <1>3

LEMMA ReadBalanced ==
  ASSUME MemoryInv, NEW size, NEW p \in Packets(size), Unused(p.packet) # {}, NEW outcomes,
         p.read.got # None => \A h \in outcomes : Reading(p, h),
         NEW m \in coap_transport_read(p, outcomes)
  PROVE  Balanced(m, PacketBalance(p), PacketBuffers(p))
<1> DEFINE c == p.read.got
           b == PacketBalance(p)
           q == PacketBuffers(p)
<1> SUFFICES Balanced(m, b, q)
  OBVIOUS
<1>1. b \in Balance /\ c \in Categories \union {None} /\ Balanced(p.read, More(b, c), q)
  BY PacketFacts DEF Reading
<1>2. CASE c = None
  <2>1. m = Fails(p.read)
    BY <1>2 DEF coap_transport_read
  <2>2. Balanced(p.read, b, q)
    BY <1>1, <1>2 DEF More
  <2> QED
    BY <1>1, <2>1, <2>2, FailsBalanced
<1>3. CASE c # None
  <2>1. PICK h \in outcomes : m = IF h.early THEN h ELSE mem_free(h, c)
    BY <1>3 DEF coap_transport_read
  <2>2. Balanced(h, More(b, c), q) /\ c \in Categories
    BY <1>1, <1>3 DEF Reading
  <2> HIDE DEF b, c, q
  <2>3. CASE h.early
    <3>1. h.error
      BY <2>2, <2>3 DEF Balanced
    <3> QED
      BY <1>1, <2>1, <2>2, <2>3, <3>1, Forgotten
  <2>4. CASE ~h.early
    BY <1>1, <2>1, <2>2, <2>4, Freed
  <2> QED
    BY <2>3, <2>4
<1> QED
  BY <1>2, <1>3

-----------------------------------------------------------------------------
(* The handlers.                                                           *)

LEMMA LinkSteps ==
  ASSUME MemoryInv, InterfaceAdd \/ InterfaceDelete \/ \E c \in Categories : Transmitted(c)
  PROVE  MemoryInv' /\ LostMayGrow
<1>0. AllLost \in Balance /\ Balanced(Memory, AllLost, NoBuffers) /\ Memory \in MemoryType
  BY LostIsSlack, MemoryBalanced DEF Balanced
<1>1. CASE InterfaceAdd
  <2> DEFINE O == {IF m.ok THEN m ELSE Halts(m) : m \in icmp6_send(Memory, Small)}
  <2>1. Returns(O)
    BY <1>1 DEF InterfaceAdd
  <2>2. ASSUME NEW s \in O
        PROVE  Balanced(s, AllLost, NoBuffers)
    <3>1. PICK m \in icmp6_send(Memory, Small) : s = IF m.ok THEN m ELSE Halts(m)
      OBVIOUS
    <3>2. Balanced(m, AllLost, NoBuffers) /\ (~m.ok => m.error)
      BY <1>0, Icmp6Sent DEF Balanced
    <3> QED
      BY <1>0, <3>1, <3>2, FailsBalanced
  <2> HIDE DEF O
  <2> QED
    BY <2>1, <2>2, ReturnsBalanced
<1>2. CASE InterfaceDelete
  <2> DEFINE m == [Memory EXCEPT !.free = [c \in Categories |-> @[c] + tx[c]],
                                 !.tx = [c \in Categories |-> 0]]
  <2>1. Returns({m})
    BY <1>2 DEF InterfaceDelete
  <2>2. /\ m.free = [c \in Categories |-> free[c] + tx[c]] /\ m.tx = [c \in Categories |-> 0]
        /\ m.queue = queue /\ m.pbuf = pbuf /\ m.error = FALSE /\ m.ok = TRUE
        /\ m.early = FALSE /\ m.halted = FALSE
    BY DEF Memory
  <2>3. m \in MemoryType
    <3>1. /\ [c \in Categories |-> free[c] + tx[c]] \in [Categories -> Nat]
          /\ [c \in Categories |-> 0] \in [Categories -> Nat]
      BY DEF MemoryInv
    <3> QED
      BY <1>0, <3>1 DEF Memory, MemoryType
  <2> HIDE DEF m
  <2>4. ASSUME NEW c \in Categories
        PROVE  Slack(m, c) = AllLost[c]
    <3>1. /\ BlockCount[c] \in Nat /\ free[c] \in Nat /\ tx[c] \in Nat
          /\ Held(queue, c) \in Nat
      BY MemoryTypes, WaitingFinite DEF MemoryInv
    <3>2. m.free[c] = free[c] + tx[c] /\ m.tx[c] = 0 /\ Held(m.queue, c) = Held(queue, c)
      BY <2>2
    <3> QED
      BY <3>1, <3>2, LostIsSlack DEF Slack, AllLost
  <2>5. \A c \in Categories : AllLost[c] \in Int
    BY <1>0 DEF Balance
  <2>6. Balanced(m, AllLost, NoBuffers)
    BY <2>2, <2>3, <2>4, <2>5 DEF Balanced, MemoryInv
  <2> QED
    BY <2>1, <2>6, ReturnsBalanced
<1>3. ASSUME NEW d \in Categories, Transmitted(d)
      PROVE  MemoryInv' /\ LostMayGrow
  <2> DEFINE m == [Memory EXCEPT !.free[d] = @ + 1, !.tx[d] = @ - 1]
  <2>1. Returns({m}) /\ tx[d] > 0
    BY <1>3 DEF Transmitted
  <2>2. /\ m.free = [free EXCEPT ![d] = @ + 1] /\ m.tx = [tx EXCEPT ![d] = @ - 1]
        /\ m.queue = queue /\ m.pbuf = pbuf /\ m.error = FALSE /\ m.ok = TRUE
        /\ m.early = FALSE /\ m.halted = FALSE
    BY DEF Memory
  <2>3. m \in MemoryType
    <3>1. /\ [free EXCEPT ![d] = @ + 1] \in [Categories -> Nat]
          /\ [tx EXCEPT ![d] = @ - 1] \in [Categories -> Nat]
      BY <2>1 DEF MemoryInv
    <3> QED
      BY <1>0, <3>1 DEF Memory, MemoryType
  <2> HIDE DEF m
  <2>4. ASSUME NEW c \in Categories
        PROVE  Slack(m, c) = AllLost[c]
    <3>1. /\ BlockCount[c] \in Nat /\ free[c] \in Nat /\ tx[c] \in Nat
          /\ Held(queue, c) \in Nat
      BY MemoryTypes, WaitingFinite DEF MemoryInv
    <3>2. /\ m.free[c] = IF c = d THEN free[c] + 1 ELSE free[c]
          /\ m.tx[c] = IF c = d THEN tx[c] - 1 ELSE tx[c]
          /\ Held(m.queue, c) = Held(queue, c)
      BY <2>2 DEF MemoryInv
    <3> QED
      BY <3>1, <3>2, LostIsSlack DEF Slack, AllLost
  <2>5. \A c \in Categories : AllLost[c] \in Int
    BY <1>0 DEF Balance
  <2>6. Balanced(m, AllLost, NoBuffers)
    BY <2>2, <2>3, <2>4, <2>5 DEF Balanced, MemoryInv
  <2> QED
    BY <2>1, <2>6, ReturnsBalanced
<1> QED
  BY <1>1, <1>2, <1>3

\* A packet whose layers leave it balanced.
LEMMA ArrivesKeeps ==
  ASSUME MemoryInv, NEW size, NEW p \in Packets(size), NEW dest, NEW outcomes,
         Returns(ipv6_input(p.packet, dest, outcomes)),
         Unused(p.packet) # {} =>
           \A h \in outcomes : Balanced(h, PacketBalance(p), PacketBuffers(p))
  PROVE  MemoryInv' /\ LostMayGrow
<1>1. \A m \in ipv6_input(p.packet, dest, outcomes) : Balanced(m, AllLost, NoBuffers)
  BY ArrivesBalanced
<1> QED
  BY <1>1, ReturnsBalanced

\* A datagram whose callbacks leave the memory balanced.
LEMMA ReadKeeps ==
  ASSUME MemoryInv, NEW size, NEW p \in Packets(size), NEW dest, NEW outcomes,
         Arrives(p, dest, coap_transport_read(p, outcomes)),
         Unused(p.packet) # {} /\ p.read.got # None => \A h \in outcomes : Reading(p, h)
  PROVE  MemoryInv' /\ LostMayGrow
<1>1. ASSUME Unused(p.packet) # {}, NEW h \in coap_transport_read(p, outcomes)
      PROVE  Balanced(h, PacketBalance(p), PacketBuffers(p))
  BY <1>1, ReadBalanced
<1>2. Returns(ipv6_input(p.packet, dest, coap_transport_read(p, outcomes)))
  BY DEF Arrives
<1> QED
  BY <1>1, <1>2, ArrivesKeeps

LEMMA UdpSteps ==
  ASSUME MemoryInv, NEW size, NEW p \in Packets(size), NEW dest, UdpInput(p, dest)
  PROVE  MemoryInv' /\ LostMayGrow
<1> DEFINE b == More(PacketBalance(p), p.read.got)
           q == PacketBuffers(p)
           Here == Unused(p.packet) # {} /\ p.read.got # None
<1>1. ASSUME Here
      PROVE  b \in Balance /\ Balanced(p.read, b, q) /\ p.read.queue = queue
  BY <1>1, PacketFacts, MoreLess DEF Reading
<1>2. ASSUME Here, NEW s \in Acknowledge(p.read)
      PROVE  Balanced(s, b, q) /\ s.queue = queue
  <2> HIDE DEF b, q
  <2> QED
    BY <1>1, <1>2, Acknowledged
<1> SUFFICES ASSUME NEW outcomes,
                    Arrives(p, dest, coap_transport_read(p, outcomes)),
                    Here => \A h \in outcomes : Balanced(h, b, q)
             PROVE  MemoryInv' /\ LostMayGrow
  <2>1. CASE Discarded(p, dest)
    BY <1>1, <2>1 DEF Discarded
  <2>2. CASE Ping(p, dest)
    BY <1>2, <2>2 DEF Ping
  <2>3. CASE BadRequest(p, dest)
    <3>1. ASSUME Here, NEW s \in error_response(p.read)
          PROVE  Balanced(s, b, q)
      <4> HIDE DEF b, q
      <4> QED
        BY <1>1, <3>1, ErrorResponded
    <3> QED
      BY <2>3, <3>1 DEF BadRequest
  <2>4. ASSUME NEW i \in Items, Answer(p, dest, i)
        PROVE  MemoryInv' /\ LostMayGrow
    <3>1. ASSUME Here
          PROVE  Balanced(Answered(p.read, i), b, q)
      <4>1. queue[i] > 0
        BY <2>4 DEF Answer
      <4> HIDE DEF b, q
      <4> QED
        BY <1>1, <3>1, <4>1, AnsweredBalanced
    <3> QED
      BY <2>4, <3>1 DEF Answer
  <2>5. ASSUME NEW i \in Items, ConResponse(p, dest, i)
        PROVE  MemoryInv' /\ LostMayGrow
    <3>1. ASSUME Here, NEW m \in Acknowledge(p.read)
          PROVE  Balanced(Answered(m, i), b, q)
      <4>1. queue[i] > 0
        BY <2>5 DEF ConResponse
      <4>2. Balanced(m, b, q) /\ m.queue[i] > 0
        BY <1>2, <3>1, <4>1
      <4> HIDE DEF b, q
      <4> QED
        BY <1>1, <3>1, <4>2, AnsweredBalanced
    <3> QED
      BY <2>5, <3>1 DEF ConResponse
  <2>6. ASSUME NEW e \in Encodings \union {Brief}, NEW messages \in Messages,
               Request(p, dest, e, messages)
        PROVE  MemoryInv' /\ LostMayGrow
    <3>1. ASSUME Here, NEW s \in notify(coap_message(p.read, e, FALSE, FALSE), messages, FALSE)
          PROVE  Balanced(s, b, q)
      <4>1. Encoding(e, FALSE)
        BY DEF Encoding
      <4> HIDE DEF b, q
      <4>2. \A m \in coap_message(p.read, e, FALSE, FALSE) : Balanced(m, b, q)
        BY <1>1, <3>1, <4>1, CoapMessageSent
      <4> QED
        BY <1>1, <3>1, <4>2, Notified
    <3> QED
      BY <2>6, <3>1 DEF Request
  <2> QED
    BY <2>1, <2>2, <2>3, <2>4, <2>5, <2>6 DEF UdpInput
<1> QED
  BY ReadKeeps DEF Reading

\* A packet that the layers only look at.
LEMMA LookedAt ==
  ASSUME MemoryInv, NEW size, NEW p \in Packets(size), NEW dest,
         Returns(ipv6_input(p.packet, dest, {Received(p.packet)}))
  PROVE  MemoryInv' /\ LostMayGrow
<1>1. Unused(p.packet) # {} =>
        \A h \in {Received(p.packet)} : Balanced(h, PacketBalance(p), PacketBuffers(p))
  BY PacketFacts
<1> QED
  BY <1>1, ArrivesKeeps

LEMMA PacketSteps ==
  ASSUME MemoryInv, NEW size, NEW p \in Packets(size), NEW dest,
         Dropped(p, dest) \/ Icmp6Input(p, dest)
  PROVE  MemoryInv' /\ LostMayGrow
<1>1. CASE Dropped(p, dest)
  BY <1>1, LookedAt DEF Dropped, Arrives
<1>2. CASE EchoRequest(p, dest)
  <2>1. ASSUME Unused(p.packet) # {}, NEW h \in icmp6_send(Received(p.packet), p.size)
        PROVE  Balanced(h, PacketBalance(p), PacketBuffers(p))
    <3>1. /\ PacketBalance(p) \in Balance
          /\ Balanced(Received(p.packet), PacketBalance(p), PacketBuffers(p))
      BY <2>1, PacketFacts
    <3> QED
      BY <2>1, <3>1, Icmp6Sent
  <2> QED
    BY <1>2, <2>1, ArrivesKeeps DEF EchoRequest, Arrives
<1>3. ASSUME NEW a \in Addresses, NEW fe80 \in BOOLEAN, NEW valid \in BOOLEAN,
             PrefixOption(p, dest, a, fe80, valid)
      PROVE  MemoryInv' /\ LostMayGrow
  BY <1>3, LookedAt DEF PrefixOption, Advertised
<1>4. ASSUME NEW id \in Cids, NEW valid \in BOOLEAN, ContextOption(p, dest, id, valid)
      PROVE  MemoryInv' /\ LostMayGrow
  BY <1>4, LookedAt DEF ContextOption, Advertised
<1> QED
  BY <1>1, <1>2, <1>3, <1>4 DEF Icmp6Input

-----------------------------------------------------------------------------
(* Timers and buttons.                                                     *)

LEMMA TickStep ==
  ASSUME MemoryInv, NEW led3 \in Messages, NEW status \in Messages,
         NEW con3 \in BOOLEAN, NEW con \in BOOLEAN, Tick(led3, con3, status, con)
  PROVE  MemoryInv' /\ LostMayGrow
<1>1. AllLost \in Balance /\ Balanced(Memory, AllLost, NoBuffers)
  BY MemoryBalanced, LostIsSlack
<1>2. PICK due \in Dues :
        Returns(notify(notify(coap_time_tick(due), led3, con3), status, con))
  BY DEF Tick
<1>3. \A s \in coap_time_tick(due) : Balanced(s, AllLost, NoBuffers)
  BY <1>1, TimeTicked
<1>4. \A s \in notify(coap_time_tick(due), led3, con3) : Balanced(s, AllLost, NoBuffers)
  BY <1>1, <1>3, Notified
<1>5. \A s \in notify(notify(coap_time_tick(due), led3, con3), status, con) :
        Balanced(s, AllLost, NoBuffers)
  BY <1>1, <1>4, Notified
<1> QED
  BY <1>2, <1>5, ReturnsBalanced

LEMMA ButtonSteps ==
  ASSUME MemoryInv,
         \/ \E e \in Encodings : DirectoryRequest(e)
         \/ \E messages \in Messages : Toggle(messages)
  PROVE  MemoryInv' /\ LostMayGrow
<1>1. AllLost \in Balance /\ Balanced(Memory, AllLost, NoBuffers)
  BY MemoryBalanced, LostIsSlack
<1>2. ASSUME NEW e \in Encodings, DirectoryRequest(e)
      PROVE  MemoryInv' /\ LostMayGrow
  <2>1. Encoding(e, TRUE)
    BY DEF Encoding
  <2>2. \A s \in coap_message(Memory, e, TRUE, TRUE) : Balanced(s, AllLost, NoBuffers)
    BY <1>1, <2>1, CoapMessageSent
  <2> QED
    BY <1>2, <2>2, ReturnsBalanced DEF DirectoryRequest
<1>3. ASSUME NEW messages \in Messages, Toggle(messages)
      PROVE  MemoryInv' /\ LostMayGrow
  <2>1. \A m \in {Memory} : Balanced(m, AllLost, NoBuffers)
    BY <1>1
  <2>2. \A s \in notify({Memory}, messages, FALSE) : Balanced(s, AllLost, NoBuffers)
    BY <1>1, <2>1, Notified
  <2> QED
    BY <1>3, <2>2, ReturnsBalanced DEF Toggle
<1> QED
  BY <1>2, <1>3

-----------------------------------------------------------------------------
(* The invariant.                                                          *)

LEMMA InitMemory == Init => MemoryInv
<1> SUFFICES ASSUME Init PROVE MemoryInv
  OBVIOUS
<1>1. /\ free = BlockCount /\ tx = [c \in Categories |-> 0] /\ pbuf = NoBuffers
      /\ queue = [i \in Items |-> 0] /\ error = FALSE /\ halted = FALSE
  BY DEF Init, NoBuffers
<1>2. Waiting(queue) = {}
  BY <1>1 DEF Waiting
<1>3. Length(queue) = 0 /\ \A c : Held(queue, c) = 0
  <2>1. \A c : {x \in Waiting(queue) : x[1][1] = c} = {}
    BY <1>2
  <2> QED
    BY <1>2, <2>1, FS_EmptySet DEF Length, Held
<1>4. \A c \in Categories : Lost(c) = 0
  BY <1>1, <1>3, LostIsSlack, MemoryTypes
<1>5. queue \in QueueType /\ Length(queue) <= QueueSize
  BY <1>1, <1>3, MemoryTypes DEF QueueType
<1>6. free \in [Categories -> Nat] /\ tx \in [Categories -> Nat]
  BY <1>1, MemoryTypes
<1>7. error \in BOOLEAN /\ halted \in BOOLEAN
  BY <1>1
<1>8. \A c \in Categories : Lost(c) >= 0
  BY <1>4
<1> QED
  BY <1>1, <1>5, <1>6, <1>7, <1>8 DEF MemoryInv

LEMMA StepMemory ==
  ASSUME MemoryInv, Next
  PROVE  MemoryInv' /\ LostMayGrow
<1>1. CASE InterfaceAdd \/ InterfaceDelete \/ \E c \in Categories : Transmitted(c)
  BY <1>1, LinkSteps
<1>2. ASSUME NEW size \in Sizes, NEW dest \in Destinations, NEW p \in Packets(size),
             Dropped(p, dest) \/ UdpInput(p, dest) \/ Icmp6Input(p, dest)
      PROVE  MemoryInv' /\ LostMayGrow
  BY <1>2, PacketSteps, UdpSteps
<1>3. ASSUME NEW led3 \in Messages, NEW status \in Messages,
             NEW con3 \in BOOLEAN, NEW con \in BOOLEAN, Tick(led3, con3, status, con)
      PROVE  MemoryInv' /\ LostMayGrow
  BY <1>3, TickStep
<1>4. CASE \/ \E e \in Encodings : DirectoryRequest(e)
           \/ \E messages \in Messages : Toggle(messages)
  BY <1>4, ButtonSteps
<1> QED
  BY <1>1, <1>2, <1>3, <1>4 DEF Next

LEMMA StepMemoryInv == MemoryInv /\ [Next]_vars => MemoryInv'
<1>1. ASSUME MemoryInv, UNCHANGED vars
      PROVE  MemoryInv'
  <2>1. UNCHANGED <<free, pbuf, tx, queue, error, halted>>
    BY <1>1 DEF vars, memory
  <2>2. \A c : Lost(c)' = Lost(c)
    BY <2>1 DEF Lost, Waiting
  <2>3. Length(queue)' = Length(queue) /\ NoBuffers' = NoBuffers
    BY <2>1 DEF Length, Waiting, NoBuffers
  <2> QED
    BY <1>1, <2>1, <2>2, <2>3 DEF MemoryInv
<1> QED
  BY <1>1, StepMemory

\* Whatever fails in whatever order, every packet buffer is free again when a
\* handler returns: iot_pbuffer_free is called once on each way out of
\* ipv6_send, ipv6_input, coap_transport_write and the ICMPv6 layer, for every
\* size of the memory and of the queue.
THEOREM PbuffersAlwaysReturned == Spec => []PbuffersReturned
<1>1. MemoryInv => PbuffersReturned
  BY DEF MemoryInv, NoBuffers, PbuffersReturned
<1> QED
  BY <1>1, InitMemory, StepMemoryInv, PTL DEF Spec

\* No handler loses a block of the memory unless a send or create_response
\* failed in it, and none gives a block back twice: the number of lost blocks
\* never falls, and grows only in a handler with an error
\* (internal_coap_message_send, coap_queue_add, create_response).
THEOREM BlocksAlwaysKept == Spec => BlocksKept
<1>1. MemoryInv /\ [Next]_vars =>
        [\A c \in Categories : IF error' THEN Lost(c)' >= Lost(c) ELSE Lost(c)' = Lost(c)]_vars
  BY StepMemory DEF LostMayGrow
<1> QED
  BY <1>1, InitMemory, StepMemoryInv, PTL DEF Spec, BlocksKept

\* The number of free blocks of a category never exceeds the blocks there are,
\* the queue never holds more than COAP_MESSAGE_QUEUE_SIZE items, there is one
\* interface at most, and the tables hold what they may hold.
THEOREM AlwaysTypeOK == Spec => []TypeOK
<1>1. MemoryInv /\ AddressInv /\ ContextInv => TypeOK
  <2> SUFFICES ASSUME MemoryInv, AddressInv, ContextInv PROVE TypeOK
    OBVIOUS
  <2>1. ASSUME NEW c \in Categories
        PROVE  free[c] <= BlockCount[c]
    <3>1. /\ BlockCount[c] \in Nat /\ free[c] \in Nat /\ tx[c] \in Nat
          /\ Held(queue, c) \in Nat /\ Lost(c) >= 0
      BY MemoryTypes, WaitingFinite DEF MemoryInv
    <3> QED
      BY <3>1, LostIsSlack
  <2>2. pbuf \in [Pbuffers -> Categories \union {FreeSlot}]
    BY DEF MemoryInv, NoBuffers
  <2>3. ifCount \in Nat /\ up \in BOOLEAN
    BY DEF AddressInv
  <2>4. table \in [used : SUBSET Slots, addr : [Slots -> Addresses \union {Unspecified}],
                   range : [Slots -> Slots \union {Invalid}]]
    BY DEF AddressInv, Aligned, AddressType
  <2>5. contexts \in [owned : BOOLEAN, cid : [Entries -> Cids \union {NoCid}], count : Int]
    BY DEF ContextInv, Counted, ContextType
  <2> QED
    BY <2>1, <2>2, <2>3, <2>4, <2>5 DEF TypeOK, MemoryInv, QueueType
<1>2. Init => MemoryInv /\ AddressInv /\ ContextInv
  BY InitMemory, InitAddresses, InitContexts
<1>3. MemoryInv /\ AddressInv /\ ContextInv /\ [Next]_vars
        => (MemoryInv /\ AddressInv /\ ContextInv)'
  BY StepMemoryInv, StepTables, StepAddresses, StepContexts
<1> QED
  BY <1>1, <1>2, <1>3, PTL DEF Spec
=============================================================================
