-------------------------- MODULE AppButtonProofs --------------------------
(***************************************************************************)
(* Theorems about the buttons and the timer library below them, for every  *)
(* interval, counter width, latency, size of the queue and number of pins: *)
(* types, and no recorded press is lost (SettledPinReported).              *)
(*                                                                         *)
(* First come the operations on the list of timers, with what they keep of *)
(* a timer, the ticks to its expiry (Due); then the invariant IInv, one    *)
(* lemma per step, and the theorems.  Only two timers exist, so a list has *)
(* one of five values; the queues and the loops over them have any length. *)
(***************************************************************************)
EXTENDS AppButton, SequenceTheorems, FiniteSetTheorems, WellFoundedInduction, TLAPS

-----------------------------------------------------------------------------
(* Sequences of one or two elements, and their parts.                      *)

LEMMA OneOrTwo ==
  ASSUME NEW S, NEW s \in Seq(S)
  PROVE  /\ Len(s) = 1 => s = <<s[1]>>
         /\ Len(s) = 2 => s = <<s[1], s[2]>>
<1>1. ASSUME Len(s) = 1
      PROVE  s = <<s[1]>>
  <2>1. s[1] \in S
    BY <1>1, ElementOfSeq
  <2>2. <<s[1]>> \in Seq(S) /\ Len(<<s[1]>>) = 1 /\ <<s[1]>>[1] = s[1]
    BY <2>1
  <2>3. \A i \in 1..Len(s) : s[i] = <<s[1]>>[i]
    BY <1>1, <2>2
  <2> QED
    BY <1>1, <2>2, <2>3, SeqEqual
<1>2. ASSUME Len(s) = 2
      PROVE  s = <<s[1], s[2]>>
  <2>1. s[1] \in S /\ s[2] \in S
    BY <1>2, ElementOfSeq
  <2>a. PICK t : t = <<s[1], s[2]>>
    OBVIOUS
  <2>2. t \in Seq(S) /\ Len(t) = 2 /\ t[1] = s[1] /\ t[2] = s[2]
    BY <2>1, <2>a
  <2>3. \A i \in 1..Len(s) : s[i] = t[i]
    BY <1>2, <2>2
  <2>4. s = t
    BY <1>2, <2>2, <2>3, SeqEqual
  <2> QED
    BY <2>a, <2>4
<1> QED
  BY <1>1, <1>2

LEMMA ShortSequences ==
  ASSUME NEW a, NEW b
  PROVE  /\ SubSeq(<<a>>, 1, 1) = <<a>> /\ SubSeq(<<a, b>>, 1, 1) = <<a>>
         /\ SubSeq(<<a, b>>, 2, 2) = <<b>> /\ SubSeq(<<a, b>>, 1, 2) = <<a, b>>
         /\ <<>> \o <<a>> = <<a>> /\ <<a>> \o <<>> = <<a>> /\ <<a>> \o <<b>> = <<a, b>>
         /\ \A s, i \in Int, j \in Int : j < i => SubSeq(s, i, j) = <<>>
         /\ <<>> \o <<>> = <<>>
         /\ Head(<<a>>) = a /\ Tail(<<a>>) = <<>>
         /\ Head(<<a, b>>) = a /\ Tail(<<a, b>>) = <<b>>
<1> DEFINE S == {a, b}
<1>1. <<>> \in Seq(S) /\ <<a>> \in Seq(S) /\ <<b>> \in Seq(S) /\ <<a, b>> \in Seq(S)
  OBVIOUS
<1>2. Len(<<a>>) = 1 /\ Len(<<a, b>>) = 2 /\ <<a>>[1] = a /\ <<a, b>>[1] = a /\ <<a, b>>[2] = b
  OBVIOUS
<1>3. /\ SubSeq(<<a>>, 1, Len(<<a>>)) = <<a>>
      /\ SubSeq(<<a, b>>, 1, Len(<<a, b>>)) = <<a, b>>
  BY <1>1, SubSeqFull
<1>4. SubSeq(<<a, b>>, 1, 1) = <<a>>
  <2>1. /\ SubSeq(<<a, b>>, 1, 1) \in Seq(S) /\ Len(SubSeq(<<a, b>>, 1, 1)) = 1
        /\ SubSeq(<<a, b>>, 1, 1)[1] = a
    BY <1>1, <1>2, SubSeqProperties
  <2> QED
    BY <2>1, OneOrTwo
<1>5. SubSeq(<<a, b>>, 2, 2) = <<b>>
  <2>1. /\ SubSeq(<<a, b>>, 2, 2) \in Seq(S) /\ Len(SubSeq(<<a, b>>, 2, 2)) = 1
        /\ SubSeq(<<a, b>>, 2, 2)[1] = b
    BY <1>1, <1>2, SubSeqProperties
  <2> QED
    BY <2>1, OneOrTwo
<1>6. <<a>> \o <<b>> = <<a, b>>
  <2>1. /\ <<a>> \o <<b>> \in Seq(S) /\ Len(<<a>> \o <<b>>) = 2
        /\ (<<a>> \o <<b>>)[1] = a /\ (<<a>> \o <<b>>)[2] = b
    BY <1>1, <1>2, ConcatProperties
  <2> QED
    BY <2>1, OneOrTwo
<1>7. <<>> \o <<a>> = <<a>> /\ <<a>> \o <<>> = <<a>> /\ <<>> \o <<>> = <<>>
  BY <1>1, ConcatEmptySeq
<1>8. \A s, i \in Int, j \in Int : j < i => SubSeq(s, i, j) = <<>>
  BY SubSeqEmpty
<1>9. Head(<<a>>) = a /\ Tail(<<a>>) = <<>> /\ Head(<<a, b>>) = a /\ Tail(<<a, b>>) = <<b>>
  OBVIOUS
<1> QED
  BY <1>2, <1>3, <1>4, <1>5, <1>6, <1>7, <1>8, <1>9

-----------------------------------------------------------------------------
(* The list of timers, of which there are two.                             *)

Lists == {<<>>, <<tick>>, <<button>>, <<tick, button>>, <<button, tick>>}

LEMMA Constants ==
  /\ Timers = {tick, button} /\ tick # button
  /\ None \notin Timers /\ None \notin Int
  /\ CounterMod \in Nat /\ CounterMod > 8 /\ 0 \in Counter
  /\ Interval \in [Timers -> Nat \ {0}]
  /\ QueueSize \in Nat \ {0} /\ MaxLag \in Nat /\ OffsetMin \in Nat \ {0, 1}
  /\ PinCount \in Nat
<1>1. /\ Timers = {tick, button} /\ tick # button
      /\ None \notin Timers /\ None \notin Int /\ CounterMod \in Nat
      /\ Interval \in [Timers -> Nat \ {0}]
      /\ QueueSize \in Nat \ {0} /\ MaxLag \in Nat /\ OffsetMin \in Nat \ {0, 1}
      /\ PinCount \in Nat
  BY TimerAssumption, ButtonAssumption
<1>2. 4 * (Interval[tick] + MaxLag + OffsetMin) < CounterMod
  BY <1>1, TimerAssumption
<1>3. Interval[tick] \in Nat \ {0}
  BY <1>1
<1> QED
  BY <1>1, <1>2, <1>3 DEF Counter

LEMMA ListShapes ==
  ASSUME NEW s \in Lists
  PROVE  \/ s = <<>> /\ Range(s) = {} /\ Len(s) = 0
         \/ \E t \in Timers : s = <<t>> /\ Range(s) = {t} /\ Len(s) = 1 /\ s[1] = t
         \/ \E t \in Timers : \E u \in Timers :
              /\ t # u /\ Timers = {t, u}
              /\ s = <<t, u>> /\ Range(s) = {t, u} /\ Len(s) = 2 /\ s[1] = t /\ s[2] = u
<1>1. Range(<<>>) = {} /\ \A t : Range(<<t>>) = {t}
  BY DEF Range
<1>2. \A t, u : Range(<<t, u>>) = {t, u}
  BY DEF Range
<1>3. Len(<<>>) = 0 /\ \A t : Len(<<t>>) = 1 /\ <<t>>[1] = t
  OBVIOUS
<1>4. \A t, u : Len(<<t, u>>) = 2 /\ <<t, u>>[1] = t /\ <<t, u>>[2] = u
  OBVIOUS
<1>5. CASE s = <<>>
  BY <1>1, <1>3, <1>5
<1>6. ASSUME NEW t \in Timers, s = <<t>>
      PROVE  Range(s) = {t} /\ Len(s) = 1 /\ s[1] = t
  BY <1>1, <1>3, <1>6
<1>7. ASSUME NEW t \in Timers, NEW u \in Timers, s = <<t, u>>, t # u
      PROVE  Timers = {t, u} /\ Range(s) = {t, u} /\ Len(s) = 2 /\ s[1] = t /\ s[2] = u
  BY <1>2, <1>4, <1>7, Constants
<1>8. \/ s = <<>> \/ \E t \in Timers : s = <<t>>
      \/ \E t \in Timers : \E u \in Timers : t # u /\ s = <<t, u>>
  BY Constants DEF Lists
<1> QED
  BY <1>5, <1>6, <1>7, <1>8

LEMMA ListsAre ==
  /\ <<>> \in Lists /\ \A t \in Timers : <<t>> \in Lists
  /\ \A t, u \in Timers : t # u => <<t, u>> \in Lists
BY Constants DEF Lists

LEMMA SpanShort ==
  ASSUME NEW s, NEW e
  PROVE  /\ Span(s, e, 0) = 0
         /\ Span(s, e, 1) = 0 + e[s[1]]
         /\ Span(s, e, 2) = 0 + e[s[1]] + e[s[2]]
<1>1. Span(s, e, 0) = 0
  <2>1. PICK f : f = [i \in 0..0 |-> 0]
    OBVIOUS
  <2>2. f = [i \in 0..0 |-> IF i = 0 THEN 0 ELSE f[i - 1] + e[s[i]]]
    BY <2>1
  <2>3. PICK g : g = CHOOSE h : h = [i \in 0..0 |-> IF i = 0 THEN 0 ELSE h[i - 1] + e[s[i]]]
    OBVIOUS
  <2>4. g = [i \in 0..0 |-> IF i = 0 THEN 0 ELSE g[i - 1] + e[s[i]]]
    BY <2>2, <2>3
  <2>5. Span(s, e, 0) = g[0]
    BY <2>3 DEF Span
  <2> QED
    BY <2>4, <2>5
<1>2. Span(s, e, 1) = 0 + e[s[1]]
  <2>1. PICK f : f = [i \in 0..1 |-> IF i = 0 THEN 0 ELSE 0 + e[s[1]]]
    OBVIOUS
  <2>2. f = [i \in 0..1 |-> IF i = 0 THEN 0 ELSE f[i - 1] + e[s[i]]]
    BY <2>1
  <2>3. PICK g : g = CHOOSE h : h = [i \in 0..1 |-> IF i = 0 THEN 0 ELSE h[i - 1] + e[s[i]]]
    OBVIOUS
  <2>4. g = [i \in 0..1 |-> IF i = 0 THEN 0 ELSE g[i - 1] + e[s[i]]]
    BY <2>2, <2>3
  <2>5. Span(s, e, 1) = g[1]
    BY <2>3 DEF Span
  <2> QED
    BY <2>4, <2>5
<1>3. Span(s, e, 2) = 0 + e[s[1]] + e[s[2]]
  <2>1. PICK f : f = [i \in 0..2 |-> IF i = 0 THEN 0 ELSE IF i = 1 THEN 0 + e[s[1]]
                                     ELSE 0 + e[s[1]] + e[s[2]]]
    OBVIOUS
  <2>2. f = [i \in 0..2 |-> IF i = 0 THEN 0 ELSE f[i - 1] + e[s[i]]]
    BY <2>1
  <2>3. PICK g : g = CHOOSE h : h = [i \in 0..2 |-> IF i = 0 THEN 0 ELSE h[i - 1] + e[s[i]]]
    OBVIOUS
  <2>4. g = [i \in 0..2 |-> IF i = 0 THEN 0 ELSE g[i - 1] + e[s[i]]]
    BY <2>2, <2>3
  <2>5. Span(s, e, 2) = g[2]
    BY <2>3 DEF Span
  <2>6. g[2] = g[1] + e[s[2]] /\ g[1] = 0 + e[s[1]]
    <3>1. g[2] = g[1] + e[s[2]]
      BY <2>4
    <3>2. g[1] = g[0] + e[s[1]] /\ g[0] = 0
      BY <2>4
    <3> QED
      BY <3>1, <3>2
  <2> QED
    BY <2>5, <2>6
<1> QED
  BY <1>1, <1>2, <1>3

ListType ==
  [list : Lists, toExpire : [Timers -> Nat], latest : Counter, reset : BOOLEAN,
   clear : BOOLEAN, ran : [Timers -> Int], shifted : [Timers -> BOOLEAN]]
Members(l) == Range(l.list)

\* The ticks from latest to the expiry of a member.
Due(l, t) == IF l.list[1] = t THEN l.toExpire[t] ELSE l.toExpire[l.list[1]] + l.toExpire[t]

\* A list whose only members are t, or t and then u.
One(l, t)    == /\ l.list = <<t>> /\ t \in Timers /\ Len(l.list) = 1 /\ l.list[1] = t
                /\ Members(l) = {t}
Two(l, t, u) == /\ l.list = <<t, u>> /\ t \in Timers /\ u \in Timers /\ t # u
                /\ Len(l.list) = 2 /\ l.list[1] = t /\ l.list[2] = u
                /\ Members(l) = {t, u} /\ Timers = {t, u}
NoTimer(l)   == l.list = <<>> /\ Members(l) = {} /\ Len(l.list) = 0

LEMMA ListCases ==
  ASSUME NEW l \in ListType
  PROVE  NoTimer(l) \/ (\E t : One(l, t)) \/ (\E t : \E u : Two(l, t, u))
BY ListShapes DEF ListType, NoTimer, One, Two, Members

\* How each of them spans its members.
LEMMA ListSpans ==
  ASSUME NEW l \in ListType
  PROVE  /\ l.toExpire \in [Timers -> Nat] /\ Span(l.list, l.toExpire, 0) = 0
         /\ \A t : One(l, t) => /\ Span(l.list, l.toExpire, 1) = l.toExpire[t]
                               /\ Due(l, t) = l.toExpire[t] /\ l.toExpire[t] \in Nat
         /\ \A t, u : Two(l, t, u) =>
              /\ Span(l.list, l.toExpire, 1) = l.toExpire[t]
              /\ Due(l, t) = l.toExpire[t] /\ l.toExpire[t] \in Nat
              /\ Span(l.list, l.toExpire, 2) = l.toExpire[t] + l.toExpire[u]
              /\ Due(l, u) = l.toExpire[t] + l.toExpire[u] /\ l.toExpire[u] \in Nat
<1>1. l.toExpire \in [Timers -> Nat]
  BY DEF ListType
<1>2. ASSUME NEW t, One(l, t)
      PROVE  /\ Span(l.list, l.toExpire, 1) = l.toExpire[t]
             /\ Due(l, t) = l.toExpire[t] /\ l.toExpire[t] \in Nat
  BY <1>1, <1>2, SpanShort DEF One, Due
<1>3. ASSUME NEW t, NEW u, Two(l, t, u)
      PROVE  /\ Span(l.list, l.toExpire, 1) = l.toExpire[t]
             /\ Due(l, t) = l.toExpire[t] /\ l.toExpire[t] \in Nat
             /\ Span(l.list, l.toExpire, 2) = l.toExpire[t] + l.toExpire[u]
             /\ Due(l, u) = l.toExpire[t] + l.toExpire[u] /\ l.toExpire[u] \in Nat
  <2>1. l.toExpire[t] \in Nat /\ l.toExpire[u] \in Nat
    BY <1>1, <1>3 DEF Two
  <2> QED
    BY <2>1, <1>3, SpanShort DEF Two, Due
<1> QED
  BY <1>1, <1>2, <1>3, SpanShort

LEMMA DueFirst ==
  ASSUME NEW l \in ListType, NEW t \in Members(l)
  PROVE  Due(l, t) \in Nat /\ Due(l, l.list[1]) <= Due(l, t) /\ l.list[1] \in Members(l)
         /\ t \in Timers
<1>1. CASE NoTimer(l)
  BY <1>1 DEF NoTimer
<1>2. ASSUME NEW u, One(l, u)
      PROVE  /\ Due(l, t) \in Nat /\ Due(l, l.list[1]) <= Due(l, t) /\ l.list[1] \in Members(l)
             /\ t \in Timers
  <2>1. t = u /\ l.list[1] = u /\ u \in Timers
    BY <1>2 DEF One
  <2>2. Due(l, u) \in Nat
    BY <1>2, ListSpans
  <2> QED
    BY <2>1, <2>2
<1>3. ASSUME NEW u, NEW v, Two(l, u, v)
      PROVE  /\ Due(l, t) \in Nat /\ Due(l, l.list[1]) <= Due(l, t) /\ l.list[1] \in Members(l)
             /\ t \in Timers
  <2>1. /\ Due(l, u) \in Nat /\ Due(l, v) \in Nat /\ Due(l, u) <= Due(l, v)
    BY <1>3, ListSpans
  <2> QED
    BY <1>3, <2>1 DEF Two
<1> QED
  BY <1>1, <1>2, <1>3, ListCases

LEMMA Spliced ==
  ASSUME NEW a, NEW t
  PROVE  /\ SubSeq(<<>>, 1, 0) \o <<t>> \o SubSeq(<<>>, 0 + 1, 0) = <<t>>
         /\ SubSeq(<<a>>, 1, 0) \o <<t>> \o SubSeq(<<a>>, 0 + 1, 1) = <<t, a>>
         /\ SubSeq(<<a>>, 1, 1) \o <<t>> \o SubSeq(<<a>>, 1 + 1, 1) = <<a, t>>
<1>1. \A s : SubSeq(s, 1, 0) = <<>> /\ SubSeq(s, 2, 1) = <<>>
  BY ShortSequences
<1>2. 0 + 1 = 1 /\ 1 + 1 = 2
  OBVIOUS
<1>3. SubSeq(<<a>>, 1, 1) = <<a>> /\ <<>> \o <<t>> = <<t>> /\ <<t>> \o <<>> = <<t>>
      /\ <<t>> \o <<a>> = <<t, a>> /\ <<a>> \o <<t>> = <<a, t>>
  BY ShortSequences
<1>4. <<a, t>> \o <<>> = <<a, t>>
  <2> DEFINE S == {a, t}
  <2>1. <<a, t>> \in Seq(S)
    OBVIOUS
  <2> QED
    BY <2>1, ConcatEmptySeq
<1>5. SubSeq(<<>>, 1, 0) \o <<t>> \o SubSeq(<<>>, 0 + 1, 0) = <<t>>
  BY <1>1, <1>2, <1>3
<1>6. SubSeq(<<a>>, 1, 0) \o <<t>> \o SubSeq(<<a>>, 0 + 1, 1) = <<t, a>>
  BY <1>1, <1>2, <1>3
<1>7. SubSeq(<<a>>, 1, 1) \o <<t>> \o SubSeq(<<a>>, 1 + 1, 1) = <<a, t>>
  BY <1>1, <1>2, <1>3, <1>4
<1> QED
  BY <1>5, <1>6, <1>7

\* What an operation on the list leaves as it was.
Aside(r, l) ==
  r.latest = l.latest /\ r.reset = l.reset /\ r.clear = l.clear /\ r.ran = l.ran
  /\ r.shifted = l.shifted

LEMMA ListInserted ==
  ASSUME NEW l \in ListType, NEW t \in Timers, t \notin Members(l), NEW ticks \in Nat,
         NEW r, r = ListInsert(l, t, ticks)
  PROVE  /\ r \in ListType /\ Members(r) = Members(l) \union {t} /\ Aside(r, l)
         /\ Due(r, t) = ticks /\ \A u \in Members(l) : Due(r, u) = Due(l, u)
<1> DEFINE before == {n \in 1..Len(l.list) : ticks > Span(l.list, l.toExpire, n)}
           k      == Cardinality(before)
           rest   == ticks - Span(l.list, l.toExpire, k)
           lst    == SubSeq(l.list, 1, k) \o <<t>> \o SubSeq(l.list, k + 1, Len(l.list))
           exp    == [u \in Timers |->
                        CASE u = t -> rest
                          [] k < Len(l.list) /\ u = l.list[k + 1] -> l.toExpire[u] - rest
                          [] OTHER -> l.toExpire[u]]
<1>1. r = [l EXCEPT !.list = lst, !.toExpire = exp]
  BY DEF ListInsert
<1>2. Aside(r, l) /\ (lst \in Lists /\ exp \in [Timers -> Nat] => r \in ListType)
      /\ r.list = lst /\ r.toExpire = exp
  <2> HIDE DEF lst, exp
  <2>1. r.list = lst /\ r.toExpire = exp
    BY <1>1 DEF ListType
  <2>2. Aside(r, l)
    BY <1>1 DEF ListType, Aside
  <2>3. lst \in Lists /\ exp \in [Timers -> Nat] => r \in ListType
    BY <1>1 DEF ListType
  <2> QED
    BY <2>1, <2>2, <2>3
<1>3. CASE NoTimer(l)
  <2>1. before = {} /\ k = 0
    <3>1. before = {}
      BY <1>3 DEF NoTimer
    <3> QED
      BY <3>1, FS_EmptySet
  <2>2. rest = ticks /\ lst = <<t>>
    <3>1. l.list = <<>> /\ Len(l.list) = 0 /\ Span(l.list, l.toExpire, 0) = 0
      BY <1>3, ListSpans DEF NoTimer
    <3> HIDE DEF k
    <3>2. lst = <<t>>
      BY <3>1, <2>1, Spliced
    <3> QED
      BY <3>1, <3>2, <2>1
  <2>3. exp = [l.toExpire EXCEPT ![t] = ticks]
    <3> HIDE DEF k, rest
    <3> QED
      BY <1>3, <2>1, <2>2, ListSpans DEF NoTimer
  <2> HIDE DEF exp, lst
  <2>4. lst \in Lists /\ exp \in [Timers -> Nat] /\ exp[t] = ticks /\ lst[1] = t /\ Range(lst) = {t}
    BY <2>2, <2>3, ListsAre, ListSpans DEF Range
  <2> QED
    BY <1>2, <1>3, <2>4 DEF Members, Due, NoTimer
<1>4. ASSUME NEW a, One(l, a)
      PROVE  /\ r \in ListType /\ Members(r) = Members(l) \union {t}
             /\ Due(r, t) = ticks /\ \A u \in Members(l) : Due(r, u) = Due(l, u)
  <2>1. /\ Span(l.list, l.toExpire, 0) = 0 /\ Span(l.list, l.toExpire, 1) = l.toExpire[a]
        /\ Due(l, a) = l.toExpire[a] /\ l.toExpire[a] \in Nat
    BY <1>4, ListSpans
  <2>2. /\ l.list = <<a>> /\ Len(l.list) = 1 /\ l.list[1] = a /\ Members(l) = {a}
        /\ a \in Timers /\ a # t
    BY <1>4 DEF One
  <2>3. CASE ticks > l.toExpire[a]
    <3>1. before = {1}
      BY <2>1, <2>2, <2>3
    <3>2. k = 1
      BY <3>1, FS_Singleton
    <3>3. rest = ticks - l.toExpire[a] /\ lst = <<a, t>>
      <4> HIDE DEF k
      <4>1. lst = <<a, t>>
        BY <2>2, <3>2, Spliced
      <4> QED
        BY <2>1, <3>2, <4>1
    <3>4. exp = [l.toExpire EXCEPT ![t] = ticks - l.toExpire[a]]
      <4> HIDE DEF k, rest
      <4> QED
        BY <2>2, <3>2, <3>3, ListSpans
    <3> HIDE DEF exp, lst
    <3>5. /\ lst \in Lists /\ lst[1] = a /\ Range(lst) = {a, t}
      BY <2>2, <3>3, ListsAre DEF Range
    <3>6. exp \in [Timers -> Nat] /\ exp[t] = ticks - l.toExpire[a] /\ exp[a] = l.toExpire[a]
      BY <2>1, <2>2, <2>3, <3>4, ListSpans
    <3> QED
      BY <1>2, <2>1, <2>2, <3>5, <3>6 DEF Members, Due
  <2>4. CASE ~(ticks > l.toExpire[a])
    <3>1. before = {}
      BY <2>1, <2>2, <2>4
    <3>2. k = 0
      BY <3>1, FS_EmptySet
    <3>3. rest = ticks /\ lst = <<t, a>>
      <4> HIDE DEF k
      <4>1. lst = <<t, a>>
        BY <2>2, <3>2, Spliced
      <4> QED
        BY <2>1, <3>2, <4>1
    <3>4. exp = [l.toExpire EXCEPT ![t] = ticks, ![a] = @ - ticks]
      <4> HIDE DEF k, rest
      <4> QED
        BY <2>2, <3>2, <3>3, ListSpans, Constants
    <3> HIDE DEF exp, lst
    <3>5. /\ lst \in Lists /\ lst[1] = t /\ Range(lst) = {t, a}
      BY <2>2, <3>3, ListsAre DEF Range
    <3>6. exp \in [Timers -> Nat] /\ exp[t] = ticks /\ exp[a] = l.toExpire[a] - ticks
      BY <2>1, <2>2, <2>4, <3>4, ListSpans
    <3> QED
      BY <1>2, <2>1, <2>2, <3>5, <3>6 DEF Members, Due
  <2> QED
    BY <2>3, <2>4
<1>5. ASSUME NEW a, NEW b, Two(l, a, b)
      PROVE  FALSE
  BY <1>5 DEF Two
<1> HIDE DEF before, k, rest, lst, exp
<1> QED
  BY <1>2, <1>3, <1>4, <1>5, ListCases

LEMMA CutOut ==
  ASSUME NEW a, NEW b
  PROVE  /\ SubSeq(<<a>>, 1, 1 - 1) \o SubSeq(<<a>>, 1 + 1, 1) = <<>>
         /\ SubSeq(<<a, b>>, 1, 1 - 1) \o SubSeq(<<a, b>>, 1 + 1, 2) = <<b>>
         /\ SubSeq(<<a, b>>, 1, 2 - 1) \o SubSeq(<<a, b>>, 2 + 1, 2) = <<a>>
<1>1. \A s : SubSeq(s, 1, 0) = <<>> /\ SubSeq(s, 2, 1) = <<>> /\ SubSeq(s, 3, 2) = <<>>
  BY ShortSequences
<1>2. 1 - 1 = 0 /\ 1 + 1 = 2 /\ 2 - 1 = 1 /\ 2 + 1 = 3
  OBVIOUS
<1>3. <<>> \o <<>> = <<>> /\ <<>> \o <<b>> = <<b>> /\ <<a>> \o <<>> = <<a>>
      /\ SubSeq(<<a, b>>, 2, 2) = <<b>> /\ SubSeq(<<a, b>>, 1, 1) = <<a>>
  BY ShortSequences
<1>4. SubSeq(<<a>>, 1, 1 - 1) \o SubSeq(<<a>>, 1 + 1, 1) = <<>>
  BY <1>1, <1>2, <1>3
<1>5. SubSeq(<<a, b>>, 1, 1 - 1) \o SubSeq(<<a, b>>, 1 + 1, 2) = <<b>>
  BY <1>1, <1>2, <1>3
<1>6. SubSeq(<<a, b>>, 1, 2 - 1) \o SubSeq(<<a, b>>, 2 + 1, 2) = <<a>>
  BY <1>1, <1>2, <1>3
<1> QED
  BY <1>4, <1>5, <1>6

\* What the removal of timers leaves as it was, and what it does to the counter
\* when no timer is left.
Cleared(r) == r.latest = 0 /\ r.reset /\ r.clear
Counting(r, l) == r.latest = l.latest /\ r.reset = l.reset /\ r.clear = l.clear
RemovedFrom(r, l, S) ==
  /\ r \in ListType /\ Members(r) = Members(l) \ S
  /\ r.ran = l.ran /\ r.shifted = l.shifted
  /\ \A u \in Members(r) : Due(r, u) = Due(l, u)
  /\ IF Members(r) = Members(l) \/ Members(r) # {} THEN Counting(r, l) ELSE Cleared(r)
  /\ Members(r) = Members(l) => r.list = l.list

LEMMA ListRemoved ==
  ASSUME NEW l \in ListType, NEW t \in Members(l), NEW r, r = ListRemove(l, t)
  PROVE  RemovedFrom(r, l, {t})
<1>a. PICK k : k = CHOOSE n \in DOMAIN l.list : l.list[n] = t
  OBVIOUS
<1>b. PICK out : out = SubSeq(l.list, 1, k - 1) \o SubSeq(l.list, k + 1, Len(l.list))
  OBVIOUS
<1>c. PICK exp : exp = [u \in Timers |->
          CASE u = t -> 0
            [] k < Len(l.list) /\ u = l.list[k + 1] -> l.toExpire[u] + l.toExpire[t]
            [] OTHER -> l.toExpire[u]]
  OBVIOUS
<1>1. r = [l EXCEPT !.list = out, !.toExpire = exp,
                    !.latest = IF out = <<>> THEN 0 ELSE @,
                    !.reset  = IF out = <<>> THEN TRUE ELSE @,
                    !.clear  = IF out = <<>> THEN TRUE ELSE @]
  BY <1>a, <1>b, <1>c DEF ListRemove
<1>2. /\ r.list = out /\ r.toExpire = exp
      /\ r.ran = l.ran /\ r.shifted = l.shifted
      /\ IF out = <<>> THEN Cleared(r) ELSE Counting(r, l)
  <2>1. r.list = out /\ r.toExpire = exp /\ r.ran = l.ran /\ r.shifted = l.shifted
    BY <1>1 DEF ListType
  <2>2. CASE out = <<>>
    BY <1>1, <2>1, <2>2 DEF ListType, Cleared
  <2>3. CASE out # <<>>
    BY <1>1, <2>1, <2>3 DEF ListType, Counting
  <2> QED
    BY <2>1, <2>2, <2>3
<1>3. out \in Lists /\ exp \in [Timers -> Nat] => r \in ListType
  <2>1. 0 \in Counter
    BY Constants
  <2>2. CASE out = <<>>
    BY <1>1, <2>1, <2>2 DEF ListType
  <2>3. CASE out # <<>>
    BY <1>1, <2>3 DEF ListType
  <2> QED
    BY <2>2, <2>3
<1>4. CASE NoTimer(l)
  BY <1>4 DEF NoTimer
<1>5. ASSUME NEW a, One(l, a)
      PROVE  RemovedFrom(r, l, {t})
  <2>1. l.list = <<a>> /\ Len(l.list) = 1 /\ l.list[1] = a /\ Members(l) = {a} /\ t = a
        /\ DOMAIN l.list = {1}
    BY <1>5 DEF One
  <2>2. k = 1
    BY <1>a, <2>1
  <2>3. out = <<>>
    BY <1>b, <2>1, <2>2, CutOut
  <2>4. exp = [l.toExpire EXCEPT ![t] = 0]
    BY <1>c, <2>1, <2>2, ListSpans
  <2>5. exp \in [Timers -> Nat]
    BY <2>4, ListSpans
  <2>6. out \in Lists /\ Range(out) = {}
    BY <2>3, ListsAre DEF Range
  <2> QED
    BY <1>2, <1>3, <2>1, <2>3, <2>5, <2>6 DEF RemovedFrom, Members
<1>6. ASSUME NEW a, NEW b, Two(l, a, b)
      PROVE  RemovedFrom(r, l, {t})
  <2>1. l.list = <<a, b>> /\ Len(l.list) = 2 /\ l.list[1] = a /\ l.list[2] = b
        /\ Members(l) = {a, b} /\ a # b /\ t \in {a, b} /\ DOMAIN l.list = {1, 2}
        /\ Timers = {a, b} /\ a \in Timers /\ b \in Timers
    BY <1>6 DEF Two
  <2>2. /\ Due(l, a) = l.toExpire[a] /\ l.toExpire[a] \in Nat
        /\ Due(l, b) = l.toExpire[a] + l.toExpire[b] /\ l.toExpire[b] \in Nat
        /\ l.toExpire \in [Timers -> Nat]
    BY <1>6, ListSpans
  <2>3. CASE t = a
    <3>1. k = 1
      BY <1>a, <2>1, <2>3
    <3>2. out = <<b>>
      BY <1>b, <2>1, <3>1, CutOut
    <3>3. exp = [l.toExpire EXCEPT ![a] = 0, ![b] = @ + l.toExpire[a]]
      BY <1>c, <2>1, <2>2, <2>3, <3>1
    <3>4. exp \in [Timers -> Nat] /\ exp[b] = l.toExpire[b] + l.toExpire[a]
      BY <2>1, <2>2, <3>3
    <3>5. out \in Lists /\ Range(out) = {b} /\ out # <<>> /\ out[1] = b
      BY <2>1, <3>2, ListsAre DEF Range
    <3>6. Due(r, b) = Due(l, b)
      BY <1>2, <2>2, <3>4, <3>5 DEF Due
    <3> QED
      BY <1>2, <1>3, <2>1, <2>3, <3>4, <3>5, <3>6 DEF RemovedFrom, Members
  <2>4. CASE t = b
    <3>1. k = 2
      BY <1>a, <2>1, <2>4
    <3>2. out = <<a>>
      BY <1>b, <2>1, <3>1, CutOut
    <3>3. exp = [l.toExpire EXCEPT ![b] = 0]
      BY <1>c, <2>1, <2>2, <2>4, <3>1
    <3>4. exp \in [Timers -> Nat] /\ exp[a] = l.toExpire[a]
      BY <2>1, <2>2, <3>3
    <3>5. out \in Lists /\ Range(out) = {a} /\ out # <<>> /\ out[1] = a
      BY <2>1, <3>2, ListsAre DEF Range
    <3>6. Due(r, a) = Due(l, a)
      BY <1>2, <2>2, <3>4, <3>5 DEF Due
    <3> QED
      BY <1>2, <1>3, <2>1, <2>4, <3>4, <3>5, <3>6 DEF RemovedFrom, Members
  <2> QED
    BY <2>1, <2>3, <2>4
<1> QED
  BY <1>4, <1>5, <1>6, ListCases

-----------------------------------------------------------------------------
(* Induction up to n, as a fact about sets, and recursion up to n.         *)

LEMMA LeastIn ==
  ASSUME NEW S, S \subseteq Nat, S # {}
  PROVE  \E x \in S : \A y \in S : x <= y
<1>1. IsWellFoundedOn(OpToRel(<, Nat), Nat)
  BY NatLessThanWellFounded
<1>2. PICK x \in S : \A y \in S : ~(<<y, x>> \in OpToRel(<, Nat))
  BY <1>1, WFMin
<1>3. \A y \in S : ~(y < x)
  BY <1>2 DEF OpToRel
<1> QED
  BY <1>3

LEMMA UpTo ==
  ASSUME NEW n \in Nat, NEW S, 0 \in S,
         \A k \in 0..n : k \in S /\ k < n => k + 1 \in S
  PROVE  0..n \subseteq S
<1> SUFFICES ASSUME ~(0..n \subseteq S) PROVE FALSE
  OBVIOUS
<1>1. PICK R : R = {k \in 0..n : k \notin S}
  OBVIOUS
<1>2. R \subseteq Nat /\ R # {}
  BY <1>1
<1>3. PICK j \in R : \A y \in R : j <= y
  BY <1>2, LeastIn
<1>4. j # 0 /\ j - 1 \in 0..n /\ j - 1 < n
  BY <1>1, <1>3
<1>5. j - 1 \in S
  BY <1>1, <1>3, <1>4
<1> QED
  BY <1>1, <1>3, <1>4, <1>5

Iterates(f, N, S, start, F) ==
  /\ f \in [0..N -> S] /\ f[0] = start
  /\ \A n \in 1..N : f[n] = F[n][f[n - 1]]

LEMMA Recursion ==
  ASSUME NEW N \in Nat, NEW S, NEW start \in S, NEW F \in [1..N -> [S -> S]]
  PROVE  \E f : Iterates(f, N, S, start, F)
<1> DEFINE Loop(m, f) == Iterates(f, m, S, start, F)
           Good == {m \in 0..N : \E f : Loop(m, f)}
<1>1. 0 \in Good
  <2>1. PICK f : f = [n \in 0..0 |-> start]
    OBVIOUS
  <2>2. Loop(0, f)
    BY <2>1 DEF Iterates
  <2> HIDE DEF Loop
  <2> QED
    BY <2>2
<1>2. ASSUME NEW m \in 0..N, m \in Good, m < N
      PROVE  m + 1 \in Good
  <2>1. PICK f : Loop(m, f)
    BY <1>2
  <2>a. f \in [0..m -> S] /\ f[0] = start /\ \A n \in 1..m : f[n] = F[n][f[n - 1]]
    BY <2>1 DEF Iterates
  <2>2. PICK g : g = [n \in 0..(m + 1) |-> IF n = m + 1 THEN F[n][f[m]] ELSE f[n]]
    OBVIOUS
  <2>3. f[m] \in S /\ m + 1 \in 1..N
    BY <1>2, <2>a
  <2>4. F[m + 1][f[m]] \in S
    BY <2>3
  <2>5. g \in [0..(m + 1) -> S]
    BY <1>2, <2>a, <2>2, <2>4
  <2>6. g[0] = start
    BY <1>2, <2>a, <2>2
  <2>7. ASSUME NEW n \in 1..(m + 1)
        PROVE  g[n] = F[n][g[n - 1]]
    <3>1. CASE n = m + 1
      <4>1. n - 1 = m /\ m \in 0..(m + 1) /\ m # m + 1
        BY <1>2, <3>1
      <4>2. g[m] = f[m] /\ g[n] = F[n][f[m]]
        BY <2>2, <3>1, <4>1
      <4> QED
        BY <4>1, <4>2
    <3>2. CASE n # m + 1
      <4>1. n \in 1..m /\ n \in 0..(m + 1) /\ n - 1 \in 0..(m + 1) /\ n - 1 # m + 1
        BY <1>2, <3>2
      <4>2. g[n] = f[n] /\ g[n - 1] = f[n - 1]
        BY <2>2, <3>2, <4>1
      <4>3. f[n] = F[n][f[n - 1]]
        BY <2>a, <4>1
      <4> QED
        BY <4>2, <4>3
    <3> QED
      BY <3>1, <3>2
  <2>8. Loop(m + 1, g)
    BY <2>5, <2>6, <2>7 DEF Iterates
  <2>9. m + 1 \in 0..N
    BY <1>2
  <2> HIDE DEF Loop
  <2> QED
    BY <2>8, <2>9
<1> HIDE DEF Good
<1>3. 0..N \subseteq Good
  BY <1>1, <1>2, UpTo
<1>4. N \in Good
  BY <1>3
<1> QED
  BY <1>4 DEF Good

-----------------------------------------------------------------------------
(* The loops over the operations that are queued.                          *)

\* The timers that the first n operations stop, or start.
OfType(ops, n, type) == {t \in Timers : \E i \in 1..n : ops[i].type = type /\ ops[i].timer = t}

LEMMA OfTypeNext ==
  ASSUME NEW ops, NEW n \in Nat, NEW type, ops[n + 1].timer \in Timers
  PROVE  OfType(ops, n + 1, type) =
           OfType(ops, n, type) \union
             (IF ops[n + 1].type = type THEN {ops[n + 1].timer} ELSE {})
<1>1. \A i : i \in 1..(n + 1) <=> i \in 1..n \/ i = n + 1
  OBVIOUS
<1> QED
  BY <1>1 DEF OfType

LEMMA DeletedOne ==
  ASSUME NEW l \in ListType, NEW op \in Ops
  PROVE  RemovedFrom(Delete(l, op), l, IF op.type = "stop" THEN {op.timer} ELSE {})
<1>1. CASE op.type = "stop" /\ op.timer \in Range(l.list)
  BY <1>1, ListRemoved DEF Delete, Members
<1>2. CASE ~(op.type = "stop" /\ op.timer \in Range(l.list))
  <2>1. Delete(l, op) = l
    BY <1>2 DEF Delete
  <2> QED
    BY <1>2, <2>1 DEF RemovedFrom, Members, Counting
<1> QED
  BY <1>1, <1>2

LEMMA RemovedTwice ==
  ASSUME NEW l, NEW S, NEW m, RemovedFrom(m, l, S), NEW T, NEW r, RemovedFrom(r, m, T)
  PROVE  RemovedFrom(r, l, S \union T)
<1>1. /\ r \in ListType /\ Members(r) = Members(l) \ (S \union T)
      /\ r.ran = l.ran /\ r.shifted = l.shifted
  BY DEF RemovedFrom
<1>2. \A u \in Members(r) : Due(r, u) = Due(l, u)
  BY DEF RemovedFrom
<1>3. IF Members(r) = Members(l) \/ Members(r) # {} THEN Counting(r, l) ELSE Cleared(r)
  <2>1. CASE Members(r) # {}
    <3>1. Members(m) # {} /\ Counting(r, m) /\ Counting(m, l)
      BY <2>1 DEF RemovedFrom
    <3> QED
      BY <2>1, <3>1 DEF Counting
  <2>2. CASE Members(r) = {} /\ Members(l) = {}
    <3>1. Members(m) = {} /\ Counting(r, m) /\ Counting(m, l)
      BY <2>2 DEF RemovedFrom
    <3> QED
      BY <2>2, <3>1 DEF Counting
  <2>3. CASE Members(r) = {} /\ Members(l) # {} /\ Members(m) = {}
    <3>1. Counting(r, m) /\ Cleared(m)
      BY <2>3 DEF RemovedFrom
    <3> QED
      BY <2>3, <3>1 DEF Counting, Cleared
  <2>4. CASE Members(r) = {} /\ Members(l) # {} /\ Members(m) # {}
    <3>1. Cleared(r)
      BY <2>4 DEF RemovedFrom
    <3> QED
      BY <2>4, <3>1
  <2> QED
    BY <2>1, <2>2, <2>3, <2>4
<1>4. Members(r) = Members(l) => r.list = l.list
  BY DEF RemovedFrom
<1> QED
  BY <1>1, <1>2, <1>3, <1>4 DEF RemovedFrom

LEMMA Deleted ==
  ASSUME NEW l \in ListType,
         NEW ops \in Seq(Ops), ops = opQueue["main"] \o opQueue["high"]
  PROVE  RemovedFrom(Deletions(l), l, OfType(ops, Len(ops), "stop"))
<1> DEFINE N == Len(ops)
           after[n \in 0..N] == IF n = 0 THEN l ELSE Delete(after[n - 1], ops[n])
<1>1. N \in Nat /\ \A n \in 1..N : ops[n] \in Ops
  BY LenProperties, ElementOfSeq
<1>2. Deletions(l) = after[N]
  BY DEF Deletions
<1>3. PICK F : F = [n \in 1..N |-> [m \in ListType |-> Delete(m, ops[n])]]
  OBVIOUS
<1> HIDE DEF N
<1>4. F \in [1..N -> [ListType -> ListType]]
  <2>1. ASSUME NEW n \in 1..N, NEW m \in ListType
        PROVE  Delete(m, ops[n]) \in ListType
    BY <1>1, <2>1, DeletedOne DEF RemovedFrom
  <2> QED
    BY <1>3, <2>1
<1>a. PICK f : Iterates(f, N, ListType, l, F)
  BY <1>1, <1>4, Recursion
<1>5. f \in [0..N -> ListType] /\ f[0] = l /\ \A n \in 1..N : f[n] = F[n][f[n - 1]]
  BY <1>a DEF Iterates
<1>6. \A n \in 1..N : n - 1 \in 0..N /\ f[n - 1] \in ListType /\ f[n] = Delete(f[n - 1], ops[n])
  <2>1. ASSUME NEW n \in 1..N
        PROVE  n - 1 \in 0..N /\ f[n - 1] \in ListType /\ f[n] = Delete(f[n - 1], ops[n])
    <3>1. n - 1 \in 0..N /\ f[n - 1] \in ListType
      BY <1>1, <1>5
    <3> QED
      BY <1>3, <1>5, <3>1
  <2> QED
    BY <2>1
<1>7. f = [n \in 0..N |-> IF n = 0 THEN l ELSE Delete(f[n - 1], ops[n])]
  <2>1. ASSUME NEW n \in 0..N
        PROVE  f[n] = IF n = 0 THEN l ELSE Delete(f[n - 1], ops[n])
    <3>1. CASE n = 0
      BY <1>5, <3>1
    <3>2. CASE n # 0
      <4>1. n \in 1..N
        BY <1>1, <3>2
      <4> QED
        BY <1>6, <3>2, <4>1
    <3> QED
      BY <3>1, <3>2
  <2> QED
    BY <1>5, <2>1
<1>8. after = [n \in 0..N |-> IF n = 0 THEN l ELSE Delete(after[n - 1], ops[n])]
  <2>1. \E g : g = [n \in 0..N |-> IF n = 0 THEN l ELSE Delete(g[n - 1], ops[n])]
    BY <1>7
  <2> QED
    BY <2>1
<1> HIDE DEF after
<1> DEFINE Good == {n \in 0..N : RemovedFrom(after[n], l, OfType(ops, n, "stop"))}
<1>9. 0 \in Good
  <2>1. after[0] = l /\ OfType(ops, 0, "stop") = {}
    BY <1>1, <1>8 DEF OfType
  <2>2. RemovedFrom(l, l, {})
    BY DEF RemovedFrom, Counting, Members
  <2>3. RemovedFrom(after[0], l, OfType(ops, 0, "stop"))
    BY <2>1, <2>2
  <2>4. 0 \in 0..N
    BY <1>1
  <2> QED
    BY <2>3, <2>4
<1>10. ASSUME NEW n \in 0..N, n \in Good, n < N
       PROVE  n + 1 \in Good
  <2>1. n + 1 \in 1..N /\ n + 1 \in 0..N /\ (n + 1) - 1 = n /\ n + 1 # 0 /\ n \in Nat
    BY <1>1, <1>10
  <2>2. after[n + 1] = Delete(after[n], ops[n + 1])
    BY <1>8, <2>1
  <2>3. ops[n + 1] \in Ops /\ ops[n + 1].timer \in Timers
    BY <1>1, <2>1 DEF Ops
  <2>4. RemovedFrom(after[n], l, OfType(ops, n, "stop")) /\ after[n] \in ListType
    BY <1>10 DEF RemovedFrom
  <2>5. RemovedFrom(after[n + 1], after[n],
                    IF ops[n + 1].type = "stop" THEN {ops[n + 1].timer} ELSE {})
    BY <2>2, <2>3, <2>4, DeletedOne
  <2>6. OfType(ops, n + 1, "stop") = OfType(ops, n, "stop") \union
          (IF ops[n + 1].type = "stop" THEN {ops[n + 1].timer} ELSE {})
    <3>1. n \in Nat /\ ops[n + 1].timer \in Timers
      BY <2>1, <2>3
    <3> QED
      BY <3>1, OfTypeNext
  <2>7. RemovedFrom(after[n + 1], l, OfType(ops, n + 1, "stop"))
    <3>1. PICK T : T = IF ops[n + 1].type = "stop" THEN {ops[n + 1].timer} ELSE {}
      OBVIOUS
    <3>2. RemovedFrom(after[n + 1], after[n], T)
      BY <2>5, <3>1
    <3>3. RemovedFrom(after[n + 1], l, OfType(ops, n, "stop") \union T)
      BY <2>4, <3>2, RemovedTwice
    <3>4. OfType(ops, n + 1, "stop") = OfType(ops, n, "stop") \union T
      BY <2>6, <3>1
    <3> QED
      BY <3>3, <3>4
  <2> QED
    BY <2>1, <2>7
<1> HIDE DEF Good
<1>11. 0..N \subseteq Good
  BY <1>1, <1>9, <1>10, UpTo
<1>12. N \in Good
  BY <1>1, <1>11
<1> QED
  BY <1>2, <1>12 DEF Good, N

LEMMA DiffType ==
  ASSUME NEW x \in Int, NEW y \in Int
  PROVE  Diff(x, y) \in Counter /\ Diff(x, y) \in Nat /\ x % CounterMod \in Counter
BY Constants DEF Diff, Counter

LEMMA TicksType ==
  ASSUME NEW l, l.latest \in Counter, NEW at \in Counter, NEW ticks \in Nat
  PROVE  TicksToExpire(l, at, ticks) \in Nat
<1>1. l.latest \in Int /\ at \in Int
  BY DEF Counter
<1>2. Diff(at, l.latest) \in Nat /\ Diff(l.latest, at) \in Nat
  BY <1>1, DiffType
<1>3. CASE Diff(at, l.latest) < (CounterMod - 1) \div 2
  BY <1>2, <1>3 DEF TicksToExpire
<1>4. CASE ~(Diff(at, l.latest) < (CounterMod - 1) \div 2)
  <2>1. Largest(ticks - Diff(l.latest, at), 0) \in Nat
    BY <1>2 DEF Largest
  <2> QED
    BY <1>4, <2>1 DEF TicksToExpire
<1> QED
  BY <1>3, <1>4

\* The timer u was started by one of the first n operations.
StartedBy(r, l, ops, n, u) ==
  \E i \in 1..n :
    /\ ops[i].type = "start" /\ ops[i].timer = u
    /\ Due(r, u) = TicksToExpire(l, IF l.reset THEN 0 ELSE ops[i].at, Interval[u])
    /\ r.ran[u] = ops[i].waited /\ r.shifted[u] = (ops[i].shifted \/ l.reset)
SameTimer(r, l, u) == Due(r, u) = Due(l, u) /\ r.ran[u] = l.ran[u] /\ r.shifted[u] = l.shifted[u]
InsertedInto(r, l, ops, n) ==
  /\ r \in ListType /\ Members(r) = Members(l) \union OfType(ops, n, "start")
  /\ Counting(r, l)
  /\ \A u \in Members(l) : SameTimer(r, l, u)
  /\ \A u \in Members(r) \ Members(l) : StartedBy(r, l, ops, n, u)
  /\ Members(r) = Members(l) => r.list = l.list

LEMMA StartedOne ==
  ASSUME NEW l \in ListType, NEW op \in Ops, op.type = "start", op.timer \notin Members(l),
         NEW r, r = Start(l, op)
  PROVE  /\ r \in ListType /\ Members(r) = Members(l) \union {op.timer} /\ Counting(r, l)
         /\ \A u \in Members(l) : SameTimer(r, l, u)
         /\ Due(r, op.timer) =
              TicksToExpire(l, IF l.reset THEN 0 ELSE op.at, Interval[op.timer])
         /\ r.ran[op.timer] = op.waited /\ r.shifted[op.timer] = (op.shifted \/ l.reset)
<1>a. PICK t : t = op.timer
  OBVIOUS
<1>b. PICK sh : sh = (op.shifted \/ l.reset)
  OBVIOUS
<1>c. PICK m : m = [l EXCEPT !.ran[t] = op.waited, !.shifted[t] = sh]
  OBVIOUS
<1>d. PICK ticks : ticks = TicksToExpire(l, IF l.reset THEN 0 ELSE op.at, Interval[t])
  OBVIOUS
<1>1. t \in Timers /\ op.waited \in Nat /\ op.shifted \in BOOLEAN /\ op.at \in Counter
  BY <1>a DEF Ops
<1>2. sh \in BOOLEAN
  BY <1>b, <1>1 DEF ListType
<1>3. l.ran \in [Timers -> Int] /\ l.shifted \in [Timers -> BOOLEAN] /\ l.latest \in Counter
      /\ l.reset \in BOOLEAN /\ l.list \in Lists /\ l.toExpire \in [Timers -> Nat]
  BY DEF ListType
<1>4. /\ m.ran = [l.ran EXCEPT ![t] = op.waited] /\ m.shifted = [l.shifted EXCEPT ![t] = sh]
      /\ m.list = l.list /\ m.toExpire = l.toExpire /\ m.latest = l.latest
      /\ m.reset = l.reset /\ m.clear = l.clear
  BY <1>c DEF ListType
<1>5. m.ran \in [Timers -> Int] /\ m.shifted \in [Timers -> BOOLEAN]
  BY <1>1, <1>2, <1>3, <1>4
<1>6. m \in ListType
  BY <1>c, <1>4, <1>5 DEF ListType
<1>7. ticks \in Nat
  <2>1. (IF l.reset THEN 0 ELSE op.at) \in Counter
    BY <1>1, Constants
  <2>2. Interval[t] \in Nat
    BY <1>1, Constants
  <2> QED
    BY <1>d, <1>3, <2>1, <2>2, TicksType
<1>8. Members(m) = Members(l) /\ \A u : Due(m, u) = Due(l, u)
  BY <1>4 DEF Members, Due
<1>9. r = ListInsert(m, t, ticks)
  <2>1. op.timer \notin Range(l.list)
    BY DEF Members
  <2> QED
    BY <1>a, <1>b, <1>c, <1>d, <2>1 DEF Start
<1>10. /\ r \in ListType /\ Members(r) = Members(m) \union {t} /\ Aside(r, m)
       /\ Due(r, t) = ticks /\ \A u \in Members(m) : Due(r, u) = Due(m, u)
  BY <1>a, <1>1, <1>6, <1>7, <1>8, <1>9, ListInserted
<1>11. /\ r.ran[t] = op.waited /\ r.shifted[t] = sh
       /\ \A u \in Members(l) : r.ran[u] = l.ran[u] /\ r.shifted[u] = l.shifted[u]
  <2>1. r.ran = m.ran /\ r.shifted = m.shifted
    BY <1>10 DEF Aside
  <2>2. \A u \in Members(l) : u # t
    BY <1>a
  <2>3. Members(l) \subseteq Timers
    BY DueFirst
  <2> QED
    BY <1>1, <1>2, <1>3, <1>4, <2>1, <2>2, <2>3
<1>12. Counting(r, l)
  BY <1>4, <1>10 DEF Aside, Counting
<1> QED
  BY <1>a, <1>b, <1>d, <1>8, <1>10, <1>11, <1>12 DEF SameTimer

LEMMA InsertedNext ==
  ASSUME NEW l \in ListType, NEW ops, NEW n \in Nat, NEW m, InsertedInto(m, l, ops, n),
         ops[n + 1] \in Ops, NEW r, r = Start(m, ops[n + 1])
  PROVE  InsertedInto(r, l, ops, n + 1)
<1>a. PICK op : op = ops[n + 1]
  OBVIOUS
<1>1. op \in Ops /\ op.timer \in Timers
  BY <1>a DEF Ops
<1>2. OfType(ops, n + 1, "start") =
        OfType(ops, n, "start") \union (IF op.type = "start" THEN {op.timer} ELSE {})
  BY <1>a, <1>1, OfTypeNext
<1>3. /\ m \in ListType /\ Members(m) = Members(l) \union OfType(ops, n, "start")
      /\ Counting(m, l)
      /\ \A u \in Members(l) : SameTimer(m, l, u)
      /\ \A u \in Members(m) \ Members(l) : StartedBy(m, l, ops, n, u)
      /\ Members(m) = Members(l) => m.list = l.list
  BY DEF InsertedInto
<1>4. \A i \in 1..n : i \in 1..(n + 1)
  OBVIOUS
<1>5. CASE op.type # "start" \/ op.timer \in Members(m)
  <2>1. r = m
    BY <1>a, <1>5 DEF Start, Members
  <2>2. Members(m) = Members(l) \union OfType(ops, n + 1, "start")
    BY <1>2, <1>3, <1>5
  <2>3. \A u \in Members(m) \ Members(l) : StartedBy(m, l, ops, n + 1, u)
    BY <1>3, <1>4 DEF StartedBy
  <2> QED
    BY <1>3, <2>1, <2>2, <2>3 DEF InsertedInto
<1>6. CASE op.type = "start" /\ op.timer \notin Members(m)
  <2>1. /\ r \in ListType /\ Members(r) = Members(m) \union {op.timer} /\ Counting(r, m)
        /\ \A u \in Members(m) : SameTimer(r, m, u)
        /\ Due(r, op.timer) =
             TicksToExpire(m, IF m.reset THEN 0 ELSE op.at, Interval[op.timer])
        /\ r.ran[op.timer] = op.waited /\ r.shifted[op.timer] = (op.shifted \/ m.reset)
    BY <1>a, <1>1, <1>3, <1>6, StartedOne
  <2>2. m.reset = l.reset /\ m.latest = l.latest
    BY <1>3 DEF Counting
  <2>3. \A at, ticks : TicksToExpire(m, at, ticks) = TicksToExpire(l, at, ticks)
    BY <2>2 DEF TicksToExpire
  <2>4. StartedBy(r, l, ops, n + 1, op.timer)
    <3>1. n + 1 \in 1..(n + 1)
      OBVIOUS
    <3> QED
      BY <1>a, <1>6, <2>1, <2>2, <2>3, <3>1 DEF StartedBy
  <2>5. ASSUME NEW u \in Members(m) \ Members(l)
        PROVE  StartedBy(r, l, ops, n + 1, u)
    <3>1. SameTimer(r, m, u) /\ StartedBy(m, l, ops, n, u)
      BY <1>3, <2>1, <2>5
    <3> QED
      BY <1>4, <3>1 DEF SameTimer, StartedBy
  <2>6. \A u \in Members(l) : SameTimer(r, l, u)
    BY <1>3, <2>1 DEF SameTimer
  <2>7. Members(r) = Members(l) \union OfType(ops, n + 1, "start")
    BY <1>2, <1>3, <1>6, <2>1
  <2>8. Counting(r, l)
    BY <1>3, <2>1 DEF Counting
  <2>9. \A u \in Members(r) \ Members(l) : StartedBy(r, l, ops, n + 1, u)
    BY <2>1, <2>4, <2>5
  <2> QED
    BY <1>3, <1>6, <2>1, <2>6, <2>7, <2>8, <2>9 DEF InsertedInto
<1> QED
  BY <1>5, <1>6

LEMMA Inserted ==
  ASSUME NEW l \in ListType, NEW user, NEW ops \in Seq(Ops), ops = opQueue[user]
  PROVE  InsertedInto(Insertions(l, user), l, ops, Len(ops))
<1> DEFINE N == Len(ops)
           after[n \in 0..N] == IF n = 0 THEN l ELSE Start(after[n - 1], ops[n])
<1>1. N \in Nat /\ \A n \in 1..N : ops[n] \in Ops
  BY LenProperties, ElementOfSeq
<1>2. Insertions(l, user) = after[N]
  BY DEF Insertions
<1> HIDE DEF N
<1>3. PICK F : F = [n \in 1..N |-> [m \in ListType |-> Start(m, ops[n])]]
  OBVIOUS
<1>4. F \in [1..N -> [ListType -> ListType]]
  <2>1. ASSUME NEW n \in 1..N, NEW m \in ListType
        PROVE  Start(m, ops[n]) \in ListType
    <3>1. CASE ops[n].type # "start" \/ ops[n].timer \in Range(m.list)
      BY <3>1 DEF Start
    <3>2. CASE ops[n].type = "start" /\ ops[n].timer \notin Range(m.list)
      BY <1>1, <3>2, StartedOne DEF Members
    <3> QED
      BY <3>1, <3>2
  <2> QED
    BY <1>3, <2>1
<1>a. PICK f : Iterates(f, N, ListType, l, F)
  BY <1>1, <1>4, Recursion
<1>5. f \in [0..N -> ListType] /\ f[0] = l /\ \A n \in 1..N : f[n] = F[n][f[n - 1]]
  BY <1>a DEF Iterates
<1>6. \A n \in 1..N : n - 1 \in 0..N /\ f[n - 1] \in ListType /\ f[n] = Start(f[n - 1], ops[n])
  <2>1. ASSUME NEW n \in 1..N
        PROVE  n - 1 \in 0..N /\ f[n - 1] \in ListType /\ f[n] = Start(f[n - 1], ops[n])
    <3>1. n - 1 \in 0..N /\ f[n - 1] \in ListType
      BY <1>1, <1>5
    <3> QED
      BY <1>3, <1>5, <3>1
  <2> QED
    BY <2>1
<1>7. f = [n \in 0..N |-> IF n = 0 THEN l ELSE Start(f[n - 1], ops[n])]
  <2>1. ASSUME NEW n \in 0..N
        PROVE  f[n] = IF n = 0 THEN l ELSE Start(f[n - 1], ops[n])
    <3>1. CASE n = 0
      BY <1>5, <3>1
    <3>2. CASE n # 0
      <4>1. n \in 1..N
        BY <1>1, <3>2
      <4> QED
        BY <1>6, <3>2, <4>1
    <3> QED
      BY <3>1, <3>2
  <2> QED
    BY <1>5, <2>1
<1>8. after = [n \in 0..N |-> IF n = 0 THEN l ELSE Start(after[n - 1], ops[n])]
  <2>1. \E g : g = [n \in 0..N |-> IF n = 0 THEN l ELSE Start(g[n - 1], ops[n])]
    BY <1>7
  <2> QED
    BY <2>1
<1> HIDE DEF after
<1> DEFINE Good == {n \in 0..N : InsertedInto(after[n], l, ops, n)}
<1>9. 0 \in Good
  <2>1. after[0] = l /\ OfType(ops, 0, "start") = {}
    BY <1>1, <1>8 DEF OfType
  <2>2. InsertedInto(l, l, ops, 0)
    BY <2>1 DEF InsertedInto, Counting, SameTimer
  <2>3. InsertedInto(after[0], l, ops, 0) /\ 0 \in 0..N
    BY <1>1, <2>1, <2>2
  <2> QED
    BY <2>3
<1>10. ASSUME NEW n \in 0..N, n \in Good, n < N
       PROVE  n + 1 \in Good
  <2>1. n + 1 \in 1..N /\ n + 1 \in 0..N /\ (n + 1) - 1 = n /\ n + 1 # 0 /\ n \in Nat
    BY <1>1, <1>10
  <2>2. after[n + 1] = Start(after[n], ops[n + 1]) /\ ops[n + 1] \in Ops
    BY <1>1, <1>8, <2>1
  <2>3. InsertedInto(after[n], l, ops, n)
    BY <1>10
  <2>4. InsertedInto(after[n + 1], l, ops, n + 1)
    BY <2>1, <2>2, <2>3, InsertedNext
  <2> QED
    BY <2>1, <2>4
<1> HIDE DEF Good
<1>11. 0..N \subseteq Good
  BY <1>1, <1>9, <1>10, UpTo
<1>12. N \in Good
  BY <1>1, <1>11
<1> QED
  BY <1>2, <1>12 DEF Good, N

-----------------------------------------------------------------------------
(* The timers that expire, and those that start again.                     *)

\* How many of l's timers expire within ticks.
Expiring(l, ticks, k) ==
  \/ k = 0 /\ \A t \in Members(l) : Due(l, t) > ticks
  \/ k = 1 /\ \E a : One(l, a) /\ Due(l, a) <= ticks
  \/ k = 1 /\ \E a : \E b : Two(l, a, b) /\ Due(l, a) <= ticks /\ Due(l, b) > ticks
  \/ k = 2 /\ \E a : \E b : Two(l, a, b) /\ Due(l, a) <= ticks /\ Due(l, b) <= ticks

LEMMA ExpiringCount ==
  ASSUME NEW l \in ListType, NEW ticks \in Nat
  PROVE  Expiring(l, ticks, Cardinality(Expired(l, ticks)))
<1>1. CASE NoTimer(l)
  <2>1. Expired(l, ticks) = {}
    BY <1>1 DEF NoTimer, Expired
  <2>2. Cardinality(Expired(l, ticks)) = 0
    BY <2>1, FS_EmptySet
  <2> QED
    BY <1>1, <2>2 DEF NoTimer, Expiring
<1>2. ASSUME NEW a, One(l, a)
      PROVE  Expiring(l, ticks, Cardinality(Expired(l, ticks)))
  <2>1. DOMAIN l.list = {1} /\ Members(l) = {a}
    BY <1>2 DEF One
  <2>2. Span(l.list, l.toExpire, 1) = Due(l, a) /\ Due(l, a) \in Nat
    BY <1>2, ListSpans
  <2>3. CASE Due(l, a) <= ticks
    <3>1. Expired(l, ticks) = {1}
      BY <2>1, <2>2, <2>3 DEF Expired
    <3>2. Cardinality(Expired(l, ticks)) = 1
      BY <3>1, FS_Singleton
    <3> QED
      BY <1>2, <2>3, <3>2 DEF Expiring
  <2>4. CASE Due(l, a) > ticks
    <3>1. Expired(l, ticks) = {}
      BY <2>1, <2>2, <2>4 DEF Expired
    <3>2. Cardinality(Expired(l, ticks)) = 0
      BY <3>1, FS_EmptySet
    <3> QED
      BY <2>1, <2>4, <3>2 DEF Expiring
  <2> QED
    BY <2>2, <2>3, <2>4
<1>3. ASSUME NEW a, NEW b, Two(l, a, b)
      PROVE  Expiring(l, ticks, Cardinality(Expired(l, ticks)))
  <2>1. DOMAIN l.list = {1, 2} /\ Members(l) = {a, b}
    BY <1>3 DEF Two
  <2>2. /\ Span(l.list, l.toExpire, 1) = Due(l, a) /\ Due(l, a) \in Nat
        /\ Span(l.list, l.toExpire, 2) = Due(l, b) /\ Due(l, b) \in Nat
        /\ Due(l, a) <= Due(l, b)
    BY <1>3, ListSpans
  <2>3. CASE Due(l, b) <= ticks
    <3>1. Expired(l, ticks) = {1, 2}
      BY <2>1, <2>2, <2>3 DEF Expired
    <3>2. Cardinality({1, 2}) = 2
      <4>1. {1, 2} = {1} \union {2} /\ 2 \notin {1}
        OBVIOUS
      <4>2. IsFiniteSet({1}) /\ Cardinality({1}) = 1
        BY FS_Singleton
      <4> QED
        BY <4>1, <4>2, FS_AddElement
    <3> QED
      BY <1>3, <2>2, <2>3, <3>1, <3>2 DEF Expiring
  <2>4. CASE Due(l, a) <= ticks /\ Due(l, b) > ticks
    <3>1. Expired(l, ticks) = {1}
      BY <2>1, <2>2, <2>4 DEF Expired
    <3>2. Cardinality(Expired(l, ticks)) = 1
      BY <3>1, FS_Singleton
    <3> QED
      BY <1>3, <2>4, <3>2 DEF Expiring
  <2>5. CASE Due(l, a) > ticks
    <3>1. Expired(l, ticks) = {}
      BY <2>1, <2>2, <2>5 DEF Expired
    <3>2. Cardinality(Expired(l, ticks)) = 0
      BY <3>1, FS_EmptySet
    <3>3. \A t \in Members(l) : Due(l, t) > ticks
      BY <2>1, <2>2, <2>5
    <3> QED
      BY <3>2, <3>3 DEF Expiring
  <2> QED
    BY <2>2, <2>3, <2>4, <2>5
<1> QED
  BY <1>1, <1>2, <1>3, ListCases

\* The part of the list that expires.
Part(l, ticks, k) ==
  /\ k <= Len(l.list)
  /\ SubSeq(l.list, 1, k) \in Lists
  /\ Range(SubSeq(l.list, 1, k)) = {t \in Members(l) : Due(l, t) <= ticks}
  /\ Span(l.list, l.toExpire, k) \in Nat /\ Span(l.list, l.toExpire, k) <= ticks

LEMMA ExpiringPart ==
  ASSUME NEW l \in ListType, NEW ticks \in Nat, NEW k, Expiring(l, ticks, k)
  PROVE  k \in 0..2 /\ Part(l, ticks, k)
<1>1. CASE k = 0 /\ \A t \in Members(l) : Due(l, t) > ticks
  <2>1. SubSeq(l.list, 1, 0) = <<>>
    BY ShortSequences
  <2>2. Range(<<>>) = {} /\ <<>> \in Lists
    BY ListsAre DEF Range
  <2>3. Len(l.list) >= 0
    BY ListShapes DEF ListType
  <2>4. {t \in Members(l) : Due(l, t) <= ticks} = {}
    <3>1. \A t \in Members(l) : Due(l, t) \in Nat
      BY DueFirst
    <3> QED
      BY <1>1, <3>1
  <2>5. Span(l.list, l.toExpire, 0) = 0
    BY ListSpans
  <2>6. Range(SubSeq(l.list, 1, k)) = {t \in Members(l) : Due(l, t) <= ticks}
    BY <1>1, <2>1, <2>2, <2>4
  <2>7. k \in 0..2 /\ k <= Len(l.list)
    BY <1>1, <2>3
  <2>9. SubSeq(l.list, 1, k) \in Lists
    BY <1>1, <2>1, <2>2
  <2>8. Span(l.list, l.toExpire, k) \in Nat /\ Span(l.list, l.toExpire, k) <= ticks
    BY <1>1, <2>5
  <2> QED
    BY <2>6, <2>7, <2>8, <2>9 DEF Part
<1>2. ASSUME NEW a, k = 1, One(l, a), Due(l, a) <= ticks
      PROVE  Part(l, ticks, k)
  <2>1. /\ l.list = <<a>> /\ a \in Timers /\ Len(l.list) = 1 /\ Members(l) = {a}
    BY <1>2 DEF One
  <2>2. SubSeq(l.list, 1, 1) = <<a>>
    BY <2>1, ShortSequences
  <2>3. Range(<<a>>) = {a} /\ <<a>> \in Lists
    BY <2>1, ListsAre DEF Range
  <2>4. Span(l.list, l.toExpire, 1) = Due(l, a) /\ Due(l, a) \in Nat
    BY <1>2, ListSpans
  <2>5. {t \in Members(l) : Due(l, t) <= ticks} = {a}
    BY <1>2, <2>1
  <2>6. Range(SubSeq(l.list, 1, k)) = {t \in Members(l) : Due(l, t) <= ticks}
    BY <1>2, <2>1, <2>2, <2>3, <2>5
  <2>7. k <= Len(l.list)
    BY <1>2, <2>1
  <2>9. SubSeq(l.list, 1, k) \in Lists
    BY <1>2, <2>1, <2>2, <2>3
  <2>8. Span(l.list, l.toExpire, k) \in Nat /\ Span(l.list, l.toExpire, k) <= ticks
    BY <1>2, <2>4
  <2> QED
    BY <2>6, <2>7, <2>8, <2>9 DEF Part
<1>3. ASSUME NEW a, NEW b, k = 1, Two(l, a, b), Due(l, a) <= ticks, Due(l, b) > ticks
      PROVE  Part(l, ticks, k)
  <2>1. /\ l.list = <<a, b>> /\ a \in Timers /\ Len(l.list) = 2 /\ Members(l) = {a, b}
    BY <1>3 DEF Two
  <2>2. SubSeq(l.list, 1, 1) = <<a>>
    BY <2>1, ShortSequences
  <2>3. Range(<<a>>) = {a} /\ <<a>> \in Lists
    BY <2>1, ListsAre DEF Range
  <2>4. Span(l.list, l.toExpire, 1) = Due(l, a) /\ Due(l, a) \in Nat /\ Due(l, b) \in Nat
    BY <1>3, ListSpans
  <2>5. {t \in Members(l) : Due(l, t) <= ticks} = {a}
    BY <1>3, <2>1, <2>4
  <2>6. Range(SubSeq(l.list, 1, k)) = {t \in Members(l) : Due(l, t) <= ticks}
    BY <1>3, <2>1, <2>2, <2>3, <2>5
  <2>7. k <= Len(l.list)
    BY <1>3, <2>1
  <2>9. SubSeq(l.list, 1, k) \in Lists
    BY <1>3, <2>1, <2>2, <2>3
  <2>8. Span(l.list, l.toExpire, k) \in Nat /\ Span(l.list, l.toExpire, k) <= ticks
    BY <1>3, <2>4
  <2> QED
    BY <2>6, <2>7, <2>8, <2>9 DEF Part
<1>4. ASSUME NEW a, NEW b, k = 2, Two(l, a, b), Due(l, a) <= ticks, Due(l, b) <= ticks
      PROVE  Part(l, ticks, k)
  <2>1. /\ l.list = <<a, b>> /\ Len(l.list) = 2 /\ Members(l) = {a, b} /\ Range(l.list) = {a, b}
        /\ l.list \in Lists
    BY <1>4 DEF Two, Members, ListType
  <2>2. SubSeq(l.list, 1, 2) = l.list
    <3>1. SubSeq(<<a, b>>, 1, 2) = <<a, b>>
      BY ShortSequences
    <3> QED
      BY <2>1, <3>1
  <2>4. Span(l.list, l.toExpire, 2) = Due(l, b) /\ Due(l, b) \in Nat
    BY <1>4, ListSpans
  <2>5. {t \in Members(l) : Due(l, t) <= ticks} = {a, b}
    BY <1>4, <2>1
  <2>6. Range(SubSeq(l.list, 1, k)) = {t \in Members(l) : Due(l, t) <= ticks}
    BY <1>4, <2>1, <2>2, <2>5
  <2>7. k <= Len(l.list)
    BY <1>4, <2>1
  <2>9. SubSeq(l.list, 1, k) \in Lists
    BY <1>4, <2>1, <2>2
  <2>8. Span(l.list, l.toExpire, k) \in Nat /\ Span(l.list, l.toExpire, k) <= ticks
    BY <1>4, <2>4
  <2> QED
    BY <2>6, <2>7, <2>8, <2>9 DEF Part
<1> QED
  BY <1>1, <1>2, <1>3, <1>4 DEF Expiring

LEMMA Restarted ==
  ASSUME NEW l \in ListType, NEW t \in Timers, t \notin Members(l), NEW at \in Counter,
         NEW r, r = Restart(l, t, at),
         NEW ticks, ticks = TicksToExpire(l, at, Interval[t])
  PROVE  /\ r \in ListType /\ Members(r) = Members(l) \union {t} /\ Counting(r, l)
         /\ \A u \in Members(l) : SameTimer(r, l, u)
         /\ ticks \in Nat /\ Due(r, t) = ticks
         /\ r.ran[t] = l.ran[t] - Interval[t] /\ r.shifted[t] = (l.shifted[t] \/ ticks = 0)
<1>b. PICK sh : sh = (l.shifted[t] \/ ticks = 0)
  OBVIOUS
<1>e. PICK rn : rn = l.ran[t] - Interval[t]
  OBVIOUS
<1>c. PICK m : m = [l EXCEPT !.ran[t] = rn, !.shifted[t] = sh]
  OBVIOUS
<1>3. l.ran \in [Timers -> Int] /\ l.shifted \in [Timers -> BOOLEAN] /\ l.latest \in Counter
      /\ l.reset \in BOOLEAN /\ l.list \in Lists /\ l.toExpire \in [Timers -> Nat]
  BY DEF ListType
<1>2. sh \in BOOLEAN /\ rn \in Int
  <2>1. Interval[t] \in Nat /\ l.ran[t] \in Int
    BY <1>3, Constants
  <2>2. rn \in Int
    BY <1>e, <2>1
  <2>3. sh \in BOOLEAN
    BY <1>b, <1>3
  <2> QED
    BY <2>2, <2>3
<1>4. /\ m.ran = [l.ran EXCEPT ![t] = rn] /\ m.shifted = [l.shifted EXCEPT ![t] = sh]
      /\ m.list = l.list /\ m.toExpire = l.toExpire /\ m.latest = l.latest
      /\ m.reset = l.reset /\ m.clear = l.clear
  BY <1>c DEF ListType
<1>5. m.ran \in [Timers -> Int] /\ m.shifted \in [Timers -> BOOLEAN]
  BY <1>2, <1>3, <1>4
<1>6. m \in ListType
  BY <1>c, <1>4, <1>5 DEF ListType
<1>7. ticks \in Nat
  <2>2. Interval[t] \in Nat
    BY Constants
  <2> QED
    BY <1>3, <2>2, TicksType
<1>8. Members(m) = Members(l) /\ \A u : Due(m, u) = Due(l, u)
  BY <1>4 DEF Members, Due
<1>9. r = ListInsert(m, t, ticks)
  <2>1. m = [l EXCEPT !.ran[t] = @ - Interval[t], !.shifted[t] = @ \/ ticks = 0]
    BY <1>b, <1>c, <1>e
  <2> QED
    BY <2>1 DEF Restart
<1>10. /\ r \in ListType /\ Members(r) = Members(m) \union {t} /\ Aside(r, m)
       /\ Due(r, t) = ticks /\ \A u \in Members(m) : Due(r, u) = Due(m, u)
  BY <1>6, <1>7, <1>8, <1>9, ListInserted
<1>11. /\ r.ran[t] = rn /\ r.shifted[t] = sh
       /\ \A u \in Members(l) : r.ran[u] = l.ran[u] /\ r.shifted[u] = l.shifted[u]
  <2>1. r.ran = m.ran /\ r.shifted = m.shifted
    BY <1>10 DEF Aside
  <2>2. \A u \in Members(l) : u # t
    OBVIOUS
  <2>3. Members(l) \subseteq Timers
    BY DueFirst
  <2> QED
    BY <1>2, <1>3, <1>4, <2>1, <2>2, <2>3
<1>12. Counting(r, l)
  BY <1>4, <1>10 DEF Aside, Counting
<1> QED
  BY <1>b, <1>e, <1>7, <1>8, <1>10, <1>11, <1>12 DEF SameTimer

\* What remains of l when ticks are over.
RemainsOf(r, l, ticks) ==
  /\ r \in ListType /\ Members(r) = {t \in Members(l) : Due(l, t) > ticks} /\ Aside(r, l)
  /\ \A t \in Members(r) : Due(r, t) = Due(l, t) - ticks

LEMMA Kept ==
  ASSUME NEW l \in ListType, NEW ticks \in Nat, NEW k, Expiring(l, ticks, k),
         NEW r,
         r = [l EXCEPT
                !.list = SubSeq(@, k + 1, Len(@)),
                !.toExpire = [t \in Timers |->
                   CASE \E n \in 1..k : l.list[n] = t -> 0
                     [] k < Len(l.list) /\ t = l.list[k + 1] ->
                          Span(l.list, l.toExpire, k + 1) - ticks
                     [] OTHER -> @[t]]]
  PROVE  RemainsOf(r, l, ticks)
<1>a. PICK out : out = SubSeq(l.list, k + 1, Len(l.list))
  OBVIOUS
<1>b. PICK exp : exp = [t \in Timers |->
                   CASE \E n \in 1..k : l.list[n] = t -> 0
                     [] k < Len(l.list) /\ t = l.list[k + 1] ->
                          Span(l.list, l.toExpire, k + 1) - ticks
                     [] OTHER -> l.toExpire[t]]
  OBVIOUS
<1>1. r = [l EXCEPT !.list = out, !.toExpire = exp]
  BY <1>a, <1>b
<1>2. r.list = out /\ r.toExpire = exp /\ Aside(r, l)
  <2>1. r.list = out /\ r.toExpire = exp
    BY <1>1 DEF ListType
  <2>2. Aside(r, l)
    BY <1>1 DEF ListType, Aside
  <2> QED
    BY <2>1, <2>2
<1>3. out \in Lists /\ exp \in [Timers -> Nat] => r \in ListType
  BY <1>1 DEF ListType
<1>4. Span(l.list, l.toExpire, 0) = 0 /\ l.toExpire \in [Timers -> Nat]
  BY ListSpans
<1>c. Range(<<>>) = {}
  BY DEF Range
<1>5. CASE NoTimer(l)
  <2>1. l.list = <<>> /\ Len(l.list) = 0 /\ Members(l) = {}
    BY <1>5 DEF NoTimer
  <2>2. k = 0
    BY <2>1 DEF Expiring, One, Two
  <2>3. out = <<>>
    <3>1. SubSeq(<<>>, 1, 0) = <<>>
      BY ShortSequences
    <3> QED
      BY <1>a, <2>1, <2>2, <3>1
  <2>4. exp = l.toExpire
    BY <1>b, <1>4, <2>1, <2>2
  <2>5. r \in ListType
    BY <1>3, <1>4, <2>3, <2>4, ListsAre
  <2>6. Members(r) = {}
    BY <1>2, <1>c, <2>3 DEF Members
  <2> QED
    BY <1>2, <2>1, <2>5, <2>6 DEF RemainsOf
<1>6. ASSUME NEW a, One(l, a)
      PROVE  RemainsOf(r, l, ticks)
  <2>1. l.list = <<a>> /\ Len(l.list) = 1 /\ Members(l) = {a} /\ a \in Timers /\ l.list[1] = a
    BY <1>6 DEF One
  <2>2. Span(l.list, l.toExpire, 1) = l.toExpire[a] /\ Due(l, a) = l.toExpire[a]
        /\ l.toExpire[a] \in Nat
    BY <1>6, ListSpans
  <2>3. CASE Due(l, a) > ticks
    <3>1. k = 0
      BY <2>1, <2>2, <2>3 DEF Expiring, One, Two
    <3>2. out = <<a>>
      <4>1. SubSeq(<<a>>, 1, 1) = <<a>>
        BY ShortSequences
      <4> QED
        BY <1>a, <2>1, <3>1, <4>1
    <3>3. exp = [l.toExpire EXCEPT ![a] = @ - ticks]
      BY <1>b, <1>4, <2>1, <2>2, <3>1
    <3>4. exp \in [Timers -> Nat] /\ exp[a] = l.toExpire[a] - ticks
      BY <1>4, <2>1, <2>2, <2>3, <3>3
    <3>5. out \in Lists /\ out[1] = a /\ Range(out) = {a}
      BY <2>1, <3>2, ListsAre DEF Range
    <3>6. r \in ListType /\ Members(r) = {a}
      BY <1>2, <1>3, <3>4, <3>5 DEF Members
    <3>7. Due(r, a) = Due(l, a) - ticks
      BY <1>2, <2>2, <3>4, <3>5 DEF Due
    <3>8. {t \in Members(l) : Due(l, t) > ticks} = {a}
      BY <2>1, <2>3
    <3> QED
      BY <1>2, <3>6, <3>7, <3>8 DEF RemainsOf
  <2>4. CASE Due(l, a) <= ticks
    <3>1. k = 1
      BY <2>1, <2>2, <2>4 DEF Expiring, One, Two
    <3>2. out = <<>>
      <4>1. SubSeq(<<a>>, 2, 1) = <<>>
        BY ShortSequences
      <4> QED
        BY <1>a, <2>1, <3>1, <4>1
    <3>3. exp = [l.toExpire EXCEPT ![a] = 0]
      BY <1>b, <1>4, <2>1, <3>1
    <3>4. exp \in [Timers -> Nat]
      BY <1>4, <3>3
    <3>5. r \in ListType
      BY <1>3, <3>2, <3>4, ListsAre
    <3>6. Members(r) = {}
      BY <1>2, <1>c, <3>2 DEF Members
    <3>7. {t \in Members(l) : Due(l, t) > ticks} = {}
      BY <2>1, <2>2, <2>4
    <3> QED
      BY <1>2, <3>5, <3>6, <3>7 DEF RemainsOf
  <2> QED
    BY <2>2, <2>3, <2>4
<1>7. ASSUME NEW a, NEW b, Two(l, a, b)
      PROVE  RemainsOf(r, l, ticks)
  <2>1. l.list = <<a, b>> /\ Len(l.list) = 2 /\ Members(l) = {a, b} /\ a \in Timers
        /\ b \in Timers /\ a # b /\ l.list[1] = a /\ l.list[2] = b /\ Timers = {a, b}
    BY <1>7 DEF Two
  <2>2. /\ Span(l.list, l.toExpire, 1) = l.toExpire[a] /\ Due(l, a) = l.toExpire[a]
        /\ l.toExpire[a] \in Nat /\ l.toExpire[b] \in Nat
        /\ Span(l.list, l.toExpire, 2) = l.toExpire[a] + l.toExpire[b]
        /\ Due(l, b) = l.toExpire[a] + l.toExpire[b]
    BY <1>7, ListSpans
  <2>3. CASE Due(l, a) > ticks
    <3>1. k = 0
      BY <2>1, <2>2, <2>3 DEF Expiring, One, Two
    <3>2. out = <<a, b>>
      <4>1. SubSeq(<<a, b>>, 1, 2) = <<a, b>>
        BY ShortSequences
      <4> QED
        BY <1>a, <2>1, <3>1, <4>1
    <3>3. exp = [l.toExpire EXCEPT ![a] = @ - ticks]
      BY <1>b, <1>4, <2>1, <2>2, <3>1
    <3>4. exp \in [Timers -> Nat] /\ exp[a] = l.toExpire[a] - ticks /\ exp[b] = l.toExpire[b]
      BY <1>4, <2>1, <2>2, <2>3, <3>3
    <3>5. out \in Lists /\ out[1] = a /\ Range(out) = {a, b}
      BY <2>1, <3>2, ListsAre DEF Range
    <3>6. r \in ListType /\ Members(r) = {a, b}
      BY <1>2, <1>3, <3>4, <3>5 DEF Members
    <3>7. Due(r, a) = Due(l, a) - ticks /\ Due(r, b) = Due(l, b) - ticks
      <4>1. Due(r, a) = exp[a] /\ Due(r, b) = exp[a] + exp[b]
        BY <1>2, <2>1, <3>5 DEF Due
      <4> QED
        BY <2>2, <3>4, <4>1
    <3>8. {t \in Members(l) : Due(l, t) > ticks} = {a, b}
      BY <2>1, <2>2, <2>3
    <3> QED
      BY <1>2, <3>6, <3>7, <3>8 DEF RemainsOf
  <2>4. CASE Due(l, a) <= ticks /\ Due(l, b) > ticks
    <3>1. k = 1
      BY <2>1, <2>2, <2>4 DEF Expiring, One, Two
    <3>2. out = <<b>>
      <4>1. SubSeq(<<a, b>>, 2, 2) = <<b>>
        BY ShortSequences
      <4> QED
        BY <1>a, <2>1, <3>1, <4>1
    <3>3. exp = [l.toExpire EXCEPT ![a] = 0, ![b] = Span(l.list, l.toExpire, 2) - ticks]
      BY <1>b, <1>4, <2>1, <3>1
    <3>4. exp \in [Timers -> Nat] /\ exp[b] = Due(l, b) - ticks
      BY <1>4, <2>1, <2>2, <2>4, <3>3
    <3>5. out \in Lists /\ out[1] = b /\ Range(out) = {b}
      BY <2>1, <3>2, ListsAre DEF Range
    <3>6. r \in ListType /\ Members(r) = {b}
      BY <1>2, <1>3, <3>4, <3>5 DEF Members
    <3>7. Due(r, b) = Due(l, b) - ticks
      BY <1>2, <3>4, <3>5 DEF Due
    <3>8. {t \in Members(l) : Due(l, t) > ticks} = {b}
      BY <2>1, <2>2, <2>4
    <3> QED
      BY <1>2, <3>6, <3>7, <3>8 DEF RemainsOf
  <2>5. CASE Due(l, b) <= ticks
    <3>1. k = 2
      BY <2>1, <2>2, <2>5 DEF Expiring, One, Two
    <3>2. out = <<>>
      <4>1. SubSeq(<<a, b>>, 3, 2) = <<>>
        BY ShortSequences
      <4> QED
        BY <1>a, <2>1, <3>1, <4>1
    <3>3. exp = [t \in Timers |-> 0]
      BY <1>b, <2>1, <3>1
    <3>4. exp \in [Timers -> Nat]
      BY <3>3
    <3>5. r \in ListType
      BY <1>3, <3>2, <3>4, ListsAre
    <3>6. Members(r) = {}
      BY <1>2, <1>c, <3>2 DEF Members
    <3>7. {t \in Members(l) : Due(l, t) > ticks} = {}
      BY <2>1, <2>2, <2>5
    <3> QED
      BY <1>2, <3>5, <3>6, <3>7 DEF RemainsOf
  <2> QED
    BY <2>2, <2>3, <2>4, <2>5
<1> QED
  BY <1>5, <1>6, <1>7, ListCases

\* Only the tick timer starts again, for the time at which it expired.
ExpiredInto(e, l, ticks, previous) ==
  /\ RemainsOf(e.removed, l, ticks)
  /\ IF tick \in Members(l) /\ Due(l, tick) <= ticks
     THEN e.restarted = Restart(e.removed, tick, (previous + Due(l, tick)) % CounterMod)
     ELSE e.restarted = e.removed

LEMMA ExpireDone ==
  ASSUME NEW l \in ListType, NEW ticks \in Nat, NEW previous
  PROVE  ExpiredInto(Expire(l, ticks, previous), l, ticks, previous)
<1> DEFINE k    == Cardinality(Expired(l, ticks))
           kept == [l EXCEPT
                !.list = SubSeq(@, k + 1, Len(@)),
                !.toExpire = [t \in Timers |->
                   CASE \E n \in 1..k : l.list[n] = t -> 0
                     [] k < Len(l.list) /\ t = l.list[k + 1] ->
                          Span(l.list, l.toExpire, k + 1) - ticks
                     [] OTHER -> @[t]]]
           again(m, n) == IF l.list[n] \in Repeated
                          THEN Restart(m, l.list[n],
                                 (previous + Span(l.list, l.toExpire, n)) % CounterMod)
                          ELSE m
           after[n \in 0..k] == IF n = 0 THEN kept ELSE again(after[n - 1], k + 1 - n)
<1>1. Expiring(l, ticks, k)
  BY ExpiringCount
<1>2. RemainsOf(kept, l, ticks)
  <2> HIDE DEF k
  <2> QED
    BY <1>1, Kept
<1>3. k \in 0..2
  <2> HIDE DEF k
  <2> QED
    BY <1>1, ExpiringPart
<1>4. Expire(l, ticks, previous) = [removed |-> kept, restarted |-> after[k]]
  BY DEF Expire
<1> HIDE DEF k, kept, again
<1>c. PICK f : f = after
  OBVIOUS
<1>d. f = CHOOSE h : h = [n \in 0..k |-> IF n = 0 THEN kept ELSE again(h[n - 1], k + 1 - n)]
  BY <1>c
<1> HIDE DEF after
<1>5. f = [n \in 0..k |-> IF n = 0 THEN kept ELSE again(f[n - 1], k + 1 - n)]
  <2>1. CASE k = 0
    <3>1. PICK g : g = [n \in 0..0 |-> kept]
      OBVIOUS
    <3>2. g = [n \in 0..0 |-> IF n = 0 THEN kept ELSE again(g[n - 1], 0 + 1 - n)]
      BY <3>1
    <3> QED
      BY <1>d, <2>1, <3>2
  <2>2. CASE k = 1
    <3>1. PICK g : g = [n \in 0..1 |-> IF n = 0 THEN kept ELSE again(kept, 1)]
      OBVIOUS
    <3>2. g = [n \in 0..1 |-> IF n = 0 THEN kept ELSE again(g[n - 1], 1 + 1 - n)]
      <4>1. ASSUME NEW n \in 0..1
            PROVE  g[n] = IF n = 0 THEN kept ELSE again(g[n - 1], 1 + 1 - n)
        BY <3>1
      <4> QED
        BY <3>1, <4>1
    <3> QED
      BY <1>d, <2>2, <3>2
  <2>3. CASE k = 2
    <3>1. PICK g : g = [n \in 0..2 |-> IF n = 0 THEN kept ELSE
                                        IF n = 1 THEN again(kept, 2)
                                        ELSE again(again(kept, 2), 1)]
      OBVIOUS
    <3>2. g = [n \in 0..2 |-> IF n = 0 THEN kept ELSE again(g[n - 1], 2 + 1 - n)]
      <4>1. g[0] = kept /\ g[1] = again(kept, 2) /\ g[2] = again(again(kept, 2), 1)
        BY <3>1
      <4>2. ASSUME NEW n \in 0..2
            PROVE  g[n] = IF n = 0 THEN kept ELSE again(g[n - 1], 2 + 1 - n)
        <5>1. n = 0 \/ n = 1 \/ n = 2
          OBVIOUS
        <5>2. 1 - 1 = 0 /\ 2 + 1 - 1 = 2 /\ 2 - 1 = 1 /\ 2 + 1 - 2 = 1
          OBVIOUS
        <5>3. CASE n = 0
          BY <4>1, <5>3
        <5>4. CASE n = 1
          BY <4>1, <5>2, <5>4
        <5>5. CASE n = 2
          BY <4>1, <5>2, <5>5
        <5> QED
          BY <5>1, <5>3, <5>4, <5>5
      <4> QED
        BY <3>1, <4>2
    <3> QED
      BY <1>d, <2>3, <3>2
  <2> QED
    BY <1>3, <2>1, <2>2, <2>3
<1>6. /\ k = 0 => f[k] = kept
      /\ k = 1 => f[k] = again(kept, 1)
      /\ k = 2 => f[k] = again(again(kept, 2), 1)
  <2>1. CASE k = 0
    BY <1>5, <2>1
  <2>2. CASE k = 1
    <3>1. f[1] = again(f[1 - 1], 1 + 1 - 1) /\ f[0] = kept /\ 1 - 1 = 0 /\ 1 + 1 - 1 = 1
      BY <1>5, <2>2
    <3> QED
      BY <2>2, <3>1
  <2>3. CASE k = 2
    <3>1. f[2] = again(f[2 - 1], 2 + 1 - 2) /\ f[1] = again(f[1 - 1], 2 + 1 - 1)
          /\ f[0] = kept
      BY <1>5, <2>3
    <3>2. 1 - 1 = 0 /\ 2 + 1 - 1 = 2 /\ 2 - 1 = 1 /\ 2 + 1 - 2 = 1
      OBVIOUS
    <3> QED
      BY <2>3, <3>1, <3>2
  <2> QED
    BY <1>3, <2>1, <2>2, <2>3
<1>7. Repeated = {tick} /\ tick # button
  BY ButtonAssumption
<1>8. IF tick \in Members(l) /\ Due(l, tick) <= ticks
      THEN f[k] = Restart(kept, tick, (previous + Due(l, tick)) % CounterMod)
      ELSE f[k] = kept
  <2>1. CASE k = 0 /\ \A t \in Members(l) : Due(l, t) > ticks
    <3>1. ~(tick \in Members(l) /\ Due(l, tick) <= ticks)
      BY <2>1, DueFirst
    <3> QED
      BY <1>6, <2>1, <3>1
  <2>2. ASSUME NEW a, k = 1, One(l, a), Due(l, a) <= ticks
        PROVE  IF tick \in Members(l) /\ Due(l, tick) <= ticks
               THEN f[k] = Restart(kept, tick, (previous + Due(l, tick)) % CounterMod)
               ELSE f[k] = kept
    <3>1. l.list[1] = a /\ Members(l) = {a} /\ Span(l.list, l.toExpire, 1) = Due(l, a)
      BY <2>2, ListSpans DEF One
    <3>2. f[k] = again(kept, 1)
      BY <1>6, <2>2
    <3> QED
      BY <1>7, <2>2, <3>1, <3>2 DEF again
  <2>3. ASSUME NEW a, NEW b, k = 1, Two(l, a, b), Due(l, a) <= ticks, Due(l, b) > ticks
        PROVE  IF tick \in Members(l) /\ Due(l, tick) <= ticks
               THEN f[k] = Restart(kept, tick, (previous + Due(l, tick)) % CounterMod)
               ELSE f[k] = kept
    <3>1. /\ l.list[1] = a /\ Members(l) = {a, b} /\ a # b
          /\ Span(l.list, l.toExpire, 1) = Due(l, a)
      BY <2>3, ListSpans DEF Two
    <3>2. f[k] = again(kept, 1)
      BY <1>6, <2>3
    <3>3. ~(Due(l, b) <= ticks)
      BY <2>3, <3>1, DueFirst
    <3>4. CASE a = tick
      BY <1>7, <2>3, <3>1, <3>2, <3>4 DEF again
    <3>5. CASE a # tick
      BY <1>7, <2>3, <3>1, <3>2, <3>3, <3>5 DEF again
    <3> QED
      BY <3>4, <3>5
  <2>4. ASSUME NEW a, NEW b, k = 2, Two(l, a, b), Due(l, a) <= ticks, Due(l, b) <= ticks
        PROVE  IF tick \in Members(l) /\ Due(l, tick) <= ticks
               THEN f[k] = Restart(kept, tick, (previous + Due(l, tick)) % CounterMod)
               ELSE f[k] = kept
    <3>1. /\ l.list[1] = a /\ l.list[2] = b /\ Members(l) = {a, b} /\ a # b /\ Timers = {a, b}
          /\ Span(l.list, l.toExpire, 1) = Due(l, a) /\ Span(l.list, l.toExpire, 2) = Due(l, b)
      BY <2>4, ListSpans DEF Two
    <3>2. f[k] = again(again(kept, 2), 1)
      BY <1>6, <2>4
    <3>3. tick \in Members(l) /\ (a = tick \/ b = tick) /\ Due(l, tick) <= ticks
      BY <2>4, <3>1, Constants
    <3>4. CASE a = tick
      <4>1. again(kept, 2) = kept
        BY <1>7, <3>1, <3>4 DEF again
      <4>2. again(kept, 1) = Restart(kept, tick, (previous + Due(l, tick)) % CounterMod)
        BY <1>7, <3>1, <3>4 DEF again
      <4> QED
        BY <3>2, <3>3, <4>1, <4>2
    <3>5. CASE b = tick
      <4>1. again(kept, 2) = Restart(kept, tick, (previous + Due(l, tick)) % CounterMod)
        BY <1>7, <3>1, <3>5 DEF again
      <4>2. \A m : again(m, 1) = m
        BY <1>7, <3>1, <3>5 DEF again
      <4> QED
        BY <3>2, <3>3, <4>1, <4>2
    <3> QED
      BY <3>3, <3>4, <3>5
  <2> QED
    BY <1>1, <2>1, <2>2, <2>3, <2>4 DEF Expiring
<1> QED
  BY <1>2, <1>4, <1>c, <1>8 DEF ExpiredInto

-----------------------------------------------------------------------------
(* The inductive invariant.                                                *)

TimersTyped ==
  /\ counter \in Counter /\ cc \in Counter /\ latest \in Counter
  /\ armed \in BOOLEAN /\ rtcRunning \in BOOLEAN /\ rtcPending \in BOOLEAN
  /\ swiPending \in BOOLEAN /\ clearing \in BOOLEAN /\ rtcReset \in BOOLEAN
  /\ rebased \in BOOLEAN
  /\ list \in Lists /\ toExpire \in [Timers -> Nat]
  /\ ran \in [Timers -> Int] /\ shifted \in [Timers -> BOOLEAN]
  /\ elapsed \in Nat \union {None} /\ lag \in 0..MaxLag

PinsTyped ==
  /\ level \in SUBSET Pins /\ pinState \in SUBSET Pins /\ transition \in SUBSET Pins
  /\ reported \in SUBSET Pins /\ excused \in SUBSET Pins
  /\ main \in {"init", "enqueue", "done"}

\* Edges queue operations of the button's timer, and main() the start of the
\* other one, once.
ButtonOps == {op \in Ops : op.timer = button}
TickOps   == {op \in Ops : op.timer = tick /\ op.type = "start"}
QueuesKept ==
  /\ opQueue \in [Queues -> Seq(Ops)]
  /\ \A u \in Queues : Len(opQueue[u]) <= QueueSize
  /\ opQueue["high"] \in Seq(ButtonOps)
  /\ opQueue["main"] \in Seq(TickOps) /\ opQueue["draft"] \in Seq(TickOps)
  /\ Len(opQueue["draft"]) <= 1
  /\ main # "done" => opQueue["main"] = <<>>

\* Where the low priority is.  SWI0 reads the expired ticks before it goes on.
Expiry == [at : {"expire"}, todo : Lists, ticks : Nat]
LowKept ==
  /\ \/ low = Idle
     \/ low \in Expiry
     \/ low \in [at : {"insert"}, head : Timers \union {None}, update : BOOLEAN]
     \/ low = [at |-> "compare"]
     \/ low \in [at : {"write", "check"}, pre : Counter, cc : Counter]
  /\ low.at \in {"insert", "compare", "write", "check"} => elapsed = None

Loading == [pin : Pins, at : {"store"}, seen : SUBSET Pins]
Loaded  == [pin : Pins, at : {"read", "report"}, high : BOOLEAN, edge : BOOLEAN]
ScanKept ==
  \/ scan = NoScan
  \/ /\ ButtonHandler
     /\ \/ scan \in [pin : Pins, at : {"test"}]
        \/ scan \in Loading
        \/ scan \in Loaded

\* What is recorded of a pin.  Between the store and the report the pin's bit
\* is clear, and the report is still to come.
Scanned == scan.at \in {"read", "report"}
AtPin(p) == Scanned /\ scan.pin = p
Settled(p)  == (p \in level) = (p \in reported)
Recorded(p) == (p \in pinState) = (p \in level)
PinsKept ==
  /\ \A p \in Pins \ excused :
       /\ AtPin(p) /\ ~scan.edge => Settled(p) \/ Recorded(p)
       /\ ~AtPin(p) /\ p \in transition => Recorded(p) /\ ~Settled(p)
       /\ ~AtPin(p) /\ p \notin transition => Settled(p)
  /\ Scanned /\ ~scan.edge => scan.pin \notin transition
  /\ scan.at = "report" /\ ~scan.edge => scan.high = (scan.pin \in level)

\* A recorded edge will be looked at: the detection timer is to be started, or
\* it runs and does not expire before its handler can run, or the handler runs
\* and has not passed the pin.
Restarting == \E i \in 1..Len(opQueue["high"]) : opQueue["high"][i].type = "start"
Ahead(p) == IF Scanned THEN scan.pin < p ELSE scan.pin <= p
WillScan(p) ==
  /\ button \in Running
  /\ elapsed # None => Due(List0, button) > elapsed
  /\ low.at = "expire" => IF button \in Range(low.todo) THEN Ahead(p)
                          ELSE Due(List0, button) > low.ticks
Awaited(p) == Restarting \/ (opQueue["high"] = <<>> /\ WillScan(p))
EdgesAwaited == \A p \in transition \ excused : Awaited(p)

IInv == /\ TimersTyped /\ PinsTyped /\ QueuesKept /\ LowKept /\ ScanKept
        /\ PinsKept /\ EdgesAwaited
-----------------------------------------------------------------------------
(* What a step keeps by leaving it alone.                                  *)

LEMMA List0Typed ==
  ASSUME TimersTyped
  PROVE  /\ List0 \in ListType /\ Members(List0) = Running
         /\ List0.list = list /\ List0.toExpire = toExpire /\ List0.latest = latest
         /\ List0.reset = rtcReset /\ List0.ran = ran /\ List0.shifted = shifted
BY DEF TimersTyped, List0, ListType, Members, Running

LEMMA PinsStay ==
  ASSUME PinsTyped, PinsKept, UNCHANGED pinVars
  PROVE  PinsTyped' /\ PinsKept'
BY DEF PinsTyped, PinsKept, pinVars, AtPin, Scanned, Settled, Recorded

LEMMA QueuesStay ==
  ASSUME QueuesKept, opQueue' = opQueue, main' = main
  PROVE  QueuesKept'
BY DEF QueuesKept

LEMMA ScanStays ==
  ASSUME ScanKept, scan' = scan, low' = low
  PROVE  ScanKept'
BY DEF ScanKept, ButtonHandler

LEMMA NoScanStays ==
  ASSUME ScanKept, scan' = scan, ~ButtonHandler
  PROVE  ScanKept' /\ scan = NoScan /\ scan' = NoScan /\ ~Scanned /\ ~Scanned'
BY DEF ScanKept, Scanned, NoScan

\* Operations of the same timers, that do the same.
Alike(q, r) ==
  /\ r \in Seq(Ops) /\ Len(r) = Len(q)
  /\ \A i \in 1..Len(q) : r[i].type = q[i].type /\ r[i].timer = q[i].timer

LEMMA AlikeSame ==
  ASSUME NEW q \in Seq(Ops)
  PROVE  Alike(q, q)
BY DEF Alike

LEMMA AlikeMapped ==
  ASSUME NEW q \in Seq(Ops), NEW r \in [1..Len(q) -> Ops],
         \A i \in 1..Len(q) : r[i].type = q[i].type /\ r[i].timer = q[i].timer
  PROVE  Alike(q, r)
<1>1. Len(q) \in Nat
  BY LenProperties
<1>2. r \in Seq(Ops) /\ Len(r) = Len(q)
  BY <1>1
<1> QED
  BY <1>2 DEF Alike

LEMMA AlikeIn ==
  ASSUME NEW q \in Seq(Ops), NEW r, Alike(q, r)
  PROVE  /\ q \in Seq(ButtonOps) => r \in Seq(ButtonOps)
         /\ q \in Seq(TickOps) => r \in Seq(TickOps)
         /\ q = <<>> => r = <<>>
<1>1. /\ r \in Seq(Ops) /\ Len(r) = Len(q) /\ Len(q) \in Nat /\ Len(r) \in Nat
      /\ \A i \in 1..Len(q) : r[i].type = q[i].type /\ r[i].timer = q[i].timer
  BY LenProperties DEF Alike
<1>2. \A i \in 1..Len(r) : r[i] \in Ops
  BY <1>1, ElementOfSeq
<1>3. DOMAIN r = 1..Len(r) /\ r = [i \in 1..Len(r) |-> r[i]]
  BY <1>1, LenProperties
<1>4. ASSUME q \in Seq(ButtonOps)
      PROVE  r \in Seq(ButtonOps)
  <2>1. \A i \in 1..Len(q) : q[i] \in ButtonOps
    BY <1>4, ElementOfSeq
  <2>2. \A i \in 1..Len(r) : r[i] \in ButtonOps
    BY <1>1, <1>2, <2>1 DEF ButtonOps
  <2>3. r \in [1..Len(r) -> ButtonOps]
    BY <1>3, <2>2
  <2> QED
    BY <1>1, <2>3
<1>5. ASSUME q \in Seq(TickOps)
      PROVE  r \in Seq(TickOps)
  <2>1. \A i \in 1..Len(q) : q[i] \in TickOps
    BY <1>5, ElementOfSeq
  <2>2. \A i \in 1..Len(r) : r[i] \in TickOps
    BY <1>1, <1>2, <2>1 DEF TickOps
  <2>3. r \in [1..Len(r) -> TickOps]
    BY <1>3, <2>2
  <2> QED
    BY <1>1, <2>3
<1>6. q = <<>> => r = <<>>
  BY <1>1, EmptySeq
<1> QED
  BY <1>4, <1>5, <1>6

LEMMA QueuesAlike ==
  ASSUME QueuesKept, opQueue' \in [Queues -> Seq(Ops)], main' = main,
         Alike(opQueue["high"], opQueue'["high"]),
         Alike(opQueue["draft"], opQueue'["draft"]),
         Alike(opQueue["main"], opQueue'["main"]) \/ opQueue'["main"] = <<>>
  PROVE  /\ QueuesKept' /\ (Restarting => Restarting')
         /\ opQueue["high"] = <<>> => opQueue'["high"] = <<>>
<1>1. /\ opQueue["high"] \in Seq(Ops) /\ opQueue["main"] \in Seq(Ops)
      /\ opQueue["draft"] \in Seq(Ops)
  BY DEF QueuesKept, Queues
<1>2. opQueue'["high"] \in Seq(ButtonOps) /\ opQueue'["draft"] \in Seq(TickOps)
  BY <1>1, AlikeIn DEF QueuesKept
<1>3. opQueue'["main"] \in Seq(TickOps)
  BY <1>1, AlikeIn, EmptySeq DEF QueuesKept
<1>4. main # "done" => opQueue'["main"] = <<>>
  BY <1>1, AlikeIn DEF QueuesKept
<1>5. /\ Len(opQueue'["high"]) <= QueueSize /\ Len(opQueue'["draft"]) <= QueueSize
      /\ Len(opQueue'["main"]) <= QueueSize /\ Len(opQueue'["draft"]) <= 1
  <2>1. Len(<<>>) = 0 /\ 0 <= QueueSize
    BY Constants
  <2> QED
    BY <2>1 DEF QueuesKept, Alike, Queues
<1>6. QueuesKept'
  BY <1>2, <1>3, <1>4, <1>5 DEF QueuesKept, Queues
<1>a. PICK q : q = opQueue["high"]
  OBVIOUS
<1>b. PICK r : r = opQueue'["high"]
  OBVIOUS
<1>7. Restarting => Restarting'
  <2>1. q \in Seq(Ops) /\ Alike(q, r)
    BY <1>a, <1>b, <1>1
  <2>2. (\E i \in 1..Len(q) : q[i].type = "start") => (\E i \in 1..Len(r) : r[i].type = "start")
    BY <2>1 DEF Alike
  <2> QED
    BY <1>a, <1>b, <2>2 DEF Restarting
<1>8. opQueue["high"] = <<>> => opQueue'["high"] = <<>>
  <2>1. q \in Seq(Ops) /\ Alike(q, r)
    BY <1>a, <1>b, <1>1
  <2>2. q = <<>> => r = <<>>
    BY <2>1, EmptySeq DEF Alike
  <2> QED
    BY <1>a, <1>b, <2>2
<1> QED
  BY <1>6, <1>7, <1>8

LEMMA EdgesStayAwaited ==
  ASSUME EdgesAwaited, transition' = transition, excused' = excused,
         Restarting => Restarting',
         opQueue["high"] = <<>> => opQueue'["high"] = <<>>,
         list' = list, toExpire' = toExpire, elapsed' \in {elapsed, None},
         low'.at = "expire" => low' = low /\ scan' = scan
  PROVE  EdgesAwaited'
<1>1. Due(List0, button)' = Due(List0, button) /\ Running' = Running
  BY DEF Due, List0, Running
<1>2. ASSUME NEW p, WillScan(p)
      PROVE  WillScan(p)'
  <2>1. low'.at = "expire" => Range(low.todo)' = Range(low.todo) /\ (Ahead(p) => Ahead(p)')
                               /\ low'.ticks = low.ticks /\ low.at = "expire"
    BY DEF Ahead, Scanned
  <2> QED
    BY <1>1, <1>2, <2>1 DEF WillScan
<1> QED
  BY <1>2 DEF EdgesAwaited, Awaited

-----------------------------------------------------------------------------
(* The steps of the timer library.                                         *)

LEMMA TickKeeps ==
  ASSUME IInv, Tick, UNCHANGED pinVars
  PROVE  IInv'
<1> USE DEF IInv
<1>1. TimersTyped'
  <2>1. counter' \in Counter
    <3>1. counter + 1 \in Int
      BY DEF TimersTyped, Counter
    <3>2. (counter + 1) % CounterMod \in Counter
      BY <3>1, DiffType
    <3> QED
      BY <3>2 DEF Tick
  <2>2. lag' \in 0..MaxLag
    BY Constants DEF Tick, TimersTyped
  <2>3. rtcPending' \in BOOLEAN
    BY DEF Tick, TimersTyped
  <2>4. ran' \in [Timers -> Int]
    <3>1. \A t \in Timers : ran[t] \in Int /\ ran[t] + 1 \in Int
      BY DEF TimersTyped
    <3> QED
      BY <3>1 DEF Tick
  <2> QED
    BY <2>1, <2>2, <2>3, <2>4 DEF Tick, TimersTyped
<1>2. \A u \in Queues : /\ opQueue'[u] = [i \in DOMAIN opQueue[u] |->
                                             [opQueue[u][i] EXCEPT !.waited = @ + 1]]
                        /\ Alike(opQueue[u], opQueue'[u])
  <2>1. ASSUME NEW u \in Queues
        PROVE  /\ opQueue'[u] = [i \in DOMAIN opQueue[u] |->
                                   [opQueue[u][i] EXCEPT !.waited = @ + 1]]
               /\ Alike(opQueue[u], opQueue'[u])
    <3>1. opQueue'[u] = [i \in DOMAIN opQueue[u] |-> [opQueue[u][i] EXCEPT !.waited = @ + 1]]
      BY <2>1 DEF Tick
    <3>2. PICK q : q = opQueue[u]
      OBVIOUS
    <3>3. PICK r : r = opQueue'[u]
      OBVIOUS
    <3>4. q \in Seq(Ops) /\ r = [i \in DOMAIN q |-> [q[i] EXCEPT !.waited = @ + 1]]
      BY <2>1, <3>1, <3>2, <3>3 DEF QueuesKept
    <3>5. ASSUME NEW i \in 1..Len(q)
          PROVE  r[i] \in Ops /\ r[i].type = q[i].type /\ r[i].timer = q[i].timer
      <4>1. q[i] \in Ops /\ i \in DOMAIN q
        BY <3>4, ElementOfSeq, LenProperties
      <4>2. r[i] = [q[i] EXCEPT !.waited = @ + 1]
        BY <3>4, <4>1
      <4>3. \A op \in Ops : /\ [op EXCEPT !.waited = @ + 1] \in Ops
                            /\ [op EXCEPT !.waited = @ + 1].type = op.type
                            /\ [op EXCEPT !.waited = @ + 1].timer = op.timer
        BY DEF Ops
      <4> QED
        BY <4>1, <4>2, <4>3
    <3>6. r \in [1..Len(q) -> Ops]
      <4>1. DOMAIN q = 1..Len(q)
        BY <3>4, LenProperties
      <4> QED
        BY <3>4, <3>5, <4>1
    <3>7. Alike(q, r)
      BY <3>4, <3>5, <3>6, AlikeMapped
    <3> QED
      BY <3>1, <3>2, <3>3, <3>7
  <2> QED
    BY <2>1
<1>3. opQueue' \in [Queues -> Seq(Ops)]
  <2>1. \A u \in Queues : opQueue'[u] \in Seq(Ops)
    BY <1>2 DEF Alike
  <2>2. opQueue' = [u \in Queues |-> opQueue'[u]]
    BY DEF Tick
  <2> QED
    BY <2>1, <2>2
<1>4. /\ QueuesKept' /\ (Restarting => Restarting')
      /\ opQueue["high"] = <<>> => opQueue'["high"] = <<>>
  <2>1. /\ Alike(opQueue["high"], opQueue'["high"])
        /\ Alike(opQueue["draft"], opQueue'["draft"])
        /\ Alike(opQueue["main"], opQueue'["main"])
    BY <1>2 DEF Queues
  <2>2. main' = main
    BY DEF pinVars
  <2> QED
    BY <1>3, <2>1, <2>2, QueuesAlike
<1>5. LowKept'
  BY DEF LowKept, Tick, Expiry
<1>6. ScanKept' /\ PinsTyped' /\ PinsKept'
  <2>1. low' = low /\ scan' = scan
    BY DEF Tick, pinVars
  <2> QED
    BY <2>1, ScanStays, PinsStay
<1>7. EdgesAwaited'
  <2>1. transition' = transition /\ excused' = excused /\ list' = list /\ toExpire' = toExpire
        /\ elapsed' = elapsed /\ low' = low /\ scan' = scan
    BY DEF Tick, pinVars
  <2> QED
    BY <1>4, <2>1, EdgesStayAwaited
<1> QED
  BY <1>1, <1>4, <1>5, <1>6, <1>7

\* Steps that leave the list, the queues and the expired ticks alone, and do not
\* begin to call the handlers.
LEMMA QuietKeeps ==
  ASSUME IInv, UNCHANGED pinVars, opQueue' = opQueue, list' = list, toExpire' = toExpire,
         elapsed' = elapsed, TimersTyped', LowKept',
         low' = low \/ (~ButtonHandler /\ low'.at # "expire")
  PROVE  IInv'
<1> USE DEF IInv
<1>1. QueuesKept' /\ PinsTyped' /\ PinsKept'
  <2>1. main' = main
    BY DEF pinVars
  <2> QED
    BY <2>1, QueuesStay, PinsStay
<1>2. ScanKept'
  <2>1. scan' = scan
    BY DEF pinVars
  <2> QED
    BY <2>1, ScanStays, NoScanStays
<1>3. EdgesAwaited'
  <2>1. transition' = transition /\ excused' = excused /\ scan' = scan
    BY DEF pinVars
  <2>2. Restarting => Restarting'
    BY DEF Restarting
  <2> QED
    BY <2>1, <2>2, EdgesStayAwaited
<1> QED
  BY <1>1, <1>2, <1>3

LEMMA ClearKeeps ==
  ASSUME IInv, ClearTakesEffect, UNCHANGED pinVars
  PROVE  IInv'
<1> USE DEF IInv
<1>1. TimersTyped'
  BY Constants DEF TimersTyped, ClearTakesEffect
<1>2. LowKept'
  BY DEF LowKept, ClearTakesEffect, Expiry
<1> QED
  BY <1>1, <1>2, QuietKeeps DEF ClearTakesEffect

LEMMA ComputeKeeps ==
  ASSUME IInv, ComputeCompare, UNCHANGED pinVars
  PROVE  IInv'
<1> USE DEF IInv
<1>1. TimersTyped'
  BY DEF TimersTyped, ComputeCompare
<1>a. low.at = "compare"
  BY DEF ComputeCompare
<1>2. low' \in [at : {"write"}, pre : Counter, cc : Counter]
  <2>1. PICK x : x = latest + Largest(Diff(counter, latest) + OffsetMin, toExpire[list[1]])
    OBVIOUS
  <2>2. low' = [at |-> "write", pre |-> counter, cc |-> x % CounterMod]
    BY <2>1 DEF ComputeCompare
  <2>3. x \in Int
    <3>1. latest \in Int /\ counter \in Int /\ list[1] \in Timers
      <4>1. list # <<>> /\ list \in Lists
        BY DEF TimersTyped, ComputeCompare
      <4>2. list[1] \in Timers
        BY <4>1, ListShapes
      <4> QED
        BY <4>2 DEF TimersTyped, Counter
    <3>2. Diff(counter, latest) \in Nat /\ toExpire[list[1]] \in Nat /\ OffsetMin \in Nat
      BY <3>1, DiffType, Constants DEF TimersTyped
    <3> QED
      BY <2>1, <3>1, <3>2 DEF Largest
  <2>4. x % CounterMod \in Counter
    BY <2>3, DiffType
  <2> QED
    BY <2>2, <2>4 DEF TimersTyped
<1>3. LowKept' /\ low'.at # "expire"
  <2>1. elapsed' = elapsed /\ elapsed = None
    BY <1>a DEF LowKept, ComputeCompare
  <2> QED
    BY <1>2, <2>1 DEF LowKept
<1>4. ~ButtonHandler
  BY <1>a DEF ButtonHandler
<1> QED
  BY <1>1, <1>3, <1>4, QuietKeeps DEF ComputeCompare

LEMMA WriteKeeps ==
  ASSUME IInv, WriteCompare, UNCHANGED pinVars
  PROVE  IInv'
<1> USE DEF IInv
<1>1. low \in [at : {"write", "check"}, pre : Counter, cc : Counter] /\ elapsed = None
  BY DEF LowKept, WriteCompare, Idle, Expiry
<1>2. TimersTyped'
  BY <1>1 DEF TimersTyped, WriteCompare
<1>3. LowKept' /\ low'.at # "expire"
  BY <1>1 DEF LowKept, WriteCompare
<1>4. ~ButtonHandler
  BY DEF ButtonHandler, WriteCompare
<1> QED
  BY <1>2, <1>3, <1>4, QuietKeeps DEF WriteCompare

LEMMA CheckKeeps ==
  ASSUME IInv, CheckCompare, UNCHANGED pinVars
  PROVE  IInv'
<1> USE DEF IInv
<1>1. TimersTyped'
  BY DEF TimersTyped, CheckCompare
<1>2. LowKept' /\ low'.at # "expire"
  BY DEF LowKept, CheckCompare, Idle
<1>3. ~ButtonHandler
  BY DEF ButtonHandler, CheckCompare
<1> QED
  BY <1>1, <1>2, <1>3, QuietKeeps DEF CheckCompare

LEMMA OutdatedAlike ==
  ASSUME QueuesKept
  PROVE  /\ Outdated(opQueue) \in [Queues -> Seq(Ops)]
         /\ \A u \in Queues : Alike(opQueue[u], Outdated(opQueue)[u])
<1>1. ASSUME NEW u \in Queues
      PROVE  Alike(opQueue[u], Outdated(opQueue)[u])
  <2>1. PICK q : q = opQueue[u]
    OBVIOUS
  <2>2. PICK r : r = Outdated(opQueue)[u]
    OBVIOUS
  <2>3. q \in Seq(Ops) /\ r = [i \in DOMAIN q |-> [q[i] EXCEPT !.shifted = TRUE]]
    BY <1>1, <2>1, <2>2 DEF QueuesKept, Outdated
  <2>4. DOMAIN q = 1..Len(q)
    BY <2>3, LenProperties
  <2>5. ASSUME NEW i \in 1..Len(q)
        PROVE  r[i] \in Ops /\ r[i].type = q[i].type /\ r[i].timer = q[i].timer
    <3>1. q[i] \in Ops
      BY <2>3, ElementOfSeq
    <3>2. r[i] = [q[i] EXCEPT !.shifted = TRUE]
      BY <2>3, <2>4
    <3>3. \A op \in Ops : /\ [op EXCEPT !.shifted = TRUE] \in Ops
                          /\ [op EXCEPT !.shifted = TRUE].type = op.type
                          /\ [op EXCEPT !.shifted = TRUE].timer = op.timer
      BY DEF Ops
    <3> QED
      BY <3>1, <3>2, <3>3
  <2>6. r \in [1..Len(q) -> Ops]
    BY <2>3, <2>4, <2>5
  <2>7. Alike(q, r)
    BY <2>3, <2>5, <2>6, AlikeMapped
  <2> QED
    BY <2>1, <2>2, <2>7
<1>2. \A u \in Queues : Outdated(opQueue)[u] \in Seq(Ops)
  BY <1>1 DEF Alike
<1>3. PICK q : q = Outdated(opQueue)
  OBVIOUS
<1>4. q = [u \in Queues |-> q[u]]
  BY <1>3 DEF Outdated
<1> QED
  BY <1>1, <1>2, <1>3, <1>4

LEMMA StopKeeps ==
  ASSUME IInv, StopRtc, UNCHANGED pinVars
  PROVE  IInv'
<1> USE DEF IInv
<1>1. TimersTyped'
  BY Constants DEF TimersTyped, StopRtc
<1>2. LowKept' /\ low'.at # "expire" /\ ~ButtonHandler
  BY DEF LowKept, StopRtc, Idle, ButtonHandler
<1>3. /\ QueuesKept' /\ (Restarting => Restarting')
      /\ opQueue["high"] = <<>> => opQueue'["high"] = <<>>
  <2>1. opQueue' = Outdated(opQueue) /\ main' = main
    BY DEF StopRtc, pinVars
  <2>2. opQueue' \in [Queues -> Seq(Ops)] /\ \A u \in Queues : Alike(opQueue[u], opQueue'[u])
    BY <2>1, OutdatedAlike
  <2>3. /\ Alike(opQueue["high"], opQueue'["high"])
        /\ Alike(opQueue["draft"], opQueue'["draft"])
        /\ Alike(opQueue["main"], opQueue'["main"])
    BY <2>2 DEF Queues
  <2> QED
    BY <2>1, <2>2, <2>3, QueuesAlike
<1>4. PinsTyped' /\ PinsKept' /\ ScanKept'
  <2>1. scan' = scan
    BY DEF pinVars
  <2> QED
    BY <1>2, <2>1, PinsStay, NoScanStays
<1>5. EdgesAwaited'
  <2>1. transition' = transition /\ excused' = excused /\ list' = list /\ toExpire' = toExpire
        /\ elapsed' = elapsed
    BY DEF StopRtc, pinVars
  <2> QED
    BY <1>2, <1>3, <2>1, EdgesStayAwaited
<1> QED
  BY <1>1, <1>2, <1>3, <1>4, <1>5

\* The handlers of the timers that have expired are called; if the button's is
\* not among them, the list still counts for it.
LEMMA RtcKeeps ==
  ASSUME IInv, RtcHandler, UNCHANGED pinVars
  PROVE  IInv'
<1> USE DEF IInv
<1>1. TimersTyped'
  BY DEF TimersTyped, RtcHandler
<1>a. PICK ticks : ticks = Diff(counter, latest)
  OBVIOUS
<1>b. PICK k : k = Cardinality(Expired(List0, ticks))
  OBVIOUS
<1>2. ticks \in Nat
  BY <1>a, DiffType DEF TimersTyped, Counter
<1>3. low' = Idle \/ low' = [at |-> "expire", todo |-> SubSeq(list, 1, k),
                             ticks |-> Span(list, toExpire, k)]
  BY <1>a, <1>b DEF RtcHandler
<1>4. /\ SubSeq(list, 1, k) \in Lists
      /\ Range(SubSeq(list, 1, k)) = {t \in Running : Due(List0, t) <= ticks}
      /\ Span(list, toExpire, k) \in Nat /\ Span(list, toExpire, k) <= ticks
  <2>1. Expiring(List0, ticks, k)
    BY <1>2, <1>b, List0Typed, ExpiringCount
  <2>2. Part(List0, ticks, k)
    BY <1>2, <2>1, List0Typed, ExpiringPart
  <2> QED
    BY <2>2, List0Typed DEF Part
<1>5. LowKept'
  <2>1. low' = Idle \/ low' \in Expiry
    <3>1. PICK s : s = SubSeq(list, 1, k)
      OBVIOUS
    <3>2. PICK x : x = Span(list, toExpire, k)
      OBVIOUS
    <3>3. [at |-> "expire", todo |-> s, ticks |-> x] \in Expiry
      BY <1>4, <3>1, <3>2 DEF Expiry
    <3> QED
      BY <1>3, <3>1, <3>2, <3>3
  <2>2. low'.at \in {"idle", "expire"}
    BY <2>1 DEF Expiry, Idle
  <2> QED
    BY <2>1, <2>2 DEF LowKept
<1>6. QueuesKept' /\ PinsTyped' /\ PinsKept'
  <2>1. main' = main /\ opQueue' = opQueue
    BY DEF pinVars, RtcHandler
  <2> QED
    BY <2>1, QueuesStay, PinsStay
<1>7. ScanKept' /\ ~Scanned /\ ~Scanned' /\ scan = NoScan /\ scan' = NoScan
  <2>1. scan' = scan /\ ~ButtonHandler
    BY DEF pinVars, RtcHandler, ButtonHandler, Idle
  <2> QED
    BY <2>1, NoScanStays
<1>8. EdgesAwaited'
  <2>1. transition' = transition /\ excused' = excused /\ list' = list /\ toExpire' = toExpire
        /\ elapsed' = elapsed /\ opQueue' = opQueue
    BY DEF RtcHandler, pinVars
  <2>2. Due(List0, button)' = Due(List0, button) /\ Running' = Running
    BY <2>1 DEF Due, List0, Running
  <2>3. ASSUME NEW p \in transition \ excused, WillScan(p)
        PROVE  WillScan(p)'
    <3>1. button \in Running' /\ (elapsed' # None => Due(List0, button)' > elapsed')
      BY <2>1, <2>2, <2>3 DEF WillScan
    <3>2. CASE low' = Idle
      BY <3>1, <3>2 DEF WillScan, Idle
    <3>3. CASE low' # Idle
      <4>1. low'.todo = SubSeq(list, 1, k) /\ low'.ticks = Span(list, toExpire, k)
        BY <1>3, <3>3
      <4>2. CASE Due(List0, button) <= ticks
        <5>1. button \in Range(low.todo)'
          BY <1>4, <2>3, <4>1, <4>2 DEF WillScan
        <5>2. Ahead(p)'
          BY <1>7, <2>3 DEF Ahead, NoScan, PinsTyped, Pins
        <5> QED
          BY <3>1, <5>1, <5>2 DEF WillScan
      <4>3. CASE ~(Due(List0, button) <= ticks)
        <5>1. button \notin Range(low.todo)'
          BY <1>4, <4>1, <4>3
        <5>2. Due(List0, button)' > low'.ticks
          <6>1. button \in Members(List0) /\ List0 \in ListType
            BY <2>3, List0Typed DEF WillScan
          <6>2. Due(List0, button) \in Nat
            BY <6>1, DueFirst
          <6> QED
            BY <1>2, <1>4, <2>2, <4>1, <4>3, <6>2
        <5> QED
          BY <3>1, <5>1, <5>2 DEF WillScan
      <4> QED
        BY <4>2, <4>3
    <3> QED
      BY <3>2, <3>3
  <2>4. Restarting' = Restarting
    BY <2>1 DEF Restarting
  <2> QED
    BY <2>1, <2>3, <2>4 DEF EdgesAwaited, Awaited
<1> QED
  BY <1>1, <1>5, <1>6, <1>7, <1>8

\* SWI0 will find the ticks of the timers whose handlers were called.
LEMMA QueueElapsedKeeps ==
  ASSUME IInv, QueueElapsed, UNCHANGED pinVars
  PROVE  IInv'
<1> USE DEF IInv
<1>1. low \in Expiry
  BY DEF LowKept, QueueElapsed, Idle
<1>2. TimersTyped'
  BY <1>1 DEF TimersTyped, QueueElapsed, Expiry
<1>3. LowKept' /\ low'.at # "expire"
  BY DEF LowKept, QueueElapsed, Idle
<1>4. QueuesKept' /\ PinsTyped' /\ PinsKept'
  <2>1. main' = main /\ opQueue' = opQueue
    BY DEF pinVars, QueueElapsed
  <2> QED
    BY <2>1, QueuesStay, PinsStay
<1>5. ScanKept'
  <2>1. scan' = scan /\ ~ButtonHandler
    BY DEF pinVars, QueueElapsed, ButtonHandler
  <2> QED
    BY <2>1, NoScanStays
<1>6. EdgesAwaited'
  <2>1. transition' = transition /\ excused' = excused /\ list' = list /\ toExpire' = toExpire
        /\ elapsed' = low.ticks /\ opQueue' = opQueue
    BY DEF QueueElapsed, pinVars
  <2>2. Due(List0, button)' = Due(List0, button) /\ Running' = Running
    BY <2>1 DEF Due, List0, Running
  <2>3. ASSUME NEW p, WillScan(p)
        PROVE  WillScan(p)'
    <3>1. button \notin Range(low.todo) /\ low.at = "expire"
      BY DEF QueueElapsed, Range
    <3> QED
      BY <1>3, <2>1, <2>2, <2>3, <3>1 DEF WillScan
  <2>4. Restarting' = Restarting
    BY <2>1 DEF Restarting
  <2> QED
    BY <2>1, <2>3, <2>4 DEF EdgesAwaited, Awaited
<1> QED
  BY <1>2, <1>3, <1>4, <1>5, <1>6

LEMMA FirstTyped ==
  ASSUME NEW s \in Lists
  PROVE  FirstOf(s) \in Timers \union {None}
BY ListShapes DEF FirstOf

LEMMA ExpireTyped ==
  ASSUME NEW l \in ListType, NEW ticks \in Nat, NEW previous \in Counter,
         NEW e, e = Expire(l, ticks, previous)
  PROVE  /\ e.removed \in ListType /\ e.restarted \in ListType
         /\ \A t \in Members(l) : Due(l, t) > ticks => t \in Members(e.restarted)
<1>1. ExpiredInto(e, l, ticks, previous)
  BY ExpireDone
<1>2. /\ e.removed \in ListType /\ Members(e.removed) = {t \in Members(l) : Due(l, t) > ticks}
  BY <1>1 DEF ExpiredInto, RemainsOf
<1>3. CASE ~(tick \in Members(l) /\ Due(l, tick) <= ticks)
  <2>1. e.restarted = e.removed
    BY <1>1, <1>3 DEF ExpiredInto
  <2> QED
    BY <1>2, <2>1
<1>4. CASE tick \in Members(l) /\ Due(l, tick) <= ticks
  <2>1. PICK at : at = (previous + Due(l, tick)) % CounterMod
    OBVIOUS
  <2>2. e.restarted = Restart(e.removed, tick, at)
    BY <1>1, <1>4, <2>1 DEF ExpiredInto
  <2>3. at \in Counter /\ Due(l, tick) \in Nat
    <3>1. previous \in Int /\ Due(l, tick) \in Nat
      BY <1>4, DueFirst DEF Counter
    <3>2. previous + Due(l, tick) \in Int
      BY <3>1
    <3> QED
      BY <2>1, <3>1, <3>2, DiffType
  <2>4. tick \notin Members(e.removed) /\ tick \in Timers
    <3>1. ~(Due(l, tick) > ticks)
      BY <1>4, <2>3
    <3> QED
      BY <1>2, <3>1, Constants
  <2>5. /\ e.restarted \in ListType
        /\ Members(e.restarted) = Members(e.removed) \union {tick}
    BY <1>2, <2>2, <2>3, <2>4, Restarted
  <2> QED
    BY <1>2, <2>5
<1> QED
  BY <1>3, <1>4

\* SWI0 changes the list: its variables become those of r.
LEMMA ListSet ==
  ASSUME NEW r \in ListType, SetList(r)
  PROVE  /\ list' \in Lists /\ toExpire' \in [Timers -> Nat] /\ latest' \in Counter
         /\ rtcReset' \in BOOLEAN /\ ran' \in [Timers -> Int]
         /\ shifted' \in [Timers -> BOOLEAN]
         /\ Running' = Members(r) /\ \A t : Due(List0', t) = Due(r, t)
<1>1. /\ list' \in Lists /\ toExpire' \in [Timers -> Nat] /\ latest' \in Counter
      /\ rtcReset' \in BOOLEAN
  BY DEF SetList, ListType
<1>2. ran' \in [Timers -> Int]
  <2>1. \A t \in Timers : r.ran[t] \in Int
    BY DEF ListType
  <2> QED
    BY <2>1 DEF SetList
<1>3. shifted' \in [Timers -> BOOLEAN]
  <2>1. \A t \in Timers : (t \in Range(r.list) /\ r.shifted[t]) \in BOOLEAN
    OBVIOUS
  <2> QED
    BY <2>1 DEF SetList
<1>4. Running' = Members(r)
  BY DEF SetList, Running, Members
<1>5. \A t : Due(List0', t) = Due(r, t)
  BY DEF SetList, List0, Due
<1> QED
  BY <1>1, <1>2, <1>3, <1>4, <1>5

\* A stop of the button's timer waits in the queue of the interrupts, if at all.
LEMMA StopsOfMain ==
  ASSUME QueuesKept, NEW ops, ops = opQueue["main"] \o opQueue["high"]
  PROVE  /\ ops \in Seq(Ops)
         /\ opQueue["high"] = <<>> => OfType(ops, Len(ops), "stop") = {}
<1>a. PICK m : m = opQueue["main"]
  OBVIOUS
<1>1. opQueue["main"] \in Seq(Ops) /\ opQueue["high"] \in Seq(Ops) /\ m \in Seq(TickOps)
  BY <1>a DEF QueuesKept, Queues
<1>2. ops \in Seq(Ops)
  BY <1>1
<1>3. ASSUME opQueue["high"] = <<>>
      PROVE  OfType(ops, Len(ops), "stop") = {}
  <2>1. ops = m
    BY <1>1, <1>3, <1>a, ConcatEmptySeq
  <2>2. \A i \in 1..Len(ops) : ops[i] \in TickOps
    BY <1>1, <2>1, ElementOfSeq
  <2>3. \A i \in 1..Len(ops) : ops[i].type = "start"
    BY <2>2 DEF TickOps
  <2> QED
    BY <2>3 DEF OfType
<1> QED
  BY <1>2, <1>3

\* The list that SWI0 takes the expired timers from and inserts others into: a
\* timer that has not expired, and that no interrupt stops, stays in it.
LEMMA UpdateKeeps ==
  ASSUME IInv, UpdateList, UNCHANGED pinVars
  PROVE  IInv'
<1> USE DEF IInv
<1> DEFINE acquired == elapsed # None
           ticks    == IF acquired THEN elapsed ELSE 0
           before   == [List0 EXCEPT !.latest = (@ + ticks) % CounterMod]
           deleted  == Deletions(before)
           expiry   == IF acquired THEN Expire(deleted, ticks, latest)
                       ELSE [removed |-> deleted, restarted |-> deleted]
           inserted == Insertions(expiry.restarted, "main")
<1>1. /\ SetList(inserted)
      /\ clearing' = (clearing \/ deleted.clear)
      /\ opQueue' = [u \in Queues |->
           CASE u = "main" -> <<>>
             [] u # "main" /\ deleted.clear -> Outdated(opQueue)[u]
             [] OTHER -> opQueue[u]]
      /\ low' = [at |-> "insert", head |-> FirstOf(expiry.removed.list),
                 update |-> acquired \/ FirstOf(deleted.list) # FirstOf(list)]
  BY DEF UpdateList
<1>2. ticks \in Nat
  BY DEF TimersTyped
<1>3. before \in ListType /\ Members(before) = Running
      /\ \A t : Due(before, t) = Due(List0, t)
  <2> HIDE DEF ticks
  <2>1. latest + ticks \in Int
    BY <1>2 DEF TimersTyped, Counter
  <2>2. PICK x : x = (latest + ticks) % CounterMod
    OBVIOUS
  <2>3. x \in Counter
    BY <2>1, <2>2, DiffType
  <2>4. before = [List0 EXCEPT !.latest = x]
    BY <2>2, List0Typed
  <2>5. before \in ListType /\ before.list = list /\ before.toExpire = toExpire
    BY <2>3, <2>4, List0Typed DEF ListType
  <2> HIDE DEF before
  <2>6. Members(before) = Running
    BY <2>5 DEF Members, Running
  <2>7. \A t : Due(before, t) = Due(List0, t)
    BY <2>5, List0Typed DEF Due
  <2> QED
    BY <2>5, <2>6, <2>7
<1> HIDE DEF ticks, before
<1>a. PICK ops : ops = opQueue["main"] \o opQueue["high"]
  OBVIOUS
<1>b. PICK stopped : stopped = OfType(ops, Len(ops), "stop")
  OBVIOUS
<1>4. RemovedFrom(deleted, before, stopped) /\ (opQueue["high"] = <<>> => stopped = {})
  BY <1>3, <1>a, <1>b, StopsOfMain, Deleted
<1>5. deleted \in ListType /\ Members(deleted) = Running \ stopped
      /\ \A t \in Members(deleted) : Due(deleted, t) = Due(List0, t)
  BY <1>3, <1>4 DEF RemovedFrom
<1> HIDE DEF deleted
<1>6. /\ expiry.removed \in ListType /\ expiry.restarted \in ListType
      /\ \A t \in Members(deleted) : (acquired => Due(deleted, t) > ticks)
                                       => t \in Members(expiry.restarted)
  <2>1. CASE acquired
    <3>1. expiry = Expire(deleted, ticks, latest) /\ latest \in Counter
      BY <2>1 DEF TimersTyped
    <3> HIDE DEF expiry
    <3> QED
      BY <1>2, <1>5, <2>1, <3>1, ExpireTyped
  <2>2. CASE ~acquired
    BY <1>5, <2>2
  <2> QED
    BY <2>1, <2>2
<1> HIDE DEF expiry
<1>c. PICK starts : starts = opQueue["main"]
  OBVIOUS
<1>7. InsertedInto(inserted, expiry.restarted, starts, Len(starts))
  <2>1. starts \in Seq(Ops)
    BY <1>c DEF QueuesKept, Queues
  <2> QED
    BY <1>6, <1>c, <2>1, Inserted
<1>8. inserted \in ListType
      /\ Members(inserted) = Members(expiry.restarted) \union OfType(starts, Len(starts), "start")
  BY <1>7 DEF InsertedInto
<1> HIDE DEF inserted
<1>9. TimersTyped'
  <2>1. clearing' \in BOOLEAN
    BY <1>1, <1>5 DEF TimersTyped, ListType
  <2> QED
    BY <1>1, <1>8, <2>1, ListSet DEF TimersTyped, UpdateList
<1>10. LowKept' /\ low'.at # "expire"
  <2>1. PICK h : h = FirstOf(expiry.removed.list)
    OBVIOUS
  <2>2. h \in Timers \union {None}
    BY <1>6, <2>1, FirstTyped DEF ListType
  <2>3. low' \in [at : {"insert"}, head : Timers \union {None}, update : BOOLEAN]
    BY <1>1, <2>1, <2>2
  <2>4. elapsed' = None
    BY DEF UpdateList
  <2> QED
    BY <2>3, <2>4 DEF LowKept
<1>11. /\ QueuesKept' /\ (Restarting => Restarting')
       /\ opQueue["high"] = <<>> => opQueue'["high"] = <<>>
  <2>1. ASSUME NEW u \in Queues, u # "main"
        PROVE  opQueue'[u] \in {Outdated(opQueue)[u], opQueue[u]}
    BY <1>1, <2>1
  <2>2. \A u \in Queues : u # "main" => Alike(opQueue[u], opQueue'[u])
    <3>1. ASSUME NEW u \in Queues, u # "main"
          PROVE  Alike(opQueue[u], opQueue'[u])
      <4>1. Alike(opQueue[u], Outdated(opQueue)[u]) /\ Alike(opQueue[u], opQueue[u])
        BY <3>1, OutdatedAlike, AlikeSame DEF QueuesKept
      <4> QED
        BY <2>1, <3>1, <4>1
    <3> QED
      BY <3>1
  <2>3. opQueue'["main"] = <<>> /\ opQueue' = [u \in Queues |-> opQueue'[u]]
    BY <1>1 DEF Queues
  <2>4. \A u \in Queues : opQueue'[u] \in Seq(Ops)
    <3>1. <<>> \in Seq(Ops)
      OBVIOUS
    <3> QED
      BY <2>2, <2>3, <3>1 DEF Alike
  <2>5. opQueue' \in [Queues -> Seq(Ops)]
    BY <2>3, <2>4
  <2>6. main' = main
    BY DEF pinVars
  <2>7. Alike(opQueue["high"], opQueue'["high"]) /\ Alike(opQueue["draft"], opQueue'["draft"])
    BY <2>2 DEF Queues
  <2> QED
    BY <2>3, <2>5, <2>6, <2>7, QueuesAlike
<1>12. PinsTyped' /\ PinsKept' /\ ScanKept'
  <2>1. scan' = scan /\ ~ButtonHandler
    BY DEF pinVars, UpdateList, ButtonHandler, Idle
  <2> QED
    BY <2>1, PinsStay, NoScanStays
<1>13. EdgesAwaited'
  <2>1. transition' = transition /\ excused' = excused /\ elapsed' = None
    BY DEF UpdateList, pinVars
  <2>2. ASSUME NEW p, opQueue["high"] = <<>>, WillScan(p)
        PROVE  WillScan(p)'
    <3>1. button \in Members(deleted) /\ (acquired => Due(deleted, button) > ticks)
      BY <1>4, <1>5, <2>2 DEF WillScan, ticks
    <3>2. button \in Members(inserted)
      BY <1>6, <1>8, <3>1
    <3>3. button \in Running'
      BY <1>1, <1>8, <3>2, ListSet
    <3> QED
      BY <1>10, <2>1, <3>3 DEF WillScan
  <2> QED
    BY <1>11, <2>1, <2>2 DEF EdgesAwaited, Awaited
<1> QED
  BY <1>9, <1>10, <1>11, <1>12, <1>13

\* The queue of the interrupts is emptied: a start in it has now been obeyed.
LEMMA InsertKeeps ==
  ASSUME IInv, InsertHigh, UNCHANGED pinVars
  PROVE  IInv'
<1> USE DEF IInv
<1> DEFINE inserted == Insertions(List0, "high")
           update   == low.update \/ FirstOf(inserted.list) # low.head
           set      == [inserted EXCEPT !.reset = rtcReset /\ update]
<1>1. SetList(set) /\ low' = IF update THEN [at |-> "compare"] ELSE Idle
  BY DEF InsertHigh
<1>a. PICK high : high = opQueue["high"]
  OBVIOUS
<1>2. high \in Seq(Ops) /\ high \in Seq(ButtonOps)
  BY <1>a DEF QueuesKept, Queues
<1>3. InsertedInto(inserted, List0, high, Len(high))
  BY <1>2, <1>a, List0Typed, Inserted
<1>4. /\ inserted \in ListType
      /\ Members(inserted) = Running \union OfType(high, Len(high), "start")
  BY <1>3, List0Typed DEF InsertedInto
<1> HIDE DEF inserted
<1>5. set \in ListType /\ Members(set) = Members(inserted)
  <2>1. (rtcReset /\ update) \in BOOLEAN
    OBVIOUS
  <2>2. PICK x : x = (rtcReset /\ update)
    OBVIOUS
  <2>3. set = [inserted EXCEPT !.reset = x] /\ x \in BOOLEAN
    BY <2>1, <2>2
  <2> HIDE DEF set
  <2> QED
    BY <1>4, <2>3 DEF ListType, Members
<1> HIDE DEF set
<1>6. TimersTyped'
  BY <1>1, <1>5, ListSet DEF TimersTyped, InsertHigh, hardware
<1>7. LowKept' /\ low'.at # "expire" /\ elapsed' = None
  <2>1. elapsed' = elapsed /\ elapsed = None
    BY DEF LowKept, InsertHigh
  <2> QED
    BY <1>1, <2>1 DEF LowKept, Idle
<1>8. QueuesKept' /\ opQueue'["high"] = <<>>
  <2>1. opQueue' = [opQueue EXCEPT !["high"] = <<>>] /\ main' = main
    BY DEF InsertHigh, pinVars
  <2>2. /\ opQueue'["high"] = <<>> /\ opQueue'["main"] = opQueue["main"]
        /\ opQueue'["draft"] = opQueue["draft"]
    BY <2>1 DEF QueuesKept, Queues
  <2>3. <<>> \in Seq(Ops) /\ <<>> \in Seq(ButtonOps) /\ Len(<<>>) = 0
    OBVIOUS
  <2>4. opQueue' \in [Queues -> Seq(Ops)]
    BY <2>1, <2>3 DEF QueuesKept
  <2>5. \A u \in Queues : Len(opQueue'[u]) <= QueueSize
    BY <2>2, <2>3, Constants DEF QueuesKept, Queues
  <2> QED
    BY <2>1, <2>2, <2>3, <2>4, <2>5 DEF QueuesKept
<1>9. PinsTyped' /\ PinsKept' /\ ScanKept'
  <2>1. scan' = scan /\ ~ButtonHandler
    BY DEF pinVars, InsertHigh, ButtonHandler
  <2> QED
    BY <2>1, PinsStay, NoScanStays
<1>10. EdgesAwaited'
  <2>1. transition' = transition /\ excused' = excused
    BY DEF pinVars
  <2>2. ASSUME NEW p, Awaited(p)
        PROVE  button \in Running'
    <3>1. Restarting => button \in OfType(high, Len(high), "start")
      <4>1. \A i \in 1..Len(high) : high[i] \in ButtonOps
        BY <1>2, ElementOfSeq
      <4> QED
        BY <1>a, <4>1, Constants DEF Restarting, OfType, ButtonOps
    <3>2. button \in Members(inserted)
      BY <1>4, <2>2, <3>1 DEF Awaited, WillScan
    <3> QED
      BY <1>1, <1>5, <3>2, ListSet
  <2> QED
    BY <1>7, <1>8, <2>1, <2>2 DEF EdgesAwaited, Awaited, WillScan
<1> QED
  BY <1>6, <1>7, <1>8, <1>9, <1>10

-----------------------------------------------------------------------------
(* The steps of the detection timer's handler.                             *)

LEMMA TailShape ==
  ASSUME NEW s \in Lists, s # <<>>
  PROVE  /\ Tail(s) \in Lists /\ Head(s) \in Range(s)
         /\ Range(Tail(s)) = Range(s) \ {Head(s)}
<1>1. ASSUME NEW t \in Timers, s = <<t>>, Range(s) = {t}
      PROVE  /\ Tail(s) \in Lists /\ Head(s) \in Range(s)
             /\ Range(Tail(s)) = Range(s) \ {Head(s)}
  <2>1. Tail(<<t>>) = <<>> /\ Head(<<t>>) = t /\ Range(<<>>) = {}
    BY ShortSequences DEF Range
  <2> QED
    BY <1>1, <2>1, ListsAre
<1>2. ASSUME NEW t \in Timers, NEW u \in Timers, t # u, s = <<t, u>>, Range(s) = {t, u}
      PROVE  /\ Tail(s) \in Lists /\ Head(s) \in Range(s)
             /\ Range(Tail(s)) = Range(s) \ {Head(s)}
  <2>1. Tail(<<t, u>>) = <<u>> /\ Head(<<t, u>>) = t /\ Range(<<u>>) = {u}
    BY ShortSequences DEF Range
  <2> QED
    BY <1>2, <2>1, ListsAre
<1> QED
  BY <1>1, <1>2, ListShapes

\* A handler goes on, or returns: the list and the queues are not touched.
LEMMA HandlerKeeps ==
  ASSUME TimersTyped, QueuesKept, LowKept, main' = main,
         NEW t, low.at = "expire", HandlerReturns(t) \/ UNCHANGED timerVars
  PROVE  /\ TimersTyped' /\ QueuesKept' /\ LowKept'
         /\ list' = list /\ toExpire' = toExpire /\ elapsed' = elapsed /\ opQueue' = opQueue
         /\ low'.at = "expire" /\ low'.ticks = low.ticks
         /\ Due(List0, button)' = Due(List0, button) /\ Running' = Running
         /\ Restarting' = Restarting
         /\ low' = low \/ (/\ Head(low.todo) = t /\ t \in Range(low.todo)
                           /\ Range(low.todo)' = Range(low.todo) \ {t})
<1>1. /\ UNCHANGED <<hardware, list, toExpire, latest, elapsed, rtcReset, opQueue,
                     lag, ran, shifted, rebased>>
      /\ low' = low \/ (low' = [low EXCEPT !.todo = Tail(@)] /\ low.todo # <<>>
                        /\ Head(low.todo) = t)
  BY DEF HandlerReturns, timerVars
<1>2. TimersTyped'
  BY <1>1 DEF TimersTyped, hardware
<1>3. QueuesKept'
  BY <1>1, QueuesStay
<1>4. low \in Expiry
  BY DEF LowKept, Idle
<1>5. low' \in Expiry /\ low'.ticks = low.ticks
      /\ (low' = low \/ (/\ Head(low.todo) = t /\ t \in Range(low.todo)
                         /\ Range(low.todo)' = Range(low.todo) \ {t}))
  <2>1. CASE low' = low
    BY <1>4, <2>1
  <2>2. CASE low' # low
    <3>1. PICK s : s = Tail(low.todo)
      OBVIOUS
    <3>2. low' = [low EXCEPT !.todo = s] /\ low.todo # <<>> /\ low.todo \in Lists
      BY <1>1, <1>4, <2>2, <3>1 DEF Expiry
    <3>3. s \in Lists /\ Head(low.todo) \in Range(low.todo)
          /\ Range(s) = Range(low.todo) \ {Head(low.todo)}
      BY <3>1, <3>2, TailShape
    <3>4. low' \in Expiry /\ low'.ticks = low.ticks /\ low'.todo = s
      BY <1>4, <3>2, <3>3 DEF Expiry
    <3> QED
      BY <1>1, <2>2, <3>3, <3>4
  <2> QED
    BY <2>1, <2>2
<1>6. LowKept' /\ low'.at = "expire"
  BY <1>5 DEF LowKept, Expiry
<1>7. Due(List0, button)' = Due(List0, button) /\ Running' = Running
      /\ Restarting' = Restarting
  BY <1>1 DEF Due, List0, Running, Restarting
<1> QED
  BY <1>1, <1>2, <1>3, <1>5, <1>6, <1>7

\* The pin after p, if there is one.
LEMMA NextPin ==
  ASSUME NEW p \in Pins
  PROVE  /\ p = PinCount => TestOf(p + 1) = NoScan
         /\ p # PinCount => TestOf(p + 1) = [pin |-> p + 1, at |-> "test"] /\ p + 1 \in Pins
         /\ TestOf(p + 1).at \in {"none", "test"}
BY Constants DEF TestOf, Pins, NoScan

\* A pin's test is over, and the next one's, or the handler's return, follows.
LEMMA NextTested ==
  ASSUME TimersTyped, QueuesKept, LowKept, main' = main, ButtonHandler,
         NEW p \in Pins, scan' = TestOf(p + 1),
         IF p = PinCount THEN HandlerReturns(button) ELSE UNCHANGED timerVars
  PROVE  /\ TimersTyped' /\ QueuesKept' /\ LowKept' /\ ScanKept'
         /\ ~Scanned' /\ \A q : ~AtPin(q)'
         /\ opQueue' = opQueue /\ Restarting' = Restarting
         /\ \A q \in Pins : p < q /\ WillScan(q) => WillScan(q)'
<1>1. /\ TimersTyped' /\ QueuesKept' /\ LowKept'
      /\ list' = list /\ toExpire' = toExpire /\ elapsed' = elapsed /\ opQueue' = opQueue
      /\ low'.at = "expire" /\ low'.ticks = low.ticks
      /\ Due(List0, button)' = Due(List0, button) /\ Running' = Running
      /\ Restarting' = Restarting
  <2>1. HandlerReturns(button) \/ UNCHANGED timerVars
    OBVIOUS
  <2> QED
    BY <2>1, HandlerKeeps DEF ButtonHandler
<1>2. ~Scanned' /\ \A q : ~AtPin(q)'
  BY NextPin DEF Scanned, AtPin
<1>a. p # PinCount => scan' = [pin |-> p + 1, at |-> "test"] /\ p + 1 \in Pins
  <2>1. p # PinCount => TestOf(p + 1) = [pin |-> p + 1, at |-> "test"] /\ p + 1 \in Pins
    BY NextPin
  <2> QED
    BY <2>1
<1>3. ScanKept'
  <2>1. CASE p = PinCount
    BY <2>1, NextPin DEF ScanKept
  <2>2. CASE p # PinCount
    <3>1. low' = low
      BY <2>2 DEF timerVars
    <3>2. scan' \in [pin : Pins, at : {"test"}]
      BY <1>a, <2>2
    <3> QED
      BY <3>1, <3>2 DEF ScanKept, ButtonHandler
  <2> QED
    BY <2>1, <2>2
<1>4. ASSUME NEW q \in Pins, p < q, WillScan(q)
      PROVE  WillScan(q)'
  <2>1. p # PinCount
    BY <1>4, Constants DEF Pins
  <2>2. low' = low /\ scan'.pin = p + 1
    BY <1>a, <2>1 DEF timerVars
  <2>3. Ahead(q)'
    BY <1>2, <1>4, <2>2 DEF Ahead, Pins
  <2> QED
    BY <1>1, <1>4, <2>2, <2>3 DEF WillScan
<1> QED
  BY <1>1, <1>2, <1>3, <1>4

LEMMA TestKeeps ==
  ASSUME IInv, TestPin
  PROVE  IInv'
<1> USE DEF IInv
<1>a. PICK p : p = IF scan = NoScan THEN 1 ELSE scan.pin
  OBVIOUS
<1>1. /\ IF p \in transition
         THEN /\ scan' = [pin |-> p, at |-> "store", seen |-> transition]
              /\ UNCHANGED timerVars
         ELSE /\ scan' = TestOf(p + 1)
              /\ IF p = PinCount THEN HandlerReturns(button) ELSE UNCHANGED timerVars
      /\ ButtonHandler /\ scan.at \in {"none", "test"}
      /\ UNCHANGED <<level, pinState, transition, main, reported, excused, edges>>
  BY <1>a DEF TestPin
<1>2. scan = NoScan \/ scan \in [pin : Pins, at : {"test"}]
  BY <1>1 DEF ScanKept, Loading, Loaded
<1>3. ~Scanned /\ \A q : ~AtPin(q)
  BY <1>1 DEF Scanned, AtPin
<1>4. PinsTyped'
  BY <1>1 DEF PinsTyped
<1>5. ASSUME ~Scanned', \A q : ~AtPin(q)'
      PROVE  PinsKept'
  <2>1. scan'.at # "report"
    BY <1>5 DEF Scanned
  <2>2. \A q : (Settled(q)' <=> Settled(q)) /\ (Recorded(q)' <=> Recorded(q))
    BY <1>1 DEF Settled, Recorded
  <2> QED
    BY <1>1, <1>3, <1>5, <2>1, <2>2 DEF PinsKept
<1>6. button \in Range(low.todo) /\ low.at = "expire"
  <2>1. low \in Expiry
    BY <1>1 DEF LowKept, ButtonHandler, Idle
  <2> QED
    BY <1>1, <2>1, TailShape DEF Expiry, ButtonHandler
\* A recorded edge is still to come, from p on.
<1>7. ASSUME NEW q \in Pins, WillScan(q)
      PROVE  p \in Pins /\ p <= q
  <2>1. Ahead(q)
    BY <1>6, <1>7 DEF WillScan
  <2>2. scan.pin <= q
    BY <1>3, <2>1 DEF Ahead
  <2>3. CASE scan = NoScan
    BY <1>a, <1>7, <2>3, Constants DEF Pins
  <2>4. CASE scan # NoScan
    BY <1>a, <1>2, <2>2, <2>4
  <2> QED
    BY <2>3, <2>4
<1>8. CASE p \in transition
  <2>1. scan' = [pin |-> p, at |-> "store", seen |-> transition] /\ UNCHANGED timerVars
    BY <1>1, <1>8
  <2>2. TimersTyped' /\ LowKept' /\ QueuesKept'
    <3>1. low.at = "expire" /\ main' = main
      BY <1>1 DEF ButtonHandler
    <3> QED
      BY <2>1, <3>1, HandlerKeeps
  <2>3. ScanKept'
    <3>1. scan' \in Loading
      BY <1>8, <2>1 DEF Loading, PinsTyped
    <3>2. ButtonHandler'
      BY <1>1, <2>1 DEF ButtonHandler, timerVars
    <3> QED
      BY <3>1, <3>2 DEF ScanKept
  <2>4. PinsKept'
    BY <1>5, <2>1 DEF Scanned, AtPin
  <2>5. EdgesAwaited'
    <3>1. list' = list /\ toExpire' = toExpire /\ elapsed' = elapsed /\ opQueue' = opQueue
          /\ low' = low /\ Restarting' = Restarting
      BY <2>1 DEF timerVars, Restarting
    <3>2. Due(List0, button)' = Due(List0, button) /\ Running' = Running
      BY <3>1 DEF Due, List0, Running
    <3>3. ASSUME NEW q \in Pins, WillScan(q)
          PROVE  WillScan(q)'
      <4>1. Ahead(q)'
        BY <1>7, <2>1, <3>3 DEF Ahead, Scanned
      <4> QED
        BY <3>1, <3>2, <3>3, <4>1 DEF WillScan
    <3> QED
      BY <1>1, <3>1, <3>3 DEF EdgesAwaited, Awaited, PinsTyped
  <2> QED
    BY <1>4, <2>2, <2>3, <2>4, <2>5
<1>9. CASE p \notin transition /\ p \in Pins
  <2>1. /\ scan' = TestOf(p + 1)
        /\ IF p = PinCount THEN HandlerReturns(button) ELSE UNCHANGED timerVars
        /\ main' = main
    BY <1>1, <1>9
  <2>2. /\ TimersTyped' /\ QueuesKept' /\ LowKept' /\ ScanKept'
        /\ ~Scanned' /\ \A q : ~AtPin(q)'
        /\ opQueue' = opQueue /\ Restarting' = Restarting
        /\ \A q \in Pins : p < q /\ WillScan(q) => WillScan(q)'
    BY <1>1, <1>9, <2>1, NextTested
  <2>3. PinsKept'
    BY <1>5, <2>2
  <2>4. ASSUME NEW q \in transition, WillScan(q)
        PROVE  p < q /\ q \in Pins
    <3>1. q \in Pins /\ q # p
      BY <1>9, <2>4 DEF PinsTyped
    <3> QED
      BY <1>7, <1>9, <2>4, <3>1 DEF Pins
  <2>5. EdgesAwaited'
    BY <1>1, <2>2, <2>4 DEF EdgesAwaited, Awaited
  <2> QED
    BY <1>4, <2>2, <2>3, <2>5
<1>10. CASE p \notin Pins
  <2>1. p \notin transition
    BY <1>10 DEF PinsTyped
  <2>2. p = 1 /\ Pins = {} /\ PinCount = 0 /\ scan = NoScan
    BY <1>a, <1>2, <1>10, Constants DEF Pins
  <2>3. scan' = NoScan
    BY <1>1, <2>1, <2>2 DEF TestOf
  <2>4. TimersTyped' /\ QueuesKept' /\ LowKept'
    <3>1. HandlerReturns(button) \/ UNCHANGED timerVars
      BY <1>1, <2>1
    <3>2. low.at = "expire" /\ main' = main
      BY <1>1 DEF ButtonHandler
    <3> QED
      BY <3>1, <3>2, HandlerKeeps
  <2>5. ScanKept' /\ ~Scanned' /\ \A q : ~AtPin(q)'
    BY <2>3 DEF ScanKept, Scanned, AtPin, NoScan
  <2>6. transition' = {}
    BY <1>4, <2>2 DEF PinsTyped
  <2> QED
    BY <1>4, <1>5, <2>4, <2>5, <2>6 DEF EdgesAwaited
<1> QED
  BY <1>8, <1>9, <1>10

LEMMA StoreKeeps ==
  ASSUME IInv, StoreTransition
  PROVE  IInv'
<1> USE DEF IInv
<1>1. /\ scan.at = "store" /\ UNCHANGED timerVars
      /\ transition' = scan.seen \ {scan.pin}
      /\ excused' = excused \union
           (((scan.seen \ transition) \union (transition \ scan.seen)) \ {scan.pin})
      /\ scan' = [pin |-> scan.pin, at |-> "read", high |-> FALSE, edge |-> FALSE]
      /\ level' = level /\ pinState' = pinState /\ reported' = reported /\ main' = main
  BY DEF StoreTransition
<1>2. scan \in Loading /\ ButtonHandler
  BY <1>1 DEF ScanKept, NoScan, Loaded
<1>3. scan.pin \in Pins /\ scan.seen \in SUBSET Pins
  BY <1>2 DEF Loading
<1>4. low.at = "expire" /\ low' = low /\ list' = list /\ toExpire' = toExpire
      /\ elapsed' = elapsed /\ opQueue' = opQueue
  BY <1>1, <1>2 DEF ButtonHandler, timerVars
<1>5. TimersTyped' /\ LowKept' /\ QueuesKept'
  BY <1>1, <1>4, HandlerKeeps
<1>6. PinsTyped'
  <2>1. transition' \in SUBSET Pins /\ excused' \in SUBSET Pins
    BY <1>1, <1>3 DEF PinsTyped
  <2> QED
    BY <1>1, <2>1 DEF PinsTyped
<1>7. ScanKept'
  <2>1. scan' \in Loaded /\ ButtonHandler'
    BY <1>1, <1>2, <1>3, <1>4 DEF Loaded, ButtonHandler
  <2> QED
    BY <2>1 DEF ScanKept
<1>8. ~Scanned /\ (\A q : ~AtPin(q)) /\ Scanned' /\ scan'.pin = scan.pin
  BY <1>1 DEF Scanned, AtPin
<1>9. PinsKept'
  <2>1. \A q : (Settled(q)' <=> Settled(q)) /\ (Recorded(q)' <=> Recorded(q))
    BY <1>1 DEF Settled, Recorded
  <2>2. ASSUME NEW q \in Pins \ excused'
        PROVE  /\ AtPin(q)' => Settled(q)' \/ Recorded(q)'
               /\ ~AtPin(q)' /\ q \in transition' => Recorded(q)' /\ ~Settled(q)'
               /\ ~AtPin(q)' /\ q \notin transition' => Settled(q)'
    <3>1. q \in Pins \ excused
      BY <1>1, <2>2
    <3>2. IF q \in transition THEN Recorded(q) /\ ~Settled(q) ELSE Settled(q)
      BY <1>8, <3>1 DEF PinsKept
    <3>3. AtPin(q)' <=> q = scan.pin
      BY <1>8 DEF AtPin
    <3>4. q # scan.pin => (q \in transition' <=> q \in transition)
      BY <1>1, <2>2
    <3> QED
      BY <2>1, <3>2, <3>3, <3>4
  <2>3. scan'.pin \notin transition' /\ scan'.at # "report"
    BY <1>1
  <2> QED
    BY <2>2, <2>3 DEF PinsKept
<1>10. EdgesAwaited'
  <2>1. Due(List0, button)' = Due(List0, button) /\ Running' = Running
        /\ Restarting' = Restarting
    BY <1>4 DEF Due, List0, Running, Restarting
  <2>2. ASSUME NEW q \in transition' \ excused'
        PROVE  q \in transition \ excused /\ q # scan.pin /\ q \in Pins
    BY <1>1, <1>6, <2>2 DEF PinsTyped
  <2>3. ASSUME NEW q \in Pins, WillScan(q), q # scan.pin
        PROVE  WillScan(q)'
    <3>1. Ahead(q) => Ahead(q)'
      BY <1>3, <1>8, <2>3 DEF Ahead, Pins
    <3> QED
      BY <1>4, <2>1, <2>3, <3>1 DEF WillScan
  <2> QED
    BY <1>4, <2>1, <2>2, <2>3 DEF EdgesAwaited, Awaited
<1> QED
  BY <1>5, <1>6, <1>7, <1>9, <1>10

LEMMA ReadKeeps ==
  ASSUME IInv, ReadPin
  PROVE  IInv'
<1> USE DEF IInv
<1>1. /\ scan.at = "read" /\ UNCHANGED timerVars
      /\ scan' = [scan EXCEPT !.at = "report", !.high = scan.pin \in level]
      /\ level' = level /\ pinState' = pinState /\ transition' = transition
      /\ main' = main /\ reported' = reported /\ excused' = excused
  BY DEF ReadPin
<1>2. scan \in Loaded /\ ButtonHandler
  BY <1>1 DEF ScanKept, NoScan, Loading
<1>3. low.at = "expire" /\ low' = low /\ list' = list /\ toExpire' = toExpire
      /\ elapsed' = elapsed /\ opQueue' = opQueue
  BY <1>1, <1>2 DEF ButtonHandler, timerVars
<1>4. TimersTyped' /\ LowKept' /\ QueuesKept' /\ PinsTyped'
  <2>1. PinsTyped'
    BY <1>1 DEF PinsTyped
  <2> QED
    BY <1>1, <1>3, <2>1, HandlerKeeps
<1>5. scan' \in Loaded /\ scan'.at = "report" /\ scan'.pin = scan.pin
      /\ scan'.edge = scan.edge /\ scan'.high = (scan.pin \in level)
  <2>1. PICK h : h = (scan.pin \in level)
    OBVIOUS
  <2>2. scan' = [scan EXCEPT !.at = "report", !.high = h] /\ h \in BOOLEAN
    BY <1>1, <2>1
  <2>3. scan' \in Loaded /\ scan'.at = "report" /\ scan'.pin = scan.pin
        /\ scan'.edge = scan.edge /\ scan'.high = h
    BY <1>2, <2>2 DEF Loaded
  <2> QED
    BY <2>1, <2>3
<1>6. ScanKept'
  BY <1>2, <1>3, <1>5 DEF ScanKept, ButtonHandler
<1>7. Scanned /\ Scanned' /\ \A q : AtPin(q)' <=> AtPin(q)
  BY <1>1, <1>5 DEF Scanned, AtPin
<1>8. PinsKept'
  <2>1. \A q : (Settled(q)' <=> Settled(q)) /\ (Recorded(q)' <=> Recorded(q))
    BY <1>1 DEF Settled, Recorded
  <2> QED
    BY <1>1, <1>5, <1>7, <2>1 DEF PinsKept
<1>9. EdgesAwaited'
  <2>1. Due(List0, button)' = Due(List0, button) /\ Running' = Running
        /\ Restarting' = Restarting
    BY <1>3 DEF Due, List0, Running, Restarting
  <2>2. \A q : WillScan(q) => WillScan(q)'
    BY <1>3, <1>5, <1>7, <2>1 DEF WillScan, Ahead
  <2> QED
    BY <1>1, <1>3, <2>1, <2>2 DEF EdgesAwaited, Awaited
<1> QED
  BY <1>4, <1>6, <1>8, <1>9

LEMMA ReportKeeps ==
  ASSUME IInv, ReportPin
  PROVE  IInv'
<1> USE DEF IInv
<1>a. PICK p : p = scan.pin
  OBVIOUS
<1>1. /\ scan.at = "report"
      /\ IF (p \in pinState) = scan.high
         THEN /\ reported' = IF scan.high THEN reported \union {p} ELSE reported \ {p}
              /\ excused' = IF scan.edge THEN excused \union {p} ELSE excused \ {p}
         ELSE /\ excused' = IF scan.edge THEN excused \union {p} ELSE excused
              /\ reported' = reported
      /\ scan' = TestOf(p + 1)
      /\ IF p = PinCount THEN HandlerReturns(button) ELSE UNCHANGED timerVars
      /\ level' = level /\ pinState' = pinState /\ transition' = transition /\ main' = main
  BY <1>a DEF ReportPin
<1>2. scan \in Loaded /\ ButtonHandler /\ p \in Pins /\ AtPin(p) /\ Scanned
  BY <1>1, <1>a DEF ScanKept, NoScan, Loading, Loaded, AtPin, Scanned
<1>3. scan.edge \in BOOLEAN /\ scan.high \in BOOLEAN
  BY <1>2 DEF Loaded
<1>4. PinsTyped'
  <2>1. reported' \in SUBSET Pins /\ excused' \in SUBSET Pins
    BY <1>1, <1>2 DEF PinsTyped
  <2> QED
    BY <1>1, <2>1 DEF PinsTyped
<1>5. /\ TimersTyped' /\ QueuesKept' /\ LowKept' /\ ScanKept'
      /\ ~Scanned' /\ \A q : ~AtPin(q)'
      /\ opQueue' = opQueue /\ Restarting' = Restarting
      /\ \A q \in Pins : p < q /\ WillScan(q) => WillScan(q)'
  BY <1>1, <1>2, NextTested
<1>6. PinsKept'
  <2>1. \A q \in Pins : q # p => /\ Settled(q)' <=> Settled(q)
                                 /\ q \in excused' <=> q \in excused
                                 /\ ~AtPin(q)
    BY <1>1, <1>a DEF Settled, AtPin
  <2>2. \A q : Recorded(q)' <=> Recorded(q)
    BY <1>1 DEF Recorded
  <2>3. ASSUME p \notin excused'
        PROVE  p \notin transition' /\ Settled(p)'
    <3>1. ~scan.edge
      BY <1>1, <2>3
    <3>2. p \notin transition /\ scan.high = (p \in level)
      BY <1>1, <1>2, <1>a, <3>1 DEF PinsKept
    <3>3. CASE (p \in pinState) = scan.high
      <4>1. CASE scan.high
        <5>1. p \in level' /\ p \in reported'
          BY <1>1, <3>2, <3>3, <4>1
        <5> QED
          BY <1>1, <3>2, <5>1 DEF Settled
      <4>2. CASE ~scan.high
        <5>1. p \notin level' /\ p \notin reported'
          BY <1>1, <3>2, <3>3, <4>2
        <5> QED
          BY <1>1, <3>2, <5>1 DEF Settled
      <4> QED
        BY <4>1, <4>2
    <3>4. CASE (p \in pinState) # scan.high
      <4>1. p \notin excused /\ ~Recorded(p)
        BY <1>1, <2>3, <3>1, <3>2, <3>4 DEF Recorded
      <4>2. Settled(p)
        BY <1>2, <3>1, <4>1 DEF PinsKept
      <4> QED
        BY <1>1, <3>2, <3>4, <4>2 DEF Settled
    <3> QED
      BY <3>3, <3>4
  <2>4. ASSUME NEW q \in Pins \ excused'
        PROVE  /\ q \in transition' => Recorded(q)' /\ ~Settled(q)'
               /\ q \notin transition' => Settled(q)'
    <3>1. CASE q = p
      BY <2>3, <2>4, <3>1
    <3>2. CASE q # p
      BY <1>1, <2>1, <2>2, <2>4, <3>2 DEF PinsKept
    <3> QED
      BY <3>1, <3>2
  <2>5. scan'.at # "report"
    BY <1>5 DEF Scanned
  <2> QED
    BY <1>5, <2>4, <2>5 DEF PinsKept
<1>7. EdgesAwaited'
  <2>1. ASSUME NEW q \in transition' \ excused'
        PROVE  q \in transition \ excused /\ q # p /\ q \in Pins
    <3>1. q \in transition /\ q \in Pins
      BY <1>1, <2>1 DEF PinsTyped
    <3>2. q # p
      <4>1. CASE scan.edge
        BY <1>1, <2>1, <4>1
      <4>2. CASE ~scan.edge
        BY <1>2, <1>a, <3>1, <4>2 DEF PinsKept
      <4> QED
        BY <4>1, <4>2
    <3> QED
      BY <1>1, <2>1, <3>1, <3>2
  <2>2. ASSUME NEW q \in Pins, WillScan(q), q # p
        PROVE  p < q
    <3>1. button \in Range(low.todo) /\ low.at = "expire"
      <4>1. low \in Expiry
        BY <1>2 DEF LowKept, ButtonHandler, Idle
      <4> QED
        BY <1>2, <4>1, TailShape DEF Expiry, ButtonHandler
    <3> QED
      BY <1>2, <1>a, <2>2, <3>1 DEF WillScan, Ahead
  <2> QED
    BY <1>5, <2>1, <2>2 DEF EdgesAwaited, Awaited
<1> QED
  BY <1>4, <1>5, <1>6, <1>7

LEMMA TickHandlerKeeps ==
  ASSUME IInv, TickHandler
  PROVE  IInv'
<1> USE DEF IInv
<1>1. HandlerReturns(tick) /\ UNCHANGED pinVars /\ low.at = "expire"
      /\ Head(low.todo) = tick /\ low.todo # <<>> /\ ~ButtonHandler
  BY Constants DEF TickHandler, HandlerReturns, ButtonHandler
<1>2. main' = main /\ scan' = scan /\ transition' = transition /\ excused' = excused
  BY <1>1 DEF pinVars
<1>3. /\ TimersTyped' /\ QueuesKept' /\ LowKept'
      /\ elapsed' = elapsed /\ opQueue' = opQueue
      /\ low'.at = "expire" /\ low'.ticks = low.ticks
      /\ Due(List0, button)' = Due(List0, button) /\ Running' = Running
      /\ Restarting' = Restarting
      /\ low' = low \/ Range(low.todo)' = Range(low.todo) \ {tick}
  BY <1>1, <1>2, HandlerKeeps
<1>4. PinsTyped' /\ PinsKept'
  BY <1>1, PinsStay
<1>5. ScanKept' /\ ~Scanned /\ ~Scanned'
  BY <1>1, <1>2, NoScanStays
<1>6. EdgesAwaited'
  <2>1. button \in Range(low.todo)' <=> button \in Range(low.todo)
    BY <1>3, Constants
  <2>2. \A p : WillScan(p) => WillScan(p)'
    BY <1>1, <1>2, <1>3, <1>5, <2>1 DEF WillScan, Ahead
  <2> QED
    BY <1>2, <1>3, <2>2 DEF EdgesAwaited, Awaited
<1> QED
  BY <1>3, <1>4, <1>5, <1>6

-----------------------------------------------------------------------------
(* The steps of main(), and an edge.                                       *)

LEMMA StartTick ==
  ASSUME TimersTyped
  PROVE  StartOp(tick) \in Ops /\ <<StartOp(tick)>> \in Seq(TickOps)
<1>1. StartOp(tick) \in Ops
  BY Constants DEF StartOp, Ops, TimersTyped
<1>2. StartOp(tick).timer = tick /\ StartOp(tick).type = "start"
  BY DEF StartOp
<1>3. StartOp(tick) \in TickOps
  BY <1>1, <1>2 DEF TickOps
<1> QED
  BY <1>1, <1>3

\* Steps of main() leave the interrupts alone, and they add to its own queue.
LEMMA MainKeeps ==
  ASSUME IInv, MainStarts \/ MainEnqueues
  PROVE  IInv'
<1> USE DEF IInv
<1>1. /\ counter' = counter /\ cc' = cc /\ armed' = armed /\ rtcRunning' = rtcRunning
      /\ rtcPending' = rtcPending /\ swiPending' \in {swiPending, TRUE}
      /\ clearing' = clearing /\ list' = list /\ toExpire' = toExpire /\ latest' = latest
      /\ elapsed' = elapsed /\ rtcReset' = rtcReset /\ low' = low /\ lag' = lag
      /\ ran' = ran /\ shifted' = shifted /\ rebased' = rebased
      /\ level' = level /\ pinState' = pinState /\ transition' = transition
      /\ scan' = scan /\ reported' = reported /\ excused' = excused
  BY DEF MainStarts, MainEnqueues, hardware
<1>2. TimersTyped'
  BY <1>1 DEF TimersTyped
<1>3. PinsTyped'
  BY <1>1 DEF PinsTyped, MainStarts, MainEnqueues
<1>4. LowKept' /\ ScanKept'
  BY <1>1, ScanStays DEF LowKept
<1>5. PinsKept'
  BY <1>1 DEF PinsKept, AtPin, Scanned, Settled, Recorded
<1>6. opQueue'["high"] = opQueue["high"] /\ QueuesKept'
  <2>1. CASE MainStarts
    <3>1. PICK d : d = <<StartOp(tick)>>
      OBVIOUS
    <3>2. d \in Seq(TickOps) /\ d \in Seq(Ops) /\ Len(d) = 1
      BY <3>1, StartTick
    <3>3. opQueue' = [opQueue EXCEPT !["draft"] = d] /\ main = "init" /\ main' = "enqueue"
      BY <2>1, <3>1 DEF MainStarts
    <3>4. opQueue'["high"] = opQueue["high"] /\ opQueue'["main"] = opQueue["main"]
          /\ opQueue'["draft"] = d
      BY <3>3 DEF QueuesKept, Queues
    <3>5. opQueue' \in [Queues -> Seq(Ops)]
      BY <3>2, <3>3 DEF QueuesKept
    <3>6. \A u \in Queues : Len(opQueue'[u]) <= QueueSize
      <4>1. 1 <= QueueSize
        BY Constants
      <4>2. Len(opQueue'["draft"]) <= QueueSize
        BY <3>2, <3>4, <4>1
      <4> QED
        BY <3>4, <4>2 DEF QueuesKept, Queues
    <3>7. opQueue'["high"] \in Seq(ButtonOps)
      BY <3>4 DEF QueuesKept
    <3>9. opQueue'["main"] \in Seq(TickOps) /\ opQueue'["main"] = <<>>
      BY <3>3, <3>4 DEF QueuesKept
    <3>10. opQueue'["draft"] \in Seq(TickOps) /\ Len(opQueue'["draft"]) <= 1
      <4>1. Len(d) <= 1
        BY <3>2
      <4> QED
        BY <3>2, <3>4, <4>1
    <3>8. QueuesKept'
      BY <3>5, <3>6, <3>7, <3>9, <3>10 DEF QueuesKept
    <3> QED
      BY <3>4, <3>8
  <2>2. CASE MainEnqueues
    <3>1. PICK d : d = opQueue["draft"]
      OBVIOUS
    <3>2. d \in Seq(TickOps) /\ d \in Seq(Ops) /\ Len(d) <= 1 /\ opQueue["main"] = <<>>
      BY <2>2, <3>1 DEF QueuesKept, Queues, MainEnqueues
    <3>3. opQueue' = [opQueue EXCEPT !["main"] = d, !["draft"] = <<>>] /\ main' = "done"
      <4>1. <<>> \o d = d
        BY <3>2, ConcatEmptySeq
      <4> QED
        BY <2>2, <3>1, <3>2, <4>1 DEF MainEnqueues
    <3>4. opQueue'["high"] = opQueue["high"] /\ opQueue'["main"] = d
          /\ opQueue'["draft"] = <<>>
      BY <3>3 DEF QueuesKept, Queues
    <3>a. <<>> \in Seq(Ops) /\ <<>> \in Seq(TickOps) /\ Len(<<>>) = 0
      OBVIOUS
    <3>5. opQueue' \in [Queues -> Seq(Ops)]
      BY <3>2, <3>3, <3>a DEF QueuesKept
    <3>6. \A u \in Queues : Len(opQueue'[u]) <= QueueSize
      <4>1. Len(d) \in Nat
        BY <3>2, LenProperties
      <4> QED
        BY <3>2, <3>4, <3>a, <4>1, Constants DEF QueuesKept, Queues
    <3>7. opQueue'["high"] \in Seq(ButtonOps)
      BY <3>4 DEF QueuesKept
    <3>8. QueuesKept'
      BY <3>2, <3>3, <3>4, <3>5, <3>6, <3>7, <3>a DEF QueuesKept
    <3> QED
      BY <3>4, <3>8
  <2> QED
    BY <2>1, <2>2
<1>7. EdgesAwaited'
  <2>1. Restarting => Restarting'
    BY <1>6 DEF Restarting
  <2> QED
    BY <1>1, <1>6, <2>1, EdgesStayAwaited
<1> QED
  BY <1>2, <1>3, <1>4, <1>5, <1>6, <1>7

\* What an edge adds to the queue of the interrupts.
LEMMA EdgeQueued ==
  ASSUME TimersTyped, QueuesKept, main' = main, NEW added,
         \/ added = <<StopOp(button)>> /\ Stopped
         \/ added = <<StopOp(button), StartOp(button)>> /\ Started,
         opQueue' = [opQueue EXCEPT !["high"] = @ \o added]
  PROVE  /\ QueuesKept'
         /\ added = <<StopOp(button), StartOp(button)>> => Restarting'
<1>a. PICK q : q = opQueue["high"]
  OBVIOUS
<1>b. PICK r : r = q \o added
  OBVIOUS
<1>1. StopOp(button) \in Ops /\ StartOp(button) \in Ops
      /\ StopOp(button).timer = button /\ StartOp(button).timer = button
      /\ StartOp(button).type = "start"
  BY Constants DEF StopOp, StartOp, Ops, TimersTyped
<1>2. StopOp(button) \in ButtonOps /\ StartOp(button) \in ButtonOps
  BY <1>1 DEF ButtonOps
<1>3. PICK stop : stop = StopOp(button)
  OBVIOUS
<1>4. PICK start : start = StartOp(button)
  OBVIOUS
<1>5. /\ added \in Seq(ButtonOps) /\ added \in Seq(Ops)
      /\ \/ Len(added) = 1 /\ Len(q) + 1 <= QueueSize
         \/ Len(added) = 2 /\ Len(q) + 2 <= QueueSize /\ added[2] = start
  <2>1. stop \in Ops /\ stop \in ButtonOps /\ start \in Ops /\ start \in ButtonOps
    BY <1>1, <1>2, <1>3, <1>4
  <2>2. CASE added = <<stop>> /\ Stopped
    <3>1. Len(q) + 1 <= QueueSize
      BY <1>a, <2>2 DEF Stopped, Room
    <3>2. <<stop>> \in Seq(Ops) /\ <<stop>> \in Seq(ButtonOps) /\ Len(<<stop>>) = 1
      BY <2>1
    <3> QED
      BY <2>2, <3>1, <3>2
  <2>3. CASE added = <<stop, start>> /\ Started
    <3>1. Len(q) + 2 <= QueueSize
      BY <1>a, <2>3 DEF Started, Room
    <3>2. /\ <<stop, start>> \in Seq(Ops) /\ <<stop, start>> \in Seq(ButtonOps)
          /\ Len(<<stop, start>>) = 2 /\ <<stop, start>>[2] = start
      BY <2>1
    <3> QED
      BY <2>3, <3>1, <3>2
  <2> QED
    BY <1>3, <1>4, <2>2, <2>3
<1>6. q \in Seq(ButtonOps) /\ q \in Seq(Ops) /\ Len(q) \in Nat
  BY <1>a, LenProperties DEF QueuesKept, Queues
<1>7. r \in Seq(ButtonOps) /\ r \in Seq(Ops) /\ Len(r) = Len(q) + Len(added)
  BY <1>b, <1>5, <1>6, ConcatProperties
<1>8. /\ opQueue' = [opQueue EXCEPT !["high"] = r] /\ opQueue'["high"] = r
      /\ opQueue'["main"] = opQueue["main"] /\ opQueue'["draft"] = opQueue["draft"]
  BY <1>a, <1>b DEF QueuesKept, Queues
<1>9. opQueue' \in [Queues -> Seq(Ops)]
  BY <1>7, <1>8 DEF QueuesKept
<1>10. Len(r) <= QueueSize
  BY <1>5, <1>6, <1>7, Constants
<1>11. \A u \in Queues : Len(opQueue'[u]) <= QueueSize
  BY <1>8, <1>10 DEF QueuesKept, Queues
<1>12. QueuesKept'
  BY <1>7, <1>8, <1>9, <1>11 DEF QueuesKept
<1>13. ASSUME added = <<StopOp(button), StartOp(button)>>
       PROVE  Restarting'
  <2>1. Len(added) = 2 /\ added[2] = start
    BY <1>4, <1>13
  <2>2. r[Len(q) + 2] = added[2] /\ Len(q) + 2 \in 1..Len(r)
    <3>1. Len(q) + 2 > Len(q) /\ Len(q) + 2 <= Len(q) + Len(added) /\ (Len(q) + 2) - Len(q) = 2
          /\ Len(q) + 2 \in 1..Len(r)
      BY <1>6, <1>7, <2>1
    <3> QED
      BY <1>b, <1>5, <1>6, <3>1, ConcatProperties
  <2>3. r[Len(q) + 2].type = "start"
    BY <1>1, <1>4, <2>1, <2>2
  <2> QED
    BY <1>8, <2>2, <2>3 DEF Restarting
<1> QED
  BY <1>12, <1>13

\* Of the pin with the edge: its record and what it was reported with.
LEMMA EdgeKeeps ==
  ASSUME IInv, NEW p \in Pins, Edge(p)
  PROVE  IInv'
<1> USE DEF IInv
<1>1. /\ level' = IF p \in level THEN level \ {p} ELSE level \union {p}
      /\ scan' = IF scan.pin = p /\ scan.at \in {"read", "report"}
                 THEN [scan EXCEPT !.edge = TRUE] ELSE scan
      /\ UNCHANGED <<counter, cc, armed, rtcRunning, rtcPending, clearing, list, toExpire,
                     latest, elapsed, rtcReset, low, lag, ran, shifted, rebased,
                     main, reported>>
  BY DEF Edge
<1>2. \/ /\ ~Stopped /\ excused' = excused \union {p} /\ opQueue' = opQueue
         /\ swiPending' = swiPending /\ pinState' = pinState /\ transition' = transition
      \/ /\ Stopped /\ swiPending' = TRUE /\ p \in transition /\ transition' = transition \ {p}
         /\ opQueue' = [opQueue EXCEPT !["high"] = Append(@, StopOp(button))]
         /\ excused' = excused \union transition' /\ pinState' = pinState
      \/ /\ Stopped /\ swiPending' = TRUE /\ p \notin transition
         /\ transition' = transition \union {p}
         /\ pinState' = IF p \in level' THEN pinState \union {p} ELSE pinState \ {p}
         /\ opQueue' = [opQueue EXCEPT !["high"] =
              IF Started THEN @ \o <<StopOp(button), StartOp(button)>>
              ELSE Append(@, StopOp(button))]
         /\ excused' = IF Started THEN excused ELSE excused \union transition'
  BY DEF Edge
<1>3. TimersTyped'
  <2>1. swiPending' \in BOOLEAN
    BY <1>2 DEF TimersTyped
  <2> QED
    BY <1>1, <2>1 DEF TimersTyped
<1>4. PinsTyped'
  BY <1>1, <1>2 DEF PinsTyped
<1>5. LowKept'
  BY <1>1 DEF LowKept
\* The operations that are queued.
<1>6. QueuesKept' /\ \/ opQueue' = opQueue /\ transition' = transition
                     \/ transition' \ excused' = {}
                     \/ Restarting'
  <2>a. main' = main
    BY <1>1
  <2>b. PICK q : q = opQueue["high"]
    OBVIOUS
  <2>c. PICK stop : stop = StopOp(button)
    OBVIOUS
  <2>d. q \in Seq(Ops) /\ stop \in Ops
    BY <2>b, <2>c, Constants DEF QueuesKept, Queues, StopOp, Ops
  <2>1. Append(opQueue["high"], StopOp(button)) = opQueue["high"] \o <<StopOp(button)>>
    <3>1. Append(q, stop) = q \o <<stop>>
      BY <2>d, AppendIsConcat
    <3> QED
      BY <2>b, <2>c, <3>1
  <2>2. CASE opQueue' = opQueue /\ transition' = transition
    BY <2>a, <2>2, QueuesStay
  <2>3. CASE opQueue' = [opQueue EXCEPT !["high"] = Append(@, StopOp(button))]
             /\ Stopped /\ transition' \ excused' = {}
    <3>1. PICK added : added = <<StopOp(button)>>
      OBVIOUS
    <3>2. opQueue' = [opQueue EXCEPT !["high"] = @ \o added]
      BY <2>1, <2>3, <3>1
    <3>3. QueuesKept'
      BY <2>a, <2>3, <3>1, <3>2, EdgeQueued
    <3> QED
      BY <2>3, <3>3
  <2>4. CASE opQueue' = [opQueue EXCEPT !["high"] = @ \o <<StopOp(button), StartOp(button)>>]
             /\ Started
    <3>1. PICK added : added = <<StopOp(button), StartOp(button)>>
      OBVIOUS
    <3>2. opQueue' = [opQueue EXCEPT !["high"] = @ \o added]
      BY <2>4, <3>1
    <3>3. QueuesKept' /\ Restarting'
      BY <2>a, <2>4, <3>1, <3>2, EdgeQueued
    <3> QED
      BY <3>3
  <2> QED
    BY <1>2, <2>2, <2>3, <2>4
\* The scan is told of the edge.
<1>7. /\ ScanKept' /\ scan'.at = scan.at /\ scan'.pin = scan.pin
      /\ AtPin(p) => scan'.edge = TRUE
      /\ ~AtPin(p) => scan' = scan
      /\ scan.at = "report" => scan'.high = scan.high
  <2>1. CASE AtPin(p)
    <3>1. scan \in Loaded /\ ButtonHandler
      BY <2>1 DEF ScanKept, NoScan, Loading, AtPin, Scanned
    <3>2. scan' = [scan EXCEPT !.edge = TRUE]
      BY <1>1, <2>1 DEF AtPin, Scanned
    <3>3. scan' \in Loaded /\ scan'.at = scan.at /\ scan'.pin = scan.pin /\ scan'.edge = TRUE
          /\ scan'.high = scan.high
      BY <3>1, <3>2 DEF Loaded
    <3>4. ButtonHandler'
      BY <1>1, <3>1 DEF ButtonHandler
    <3> QED
      BY <2>1, <3>3, <3>4 DEF ScanKept
  <2>2. CASE ~AtPin(p)
    <3>1. scan' = scan /\ low' = low
      BY <1>1, <2>2 DEF AtPin, Scanned
    <3> QED
      BY <2>2, <3>1, ScanStays
  <2> QED
    BY <2>1, <2>2
<1>8. (Scanned' <=> Scanned) /\ \A q : AtPin(q)' <=> AtPin(q)
  BY <1>7 DEF Scanned, AtPin
<1>9. /\ \A q : q # p => (Settled(q)' <=> Settled(q)) /\ (Recorded(q)' <=> Recorded(q))
                         /\ (q \in transition' <=> q \in transition)
      /\ p \in level' <=> p \notin level
      /\ p \in reported' <=> p \in reported
      /\ excused \subseteq excused'
  BY <1>1, <1>2 DEF Settled, Recorded
<1>10. PinsKept'
  <2>1. ASSUME NEW q \in Pins \ excused', q # p
        PROVE  /\ AtPin(q)' /\ ~scan'.edge => Settled(q)' \/ Recorded(q)'
               /\ ~AtPin(q)' /\ q \in transition' => Recorded(q)' /\ ~Settled(q)'
               /\ ~AtPin(q)' /\ q \notin transition' => Settled(q)'
    <3>1. q \in Pins \ excused
      BY <1>9, <2>1
    <3>2. AtPin(q) => scan' = scan
      BY <1>7, <2>1 DEF AtPin
    <3> QED
      BY <1>8, <1>9, <2>1, <3>1, <3>2 DEF PinsKept
  <2>2. ASSUME p \notin excused'
        PROVE  /\ AtPin(p)' /\ ~scan'.edge => Settled(p)' \/ Recorded(p)'
               /\ ~AtPin(p)' /\ p \in transition' => Recorded(p)' /\ ~Settled(p)'
               /\ ~AtPin(p)' /\ p \notin transition' => Settled(p)'
    <3>1. p \notin excused
      BY <1>9, <2>2
    <3>2. CASE AtPin(p)
      BY <1>7, <1>8, <3>2
    <3>3. CASE ~AtPin(p) /\ p \in transition
      <4>1. ~Settled(p)
        BY <3>1, <3>3 DEF PinsKept
      <4>2. Settled(p)'
        BY <1>9, <4>1 DEF Settled
      <4>3. p \notin transition'
        BY <1>2, <2>2, <3>3
      <4> QED
        BY <1>8, <3>3, <4>2, <4>3
    <3>4. CASE ~AtPin(p) /\ p \notin transition
      <4>1. Settled(p)
        BY <3>1, <3>4 DEF PinsKept
      <4>2. ~Settled(p)'
        BY <1>9, <4>1 DEF Settled
      <4>3. p \in transition' /\ Recorded(p)'
        BY <1>2, <2>2, <3>4 DEF Recorded
      <4> QED
        BY <1>8, <3>4, <4>2, <4>3
    <3> QED
      BY <3>2, <3>3, <3>4
  <2>3. Scanned' /\ ~scan'.edge => scan'.pin \notin transition'
    <3>1. ASSUME Scanned', ~scan'.edge
          PROVE  scan.pin # p /\ scan' = scan
      BY <1>7, <1>8, <3>1 DEF AtPin
    <3> QED
      BY <1>7, <1>8, <1>9, <3>1 DEF PinsKept
  <2>4. scan'.at = "report" /\ ~scan'.edge => scan'.high = (scan'.pin \in level')
    <3>1. ASSUME scan'.at = "report", ~scan'.edge
          PROVE  scan.pin # p /\ scan' = scan
      BY <1>7, <3>1 DEF AtPin, Scanned
    <3>2. \A q : q # p => (q \in level' <=> q \in level)
      BY <1>1
    <3> QED
      BY <1>7, <3>1, <3>2 DEF PinsKept
  <2> QED
    BY <2>1, <2>2, <2>3, <2>4 DEF PinsKept
<1>11. EdgesAwaited'
  <2>1. CASE opQueue' = opQueue /\ transition' = transition
    <3>1. Due(List0, button)' = Due(List0, button) /\ Running' = Running
          /\ Restarting' = Restarting /\ low' = low /\ elapsed' = elapsed
      BY <1>1, <2>1 DEF Due, List0, Running, Restarting
    <3>2. \A q : WillScan(q) => WillScan(q)'
      BY <1>7, <1>8, <3>1 DEF WillScan, Ahead
    <3>3. transition' \ excused' \subseteq transition \ excused
      BY <1>9, <2>1
    <3> QED
      BY <2>1, <3>1, <3>2, <3>3 DEF EdgesAwaited, Awaited
  <2>2. CASE transition' \ excused' = {} \/ Restarting'
    BY <2>2 DEF EdgesAwaited, Awaited
  <2> QED
    BY <1>6, <2>1, <2>2
<1> QED
  BY <1>3, <1>4, <1>5, <1>6, <1>7, <1>10, <1>11

-----------------------------------------------------------------------------
(* The theorems.                                                           *)

LEMMA InitKept == Init => IInv
<1> SUFFICES ASSUME Init PROVE IInv
  OBVIOUS
<1> USE DEF Init, TimerInit
<1>1. TimersTyped
  <2>1. 0 \in Counter /\ 0 \in 0..MaxLag /\ <<>> \in Lists
    BY Constants, ListsAre
  <2>2. toExpire \in [Timers -> Nat] /\ ran \in [Timers -> Int]
        /\ shifted \in [Timers -> BOOLEAN]
    OBVIOUS
  <2>3. counter \in Counter /\ cc \in Counter /\ latest \in Counter /\ lag \in 0..MaxLag
        /\ list \in Lists /\ elapsed \in Nat \union {None}
    BY <2>1
  <2> QED
    BY <2>2, <2>3 DEF TimersTyped
<1>2. PinsTyped
  BY DEF PinsTyped
<1>3. QueuesKept
  <2>1. <<>> \in Seq(Ops) /\ <<>> \in Seq(ButtonOps) /\ <<>> \in Seq(TickOps) /\ Len(<<>>) = 0
    OBVIOUS
  <2>2. opQueue["high"] = <<>> /\ opQueue["main"] = <<>> /\ opQueue["draft"] = <<>>
    BY DEF Queues
  <2>3. opQueue \in [Queues -> Seq(Ops)]
    BY <2>1
  <2>4. \A u \in Queues : Len(opQueue[u]) <= QueueSize
    BY <2>1, <2>2, Constants DEF Queues
  <2>a. \A s : s = <<>> => s \in Seq(ButtonOps) /\ s \in Seq(TickOps) /\ Len(s) <= 1
    BY <2>1
  <2> HIDE DEF Init, TimerInit
  <2>5. /\ opQueue["high"] \in Seq(ButtonOps) /\ opQueue["main"] \in Seq(TickOps)
        /\ opQueue["draft"] \in Seq(TickOps) /\ Len(opQueue["draft"]) <= 1
    BY <2>2, <2>a
  <2> QED
    BY <2>2, <2>3, <2>4, <2>5 DEF QueuesKept
<1>4. LowKept
  BY DEF LowKept, Idle
<1>5. ScanKept /\ ~Scanned
  BY DEF ScanKept, NoScan, Scanned
<1>6. PinsKept
  BY <1>5 DEF PinsKept, AtPin, Settled, NoScan
<1>7. EdgesAwaited
  BY DEF EdgesAwaited
<1> QED
  BY <1>1, <1>2, <1>3, <1>4, <1>5, <1>6, <1>7 DEF IInv

LEMMA StepsKeep == IInv /\ [Next]_vars => IInv'
<1> SUFFICES ASSUME IInv, [Next]_vars PROVE IInv'
  OBVIOUS
<1>1. CASE TimerNext /\ UNCHANGED pinVars
  <2>1. CASE UpdateList
    BY <1>1, <2>1, UpdateKeeps
  <2>2. CASE InsertHigh
    BY <1>1, <2>2, InsertKeeps
  <2>3. CASE Tick \/ ClearTakesEffect \/ RtcHandler \/ QueueElapsed
    BY <1>1, <2>3, TickKeeps, ClearKeeps, RtcKeeps, QueueElapsedKeeps
  <2>4. CASE ComputeCompare \/ WriteCompare \/ CheckCompare \/ StopRtc
    BY <1>1, <2>4, ComputeKeeps, WriteKeeps, CheckKeeps, StopKeeps
  <2> QED
    BY <1>1, <2>1, <2>2, <2>3, <2>4 DEF TimerNext
<1>2. ASSUME NEW p \in Pins, Edge(p)
      PROVE  IInv'
  BY <1>2, EdgeKeeps
<1>3. CASE TestPin \/ StoreTransition \/ ReadPin \/ ReportPin \/ TickHandler
  BY <1>3, TestKeeps, StoreKeeps, ReadKeeps, ReportKeeps, TickHandlerKeeps
<1>4. CASE MainStarts \/ MainEnqueues
  BY <1>4, MainKeeps
<1>5. CASE Rest \/ UNCHANGED vars
  <2>1. UNCHANGED <<timerVars, level, pinState, transition, scan, main, reported, excused>>
    BY <1>5 DEF Rest, vars, pinVars
  <2>2. /\ UNCHANGED <<counter, cc, armed, rtcRunning, rtcPending, swiPending, clearing>>
        /\ UNCHANGED <<list, toExpire, latest, elapsed, rtcReset, opQueue, low, lag, ran,
                       shifted, rebased>>
    BY <2>1 DEF timerVars, hardware
  <2>3. TimersTyped'
    BY <2>2 DEF IInv, TimersTyped
  <2>4. PinsTyped' /\ QueuesKept' /\ LowKept'
    BY <2>1, <2>2 DEF IInv, PinsTyped, QueuesKept, LowKept
  <2>5. ScanKept'
    BY <2>1, <2>2, ScanStays DEF IInv
  <2>6. PinsKept'
    BY <2>1 DEF IInv, PinsKept, AtPin, Scanned, Settled, Recorded
  <2>7. EdgesAwaited'
    <3>1. Restarting => Restarting'
      BY <2>2 DEF Restarting
    <3> QED
      BY <2>1, <2>2, <3>1, EdgesStayAwaited DEF IInv
  <2> QED
    BY <2>3, <2>4, <2>5, <2>6, <2>7 DEF IInv
<1> QED
  BY <1>1, <1>2, <1>3, <1>4, <1>5 DEF Next

LEMMA AlwaysKept == Spec => []IInv
<1> QED
  BY InitKept, StepsKeep, PTL DEF Spec

\* Types: the list never has a timer twice and its differences are never
\* negative, m_ticks_latest and CC[0] stay counter values, no queue is
\* overrun, and detection_delay_timeout_handler is the one that has a pin.
THEOREM TypeCorrect == Spec => []TypeOK
<1>1. ASSUME IInv
      PROVE  TypeOK
  <2> USE DEF IInv
  <2>1. Range(list) \subseteq Timers /\ IsInjective(list)
    <3>1. list \in Lists
      BY <1>1 DEF TimersTyped
    <3>2. CASE list = <<>>
      BY <3>2 DEF Range, IsInjective
    <3>3. ASSUME NEW t \in Timers, list = <<t>>
          PROVE  Range(list) \subseteq Timers /\ IsInjective(list)
      BY <3>3 DEF Range, IsInjective
    <3>4. ASSUME NEW t \in Timers, NEW u \in Timers, t # u, list = <<t, u>>
          PROVE  Range(list) \subseteq Timers /\ IsInjective(list)
      BY <3>4 DEF Range, IsInjective
    <3> QED
      BY <3>1, <3>2, <3>3, <3>4, ListShapes
  <2>2. \A u \in Queues : Range(opQueue[u]) \subseteq Ops /\ Len(opQueue[u]) <= QueueSize
    <3>1. ASSUME NEW u \in Queues
          PROVE  Range(opQueue[u]) \subseteq Ops
      <4>1. opQueue[u] \in Seq(Ops)
        BY <1>1, <3>1 DEF QueuesKept
      <4>2. \A i \in DOMAIN opQueue[u] : opQueue[u][i] \in Ops
        BY <4>1, ElementOfSeq, LenProperties
      <4> QED
        BY <4>2 DEF Range
    <3> QED
      BY <1>1, <3>1 DEF QueuesKept
  <2>3. low.at \in {"idle", "expire", "insert", "compare", "write", "check"}
    BY <1>1 DEF LowKept, Idle, Expiry
  <2>4. scan.pin \in 0..PinCount /\ (scan.pin # 0 => ButtonHandler)
    BY <1>1, Constants DEF ScanKept, NoScan, Loading, Loaded, Pins
  <2> QED
    BY <1>1, <2>1, <2>2, <2>3, <2>4 DEF TypeOK, TimersTyped, PinsTyped
<1> QED
  BY <1>1, AlwaysKept, PTL

\* No press is lost: at rest, every pin was reported with its level, unless an
\* edge of it was lost in one of the ways excused counts.  However the edges
\* fall between the steps of the handler and of the timer library, a recorded
\* one keeps the detection timer queued, running or in its handler.
THEOREM PressesReported == Spec => []SettledPinReported
<1>1. ASSUME IInv
      PROVE  SettledPinReported
  <2> SUFFICES ASSUME Quiet
               PROVE  /\ transition \subseteq excused
                      /\ \A p \in Pins \ excused : (p \in level) = (p \in reported)
    BY DEF SettledPinReported
  <2>1. low = Idle /\ button \notin Running /\ opQueue["high"] = <<>>
    BY DEF Quiet, Busy
  <2>2. ~Scanned /\ \A p : ~AtPin(p)
    BY <1>1, <2>1 DEF IInv, ScanKept, ButtonHandler, Idle, NoScan, Scanned, AtPin
  <2>3. transition \subseteq excused
    <3>1. ~Restarting
      BY <2>1 DEF Restarting
    <3> QED
      BY <1>1, <2>1, <3>1 DEF IInv, EdgesAwaited, Awaited, WillScan
  <2>4. \A p \in Pins \ excused : Settled(p)
    BY <1>1, <2>2, <2>3 DEF IInv, PinsKept
  <2> QED
    BY <2>3, <2>4 DEF Settled
<1> QED
  BY <1>1, AlwaysKept, PTL
=============================================================================
