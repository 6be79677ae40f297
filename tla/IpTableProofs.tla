--------------------------- MODULE IpTableProofs ---------------------------
(***************************************************************************)
(* The tables of the IPv6 stack stay consistent, for any number of         *)
(* addresses, prefixes and contexts.  Only the events of the interface and *)
(* the options of advertisements touch them (TableStep); for each function *)
(* of IpTables a lemma says that it preserves what the theorems need.      *)
(***************************************************************************)
EXTENDS IpStack, TLAPS, FiniteSetTheorems, WellFoundedInduction

LEMMA LeastIn ==
  ASSUME NEW S, S \subseteq Nat, S # {}
  PROVE  Least(S) \in S /\ \A y \in S : Least(S) <= y
<1>1. IsWellFoundedOn(OpToRel(<, Nat), Nat)
  BY NatLessThanWellFounded
<1>2. PICK x \in S : \A y \in S : ~(<<y, x>> \in OpToRel(<, Nat))
  BY <1>1, WFMin
<1>3. \A y \in S : ~(y < x)
  BY <1>2 DEF OpToRel
<1>4. \A y \in S : x <= y
  BY <1>3
<1> QED
  BY <1>4 DEF Least

LEMMA LeastOf == ASSUME NEW x PROVE Least({x}) = x
BY DEF Least

-----------------------------------------------------------------------------
(* The address table.                                                      *)

AddressType(t) ==
  t \in [used : SUBSET Slots, addr : [Slots -> Addresses \union {Unspecified}],
         range : [Slots -> Slots \union {Invalid}]]

\* What AddressesConsistent says of a table, whether there is a link or not.
Aligned(t) ==
  /\ AddressType(t)
  /\ \A j \in Slots : t.range[j] \in {j, Invalid}
  /\ t.used = {j \in Slots : t.range[j] # Invalid}
  /\ \A i, j \in t.used : t.addr[i] = t.addr[j] => i = j

LEMMA SlotFacts ==
  /\ Slots \subseteq Nat /\ Slots # {} /\ Invalid \notin Slots
BY TableAssumption DEF Slots, Invalid

\* The slots with an address are the entries in use that have it.
LEMMA ListedUsed ==
  ASSUME NEW t, Aligned(t), NEW a
  PROVE  Listed(t, a) = {j \in t.used : t.addr[j] = a}
<1>1. \A j \in Slots : t.range[j] # Invalid => t.range[j] = j
  BY DEF Aligned
<1>2. t.used = {j \in Slots : t.range[j] # Invalid}
  BY DEF Aligned
<1> QED
  BY <1>1, <1>2 DEF Listed

\* An entry in use is held by its own slot only, another one by none.
LEMMA HoldingAligned ==
  ASSUME NEW t, Aligned(t), NEW i \in Slots
  PROVE  /\ i \in t.used => Holding(t, i) = {i}
         /\ i \notin t.used => Holding(t, i) = {}
         /\ Holding(t, Invalid) = Slots \ t.used
<1>1. Holding(t, Invalid) = Slots \ t.used
  BY DEF Aligned, Holding
<1>2. \A j \in Holding(t, i) : j = i /\ i \in t.used
  BY SlotFacts DEF Aligned, Holding
<1>3. i \in t.used => i \in Holding(t, i)
  BY DEF Aligned, Holding
<1> QED
  BY <1>1, <1>2, <1>3

\* addr_set leaves the table as it is, or puts the address in an unused entry.
LEMMA AddrSetResult ==
  ASSUME NEW t, Aligned(t), NEW a
  PROVE  \/ /\ addr_set(t, a) = t
            /\ (Listed(t, a) # {} \/ t.used = Slots)
         \/ /\ Listed(t, a) = {}
            /\ \E j \in Slots \ t.used :
                 addr_set(t, a) =
                   [t EXCEPT !.used = @ \union {j}, !.addr[j] = a, !.range[j] = j]
<1> DEFINE same == {i \in t.used : t.addr[i] = a}
           entry == Least(Found(t, a))
<1>0. t.used \subseteq Slots
  BY DEF Aligned
<1>1. CASE Found(t, a) = {}
  <2>1. same = {} /\ t.used = Slots
    BY <1>0, <1>1 DEF Found
  <2> QED
    BY <1>1, <2>1 DEF addr_set
<1>2. CASE Found(t, a) # {} /\ same # {}
  <2>1. entry \in same
    BY <1>0, <1>2, SlotFacts, LeastIn DEF Found
  <2>2. Holding(t, entry) = {entry}
    BY <1>0, <2>1, HoldingAligned
  <2>3. addr_set(t, a) = [t EXCEPT !.used = @ \union {entry}]
    BY <1>2, <2>2, LeastOf DEF addr_set
  <2>4. t.used \union {entry} = t.used
    BY <2>1
  <2>5. addr_set(t, a) = t
    BY <2>3, <2>4 DEF Aligned, AddressType
  <2> QED
    BY <1>2, <2>5, ListedUsed
<1>3. CASE Found(t, a) # {} /\ same = {}
  <2>1. Found(t, a) = Slots \ t.used
    BY <1>3 DEF Found
  <2>2. entry \in Slots \ t.used
    BY <1>3, <2>1, SlotFacts, LeastIn
  <2>3. Holding(t, entry) = {} /\ Holding(t, Invalid) = Found(t, a)
    BY <2>1, <2>2, HoldingAligned
  <2>4. addr_set(t, a) =
          [t EXCEPT !.used = @ \union {entry}, !.addr[entry] = a, !.range[entry] = entry]
    BY <1>3, <2>3 DEF addr_set
  <2> QED
    BY <1>3, <2>2, <2>4, ListedUsed
<1> QED
  BY <1>1, <1>2, <1>3

LEMMA AddrSet ==
  ASSUME NEW t, Aligned(t), NEW a \in Addresses
  PROVE  /\ Aligned(addr_set(t, a))
         /\ t.used \subseteq addr_set(t, a).used
         /\ \A i \in t.used : addr_set(t, a).addr[i] = t.addr[i]
         /\ t.used # Slots => Listed(addr_set(t, a), a) # {}
<1> DEFINE u == addr_set(t, a)
<1>1. CASE u = t /\ (Listed(t, a) # {} \/ t.used = Slots)
  BY <1>1
<1>2. ASSUME Listed(t, a) = {}, NEW j \in Slots \ t.used,
             u = [t EXCEPT !.used = @ \union {j}, !.addr[j] = a, !.range[j] = j]
      PROVE  /\ Aligned(u)
             /\ t.used \subseteq u.used
             /\ \A i \in t.used : u.addr[i] = t.addr[i]
             /\ Listed(u, a) # {}
  <2>1. \A i \in t.used : t.addr[i] # a
    BY <1>2, ListedUsed
  <2>2. AddressType(u)
    <3>1. /\ t.used \union {j} \in SUBSET Slots
          /\ [t.addr EXCEPT ![j] = a] \in [Slots -> Addresses \union {Unspecified}]
          /\ [t.range EXCEPT ![j] = j] \in [Slots -> Slots \union {Invalid}]
      BY DEF Aligned, AddressType
    <3>2. u = [used |-> t.used \union {j}, addr |-> [t.addr EXCEPT ![j] = a],
               range |-> [t.range EXCEPT ![j] = j]]
      BY <1>2 DEF Aligned, AddressType
    <3> QED
      BY <3>1, <3>2 DEF AddressType
  <2>3. /\ u.used = t.used \union {j}
        /\ \A i \in Slots : u.addr[i] = IF i = j THEN a ELSE t.addr[i]
        /\ \A i \in Slots : u.range[i] = IF i = j THEN j ELSE t.range[i]
    BY <1>2 DEF Aligned, AddressType
  <2>4. t.used \subseteq Slots
    BY DEF Aligned
  <2>5. u.used = {i \in Slots : u.range[i] # Invalid}
    BY <1>2, <2>3, SlotFacts DEF Aligned
  <2>6. \A i \in Slots : u.range[i] \in {i, Invalid}
    BY <2>3 DEF Aligned
  <2>7. \A i, k \in u.used : u.addr[i] = u.addr[k] => i = k
    BY <1>2, <2>1, <2>3, <2>4 DEF Aligned
  <2>8. Aligned(u)
    BY <2>2, <2>5, <2>6, <2>7 DEF Aligned
  <2>9. j \in Listed(u, a)
    <3>1. Listed(u, a) = {i \in u.used : u.addr[i] = a}
      BY <2>8, ListedUsed
    <3>2. j \in u.used /\ u.addr[j] = a
      BY <2>3
    <3> QED
      BY <3>1, <3>2
  <2> QED
    BY <1>2, <2>3, <2>4, <2>8, <2>9
<1> QED
  BY <1>1, <1>2, AddrSetResult

\* address_remove takes away one entry that has the address, if there is one.
LEMMA AddressRemoveResult ==
  ASSUME NEW t, Aligned(t), NEW a, Listed(t, a) # {}
  PROVE  \E j \in t.used :
           /\ t.addr[j] = a
           /\ address_remove(t, a) =
                [t EXCEPT !.range[j] = Invalid, !.used = @ \ {j}, !.addr[j] = Unspecified]
<1> DEFINE j == Least(Listed(t, a))
           u == [t EXCEPT !.range[j] = Invalid]
<1>1. j \in Listed(t, a)
  BY SlotFacts, LeastIn DEF Listed
<1>2. j \in t.used /\ j \in Slots /\ t.addr[j] = a
  <2>1. Listed(t, a) = {i \in t.used : t.addr[i] = a}
    BY ListedUsed
  <2>2. j \in {i \in t.used : t.addr[i] = a}
    BY <1>1, <2>1
  <2> HIDE DEF j
  <2> QED
    BY <2>2 DEF Aligned
<1>3. \A k \in Slots : u.range[k] = IF k = j THEN Invalid ELSE t.range[k]
  BY <1>2 DEF Aligned, AddressType
<1>4. ~ \E k \in Slots : u.range[k] = j
  BY <1>2, <1>3, SlotFacts DEF Aligned
<1>5. address_remove(t, a) = addr_free(u, j)
  BY DEF address_remove
<1>6. addr_free(u, j) = [u EXCEPT !.used = @ \ {j}, !.addr[j] = Unspecified]
  BY <1>4 DEF addr_free
<1>7. [u EXCEPT !.used = @ \ {j}, !.addr[j] = Unspecified] =
        [t EXCEPT !.range[j] = Invalid, !.used = @ \ {j}, !.addr[j] = Unspecified]
  BY DEF Aligned, AddressType
<1> QED
  BY <1>2, <1>5, <1>6, <1>7

LEMMA AddressRemove ==
  ASSUME NEW t, Aligned(t), NEW a
  PROVE  /\ Aligned(address_remove(t, a))
         /\ address_remove(t, a).used \subseteq t.used
         /\ \A b : b # a /\ Listed(t, b) # {} => Listed(address_remove(t, a), b) # {}
<1> DEFINE u == address_remove(t, a)
<1>1. CASE Listed(t, a) = {}
  BY <1>1 DEF address_remove
<1>2. CASE Listed(t, a) # {}
  <2>1. PICK j \in t.used :
          /\ t.addr[j] = a
          /\ u = [t EXCEPT !.range[j] = Invalid, !.used = @ \ {j}, !.addr[j] = Unspecified]
    BY <1>2, AddressRemoveResult
  <2> HIDE DEF u
  <2>2. j \in Slots
    BY DEF Aligned
  <2>3. u = [used |-> t.used \ {j}, addr |-> [t.addr EXCEPT ![j] = Unspecified],
             range |-> [t.range EXCEPT ![j] = Invalid]]
    BY <2>1 DEF Aligned, AddressType
  <2>4. AddressType(u)
    <3>1. /\ t.used \ {j} \in SUBSET Slots
          /\ [t.addr EXCEPT ![j] = Unspecified] \in [Slots -> Addresses \union {Unspecified}]
          /\ [t.range EXCEPT ![j] = Invalid] \in [Slots -> Slots \union {Invalid}]
      BY DEF Aligned, AddressType
    <3> QED
      BY <2>3, <3>1 DEF AddressType
  <2>5. /\ u.used = t.used \ {j}
        /\ \A i \in Slots : u.addr[i] = IF i = j THEN Unspecified ELSE t.addr[i]
        /\ \A i \in Slots : u.range[i] = IF i = j THEN Invalid ELSE t.range[i]
    BY <2>3 DEF Aligned, AddressType
  <2>6. u.used = {i \in Slots : u.range[i] # Invalid}
    BY <2>5 DEF Aligned
  <2>7. \A i \in Slots : u.range[i] \in {i, Invalid}
    BY <2>5 DEF Aligned
  <2>8. \A i, k \in u.used : u.addr[i] = u.addr[k] => i = k
    BY <2>2, <2>5 DEF Aligned
  <2>9. Aligned(u)
    BY <2>4, <2>6, <2>7, <2>8 DEF Aligned
  <2>10. \A b : b # a /\ Listed(t, b) # {} => Listed(u, b) # {}
    <3> SUFFICES ASSUME NEW b, b # a, Listed(t, b) # {}
                 PROVE  Listed(u, b) # {}
      OBVIOUS
    <3>1. Listed(u, b) = {i \in u.used : u.addr[i] = b}
      BY <2>9, ListedUsed
    <3>2. PICK i \in t.used : t.addr[i] = b
      BY ListedUsed
    <3>3. i \in u.used /\ u.addr[i] = b
      BY <2>1, <2>5, <3>2 DEF Aligned
    <3> QED
      BY <3>1, <3>3
  <2> QED
    BY <2>5, <2>9, <2>10 DEF u
<1> QED
  BY <1>1, <1>2

LEMMA InterfaceReset ==
  ASSUME NEW t, Aligned(t)
  PROVE  Aligned(interface_reset(t)) /\ interface_reset(t).used = {}
<1> DEFINE freed == {j \in Slots : t.range[j] # Invalid
                                   /\ \A k \in Slots : k > j => t.range[k] # j}
<1>1. freed = t.used
  BY SlotFacts DEF Aligned
<1>2. interface_reset(t) =
        [used  |-> t.used \ freed,
         addr  |-> [i \in Slots |-> IF i \in freed THEN Unspecified ELSE t.addr[i]],
         range |-> [j \in Slots |-> Invalid]]
  BY DEF interface_reset
<1>3. [i \in Slots |-> IF i \in freed THEN Unspecified ELSE t.addr[i]]
        \in [Slots -> Addresses \union {Unspecified}]
  BY DEF Aligned, AddressType
<1> HIDE DEF freed
<1>4. AddressType(interface_reset(t)) /\ interface_reset(t).used = {}
  BY <1>1, <1>2, <1>3 DEF AddressType
<1> QED
  BY <1>2, <1>4 DEF Aligned

-----------------------------------------------------------------------------
(* The context table.                                                      *)

ContextType(c) ==
  c \in [owned : BOOLEAN, cid : [Entries -> Cids \union {NoCid}], count : Int]
TakenEntries(c) == {i \in Entries : c.cid[i] # NoCid}

\* What ContextsCounted says of the table, whoever owns it.
Counted(c) ==
  /\ ContextType(c)
  /\ c.count = Cardinality(TakenEntries(c))
  /\ \A i, j \in Entries : c.cid[i] = c.cid[j] /\ i # j => c.cid[i] = NoCid

LEMMA EntryFacts ==
  Entries \subseteq Nat /\ \A c : IsFiniteSet(TakenEntries(c))
<1>1. Entries \subseteq Nat
  BY TableAssumption DEF Entries
<1>2. IsFiniteSet(Entries)
  BY TableAssumption, FS_Interval DEF Entries
<1>3. \A c : TakenEntries(c) \subseteq Entries
  BY DEF TakenEntries
<1> QED
  BY <1>1, <1>2, <1>3, FS_Subset

LEMMA EmptyCounted == Counted(NoContexts) /\ ~NoContexts.owned
<1>1. TakenEntries(NoContexts) = {}
  BY DEF TakenEntries, NoContexts
<1>2. NoContexts.count = Cardinality(TakenEntries(NoContexts))
  BY <1>1, FS_EmptySet DEF NoContexts
<1>3. ContextType(NoContexts) /\ \A i \in Entries : NoContexts.cid[i] = NoCid
  BY DEF ContextType, NoContexts
<1> QED
  BY <1>2, <1>3 DEF Counted, NoContexts

LEMMA ContextUpdate ==
  ASSUME NEW c, Counted(c), NEW id \in Cids
  PROVE  Counted(context_update(c, id)) /\ context_update(c, id).owned = c.owned
<1> DEFINE u == context_update(c, id)
           i == Least(With(c, NoCid))
<1>1. CASE ~c.owned \/ With(c, id) # {} \/ With(c, NoCid) = {}
  BY <1>1 DEF context_update
<1>2. CASE ~(~c.owned \/ With(c, id) # {} \/ With(c, NoCid) = {})
  <2>1. i \in Entries /\ c.cid[i] = NoCid
    BY <1>2, EntryFacts, LeastIn DEF With
  <2>2. u = [owned |-> c.owned, cid |-> [c.cid EXCEPT ![i] = id], count |-> c.count + 1]
    BY <1>2 DEF context_update, Counted, ContextType
  <2>3. id # NoCid
    BY TableAssumption
  <2> HIDE DEF i, u
  <2>4. [c.cid EXCEPT ![i] = id] \in [Entries -> Cids \union {NoCid}] /\ c.count + 1 \in Int
    <3>1. c.cid \in [Entries -> Cids \union {NoCid}] /\ c.count \in Int
      BY DEF Counted, ContextType
    <3>2. c.count + 1 \in Int /\ c.count - 1 \in Int
      BY <3>1
    <3> QED
      BY <3>1, <3>2, <2>1
  <2>5. ContextType(u)
    BY <2>2, <2>4 DEF Counted, ContextType
  <2>6. \A k \in Entries : u.cid[k] = IF k = i THEN id ELSE c.cid[k]
    BY <2>2 DEF Counted, ContextType
  <2>7. TakenEntries(u) = TakenEntries(c) \union {i} /\ i \notin TakenEntries(c)
    BY <2>1, <2>3, <2>6 DEF TakenEntries
  <2>8. Cardinality(TakenEntries(u)) = c.count + 1
    BY <2>7, EntryFacts, FS_AddElement DEF Counted
  <2>9. \A k \in Entries : c.cid[k] # id
    BY <1>2 DEF With
  <2>10. \A k, l \in Entries : u.cid[k] = u.cid[l] /\ k # l => u.cid[k] = NoCid
    BY <2>6, <2>9 DEF Counted
  <2>11. u.count = c.count + 1 /\ u.owned = c.owned
    BY <2>2
  <2>12. Counted(u)
    BY <2>5, <2>8, <2>10, <2>11 DEF Counted
  <2> QED
    BY <2>11, <2>12 DEF u
<1> QED
  BY <1>1, <1>2

LEMMA ContextRemove ==
  ASSUME NEW c, Counted(c), NEW id \in Cids
  PROVE  Counted(context_remove(c, id)) /\ context_remove(c, id).owned = c.owned
<1> DEFINE u == context_remove(c, id)
           i == Least(With(c, id))
<1>1. CASE ~c.owned \/ With(c, id) = {}
  BY <1>1 DEF context_remove
<1>2. CASE ~(~c.owned \/ With(c, id) = {})
  <2>1. i \in Entries /\ c.cid[i] = id
    BY <1>2, EntryFacts, LeastIn DEF With
  <2>2. u = [owned |-> c.owned, cid |-> [c.cid EXCEPT ![i] = NoCid], count |-> c.count - 1]
    BY <1>2 DEF context_remove, Counted, ContextType
  <2>3. id # NoCid
    BY TableAssumption
  <2> HIDE DEF i, u
  <2>4. [c.cid EXCEPT ![i] = NoCid] \in [Entries -> Cids \union {NoCid}] /\ c.count - 1 \in Int
    <3>1. c.cid \in [Entries -> Cids \union {NoCid}] /\ c.count \in Int
      BY DEF Counted, ContextType
    <3>2. c.count + 1 \in Int /\ c.count - 1 \in Int
      BY <3>1
    <3> QED
      BY <3>1, <3>2, <2>1
  <2>5. ContextType(u)
    BY <2>2, <2>4 DEF Counted, ContextType
  <2>6. \A k \in Entries : u.cid[k] = IF k = i THEN NoCid ELSE c.cid[k]
    BY <2>2 DEF Counted, ContextType
  <2>7. TakenEntries(u) = TakenEntries(c) \ {i} /\ i \in TakenEntries(c)
    BY <2>1, <2>3, <2>6 DEF TakenEntries
  <2>8. Cardinality(TakenEntries(u)) = c.count - 1
    BY <2>7, EntryFacts, FS_RemoveElement DEF Counted
  <2>10. \A k, l \in Entries : u.cid[k] = u.cid[l] /\ k # l => u.cid[k] = NoCid
    BY <2>6 DEF Counted
  <2>11. u.count = c.count - 1 /\ u.owned = c.owned
    BY <2>2
  <2>12. Counted(u)
    BY <2>5, <2>8, <2>10, <2>11 DEF Counted
  <2> QED
    BY <2>11, <2>12 DEF u
<1> QED
  BY <1>1, <1>2

-----------------------------------------------------------------------------
(* Every step treats the tables in one of these ways.                      *)

Untouched  == UNCHANGED <<up, ifCount, table, contexts>>
LinkUp ==
  /\ ~up /\ up' = TRUE /\ ifCount' = ifCount + 1
  /\ table' = addr_set(table, LinkLocal)
  /\ contexts' = table_alloc(contexts)
LinkDown ==
  /\ up /\ up' = FALSE /\ ifCount' = ifCount - 1
  /\ table' = interface_reset(table)
  /\ contexts' = table_free(contexts)
PrefixKnown ==
  /\ up /\ UNCHANGED <<up, ifCount, contexts>>
  /\ \E a \in Addresses :
       \/ table' \in {table, addr_set(table, a)}
       \/ table' = address_remove(table, a) /\ Withdrawn(a)
ContextKnown ==
  /\ up /\ UNCHANGED <<up, ifCount, table>>
  /\ \E id \in Cids : contexts' \in {context_update(contexts, id), context_remove(contexts, id)}
TableStep == Untouched \/ LinkUp \/ LinkDown \/ PrefixKnown \/ ContextKnown

\* A packet is there only while there is a link.
LEMMA PacketNeedsLink ==
  ASSUME NEW size, NEW p \in Packets(size)
  PROVE  up
BY DEF Packets

LEMMA ArrivesUntouched ==
  ASSUME NEW p, NEW dest, NEW outcomes, Arrives(p, dest, outcomes)
  PROVE  Untouched
BY DEF Arrives, Untouched, tables

LEMMA UdpUntouched ==
  ASSUME NEW p, NEW dest, UdpInput(p, dest)
  PROVE  Untouched
<1> USE ArrivesUntouched
<1>1. CASE Discarded(p, dest)
  BY <1>1 DEF Discarded
<1>2. CASE Ping(p, dest)
  BY <1>2 DEF Ping
<1>3. CASE BadRequest(p, dest)
  BY <1>3 DEF BadRequest
<1>4. ASSUME NEW i \in Items, Answer(p, dest, i)
      PROVE  Untouched
  BY <1>4 DEF Answer
<1>5. ASSUME NEW i \in Items, ConResponse(p, dest, i)
      PROVE  Untouched
  BY <1>5 DEF ConResponse
<1>6. ASSUME NEW e \in Encodings \union {Brief}, NEW messages \in Messages,
             Request(p, dest, e, messages)
      PROVE  Untouched
  BY <1>6 DEF Request
<1> QED
  BY <1>1, <1>2, <1>3, <1>4, <1>5, <1>6 DEF UdpInput

LEMMA Icmp6Step ==
  ASSUME NEW size \in Sizes, NEW dest \in Destinations, NEW p \in Packets(size),
         up, Icmp6Input(p, dest)
  PROVE  Untouched \/ PrefixKnown \/ ContextKnown
<1>1. CASE EchoRequest(p, dest)
  BY <1>1, ArrivesUntouched DEF EchoRequest
<1>2. ASSUME NEW a \in Addresses, NEW fe80 \in BOOLEAN, NEW valid \in BOOLEAN,
             PrefixOption(p, dest, a, fe80, valid)
      PROVE  Untouched \/ PrefixKnown
  <2>1. CASE ~fe80 /\ ~valid
    <3>1. Withdrawn(a)
      BY <1>2, <2>1 DEF Withdrawn
    <3>2. Untouched \/ (UNCHANGED <<up, ifCount, contexts>> /\ table' = address_remove(table, a))
      BY <1>2, <2>1 DEF PrefixOption, Advertised, Untouched, tables
    <3> QED
      BY <3>1, <3>2 DEF PrefixKnown
  <2>2. CASE fe80 \/ valid
    BY <1>2, <2>2 DEF PrefixOption, Advertised, Untouched, PrefixKnown, tables
  <2> QED
    BY <2>1, <2>2
<1>3. ASSUME NEW id \in Cids, NEW valid \in BOOLEAN, ContextOption(p, dest, id, valid)
      PROVE  Untouched \/ ContextKnown
  BY <1>3 DEF ContextOption, Advertised, Untouched, ContextKnown, tables
<1> QED
  BY <1>1, <1>2, <1>3 DEF Icmp6Input

LEMMA StepTables ==
  ASSUME [Next]_vars
  PROVE  TableStep
<1>1. CASE UNCHANGED vars
  BY <1>1 DEF vars, tables, Untouched, TableStep
<1>2. CASE InterfaceAdd
  BY <1>2 DEF InterfaceAdd, LinkUp, TableStep
<1>3. CASE InterfaceDelete
  BY <1>3 DEF InterfaceDelete, LinkDown, TableStep
<1>4. ASSUME NEW c \in Categories, Transmitted(c)
      PROVE  Untouched
  BY <1>4 DEF Transmitted, Untouched, tables
<1>5. ASSUME NEW size \in Sizes, NEW dest \in Destinations, NEW p \in Packets(size),
             Dropped(p, dest) \/ UdpInput(p, dest) \/ Icmp6Input(p, dest)
      PROVE  TableStep
  <2>1. CASE Dropped(p, dest)
    BY <2>1, ArrivesUntouched DEF Dropped, TableStep
  <2>2. CASE UdpInput(p, dest)
    BY <2>2, UdpUntouched DEF TableStep
  <2>3. CASE Icmp6Input(p, dest)
    BY <2>3, PacketNeedsLink, Icmp6Step DEF TableStep
  <2> QED
    BY <1>5, <2>1, <2>2, <2>3
<1>6. ASSUME NEW led3, NEW con3, NEW status, NEW con, Tick(led3, con3, status, con)
      PROVE  Untouched
  BY <1>6 DEF Tick, Untouched, tables
<1>7. ASSUME NEW e, DirectoryRequest(e)
      PROVE  Untouched
  BY <1>7 DEF DirectoryRequest, Untouched, tables
<1>8. ASSUME NEW messages, Toggle(messages)
      PROVE  Untouched
  BY <1>8 DEF Toggle, Untouched, tables
<1> QED
  BY <1>1, <1>2, <1>3, <1>4, <1>5, <1>6, <1>7, <1>8 DEF Next, TableStep

-----------------------------------------------------------------------------
(* The invariants.                                                         *)

\* There is one interface at most, and without a link no address is in use.
AddressInv ==
  /\ Aligned(table)
  /\ up \in BOOLEAN
  /\ ~up => table.used = {}
  /\ ifCount = IF up THEN 1 ELSE 0

ContextInv == up \in BOOLEAN /\ contexts.owned = up /\ Counted(contexts) /\ (~up => contexts = NoContexts)

LEMMA InitAddresses == Init => AddressInv
<1> SUFFICES ASSUME Init PROVE AddressInv
  OBVIOUS
<1>1. AddressType(NoAddresses) /\ Aligned(NoAddresses) /\ NoAddresses.used = {}
  BY DEF AddressType, Aligned, NoAddresses
<1> QED
  BY <1>1 DEF Init, AddressInv

LEMMA StepAddresses ==
  ASSUME AddressInv, TableStep
  PROVE  AddressInv'
<1>1. CASE Untouched \/ ContextKnown
  BY <1>1 DEF AddressInv, Aligned, AddressType, Untouched, ContextKnown
<1>2. CASE LinkUp
  <2>1. Aligned(addr_set(table, LinkLocal))
    BY AddrSet DEF AddressInv, Addresses
  <2> QED
    BY <1>2, <2>1 DEF LinkUp, AddressInv, Aligned, AddressType
<1>3. CASE LinkDown
  <2>1. Aligned(interface_reset(table)) /\ interface_reset(table).used = {}
    BY InterfaceReset DEF AddressInv
  <2>2. ~up' /\ table' = interface_reset(table) /\ ifCount' = 0
    BY <1>3 DEF LinkDown, AddressInv
  <2>3. Aligned(table)' /\ table'.used = {}
    BY <2>1, <2>2 DEF Aligned, AddressType
  <2> QED
    BY <1>3, <2>2, <2>3 DEF LinkDown, AddressInv
<1>4. CASE PrefixKnown
  <2>1. Aligned(table')
    BY <1>4, AddrSet, AddressRemove DEF PrefixKnown, AddressInv
  <2> QED
    BY <1>4, <2>1 DEF PrefixKnown, AddressInv, Aligned, AddressType
<1> QED
  BY <1>1, <1>2, <1>3, <1>4 DEF TableStep

\* What one step may do to the addresses.
Kept ==
  up' => IF up THEN \A a \in Addresses :
                      Listed(table, a) # {} /\ Listed(table', a) = {} => Withdrawn(a)
         ELSE Listed(table', LinkLocal) # {}

LEMMA StepKept ==
  ASSUME AddressInv, TableStep
  PROVE  Kept
<1>0. Aligned(table)
  BY DEF AddressInv
<1>1. CASE Untouched \/ ContextKnown
  BY <1>1 DEF Kept, Untouched, ContextKnown
<1>2. CASE LinkUp
  <2>1. table.used # Slots /\ LinkLocal \in Addresses
    BY <1>2, SlotFacts DEF LinkUp, AddressInv, Addresses
  <2>2. Listed(addr_set(table, LinkLocal), LinkLocal) # {}
    BY <1>0, <2>1, AddrSet
  <2> QED
    BY <1>2, <2>2 DEF LinkUp, Kept
<1>3. CASE LinkDown
  BY <1>3 DEF LinkDown, Kept
<1>4. CASE PrefixKnown
  <2> SUFFICES ASSUME NEW b \in Addresses, Listed(table, b) # {}, Listed(table', b) = {}
               PROVE  Withdrawn(b)
    BY <1>4 DEF PrefixKnown, Kept
  <2>1. PICK a \in Addresses :
          \/ table' \in {table, addr_set(table, a)}
          \/ table' = address_remove(table, a) /\ Withdrawn(a)
    BY <1>4 DEF PrefixKnown
  <2>2. table' # addr_set(table, a)
    <3> SUFFICES ASSUME table' = addr_set(table, a) PROVE FALSE
      OBVIOUS
    <3>1. /\ Aligned(table')
          /\ table.used \subseteq table'.used
          /\ \A i \in table.used : table'.addr[i] = table.addr[i]
      BY <1>0, AddrSet
    <3>2. PICK i \in table.used : table.addr[i] = b
      BY <1>0, ListedUsed
    <3>3. i \in table'.used /\ table'.addr[i] = b
      BY <3>1, <3>2
    <3> QED
      BY <3>1, <3>3, ListedUsed
  <2>3. table' = address_remove(table, a) /\ Withdrawn(a)
    BY <2>1, <2>2
  <2>4. a = b
    BY <1>0, <2>3, AddressRemove
  <2> QED
    BY <2>3, <2>4
<1> QED
  BY <1>1, <1>2, <1>3, <1>4 DEF TableStep

\* The slots, the entries in use and the addresses agree, whatever interfaces
\* come and go and whatever routers advertise: the functions of ipv6.c that use
\* the index of a slot for that of an address use the right one.
THEOREM AlwaysAddressesConsistent == Spec => []AddressesConsistent
<1>1. Init => AddressInv
  BY InitAddresses
<1>2. AddressInv /\ [Next]_vars => AddressInv'
  BY StepTables, StepAddresses
<1>3. AddressInv => AddressesConsistent
  BY DEF AddressInv, Aligned, AddressesConsistent
<1> QED
  BY <1>1, <1>2, <1>3, PTL DEF Spec

\* However large the tables and whatever prefixes are advertised, a link begins with
\* the link-local address, and while it lasts an address goes only in the step in
\* which an advertisement withdraws that very address (ra_input, addr_set,
\* ipv6_address_remove).
THEOREM AlwaysAddressesKept == Spec => AddressesKept
<1>1. AddressInv /\ [Next]_vars => AddressInv'
  BY StepTables, StepAddresses
<1>2. AddressInv /\ [Next]_vars => Kept
  BY StepTables, StepKept
<1>3. AddressInv /\ [Next]_vars =>
        [up' => IF up THEN \A a \in Addresses :
                             Listed(table, a) # {} /\ Listed(table', a) = {} => Withdrawn(a)
                ELSE Listed(table', LinkLocal) # {}]_vars
  BY <1>2 DEF Kept
<1> QED
  BY <1>1, <1>3, InitAddresses, PTL DEF Spec, AddressesKept

LEMMA InitContexts == Init => ContextInv
<1> SUFFICES ASSUME Init PROVE ContextInv
  OBVIOUS
<1>1. contexts = NoContexts /\ up = FALSE
  BY DEF Init
<1> QED
  BY <1>1, EmptyCounted DEF ContextInv, NoContexts

LEMMA StepContexts ==
  ASSUME ContextInv, TableStep
  PROVE  ContextInv'
<1>0. Counted(contexts) /\ contexts.owned = up /\ up \in BOOLEAN
  BY DEF ContextInv
<1>1. CASE Untouched \/ PrefixKnown
  BY <1>1 DEF ContextInv, Counted, ContextType, TakenEntries, Untouched, PrefixKnown
<1>2. CASE LinkUp
  <2>1. contexts' = [NoContexts EXCEPT !.owned = TRUE] /\ up'
    BY <1>2 DEF LinkUp, table_alloc, ContextInv
  <2>2. TakenEntries(contexts') = TakenEntries(NoContexts)
    BY <2>1 DEF TakenEntries, NoContexts
  <2>3. ContextType(contexts') /\ \A i \in Entries : contexts'.cid[i] = NoCid
    <3>1. contexts' = [owned |-> TRUE, cid |-> [i \in Entries |-> NoCid], count |-> 0]
      BY <2>1 DEF NoContexts
    <3> QED
      BY <3>1 DEF ContextType
  <2>4. contexts'.count = NoContexts.count /\ contexts'.owned
    BY <2>1 DEF NoContexts
  <2>5. contexts'.count = Cardinality(TakenEntries(contexts'))
    BY <2>2, <2>4, EmptyCounted DEF Counted
  <2> QED
    BY <2>1, <2>3, <2>4, <2>5, <1>2 DEF ContextInv, Counted, ContextType, TakenEntries, LinkUp
<1>3. CASE LinkDown
  <2>1. contexts' = NoContexts /\ ~up'
    BY <1>0, <1>3 DEF LinkDown, table_free
  <2>2. Counted(contexts') /\ ~contexts'.owned
    BY <2>1, EmptyCounted
  <2> QED
    BY <2>1, <2>2, <1>3 DEF ContextInv, LinkDown, NoContexts, Counted, ContextType, TakenEntries
<1>4. CASE ContextKnown
  <2>1. PICK id \in Cids : contexts' \in {context_update(contexts, id), context_remove(contexts, id)}
    BY <1>4 DEF ContextKnown
  <2>2. Counted(contexts') /\ contexts'.owned = contexts.owned
    BY <1>0, <2>1, ContextUpdate, ContextRemove
  <2> QED
    BY <1>0, <1>4, <2>2 DEF ContextKnown, ContextInv, Counted, ContextType, TakenEntries
<1> QED
  BY <1>1, <1>2, <1>3, <1>4 DEF TableStep

\* context_count is the number of contexts in the table, none of which is there
\* twice, for any sequence of advertised contexts and links
\* (iot_context_manager_update, iot_context_manager_remove).
THEOREM AlwaysContextsCounted == Spec => []ContextsCounted
<1>1. ContextInv => ContextsCounted
  BY DEF ContextInv, Counted, TakenEntries, ContextsCounted
<1> QED
  BY <1>1, InitContexts, StepTables, StepContexts, PTL DEF Spec
=============================================================================
