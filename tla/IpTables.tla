------------------------------ MODULE IpTables ------------------------------
(***************************************************************************)
(* The tables of the nRF51's IPv6 stack: the addresses of the interface    *)
(* (components/iot/ipv6_stack/ipv6/ipv6.c) and the 6LoWPAN contexts        *)
(* (components/iot/context_manager/iot_context_manager.c).                 *)
(*                                                                         *)
(* An interface has slots (addr_range) that hold indices into the table of *)
(* addresses, m_address_table; with one interface there are as many slots  *)
(* as addresses.  Several functions use the slot's index for the address's *)
(* index, which is right as long as the two agree.                         *)
(***************************************************************************)
EXTENDS Integers, FiniteSets

CONSTANTS MaxAddresses,   \* IPV6_MAX_ADDRESS_PER_INTERFACE, 3
          MaxContexts,    \* IOT_CONTEXT_MANAGER_MAX_CONTEXTS, 16
          LinkLocal,      \* the interface's link-local address
          Globals,        \* the other addresses that advertised prefixes lead to
          Cids,           \* the identifiers of contexts
          Unspecified     \* ::

Slots    == 1..MaxAddresses
Entries  == 1..MaxContexts
Invalid  == 0                \* IPV6_INVALID_ADDR_INDEX, an empty slot
NoCid    == "none"           \* IPV6_CONTEXT_IDENTIFIER_NONE
Addresses == {LinkLocal} \union Globals

ASSUME TableAssumption ==
  /\ MaxAddresses \in Nat \ {0} /\ MaxContexts \in Nat
  /\ LinkLocal \notin Globals /\ NoCid \notin Cids

Least(S) == CHOOSE x \in S : \A y \in S : x <= y

-----------------------------------------------------------------------------
\* The address table and the slots: [used, addr, range].  used holds the
\* entries whose state is not IPV6_ADDR_STATE_UNUSED.
NoAddresses == [used  |-> {},
                addr  |-> [i \in Slots |-> Unspecified],
                range |-> [i \in Slots |-> Invalid]]

addr_free(t, i) ==
  IF \E j \in Slots : t.range[j] = i THEN t
  ELSE [t EXCEPT !.used = @ \ {i}, !.addr[i] = Unspecified]

\* The entries addr_set may take: those of the address, else the unused ones.
Found(t, a) ==
  LET same == {i \in t.used : t.addr[i] = a} IN IF same # {} THEN same ELSE Slots \ t.used
Holding(t, i) == {j \in Slots : t.range[j] = i}

\* Mutant: the first slot is overwritten.
addr_setFirst(t, a) ==
  IF Found(t, a) = {} THEN t
  ELSE [t EXCEPT !.used = @ \union {1}, !.addr[1] = a, !.range[1] = Least(Found(t, a))]

\* addr_set: the entry found for the address, or the first unused one, is put in
\* the first empty slot unless a slot holds it.  The address and its state are
\* written at the index of the slot.
addr_set(t, a) ==
  IF Found(t, a) = {} THEN t
  ELSE LET entry == Least(Found(t, a))
       IN IF Holding(t, entry) # {}
          THEN [t EXCEPT !.used = @ \union {Least(Holding(t, entry))}]
          ELSE IF Holding(t, Invalid) # {}
               THEN LET j == Least(Holding(t, Invalid))
                    IN [t EXCEPT !.used = @ \union {j}, !.addr[j] = a, !.range[j] = entry]
               ELSE t

\* ipv6_address_remove, for the first slot with the address.
Listed(t, a) == {j \in Slots : t.range[j] # Invalid /\ t.addr[t.range[j]] = a}

\* Mutant: the entry is freed before the slot is emptied, so it is kept.
address_removeLate(t, a) ==
  IF Listed(t, a) = {} THEN t
  ELSE LET j == Least(Listed(t, a)) IN [addr_free(t, j) EXCEPT !.range[j] = Invalid]

address_remove(t, a) ==
  IF Listed(t, a) = {} THEN t
  ELSE LET j == Least(Listed(t, a))
       IN addr_free([t EXCEPT !.range[j] = Invalid], j)

\* interface_reset empties the slots one after the other; the entry of a slot's
\* index is freed unless a later slot still holds it.
interface_reset(t) ==
  LET freed == {j \in Slots : t.range[j] # Invalid /\ \A k \in Slots : k > j => t.range[k] # j}
  IN [used  |-> t.used \ freed,
      addr  |-> [i \in Slots |-> IF i \in freed THEN Unspecified ELSE t.addr[i]],
      range |-> [j \in Slots |-> Invalid]]

-----------------------------------------------------------------------------
\* The context table: [owned, cid, count].
NoContexts == [owned |-> FALSE, cid |-> [i \in Entries |-> NoCid], count |-> 0]

table_alloc(c) == [c EXCEPT !.owned = TRUE]
table_free(c)  == IF c.owned THEN NoContexts ELSE c

With(c, id) == {i \in Entries : c.cid[i] = id}

\* Mutant: an entry that is overwritten is counted again.
context_updateAgain(c, id) ==
  IF ~c.owned \/ With(c, id) \union With(c, NoCid) = {} THEN c
  ELSE [c EXCEPT !.cid[Least(IF With(c, id) # {} THEN With(c, id) ELSE With(c, NoCid))] = id,
                 !.count = @ + 1]

\* iot_context_manager_update: the entry of the identifier is overwritten, or
\* a free one is taken and counted.
context_update(c, id) ==
  IF ~c.owned \/ With(c, id) # {} \/ With(c, NoCid) = {} THEN c
  ELSE [c EXCEPT !.cid[Least(With(c, NoCid))] = id, !.count = @ + 1]

\* iot_context_manager_get_by_cid and iot_context_manager_remove.
context_remove(c, id) ==
  IF ~c.owned \/ With(c, id) = {} THEN c
  ELSE [c EXCEPT !.cid[Least(With(c, id))] = NoCid, !.count = @ - 1]
=============================================================================
