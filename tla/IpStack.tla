------------------------------ MODULE IpStack ------------------------------
(***************************************************************************)
(* What the nRF51 switch's CoAP, UDP, ICMPv6 and IPv6 layers do with the    *)
(* memory of PacketMemory and the tables of IpTables.  Every layer passes   *)
(* blocks on by pointer: CoAP keeps the encoded message of a queue item     *)
(* (iot/coap/coap.c), ipv6_send hands the packet to 6LoWPAN, and a received *)
(* packet is freed by ipv6_input after all layers above have looked at it.  *)
(*                                                                         *)
(* All of it runs at one priority and below, in the SoftDevice's event      *)
(* handler or in a timer's: a handler is one step.  6LoWPAN is external: it *)
(* may refuse any packet, and frees the block of a refused one or leaves it *)
(* (its header does not say); it frees the block of a packet it took when   *)
(* that is transmitted or the link is lost, and it allocates the block of a *)
(* packet that arrives.  A call that may send has a set of outcomes.  The   *)
(* messages a handler sends to the observers are a sequence of encodings:   *)
(* the sizes of the encoded message and of the packet, 48 bytes larger.     *)
(***************************************************************************)
EXTENDS PacketMemory, IpTables, Sequences

CONSTANTS Encodings,      \* pairs of categories, of a message and its packet
          MaxSends,       \* observers times resources
          QueueSize,      \* COAP_MESSAGE_QUEUE_SIZE, 8
          Sizes,          \* the categories of packets that arrive
          AllNodes,       \* the multicast address that the node listens to
          Destinations    \* where packets that arrive are sent to

ASSUME StackAssumption ==
  /\ Encodings \subseteq {e \in Categories \X Categories : e[1] <= e[2]}
  /\ MaxSends \in Nat /\ QueueSize \in Nat
  /\ Sizes \subseteq Categories
  /\ AllNodes \notin Addresses

VARIABLES
  free,        \* the free blocks of each category
  pbuf,        \* the packet buffers
  tx,          \* the blocks of each category that 6LoWPAN holds
  queue,       \* how many queue items of each kind hold a block
  error,       \* did a send or create_response of the last handler fail
  halted,      \* app_error_handler was entered
  up,          \* does 6LoWPAN have a link
  ifCount,     \* m_interfaces_count
  table,       \* m_address_table and m_interfaces[0].addr_range
  contexts     \* m_context_table[0]

memory == <<free, pbuf, tx, queue, error, halted>>
tables == <<ifCount, table, contexts>>
vars   == <<memory, up, tables>>

Messages == UNION {[1..n -> Encodings] : n \in 0..MaxSends}
Brief    == <<Small, Small>>   \* four bytes and perhaps a token
\* A queue item: the category of its block, and the size of its packet.
Items      == Categories \X {e[2] : e \in Encodings}
Waiting(q) == {x \in Items \X (1..QueueSize) : x[2] <= q[x[1]]}
Length(q)  == Cardinality(Waiting(q))

\* What a handler works on: the memory, and
\*   ok, error, halted   what the last call, any call, the application made of it,
\*   early               coap_transport_read returned before its end.
Memory ==
  [free |-> free, pbuf |-> pbuf, tx |-> tx, queue |-> queue, got |-> None, slot |-> None,
   ok |-> TRUE, error |-> FALSE, halted |-> FALSE, early |-> FALSE]

Fails(m) == [m EXCEPT !.ok = FALSE, !.error = TRUE]
Halts(m) == [m EXCEPT !.halted = TRUE]

-----------------------------------------------------------------------------
\* ipv6_send: 6LoWPAN takes the memory, or refuses and frees it or not; the packet
\* buffer is freed without its memory in every case.
ipv6_send(m, i) ==
  {pbuffer_free(n, i, FALSE) :
     n \in {[m EXCEPT !.ok = TRUE, !.tx[m.pbuf[i]] = @ + 1],
            Fails(m), mem_free(Fails(m), m.pbuf[i])}}

\* icmp6_rs_send and echo_reply_send.
icmp6_send(m, size) ==
  LET a == pbuffer_allocate(m, size)
  IN IF a.slot = None THEN {Fails(a)} ELSE ipv6_send(a, a.slot)

\* coap_transport_write and udp6_socket_sendto; a socket needs an interface.
coap_transport_write(m, packet) ==
  LET a == pbuffer_allocate(m, packet)
  IN IF a.slot = None THEN {Fails(a)}
     ELSE {IF s.ok THEN s ELSE pbuffer_free(s, a.slot, TRUE) :
             s \in IF ifCount = 1 THEN ipv6_send(a, a.slot) ELSE {Fails(a)}}

\* Mutant: the message is queued without a look at how many there are.
coap_queue_addAlways(m, block, packet) == [m EXCEPT !.queue[<<block, packet>>] = @ + 1]

\* coap_queue_add, of a message encoded in block.
coap_queue_add(m, block, packet) ==
  IF Length(m.queue) = QueueSize THEN Fails(m)
  ELSE [m EXCEPT !.queue[<<block, packet>>] = @ + 1]

\* internal_coap_message_send: the encoded message is kept in a queue item, or
\* freed; when it could not be written or queued it is neither.
internal_coap_message_send(m, e, queued) ==
  LET b == mem_alloc(m, e[1])
  IN IF b.got = None THEN {Fails(b)}
     ELSE {CASE ~w.ok            -> w
             [] w.ok /\ queued   -> coap_queue_add(w, b.got, e[2])
             [] w.ok /\ ~queued  -> mem_free(w, b.got) :
             w \in coap_transport_write(b, e[2])}

\* coap_message_new, coap_message_delete, and what is sent in between.  The
\* application halts when there is no memory, and when the send fails unless
\* the caller only skips it.
coap_message(m, e, queued, skips) ==
  LET struct == mem_alloc(m, Small)
      data   == mem_alloc(struct, Medium)
  IN IF struct.got = None \/ data.got = None THEN {Halts(Fails(m))}
     ELSE {IF sent.ok \/ skips THEN mem_free(mem_free(sent, data.got), struct.got)
           ELSE Halts(sent) :
             sent \in internal_coap_message_send([data EXCEPT !.ok = TRUE], e, queued)}

\* notify_all_led3_subscribers and notify_all_semantic_sts_subscribers, after
\* what the handler did before.
notify(outcomes, messages, con) ==
  LET after[n \in 0..Len(messages)] ==
        IF n = 0 THEN outcomes
        ELSE UNION {IF m.halted THEN {m} ELSE coap_message(m, messages[n], con, FALSE) :
                      m \in after[n - 1]}
  IN after[Len(messages)]

\* create_response, the error response of a request that no callback takes.
\* If there is no memory, coap_transport_read returns at once.
error_response(m) ==
  LET struct == mem_alloc(m, Small)
      data   == IF struct.got = None THEN struct ELSE mem_alloc(struct, Medium)
  IN IF struct.got = None \/ data.got = None THEN {[Fails(data) EXCEPT !.early = TRUE]}
     ELSE {mem_free(mem_free(sent, data.got), struct.got) :
             sent \in internal_coap_message_send(data, Brief, FALSE)}

\* Mutant: the item is removed and its buffer is not freed.
AnsweredOnly(m, i) == [m EXCEPT !.queue[i] = @ - 1]

\* The item's buffer is freed and the item removed (ACK, RST, response, timeout).
Answered(m, i) == [mem_free(m, i[1]) EXCEPT !.queue[i] = @ - 1]

\* coap_time_tick: an item that is due is written once more and, since
\* COAP_MAX_RETRANSMIT_COUNT is 1, abandoned at once.
coap_time_tick(due) ==
  LET after[n \in 0..Len(due)] ==
        IF n = 0 THEN {Memory}
        ELSE {Answered(w, due[n]) :
                w \in UNION {coap_transport_write(m, due[n][2]) : m \in after[n - 1]}}
  IN after[Len(due)]

-----------------------------------------------------------------------------
\* The handler returns with one of the outcomes.
Returns(outcomes) ==
  \E m \in outcomes :
    /\ IF m.halted
       THEN halted' = TRUE /\ UNCHANGED <<free, pbuf, tx, queue>>
       ELSE /\ free' = m.free /\ pbuf' = m.pbuf /\ tx' = m.tx /\ queue' = m.queue
            /\ UNCHANGED halted
    /\ error' = m.error

Init ==
  /\ free = BlockCount /\ tx = [c \in Categories |-> 0]
  /\ pbuf = [i \in Pbuffers |-> FreeSlot]
  /\ queue = [i \in Items |-> 0]
  /\ error = FALSE /\ halted = FALSE /\ up = FALSE
  /\ ifCount = 0 /\ table = NoAddresses /\ contexts = NoContexts

\* ble_6lowpan_evt_handler, BLE_6LO_EVT_INTERFACE_ADD: interface_add with the
\* link-local address, the context table, and the application's solicitation,
\* which must not fail.
InterfaceAdd ==
  /\ ~halted /\ ~up
  /\ up' = TRUE /\ ifCount' = ifCount + 1
  /\ table' = addr_set(table, LinkLocal)
  /\ contexts' = table_alloc(contexts)
  /\ Returns({IF m.ok THEN m ELSE Halts(m) : m \in icmp6_send(Memory, Small)})

\* BLE_6LO_EVT_INTERFACE_DELETE.  6LoWPAN frees what it had not transmitted.
InterfaceDelete ==
  /\ ~halted /\ up
  /\ up' = FALSE /\ ifCount' = ifCount - 1
  /\ table' = interface_reset(table)
  /\ contexts' = table_free(contexts)
  /\ Returns({[Memory EXCEPT !.free = [c \in Categories |-> @[c] + tx[c]],
                              !.tx = [c \in Categories |-> 0]]})

\* 6LoWPAN has transmitted a packet.
Transmitted(c) ==
  /\ ~halted /\ tx[c] > 0
  /\ Returns({[Memory EXCEPT !.free[c] = @ + 1, !.tx[c] = @ - 1]})
  /\ UNCHANGED <<up, tables>>

\* BLE_6LO_EVT_INTERFACE_DATA_RX: Taken is a packet for one of the addresses
\* (or for all nodes) for which there was a packet buffer; else its memory is
\* freed at once.  ipv6_input frees it after the layers have looked at it, who
\* get Received(m) and leave one of the outcomes.
Accepted(dest) == IF dest = AllNodes THEN Slots # Holding(table, Invalid)
                  ELSE Listed(table, dest) # {}
Taken(m, dest) == Accepted(dest) /\ Unused(m) # {}
Received(m)    == pbuffer_allocate_no_mem(m, m.got)
ipv6_input(m, dest, outcomes) ==
  IF Taken(m, dest) THEN {pbuffer_free(h, Received(m).slot, TRUE) : h \in outcomes}
  ELSE {mem_free(m, m.got)}

\* What may arrive: a packet, and the memory when CoAP has begun to read it.
Reads(m) == mem_alloc(Received(m), Small)
Packets(size) ==
  {[size |-> size, packet |-> m, read |-> Reads(m)] :
     m \in {n \in {mem_alloc(Memory, size)} : ~halted /\ up /\ n.got # None}}
Arrives(p, dest, outcomes) ==
  Returns(ipv6_input(p.packet, dest, outcomes)) /\ UNCHANGED <<up, tables>>

\* A packet that no layer acts upon: another protocol, an ICMPv6 message for
\* the application only, a datagram for no socket or with a bad length or
\* checksum, which coap_transport_read discards.
Dropped(p, dest) == Arrives(p, dest, {Received(p.packet)})

\* icmp6_input answers an echo request, even one with a bad checksum.
EchoRequest(p, dest) ==
  Arrives(p, dest, icmp6_send(Received(p.packet), p.size))

\* coap_transport_read holds a coap_message_t while it looks at a datagram.
coap_transport_read(p, outcomes) ==
  IF p.read.got = None THEN {Fails(p.read)}
  ELSE {IF h.early THEN h ELSE mem_free(h, p.read.got) : h \in outcomes}

\* A datagram that cannot be decoded or is truncated, or an ACK, RST or
\* response that is for no item.
Discarded(p, dest) == Arrives(p, dest, coap_transport_read(p, {p.read}))

\* A ping is answered with RST, a confirmable response with ACK.
Acknowledge(m) == internal_coap_message_send(m, Brief, FALSE)
Ping(p, dest)  == Arrives(p, dest, coap_transport_read(p, Acknowledge(p.read)))

\* ACK, RST or a response for the item i; whether its token is known or not,
\* a confirmable response is acknowledged first.
Answer(p, dest, i) ==
  /\ queue[i] > 0
  /\ Arrives(p, dest, coap_transport_read(p, {Answered(p.read, i)}))
ConResponse(p, dest, i) ==
  /\ queue[i] > 0
  /\ Arrives(p, dest, coap_transport_read(p, {Answered(m, i) : m \in Acknowledge(p.read)}))

\* A request for a resource: its callback responds and, to a PUT, notifies.
Request(p, dest, e, messages) ==
  Arrives(p, dest, coap_transport_read(p,
    notify(coap_message(p.read, e, FALSE, FALSE), messages, FALSE)))

\* A request for no resource, or with a method its resource does not permit.
BadRequest(p, dest) ==
  Arrives(p, dest, coap_transport_read(p, error_response(p.read)))

\* ra_input, for one option of an advertisement.
Advertised(p, dest, change) ==
  /\ Returns(ipv6_input(p.packet, dest, {Received(p.packet)}))
  /\ IF Taken(p.packet, dest) THEN change ELSE UNCHANGED tables
  /\ UNCHANGED up

\* A prefix overwrites the first bits of the link-local address, as many as it has
\* itself: it leads to any address a, a short one to the link-local address too.
\* It is ignored when its own first 16 bits are fe80.
PrefixOption(p, dest, a, fe80, valid) ==
  Advertised(p, dest,
    /\ table' = IF fe80 THEN table
                ELSE IF valid THEN addr_set(table, a) ELSE address_remove(table, a)
    /\ UNCHANGED <<ifCount, contexts>>)
ContextOption(p, dest, id, valid) ==
  Advertised(p, dest,
    /\ contexts' = IF valid THEN context_update(contexts, id)
                   ELSE context_remove(contexts, id)
    /\ UNCHANGED <<ifCount, table>>)

-----------------------------------------------------------------------------
\* app_coap_time_tick: items that are due, then the notifications of the two
\* resources, confirmable every fourth time.
Dues == {d \in UNION {[1..n -> Items] : n \in 0..QueueSize} :
           \A i \in Items : Cardinality({k \in DOMAIN d : d[k] = i}) <= queue[i]}
Tick(led3, con3, status, con) ==
  /\ ~halted
  /\ Len(led3) + Len(status) <= MaxSends
  /\ \E due \in Dues :
       Returns(notify(notify(coap_time_tick(due), led3, con3), status, con))
  /\ UNCHANGED <<up, tables>>

\* button_event_handler: send_rd_message, if the application knows of an
\* interface, or the notifications of a toggle.
DirectoryRequest(e) ==
  /\ ~halted /\ up
  /\ Returns(coap_message(Memory, e, TRUE, TRUE))
  /\ UNCHANGED <<up, tables>>
Toggle(messages) ==
  /\ ~halted
  /\ Returns(notify({Memory}, messages, FALSE))
  /\ UNCHANGED <<up, tables>>

UdpInput(p, dest) ==
  \/ Discarded(p, dest) \/ Ping(p, dest) \/ BadRequest(p, dest)
  \/ \E i \in Items : Answer(p, dest, i) \/ ConResponse(p, dest, i)
  \/ \E e \in Encodings \union {Brief}, messages \in Messages :
       Request(p, dest, e, messages)
Icmp6Input(p, dest) ==
  \/ EchoRequest(p, dest)
  \/ \E a \in Addresses, fe80, valid \in BOOLEAN : PrefixOption(p, dest, a, fe80, valid)
  \/ \E id \in Cids, valid \in BOOLEAN : ContextOption(p, dest, id, valid)

Next ==
  \/ InterfaceAdd \/ InterfaceDelete
  \/ \E c \in Categories : Transmitted(c)
  \/ \E size \in Sizes, dest \in Destinations : \E p \in Packets(size) :
       Dropped(p, dest) \/ UdpInput(p, dest) \/ Icmp6Input(p, dest)
  \/ \E led3, status \in Messages, con3, con \in BOOLEAN : Tick(led3, con3, status, con)
  \/ \E e \in Encodings : DirectoryRequest(e)
  \/ \E messages \in Messages : Toggle(messages)

Spec == Init /\ [][Next]_vars

-----------------------------------------------------------------------------
\* The values each variable takes: no category has more free blocks than it has
\* blocks, as it would after a block was freed twice.
TypeOK ==
  /\ free \in [Categories -> Nat] /\ tx \in [Categories -> Nat]
  /\ \A c \in Categories : free[c] <= BlockCount[c]
  /\ pbuf \in [Pbuffers -> Categories \union {FreeSlot}]
  /\ queue \in [Items -> 0..QueueSize] /\ Length(queue) <= QueueSize
  /\ {error, halted, up} \subseteq BOOLEAN /\ ifCount \in Nat
  /\ table \in [used : SUBSET Slots, addr : [Slots -> Addresses \union {Unspecified}],
                range : [Slots -> Slots \union {Invalid}]]
  /\ contexts \in [owned : BOOLEAN, cid : [Entries -> Cids \union {NoCid}], count : Int]

\* The blocks of a category that nobody points to any more.
Lost(c) ==
  BlockCount[c] - free[c] - tx[c] - Cardinality({x \in Waiting(queue) : x[1][1] = c})

\* A handler in which every send succeeds returns every block it does not pass
\* on, and none is ever freed by two owners: the received packet, the message
\* read from it, the response with its data and encoding, the item's buffer and
\* the packets are allocated and freed by different layers, in nested calls.
BlocksKept ==
  [][\A c \in Categories : IF error' THEN Lost(c)' >= Lost(c) ELSE Lost(c)' = Lost(c)]_vars

\* Whatever fails, every packet buffer is free again when a handler returns: the
\* few there are can never be used up by failures (iot_pbuffer_free is called by
\* ipv6_send and by ipv6_input on each of their ways out).
PbuffersReturned ==
  \A i \in Pbuffers : pbuf[i] = FreeSlot

\* The functions that take a slot's index for an address's are right to do so:
\* a slot is empty or holds the entry of its own index, exactly the entries in
\* use are held, no address is there twice, none remains without a link, and
\* there is one interface exactly while there is a link, or CoAP could not send.
AddressesConsistent ==
  /\ \A j \in Slots : table.range[j] \in {j, Invalid}
  /\ table.used = {j \in Slots : table.range[j] # Invalid}
  /\ \A i, j \in table.used : table.addr[i] = table.addr[j] => i = j
  /\ ~up => table.used = {}
  /\ ifCount = IF up THEN 1 ELSE 0

\* An advertisement withdraws a: its prefix leads to a and has no lifetime left.
Withdrawn(a) ==
  \E size \in Sizes, dest \in Destinations : \E p \in Packets(size) :
    PrefixOption(p, dest, a, FALSE, FALSE)

\* A link begins with the link-local address, and while it lasts no address is lost
\* but the one that an advertisement withdraws: prefixes that come, are repeated or
\* find the table full push out no other (addr_set, ipv6_address_remove, which take
\* a slot's index for an address's).
AddressesKept ==
  [][up' => IF up THEN \A a \in Addresses :
                         Listed(table, a) # {} /\ Listed(table', a) = {} => Withdrawn(a)
            ELSE Listed(table', LinkLocal) # {}]_vars

\* The context table belongs to the interface while there is one, has an
\* identifier at most once, and context_count is the number of its contexts.
ContextsCounted ==
  /\ contexts.owned = up
  /\ contexts.count = Cardinality({i \in Entries : contexts.cid[i] # NoCid})
  /\ \A i, j \in Entries : contexts.cid[i] = contexts.cid[j] /\ i # j => contexts.cid[i] = NoCid
=============================================================================
