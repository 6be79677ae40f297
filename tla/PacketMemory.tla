---------------------------- MODULE PacketMemory ----------------------------
(***************************************************************************)
(* The memory of the nRF51's IPv6 stack: blocks of three sizes             *)
(* (components/libraries/mem_manager/mem_manager.c) and the table of packet *)
(* buffers that point to them (iot/ipv6_stack/pbuffer/iot_pbuffer.c).      *)
(*                                                                         *)
(* Blocks of a category are alike, so a category has a number of free ones. *)
(* The operators take and return a record m with the fields                *)
(*   free   per category, the blocks whose is_free is set,                 *)
(*   pbuf   per packet buffer, FreeSlot or the category of its p_memory,   *)
(*   got    the category of the block last allocated, None if there was no *)
(*          block,                                                         *)
(*   slot   the packet buffer last allocated, or None.                     *)
(* A block nobody points to any more is in no field: it is lost.           *)
(***************************************************************************)
EXTENDS Integers, FiniteSets

CONSTANTS BlockCount,     \* MEMORY_MANAGER_..._BLOCK_COUNT of each category
          PbufferCount,   \* IOT_PBUFFER_MAX_COUNT
          None

Categories == 0..2
Small      == 0   \* 128 bytes: a coap_message_t
Medium     == 1   \* 256 bytes: COAP_MESSAGE_DATA_MAX_SIZE
Large      == 2   \* 1024 bytes
FreeSlot   == -1  \* a packet buffer without memory is a free one
Pbuffers   == 1..PbufferCount

ASSUME MemoryAssumption ==
  /\ BlockCount \in [Categories -> Nat]
  /\ PbufferCount \in Nat
  /\ None \notin Categories \union Pbuffers

First(S) == CHOOSE x \in S : \A y \in S : x <= y

\* nrf51_sdk_mem_alloc: the blocks are ordered by size, and the first free one
\* that is large enough is taken.
Fitting(m, size) == {c \in Categories : c >= size /\ m.free[c] > 0}
mem_alloc(m, size) ==
  IF Fitting(m, size) = {} THEN [m EXCEPT !.got = None]
  ELSE LET c == First(Fitting(m, size))
       IN [m EXCEPT !.free[c] = @ - 1, !.got = c]

\* nrf51_sdk_mem_free: a pointer that is no block is refused.
mem_free(m, block) ==
  IF block \in Categories THEN [m EXCEPT !.free[block] = @ + 1] ELSE m

\* iot_pbuffer_allocate, with a block for the packet or with p_memory left to
\* the caller (PBUFFER_FLAG_NO_MEM_ALLOCATION).
Unused(m) == {i \in Pbuffers : m.pbuf[i] = FreeSlot}
pbuffer_allocate(m, size) ==
  IF Unused(m) = {} THEN [m EXCEPT !.slot = None]
  ELSE LET a == mem_alloc(m, size)
           i == First(Unused(m))
       IN IF a.got = None THEN [a EXCEPT !.slot = None]
          ELSE [a EXCEPT !.slot = i, !.pbuf[i] = a.got]
pbuffer_allocate_no_mem(m, memory) ==
  IF Unused(m) = {} THEN [m EXCEPT !.slot = None]
  ELSE [m EXCEPT !.slot = First(Unused(m)), !.pbuf[First(Unused(m))] = memory]

\* Mutant: the packet buffer stays taken when its memory is not freed.
pbuffer_freeKeeping(m, i, freeMemory) ==
  IF freeMemory THEN [mem_free(m, m.pbuf[i]) EXCEPT !.pbuf[i] = FreeSlot] ELSE m

\* iot_pbuffer_free: the packet buffer is reset in any case.
pbuffer_free(m, i, freeMemory) ==
  [(IF freeMemory THEN mem_free(m, m.pbuf[i]) ELSE m) EXCEPT !.pbuf[i] = FreeSlot]
=============================================================================
