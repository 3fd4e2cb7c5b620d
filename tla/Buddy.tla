-------------------------------- MODULE Buddy --------------------------------
(***************************************************************************)
(* heap_block_manager, buddy_impl and buddy_reclaim_range of               *)
(* memory/buddy.hpp.  The loops of alloc, free and buddy_reclaim_range run *)
(* one iteration per step, so the properties hold at every ASSERT in       *)
(* them; a call runs to its end before the next one starts (pc).  The      *)
(* operations become a specification with the clients of the buddy, see    *)
(* SplittingBuddy and SimpleBuddy.                                         *)
(* The memory is a set of cells, the addresses.                            *)
(***************************************************************************)
EXTENDS Orders, FiniteSetsExt

CONSTANTS max_ord,    \* constructor argument
          Limit       \* bound: addresses are 0..Limit-1

ASSUME MaxOrdAssumption == max_ord \in Order

VARIABLES
    free_blocks,   \* per order, the addresses of the free blocks
    pc,            \* "idle", or the loop a call is in: "split" or "merge"
    id,            \* the free_block_id the loop works on
    want,          \* the order alloc was called with
    range,         \* what an order_range loop still has to free
    used,          \* <<address, size>> of the ranges that clients hold
    owned          \* every cell that was ever given to the buddy

buddyVars == <<free_blocks, pc, id, want, range, used, owned>>

Cells(a, n) == a..a + n - 1

NoId == [ord |-> 0, addr |-> 0]

NoRange == [base |-> 0, rest |-> 0]

Idle == pc = "idle" /\ range.rest = 0

Init ==
    /\ free_blocks = [o \in 0..max_ord |-> {}]
    /\ pc = "idle"
    /\ id = NoId
    /\ want = 0
    /\ range = NoRange
    /\ used = {}
    /\ owned = {}
-----------------------------------------------------------------------------
(* heap_block_manager.                                                     *)
fitting(order) == {o \in order..max_ord : free_blocks[o] # {}}

get_free(order) ==
    LET o == Min(fitting(order)) IN [ord |-> o, addr |-> Min(free_blocks[o])]

get_buddy_addr(addr, order) == xor_bit(addr, order)

(* Fault: the right half of a split block is lost.                         *)
split_free_left_only ==
    LET o == id.ord - 1 IN
    /\ free_blocks' = [free_blocks EXCEPT ![id.ord] = @ \ {id.addr},
                                          ![o] = @ \cup {id.addr}]
    /\ id' = [ord |-> o, addr |-> id.addr]

(* Fault: split_free() returns the block it was given.                     *)
split_free_same_id ==
    LET o == id.ord - 1 IN
    /\ free_blocks' = [free_blocks EXCEPT
                         ![id.ord] = @ \ {id.addr},
                         ![o] = @ \cup {id.addr, id.addr + Size[o]}]
    /\ id' = id

split_free ==
    LET o == id.ord - 1 IN
    /\ free_blocks' = [free_blocks EXCEPT
                         ![id.ord] = @ \ {id.addr},
                         ![o] = @ \cup {id.addr, id.addr + Size[o]}]
    /\ id' = [ord |-> o, addr |-> id.addr]

(* Fault: blocks are not merged to the maximal order.                      *)
can_merge_off_by_one ==
    /\ id.ord + 1 < max_ord
    /\ get_buddy_addr(id.addr, id.ord) \in free_blocks[id.ord]

can_merge ==
    id.ord < max_ord /\ get_buddy_addr(id.addr, id.ord) \in free_blocks[id.ord]

(* Fault: the merged block starts at the block that was freed last.        *)
merge_free_no_min ==
    LET buddy == get_buddy_addr(id.addr, id.ord) IN
    /\ free_blocks' = [free_blocks EXCEPT ![id.ord] = @ \ {id.addr, buddy},
                                          ![id.ord + 1] = @ \cup {id.addr}]
    /\ id' = [ord |-> id.ord + 1, addr |-> id.addr]

merge_free ==
    LET buddy == get_buddy_addr(id.addr, id.ord)
        addr  == lesser(id.addr, buddy)
    IN
    /\ free_blocks' = [free_blocks EXCEPT
                         ![id.ord] = @ \ {id.addr, buddy},
                         ![id.ord + 1] = @ \cup {addr}]
    /\ id' = [ord |-> id.ord + 1, addr |-> addr]

add_free(addr, order) ==
    /\ free_blocks' = [free_blocks EXCEPT ![order] = @ \cup {addr}]
    /\ id' = [ord |-> order, addr |-> addr]
-----------------------------------------------------------------------------
(* buddy_impl::alloc: without a fitting block it returns an empty optional. *)
Alloc(order) ==
    /\ Idle
    /\ fitting(order) # {}
    /\ id' = get_free(order)
    /\ want' = order
    /\ pc' = "split"
    /\ UNCHANGED <<free_blocks, range, used, owned>>

AllocSplit ==
    /\ pc = "split"
    /\ id.ord > want
    /\ split_free
    /\ UNCHANGED <<pc, want, range, used, owned>>

(* The loop is done: mark_used, and the caller has the block.              *)
mark_used ==
    /\ pc = "split"
    /\ id.ord = want
    /\ free_blocks' = [free_blocks EXCEPT ![want] = @ \ {id.addr}]
    /\ pc' = "idle" /\ id' = NoId /\ want' = 0
    /\ UNCHANGED owned

(* buddy_impl::free.                                                       *)
Free(addr, order) ==
    /\ Idle
    /\ <<addr, Size[order]>> \in used
    /\ used' = used \ {<<addr, Size[order]>>}
    /\ add_free(addr, order)
    /\ pc' = "merge"
    /\ UNCHANGED <<want, range, owned>>

FreeMerge ==
    /\ pc = "merge"
    /\ can_merge
    /\ merge_free
    /\ UNCHANGED <<pc, want, range, used, owned>>

FreeReturn ==
    /\ pc = "merge"
    /\ ~can_merge
    /\ pc' = "idle" /\ id' = NoId
    /\ UNCHANGED <<free_blocks, want, range, used, owned>>

(* buddy_reclaim_range of memory the buddy does not have yet, ...          *)
Reclaim(base, size) ==
    /\ Idle
    /\ size > 0
    /\ Cells(base, size) \cap owned = {}
    /\ range' = [base |-> base, rest |-> size]
    /\ owned' = owned \cup Cells(base, size)
    /\ UNCHANGED <<free_blocks, pc, id, want, used>>

(* ... and the frees of its order_range loop.                              *)
ReclaimStep ==
    /\ pc = "idle"
    /\ range.rest > 0
    /\ LET o == order_step(range.base, range.rest, max_ord) IN
       /\ add_free(range.base, o)
       /\ range' = IF range.rest = Size[o] THEN NoRange
                   ELSE [base |-> range.base + Size[o],
                         rest |-> range.rest - Size[o]]
    /\ pc' = "merge"
    /\ UNCHANGED <<want, used, owned>>

Loops == AllocSplit \/ FreeMerge \/ FreeReturn \/ ReclaimStep

-----------------------------------------------------------------------------
FreeRanges == UNION {{<<a, Size[o]>> : a \in free_blocks[o]} : o \in 0..max_ord}

Pending == IF range.rest = 0 THEN {} ELSE {<<range.base, range.rest>>}

(* Every cell the buddy was given is in exactly one place: in one free     *)
(* block, in one range a client holds, or in what a running free still has *)
(* to hand back.  No split, merge or partial free loses or doubles memory. *)
(* Every free block is naturally aligned, so what alloc returns is, as its *)
(* doc promises, and add_free's alignment ASSERT holds.                    *)
Conserved ==
    LET all == FreeRanges \cup used \cup Pending IN
    /\ UNION {Cells(r[1], r[2]) : r \in all} = owned
    /\ \A r, s \in all : r # s => Cells(r[1], r[2]) \cap Cells(s[1], s[2]) = {}
    /\ Pending \cap (FreeRanges \cup used) = {}
    /\ FreeRanges \cap used = {}
    /\ \A o \in 0..max_ord : \A a \in free_blocks[o] : is_aligned(a, o)

(* Between calls no two buddies are both free: memory that was returned is *)
(* merged, so that an aligned run of free cells is always part of one free *)
(* block and a later alloc of its order finds it.                          *)
FullyMerged ==
    Idle => \A o \in 0..max_ord, a \in 0..Limit - 1 :
              is_aligned(a, o)
                /\ Cells(a, Size[o]) \subseteq
                     UNION {Cells(r[1], r[2]) : r \in FreeRanges}
              => \E p \in o..max_ord : align_down(a, p) \in free_blocks[p]

(* The loops of alloc, free and buddy_reclaim_range end.                   *)
CallsReturn == []<>Idle
=============================================================================
