--------------------------- MODULE SplittingBuddy ---------------------------
(***************************************************************************)
(* memory/splitting_buddy.hpp: ranges of any size from an internal buddy.  *)
(* It is the DMA pool of baremetal_device_driver_adapter, whose clients    *)
(* get and return dma_buffers of whole pages; a cell is a page there.      *)
(***************************************************************************)
EXTENDS Buddy

VARIABLE request   \* the size alloc was called with


SplittingInit == Init /\ request = 0

(* alloc: the internal allocator searches a block of the envelope's order. *)
AllocSize(size) ==
    /\ Alloc(order_envelope(size))
    /\ request' = size

(* Fault: the overhead is not returned.                                    *)
AllocTrim_leaks ==
    /\ mark_used
    /\ used' = IF request = 0 THEN used ELSE used \cup {<<id.addr, request>>}
    /\ UNCHANGED range
    /\ request' = 0

(* It returned a block: the part behind the request goes back to the       *)
(* buddy, chunk by chunk, and the caller has the front part.               *)
AllocTrim ==
    /\ mark_used
    /\ used' = IF request = 0 THEN used ELSE used \cup {<<id.addr, request>>}
    /\ range' = IF request = Size[want] THEN NoRange
                ELSE [base |-> id.addr + request,
                      rest |-> Size[want] - request]
    /\ request' = 0

(* Fault: the size of the interval is one too small.                       *)
FreeInterval_short(a, n) ==
    /\ Idle
    /\ <<a, n>> \in used
    /\ used' = used \ {<<a, n>>}
    /\ range' = [base |-> a, rest |-> n - 1]
    /\ UNCHANGED <<free_blocks, pc, id, want, owned, request>>

(* free(interval): the same loop over a range a client holds.              *)
FreeInterval(a, n) ==
    /\ Idle
    /\ <<a, n>> \in used
    /\ used' = used \ {<<a, n>>}
    /\ range' = [base |-> a, rest |-> n]
    /\ UNCHANGED <<free_blocks, pc, id, want, owned, request>>

SplittingNext ==
    \/ \E n \in 0..Size[max_ord] + 1 : AllocSize(n)
    \/ AllocTrim
    \/ \E a \in 0..Limit - 1, n \in 1..Limit : FreeInterval(a, n)
    \/ \E a \in 0..Limit - 1 : \E n \in 1..Limit - a :
         Reclaim(a, n) /\ UNCHANGED request
    \/ Loops /\ UNCHANGED request

(* Between calls, an alloc that fails has a reason: no aligned run of the  *)
(* envelope's order is free, so the memory kept for it could not be found. *)
FailsForAReason ==
    Idle => \A n \in 0..Size[max_ord] :
      fitting(order_envelope(n)) = {} =>
        LET s == Size[order_envelope(n)]
        IN ~\E a \in 0..Limit - s :
             /\ is_aligned(a, order_envelope(n))
             /\ Cells(a, s) \subseteq owned
             /\ \A r \in used : Cells(r[1], r[2]) \cap Cells(a, s) = {}
=============================================================================
