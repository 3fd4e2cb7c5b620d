------------------------------- MODULE TrbRing -------------------------------
(***************************************************************************)
(* trb_ring<SIZE, HAS_LINK> of xhci/ring.hpp on the trbs of xhci/trb.hpp,  *)
(* as operators on a ring                                                  *)
(*   [trb, link, enq, deq, cycle]                                          *)
(* where trb[i] has the cycle bit and a payload, the Link TRB is the last  *)
(* entry of a ring with link, and enq and deq are indices.                 *)
(***************************************************************************)
EXTENDS Naturals, FiniteSets

CONSTANT NoData    \* the payload of a zeroed TRB

SIZE(r) == Cardinality(DOMAIN r.trb)

is_link(r, i) == r.link /\ i = SIZE(r) - 1

(* initialize(): zeroed TRBs; the Link TRB's cycle bit is 0 as well.       *)
initialize(size, link) ==
    [trb |-> [i \in 0..size - 1 |-> [cycle |-> FALSE, data |-> NoData]],
     link |-> link, enq |-> 0, deq |-> 0, cycle |-> TRUE]

(* increment(): follow a Link TRB first, then step, then wrap.             *)
increment(r, ptr, cycle) ==
    LET start == IF is_link(r, ptr) THEN 0 ELSE ptr
        wraps == start + 1 = SIZE(r)
    IN [old |-> start,
        ptr |-> IF wraps THEN 0 ELSE start + 1,
        cycle |-> (cycle # is_link(r, ptr)) # wraps]

check_enqueue_increment(r, ptr) ==
    IF is_link(r, ptr) \/ ptr + 1 = SIZE(r) THEN 0 ELSE ptr + 1

full(r) == check_enqueue_increment(r, r.enq) = r.deq

empty(r) == r.enq = r.deq

(* enqueue(): the entry the caller gets, made inactive; the Link TRB is    *)
(* committed when it was passed.                                           *)
enqueue_index(r) == increment(r, r.enq, r.cycle).old

(* Fault: the entry is handed out active.                                  *)
enqueue_active(r) ==
    LET inc == increment(r, r.enq, r.cycle)
        passed == inc.cycle # r.cycle /\ r.link
    IN [r EXCEPT
          !.enq = inc.ptr,
          !.cycle = inc.cycle,
          !.trb = [i \in DOMAIN r.trb |->
                     IF i = inc.old THEN [r.trb[i] EXCEPT !.cycle = inc.cycle]
                     ELSE IF passed /\ i = SIZE(r) - 1
                       THEN [r.trb[i] EXCEPT !.cycle = ~@] ELSE r.trb[i]]]

(* Fault: the Link TRB is not committed.                                   *)
enqueue_no_link(r) ==
    LET inc == increment(r, r.enq, r.cycle)
    IN [r EXCEPT !.enq = inc.ptr, !.cycle = inc.cycle,
                 !.trb[inc.old].cycle = ~inc.cycle]

enqueue(r) ==
    LET inc == increment(r, r.enq, r.cycle)
        passed == inc.cycle # r.cycle /\ r.link
    IN [r EXCEPT
          !.enq = inc.ptr,
          !.cycle = inc.cycle,
          !.trb = [i \in DOMAIN r.trb |->
                     IF i = inc.old THEN [r.trb[i] EXCEPT !.cycle = ~inc.cycle]
                     ELSE IF passed /\ i = SIZE(r) - 1
                       THEN [r.trb[i] EXCEPT !.cycle = ~@] ELSE r.trb[i]]]

(* trb::commit() of entry i, and the setters of its payload.               *)
commit(r, i) == [r EXCEPT !.trb[i].cycle = ~@]

fill(r, i, d) == [r EXCEPT !.trb[i].data = d]

(* dequeue(): the entry the caller processes.                              *)
dequeue(r) ==
    LET inc == increment(r, r.deq, r.cycle)
    IN [r EXCEPT !.deq = inc.ptr, !.cycle = inc.cycle]

(* update_enqueue_ptr(): walk from enq while the cycle bits match.         *)
update_enqueue_ptr(r) ==
    LET walk[n \in 0..SIZE(r)] ==
          IF n = 0 THEN [ptr |-> r.enq, cycle |-> r.cycle]
          ELSE LET w == walk[n - 1] IN
               IF r.trb[w.ptr].cycle = w.cycle
                 THEN LET inc == increment(r, w.ptr, w.cycle)
                      IN [ptr |-> inc.ptr, cycle |-> inc.cycle]
                 ELSE w
    IN [r EXCEPT !.enq = walk[SIZE(r)].ptr]

(* Fault: the reported entry itself stays due.                             *)
update_dequeue_ptr_same(r, i) == [r EXCEPT !.deq = i]

(* update_dequeue_ptr(): entry i was reported, the next one is due.        *)
update_dequeue_ptr(r, i) == [r EXCEPT !.deq = increment(r, i, r.cycle).ptr]

(* What the controller sees at entry p when its cycle state is c.          *)
is_active(r, p, c) == r.trb[p].cycle = c
=============================================================================
