---------------------------- MODULE TransferRing ----------------------------
(***************************************************************************)
(* A transfer ring as ring.hpp describes its use: software enqueues,       *)
(* fills and commits TRBs, the controller consumes those whose cycle bit   *)
(* matches its cycle state and reports them, and software then moves the   *)
(* dequeue pointer.  The payload of the n-th TRB is n % IdMod.             *)
(***************************************************************************)
EXTENDS TrbRing, Sequences

CONSTANTS RingSize,         \* SIZE, the Link TRB included
          IdMod,            \* payloads, more than fit into the ring
          MaxOutstanding    \* the caller keeps at most that many TRBs queued

VARIABLES
    ring,      \* the software's ring object and the shared TRBs
    filling,   \* the entry between enqueue() and commit(), or RingSize
    count,     \* payload of the next TRB
    hw,        \* the controller: index and cycle state
    reports,   \* completion events on their way: indices
    pending    \* payloads enqueued and not yet taken by the controller

Init ==
    /\ ring = initialize(RingSize, TRUE)
    /\ filling = RingSize
    /\ count = 0
    /\ hw = [ptr |-> 0, cycle |-> TRUE]
    /\ reports = <<>>
    /\ pending = <<>>

(* enqueue(), which PANICs if full().                                      *)
Enqueue ==
    /\ filling = RingSize
    /\ ~full(ring)
    /\ Len(pending) + Len(reports) < MaxOutstanding
    /\ ring' = enqueue(ring)
    /\ filling' = enqueue_index(ring)
    /\ UNCHANGED <<count, hw, reports, pending>>

(* The caller sets the fields of the TRB and then calls commit().          *)
Commit ==
    /\ filling # RingSize
    /\ ring' = commit(fill(ring, filling, count), filling)
    /\ pending' = Append(pending, count)
    /\ count' = (count + 1) % IdMod
    /\ filling' = RingSize
    /\ UNCHANGED <<hw, reports>>

(* The controller follows an active Link TRB, which toggles its cycle      *)
(* state, ...                                                              *)
HwLink ==
    /\ is_active(ring, hw.ptr, hw.cycle)
    /\ is_link(ring, hw.ptr)
    /\ hw' = [ptr |-> 0, cycle |-> ~hw.cycle]
    /\ UNCHANGED <<ring, filling, count, reports, pending>>

(* ... or executes an active TRB and reports it.  A payload other than the *)
(* oldest pending one leaves pending as it is.                             *)
HwExecute ==
    /\ is_active(ring, hw.ptr, hw.cycle)
    /\ ~is_link(ring, hw.ptr)
    /\ hw' = [hw EXCEPT !.ptr = @ + 1]
    /\ reports' = Append(reports, hw.ptr)
    /\ pending' = IF pending # <<>> /\ Head(pending) = ring.trb[hw.ptr].data
                    THEN Tail(pending) ELSE pending
    /\ UNCHANGED <<ring, filling, count>>

Report ==
    /\ reports # <<>>
    /\ ring' = update_dequeue_ptr(ring, Head(reports))
    /\ reports' = Tail(reports)
    /\ UNCHANGED <<filling, count, hw, pending>>

Next == Enqueue \/ Commit \/ HwLink \/ HwExecute \/ Report
-----------------------------------------------------------------------------
(* The entries the software believes to be the controller's.               *)
Queued == Len(pending) + Len(reports) + (IF filling = RingSize THEN 0 ELSE 1)

(* The controller executes exactly the committed TRBs, each once and in    *)
(* order, across Link TRBs and cycle toggles: it never runs into an        *)
(* entry that is not pending.  And empty() is true exactly when nothing is *)
(* queued or unreported, which is what the callers of empty() wait for.    *)
ExecutesInOrder ==
    /\ is_active(ring, hw.ptr, hw.cycle) /\ ~is_link(ring, hw.ptr)
      => pending # <<>> /\ Head(pending) = ring.trb[hw.ptr].data
    /\ empty(ring) <=> Queued = 0

(* No committed TRB is left behind: the controller always finds the next.  *)
AllExecuted == \A n \in 0..IdMod - 1 :
    (pending # <<>> /\ Head(pending) = n) ~> ~(pending # <<>> /\ Head(pending) = n)
=============================================================================
