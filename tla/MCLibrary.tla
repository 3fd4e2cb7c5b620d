----------------------------- MODULE MCLibrary -----------------------------
(***************************************************************************)
(* The containers of the library, the heap under operator new, the TRB     *)
(* ring and the two clients of buddy_impl, side by side: `part` says which *)
(* of them a behaviour is about, the others keep their initial state.      *)
(***************************************************************************)
EXTENDS SplittingBuddy, SimpleBuddy

CONSTANTS e1, e2, t1, t2, none

VARIABLES part, m, last, array, scan, balance, queue, num_elems, start, log,
          header, footer, list, live, vec, content,
          tring, filling, count, hw, reports, pending

I == INSTANCE IntervalMap WITH IvalLast <- 5, Values <- 0 .. 2, Default <- 0
A == INSTANCE LockFreeArray WITH Size <- 3, Elems <- {e1, e2}, Invalid <- none, Threads <- {t1, t2}
R == INSTANCE RingBuffer WITH max_entries <- 3, Msgs <- {e1, e2}, NoMsg <- none
H == INSTANCE FirstFitHeap WITH MemSize <- 8, MaxAlloc <- 3, Junk <- none
V == INSTANCE MapVector WITH Keys <- 1 .. 4, MapVals <- {e1, e2}, MaxItems <- 4

X == INSTANCE TransferRing WITH NoData <- none, RingSize <- 5, IdMod <- 7, MaxOutstanding <- 3, ring <- tring

MCSize == [o \in 0 .. Bits |-> 2^o]

(* Bound: the splitting buddy is given addresses below this one only.      *)
SplitLimit == 8

Parts == {"interval map", "array", "ring", "heap", "map vector", "transfer ring", "splitting buddy", "simple buddy"}
imap == <<m, last>>
arr == <<array, scan, balance>>
ring == <<queue, num_elems, start, log>>
heap == <<header, footer, list, live>>
mvec == <<vec, content>>
trbs == <<tring, filling, count, hw, reports, pending>>
containers == <<imap, arr, ring, heap, mvec>>
buddies == <<buddyVars, request, simpleVars>>
allvars == <<part, containers, trbs, buddies>>

LInit ==
    /\ part \in Parts
    /\ I!Init /\ A!AInit /\ R!RInit /\ H!HInit /\ V!MInit /\ X!Init /\ SplittingInit /\ SimpleInit

LNext ==
    /\ UNCHANGED part
    /\ \/ part = "interval map" /\ I!Next /\ UNCHANGED <<arr, ring, heap, mvec, trbs, buddies>>
       \/ part = "array" /\ A!ANext /\ UNCHANGED <<imap, ring, heap, mvec, trbs, buddies>>
       \/ part = "ring" /\ R!RNext /\ UNCHANGED <<imap, arr, heap, mvec, trbs, buddies>>
       \/ part = "heap" /\ H!HNext /\ UNCHANGED <<imap, arr, ring, mvec, trbs, buddies>>
       \/ part = "map vector" /\ V!MNext /\ UNCHANGED <<imap, arr, ring, heap, trbs, buddies>>
       \/ part = "transfer ring" /\ X!Next /\ UNCHANGED <<containers, buddies>>
       \/ part = "splitting buddy" /\ SplittingNext /\ owned' \subseteq 0 .. SplitLimit - 1
          /\ UNCHANGED <<simpleVars, containers, trbs>>
       \/ part = "simple buddy" /\ SimpleNext /\ UNCHANGED <<request, containers, trbs>>

(* The driver and the controller keep running (see TransferRing).          *)
Rest == part = "transfer ring" /\ UNCHANGED <<part, containers, buddies>>

(* A call into an allocator that has started runs on: nothing preempts it  *)
(* for ever.                                                               *)
Running ==
    /\ UNCHANGED <<part, containers, trbs>>
    /\ \/ Loops /\ UNCHANGED <<request, simpleVars>>
       \/ part = "splitting buddy" /\ AllocTrim /\ UNCHANGED simpleVars
       \/ part = "simple buddy" /\ (Retry \/ NewReturn) /\ UNCHANGED request

LSpec ==
    /\ LInit /\ [][LNext]_allvars
    /\ WF_allvars(Rest /\ (X!Enqueue \/ X!Commit))
    /\ WF_allvars(Rest /\ (X!HwLink \/ X!HwExecute))
    /\ WF_allvars(Rest /\ X!Report)
    /\ WF_allvars(Running)
-----------------------------------------------------------------------------
(* interval_map.hpp: insert and remove change the meaning of the map as    *)
(* PointMap says.                                                          *)
RefinesPointMap == I!RefinesPointMap
(* interval_map.hpp: find_last_fit and iterate_range find what is there.   *)
SearchesRight == part = "interval map" => I!SearchesRight
(* array_lock_free.hpp: no element is lost or duplicated, and insert, find *)
(* and remove fail only with a reason.                                     *)
NothingLost == part = "array" => A!NothingLost
(* simple_ring_buffer.hpp, map.hpp: the ring buffer holds the latest       *)
(* elements in order, map_vector holds what map_map would.                 *)
AsTheirModels == /\ part = "ring" => R!HoldsLatest
                 /\ part = "map vector" => V!SortedAsMap
(* heap.hpp: blocks, flags, footers and the free list agree.               *)
HeapExact == part = "heap" => H!HeapExact
(* ring.hpp: the controller executes the committed TRBs, in order.         *)
ExecutesInOrder == part = "transfer ring" => X!ExecutesInOrder
(* ring.hpp: the controller finds every committed TRB.                     *)
AllExecuted == X!AllExecuted

Buddies == part \in {"splitting buddy", "simple buddy"}
(* buddy.hpp: no memory is lost, doubled or misaligned.                    *)
BlocksConserved == Buddies => Conserved
(* buddy.hpp: free buddies are merged.                                     *)
BlocksMerged == Buddies => FullyMerged
(* splitting_buddy.hpp, simple_buddy.hpp: alloc fails only for want of     *)
(* aligned memory, and not once more of it was claimed.                    *)
AllocFindsWhatThereIs == /\ part = "splitting buddy" => FailsForAReason
                         /\ part = "simple buddy" => RetrySucceeds
(* simple_buddy.hpp: the map of orders is exact.                           *)
SimpleMapIsExact == part = "simple buddy" => MapIsExact
=============================================================================
