-------------------------------- MODULE Fifo --------------------------------
(***************************************************************************)
(* What lock_free_queue promises its two users: a bounded first-in         *)
(* first-out queue whose operations take effect one at a time.             *)
(* lastPush and lastPop are the results of the latest completed push() and *)
(* get_and_pop() (util/lock_free_queue.hpp).                               *)
(***************************************************************************)
EXTENDS Naturals, Sequences

CONSTANTS Elem,     \* values that can be stored
          NoElem    \* the empty optional get_and_pop() returns

VARIABLES queue, capacity, lastPush, lastPop

vars == <<queue, capacity, lastPush, lastPop>>

Init ==
    /\ queue = <<>>
    /\ capacity = 0
    /\ lastPush = "none"
    /\ lastPop = NoElem

(* The producer fixes the number of entries.                               *)
Open ==
    /\ queue = <<>>
    /\ capacity' \in Nat
    /\ UNCHANGED <<queue, lastPush, lastPop>>

Push(e) ==
    /\ Len(queue) < capacity
    /\ queue' = Append(queue, e)
    /\ lastPush' = "ok"
    /\ UNCHANGED <<capacity, lastPop>>

PushFull ==
    /\ Len(queue) = capacity
    /\ lastPush' = "full"
    /\ UNCHANGED <<queue, capacity, lastPop>>

Pop ==
    /\ queue # <<>>
    /\ lastPop' = Head(queue)
    /\ queue' = Tail(queue)
    /\ UNCHANGED <<capacity, lastPush>>

PopEmpty ==
    /\ queue = <<>>
    /\ lastPop' = NoElem
    /\ UNCHANGED <<queue, capacity, lastPush>>

Next ==
    \/ Open
    \/ \E e \in Elem : Push(e)
    \/ PushFull
    \/ Pop
    \/ PopEmpty

Spec == Init /\ [][Next]_vars
=============================================================================
