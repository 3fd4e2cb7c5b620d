----------------------------- MODULE RingBuffer -----------------------------
(* simple_ring_buffer: an add-only buffer of the latest elements.          *)
EXTENDS Integers, Sequences

CONSTANTS max_entries, Msgs, NoMsg
VARIABLES queue, num_elems, start,
          log      \* history: the latest elements, oldest first
rvars == <<queue, num_elems, start, log>>

RInit ==
    /\ queue = [i \in 0 .. max_entries - 1 |-> NoMsg]
    /\ num_elems = 0 /\ start = 0
    /\ log = <<>>

Latest(s) == IF Len(s) > max_entries THEN Tail(s) ELSE s

(* Fault: the oldest element stays the first one when it is overwritten. *)
AddInPlace(msg) ==
    /\ queue' = [queue EXCEPT ![(start + num_elems) % max_entries] = msg]
    /\ num_elems' = IF num_elems = max_entries THEN num_elems ELSE num_elems + 1
    /\ log' = Latest(Append(log, msg))
    /\ UNCHANGED start

add(msg) ==
    /\ IF num_elems = max_entries
       THEN /\ queue' = [queue EXCEPT ![start] = msg]
            /\ start' = (start + 1) % max_entries
            /\ UNCHANGED num_elems
       ELSE /\ queue' = [queue EXCEPT ![(start + num_elems) % max_entries] = msg]
            /\ num_elems' = num_elems + 1
            /\ UNCHANGED start
    /\ log' = Latest(Append(log, msg))

at(i) == queue[(start + i) % max_entries]

flush ==
    /\ queue' = [i \in DOMAIN queue |-> NoMsg]
    /\ num_elems' = 0 /\ start' = 0
    /\ log' = <<>>

RNext == flush \/ \E msg \in Msgs : add(msg)
-----------------------------------------------------------------------------
(* at(0) is the oldest of the latest max_entries elements added since the  *)
(* last flush, at(1) the next, and a place nothing was added to holds a    *)
(* default element, however often the buffer has wrapped.                  *)
HoldsLatest ==
    \A i \in 0 .. max_entries - 1 :
        at(i) = IF i < Len(log) THEN log[i + 1] ELSE NoMsg
=============================================================================
