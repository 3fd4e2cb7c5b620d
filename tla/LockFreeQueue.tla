---------------------------- MODULE LockFreeQueue ----------------------------
(***************************************************************************)
(* The single-producer single-consumer queue of util/lock_free_queue.hpp,  *)
(* used across two contexts that share the queue_storage: one step of this *)
(* module is one access of one side to memory the other side can see.  A   *)
(* side's loads of the position only it writes are merged with its next    *)
(* access, with which they commute.                                        *)
(*                                                                         *)
(* The producer initialises the storage (create), pushes, and may be       *)
(* destroyed and made again from the existing storage.  The consumer       *)
(* attaches when verify() accepts the storage and then calls get_and_pop() *)
(* over and over.                                                          *)
(***************************************************************************)
EXTENDS Naturals, Sequences

CONSTANTS Elem,      \* the values of T
          NoElem,    \* an empty optional; also the content of a fresh slot
          MAX_SIZE   \* template parameter

ASSUME SizeAssumption == MAX_SIZE \in Nat
ASSUME NoElemAssumption == NoElem \notin Elem

VARIABLES
    read_position, write_position, elements,
    meta,      \* meta_data: version and entry_size are "valid" or not
    ppc,       \* where the producer is
    stores,    \* stores of initialize() that have not been performed yet
    numElems,  \* argument of create
    pval,      \* argument of push
    cpc,       \* where the consumer is
    cval,      \* get_and_pop's local copy of the front element
    lastPush,  \* result of the latest push
    lastPop    \* result of the latest get_and_pop

producerVars == <<ppc, stores, numElems, pval, lastPush>>
consumerVars == <<cpc, cval, lastPop>>
storage == <<read_position, write_position, elements, meta>>
vars == <<storage, producerVars, consumerVars>>

(* The storage before initialize(): zeroed memory of another context.      *)
Init ==
    /\ read_position = 0
    /\ write_position = 0
    /\ elements = [i \in 0..MAX_SIZE |-> NoElem]
    /\ meta = [version |-> FALSE, entry_num |-> 0, entry_size |-> FALSE]
    /\ ppc = "none" /\ stores = {} /\ numElems = 0 /\ pval = NoElem
    /\ cpc = "none" /\ cval = NoElem
    /\ lastPush = "none" /\ lastPop = NoElem

(* Fault: the position does not wrap.                                      *)
next_slot_no_wrap(old) == old + 1

next_slot(old) == (old + 1) % (meta.entry_num + 1)

empty == read_position = write_position

(* Fault: a full queue is not noticed.                                     *)
full_never == FALSE

full == read_position = next_slot(write_position)

verify == meta.version /\ meta.entry_size
-----------------------------------------------------------------------------
(* lock_free_queue_producer::create: more entries than MAX_SIZE give a     *)
(* nullptr; otherwise initialize() starts.                                 *)
ProducerCreate(n) ==
    /\ ppc = "none"
    /\ IF n > MAX_SIZE
         THEN UNCHANGED <<ppc, stores, numElems>>
         ELSE /\ ppc' = "initialize"
              /\ stores' = {"read_position", "write_position", "version",
                            "entry_num", "entry_size"}
              /\ numElems' = n
    /\ UNCHANGED <<storage, pval, lastPush, consumerVars>>

(* Fault: initialize() stores its argument into write_position.            *)
InitializeStore_swapped(f) ==
    /\ ppc = "initialize"
    /\ f \in stores
    /\ stores' = stores \ {f}
    /\ read_position' = IF f = "read_position" THEN 0 ELSE read_position
    /\ write_position' = IF f = "write_position" THEN numElems
                                                 ELSE write_position
    /\ meta' = [version |-> meta.version \/ f = "version",
                entry_num |-> IF f = "entry_num" THEN numElems
                                                 ELSE meta.entry_num,
                entry_size |-> meta.entry_size \/ f = "entry_size"]
    /\ UNCHANGED <<elements, ppc, numElems, pval, lastPush, consumerVars>>

(* One of initialize()'s plain stores becomes visible.  Nothing orders     *)
(* them, so the other context sees them in any order.                      *)
InitializeStore(f) ==
    /\ ppc = "initialize"
    /\ f \in stores
    /\ stores' = stores \ {f}
    /\ read_position' = IF f = "read_position" THEN 0 ELSE read_position
    /\ write_position' = IF f = "write_position" THEN 0 ELSE write_position
    /\ meta' = [version |-> meta.version \/ f = "version",
                entry_num |-> IF f = "entry_num" THEN numElems
                                                 ELSE meta.entry_num,
                entry_size |-> meta.entry_size \/ f = "entry_size"]
    /\ UNCHANGED <<elements, ppc, numElems, pval, lastPush, consumerVars>>

(* create_from_existing_storage, as create's last call and on its own      *)
(* after the previous producer object was destroyed.                       *)
ProducerAttach ==
    /\ \/ ppc = "initialize" /\ stores = {}
       \/ ppc = "detached"
    /\ verify
    /\ ppc' = "idle"
    /\ UNCHANGED <<storage, stores, numElems, pval, lastPush, consumerVars>>

ProducerDestroy ==
    /\ ppc = "idle"
    /\ ppc' = "detached"
    /\ UNCHANGED <<storage, stores, numElems, pval, lastPush, consumerVars>>

(* push: the full() check, ...                                             *)
PushBegin(e) ==
    /\ ppc = "idle"
    /\ IF full
         THEN lastPush' = "full" /\ UNCHANGED <<ppc, pval>>
         ELSE ppc' = "write" /\ pval' = e /\ UNCHANGED lastPush
    /\ UNCHANGED <<storage, stores, numElems, consumerVars>>

(* Fault: push() writes the slot behind the one it publishes.              *)
PushWrite_next ==
    /\ ppc = "write"
    /\ elements' = [elements EXCEPT ![next_slot(write_position)] = pval]
    /\ ppc' = "publish"
    /\ UNCHANGED <<read_position, write_position, meta, stores, numElems,
                   pval, lastPush, consumerVars>>

(* ... the store of the element, ...                                       *)
PushWrite ==
    /\ ppc = "write"
    /\ elements' = [elements EXCEPT ![write_position] = pval]
    /\ ppc' = "publish"
    /\ UNCHANGED <<read_position, write_position, meta, stores, numElems,
                   pval, lastPush, consumerVars>>

(* ... and the store of write_position.                                    *)
PushPublish ==
    /\ ppc = "publish"
    /\ write_position' = next_slot(write_position)
    /\ lastPush' = "ok"
    /\ ppc' = "idle"
    /\ UNCHANGED <<read_position, elements, meta, stores, numElems, pval,
                   consumerVars>>
-----------------------------------------------------------------------------
(* lock_free_queue_consumer::create.                                       *)
ConsumerCreate ==
    /\ cpc = "none"
    /\ verify
    /\ cpc' = "idle"
    /\ UNCHANGED <<storage, producerVars, cval, lastPop>>

(* Fault: get_and_pop() does not check for an empty queue.                 *)
GetBegin_unchecked ==
    /\ cpc = "idle"
    /\ cpc' = "front"
    /\ UNCHANGED <<storage, producerVars, cval, lastPop>>

(* get_and_pop: the empty() check, ...                                     *)
GetBegin ==
    /\ cpc = "idle"
    /\ IF empty
         THEN lastPop' = NoElem /\ UNCHANGED cpc
         ELSE cpc' = "front" /\ UNCHANGED lastPop
    /\ UNCHANGED <<storage, producerVars, cval>>

(* ... the copy of front(), ...                                            *)
Front ==
    /\ cpc = "front"
    /\ cval' = elements[read_position]
    /\ cpc' = "pop"
    /\ UNCHANGED <<storage, producerVars, lastPop>>

(* ... pop()'s own empty() check, which returns false to a caller that     *)
(* returns the copy all the same, ...                                      *)
PopBegin ==
    /\ cpc = "pop"
    /\ IF empty
         THEN cpc' = "idle" /\ lastPop' = cval
         ELSE cpc' = "advance" /\ UNCHANGED lastPop
    /\ UNCHANGED <<storage, producerVars, cval>>

(* Fault: pop() does not store the new read_position.                      *)
PopAdvance_stays ==
    /\ cpc = "advance"
    /\ lastPop' = cval
    /\ cpc' = "idle"
    /\ UNCHANGED <<storage, producerVars, cval>>

(* ... and the store of read_position.                                     *)
PopAdvance ==
    /\ cpc = "advance"
    /\ read_position' = next_slot(read_position)
    /\ lastPop' = cval
    /\ cpc' = "idle"
    /\ UNCHANGED <<write_position, elements, meta, producerVars, cval>>
-----------------------------------------------------------------------------
Stores == {"read_position", "write_position", "version", "entry_num",
           "entry_size"}

ProducerStep == PushWrite \/ PushPublish

ConsumerStep == GetBegin \/ Front \/ PopBegin \/ PopAdvance

Next ==
    \/ \E n \in 0..MAX_SIZE + 1 : ProducerCreate(n)
    \/ \E f \in Stores : InitializeStore(f)
    \/ ProducerAttach
    \/ ProducerDestroy
    \/ \E e \in Elem : PushBegin(e)
    \/ ProducerStep
    \/ ConsumerCreate
    \/ ConsumerStep

Spec == Init /\ [][Next]_vars

(* A push() that has begun finishes, and the consumer is created and polls. *)
(* Nothing obliges the producer to begin a push.                            *)
Fairness ==
    /\ WF_vars(ProducerStep)
    /\ WF_vars(ConsumerCreate)
    /\ WF_vars(ConsumerStep)

FairSpec == Spec /\ Fairness
-----------------------------------------------------------------------------
TypeOK ==
    /\ read_position \in 0..MAX_SIZE
    /\ write_position \in 0..MAX_SIZE
    /\ elements \in [0..MAX_SIZE -> Elem \cup {NoElem}]
    /\ meta \in [version : BOOLEAN, entry_num : 0..MAX_SIZE,
                 entry_size : BOOLEAN]
    /\ ppc \in {"none", "initialize", "idle", "detached", "write", "publish"}
    /\ stores \in SUBSET Stores
    /\ numElems \in 0..MAX_SIZE
    /\ pval \in Elem \cup {NoElem}
    /\ cpc \in {"none", "idle", "front", "pop", "advance"}
    /\ cval \in Elem \cup {NoElem}
    /\ lastPush \in {"none", "ok", "full"}
    /\ lastPop \in Elem \cup {NoElem}

(* The consumer never copies the slot the producer is writing: the plain   *)
(* accesses to elements in push() and front() are not a data race.         *)
NoSlotRace == ~(ppc = "write" /\ cpc = "front" /\ read_position = write_position)

(* front()'s assert(not empty()) and get_and_pop's assert(success) hold,   *)
(* whatever the producer did since the first empty() check.                *)
AssertsHold == cpc \in {"front", "pop", "advance"} => ~empty

(* A consumer can be created while initialize() is under way; it still     *)
(* never advances by an entry_num that has not been stored yet.            *)
NoEarlyAdvance == cpc # "none" /\ ~empty => ppc \notin {"none", "initialize"}

(* The elements between the two positions, oldest first.                   *)
Modulus == meta.entry_num + 1

Count == IF write_position >= read_position
           THEN write_position - read_position
           ELSE write_position + Modulus - read_position

SlotOf(i) == IF read_position + i < Modulus
               THEN read_position + i ELSE read_position + i - Modulus

Contents == [i \in 1..Count |-> elements[SlotOf(i - 1)]]

Opened == ppc \notin {"none", "initialize"}

fifo == INSTANCE Fifo WITH
          queue <- Contents,
          capacity <- IF Opened THEN meta.entry_num ELSE 0

(* Seen through the two positions, the two interleaved sides are an atomic *)
(* bounded FIFO: no element is lost, duplicated, reordered or overwritten, *)
(* push() fails only on a full and get_and_pop() only on an empty queue.   *)
IsFifo == fifo!Spec

(* Every element in the queue is handed out by get_and_pop() eventually.   *)
Delivered == \A e \in Elem :
    (\E i \in DOMAIN Contents : Contents[i] = e) ~> (lastPop = e)
=============================================================================
