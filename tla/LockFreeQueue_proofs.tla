------------------------ MODULE LockFreeQueue_proofs ------------------------
(***************************************************************************)
(* For every MAX_SIZE and every set of elements: the queue of              *)
(* lock_free_queue.hpp has no slot race, its asserts hold, and it          *)
(* implements Fifo.                                                        *)
(***************************************************************************)
EXTENDS LockFreeQueue, SequenceTheorems, TLAPS

(* The inductive invariant: where the positions are while the storage is   *)
(* being initialised, and what each side knows between two of its accesses *)
(* (the queue is not full, the element it wrote or copied is in place).    *)
IInv ==
    /\ TypeOK
    /\ read_position <= meta.entry_num
    /\ write_position <= meta.entry_num
    /\ ~Opened => empty /\ read_position = 0 /\ cpc \in {"none", "idle"}
    /\ ppc \in {"write", "publish"} => ~full /\ pval \in Elem
    /\ ppc = "publish" => elements[write_position] = pval
    /\ cpc \in {"front", "pop", "advance"} => ~empty
    /\ cpc \in {"pop", "advance"} => cval = elements[read_position]

(* next_slot advances by one inside the ring and wraps at its end.         *)
LEMMA NextSlot ==
    ASSUME NEW n \in Nat, NEW p \in 0..n
    PROVE  (p + 1) % (n + 1) = IF p = n THEN 0 ELSE p + 1
  OBVIOUS

(* What next_slot computes in a state of the invariant.                    *)
LEMMA NextSlotInv ==
    ASSUME IInv
    PROVE  /\ next_slot(read_position) = IF read_position = meta.entry_num
                                           THEN 0 ELSE read_position + 1
           /\ next_slot(write_position) = IF write_position = meta.entry_num
                                            THEN 0 ELSE write_position + 1
  <1>1. /\ meta.entry_num \in Nat
        /\ read_position \in 0..meta.entry_num
        /\ write_position \in 0..meta.entry_num
    BY SizeAssumption DEF IInv, TypeOK
  <1>2. QED
    BY <1>1, NextSlot DEF next_slot
-----------------------------------------------------------------------------
(* The state before anything was initialised satisfies the invariant.      *)
LEMMA InitIInv == Init => IInv
  BY SizeAssumption
  DEF Init, IInv, TypeOK, Opened, empty, Stores

(* No step of either side breaks the invariant.                            *)
LEMMA NextIInv == IInv /\ [Next]_vars => IInv'
  <1> SUFFICES ASSUME IInv, [Next]_vars PROVE IInv'
    OBVIOUS
  <1> USE SizeAssumption
  <1> USE DEF storage, producerVars, consumerVars, Opened, empty, full
  <1>1. ASSUME NEW n \in 0..MAX_SIZE + 1, ProducerCreate(n) PROVE IInv'
    <2>1. CASE n > MAX_SIZE
      BY <1>1, <2>1 DEF ProducerCreate, IInv, TypeOK, next_slot
    <2>2. CASE ~(n > MAX_SIZE)
      <3>1. n \in 0..MAX_SIZE
        BY <2>2
      <3>2. TypeOK'
        BY <1>1, <2>2, <3>1 DEF ProducerCreate, IInv, TypeOK, Stores
      <3>3. QED
        BY <1>1, <2>2, <3>2 DEF ProducerCreate, IInv
    <2>3. QED
      BY <2>1, <2>2
  <1>2. ASSUME NEW f \in Stores, InitializeStore(f) PROVE IInv'
    BY <1>2 DEF InitializeStore, IInv, TypeOK, Stores
  <1>3. CASE ProducerAttach
    BY <1>3 DEF ProducerAttach, IInv, TypeOK, next_slot
  <1>4. CASE ProducerDestroy
    BY <1>4 DEF ProducerDestroy, IInv, TypeOK, next_slot
  <1>5. ASSUME NEW e \in Elem, PushBegin(e) PROVE IInv'
    BY <1>5 DEF PushBegin, IInv, TypeOK, next_slot
  <1>6. CASE PushWrite
    BY <1>6 DEF PushWrite, IInv, TypeOK, next_slot
  <1>7. CASE PushPublish
    BY <1>7, NextSlotInv DEF PushPublish, IInv, TypeOK
  <1>8. CASE ConsumerCreate
    BY <1>8 DEF ConsumerCreate, IInv, TypeOK, next_slot
  <1>9. CASE GetBegin
    BY <1>9 DEF GetBegin, IInv, TypeOK, next_slot
  <1>10. CASE Front
    BY <1>10 DEF Front, IInv, TypeOK, next_slot
  <1>11. CASE PopBegin
    BY <1>11 DEF PopBegin, IInv, TypeOK, next_slot
  <1>12. CASE PopAdvance
    <2>1. next_slot(write_position)' = next_slot(write_position)
      BY <1>12 DEF PopAdvance, next_slot
    <2>2. next_slot(read_position) # next_slot(write_position)
      BY <1>12, NextSlotInv DEF PopAdvance, IInv, TypeOK
    <2>3. ~full'
      BY <1>12, <2>1, <2>2 DEF PopAdvance
    <2>4. QED
      BY <1>12, <2>3, NextSlotInv DEF PopAdvance, IInv, TypeOK
  <1>13. CASE UNCHANGED vars
    BY <1>13 DEF vars, IInv, TypeOK, next_slot
  <1>14. QED
    BY <1>1, <1>2, <1>3, <1>4, <1>5, <1>6, <1>7, <1>8, <1>9, <1>10, <1>11,
       <1>12, <1>13
    DEF Next, ProducerStep, ConsumerStep

(* The invariant holds in every reachable state.                           *)
THEOREM Invariance == Spec => []IInv
  BY InitIInv, NextIInv, PTL DEF Spec

(* Type correctness of the queue storage and of both sides.                *)
THEOREM TypeCorrect == Spec => []TypeOK
  <1>1. IInv => TypeOK
    BY DEF IInv
  <1>2. QED
    BY <1>1, Invariance, PTL

(* front() never reads the slot that push() is writing, for any MAX_SIZE.  *)
THEOREM SlotRaceFree == Spec => []NoSlotRace
  <1>1. IInv => NoSlotRace
    BY DEF IInv, NoSlotRace, empty
  <1>2. QED
    BY <1>1, Invariance, PTL

(* The asserts in front() and get_and_pop() hold, for any MAX_SIZE.        *)
THEOREM AssertsAlwaysHold == Spec => []AssertsHold
  <1>1. IInv => AssertsHold
    BY DEF IInv, AssertsHold
  <1>2. QED
    BY <1>1, Invariance, PTL

(* A consumer created during initialize() finds the queue empty.           *)
THEOREM EarlyConsumerWaits == Spec => []NoEarlyAdvance
  <1>1. IInv => NoEarlyAdvance
    BY DEF IInv, NoEarlyAdvance, Opened
  <1>2. QED
    BY <1>1, Invariance, PTL
-----------------------------------------------------------------------------
(* Append and Tail, element by element.                                    *)
LEMMA AppendAsFunction ==
    ASSUME NEW S, NEW s \in Seq(S), NEW e \in S
    PROVE  Append(s, e) = [i \in 1..Len(s) + 1 |->
                             IF i = Len(s) + 1 THEN e ELSE s[i]]
  <1> DEFINE t == [i \in 1..Len(s) + 1 |-> IF i = Len(s) + 1 THEN e ELSE s[i]]
  <1>1. t \in Seq(S) /\ Len(t) = Len(s) + 1
    OBVIOUS
  <1>2. /\ \A i \in 1..Len(s) : Append(s, e)[i] = s[i]
        /\ Append(s, e)[Len(s) + 1] = e
    BY AppendProperties
  <1>3. \A i \in 1..Len(s) + 1 : Append(s, e)[i] = t[i]
    BY <1>2
  <1>4. Append(s, e) \in Seq(S) /\ Len(Append(s, e)) = Len(s) + 1
    BY AppendProperties
  <1>5. QED
    BY <1>1, <1>3, <1>4, SeqEqual

(* Tail, the same way.                                                     *)
LEMMA TailAsFunction ==
    ASSUME NEW S, NEW s \in Seq(S), s # <<>>
    PROVE  Tail(s) = [i \in 1..Len(s) - 1 |-> s[i + 1]]
  <1> DEFINE t == [i \in 1..Len(s) - 1 |-> s[i + 1]]
  <1>1. Len(s) \in Nat \ {0}
    BY EmptySeq
  <1>2. t \in Seq(S) /\ Len(t) = Len(s) - 1
    BY <1>1
  <1>3. \A i \in 1..Len(t) : Tail(s)[i] = t[i]
    BY <1>1, <1>2, HeadTailProperties
  <1>4. QED
    BY <1>2, <1>3, HeadTailProperties, SeqEqual

(* Where the live slots are: Count of them, none of them the write slot.   *)
LEMMA LiveSlots ==
    ASSUME IInv
    PROVE  /\ Count \in 0..meta.entry_num
           /\ \A i \in 0..Count : SlotOf(i) \in 0..MAX_SIZE
           /\ \A i \in 0..Count - 1 : SlotOf(i) # write_position
           /\ SlotOf(Count) = write_position
           /\ SlotOf(0) = read_position
           /\ empty <=> Count = 0
           /\ full <=> Count = meta.entry_num
  <1>1. /\ meta.entry_num \in 0..MAX_SIZE
        /\ read_position \in 0..meta.entry_num
        /\ write_position \in 0..meta.entry_num
    BY SizeAssumption DEF IInv, TypeOK
  <1>2. /\ Count \in 0..meta.entry_num
        /\ \A i \in 0..Count : SlotOf(i) \in 0..MAX_SIZE
        /\ \A i \in 0..Count - 1 : SlotOf(i) # write_position
        /\ SlotOf(Count) = write_position
        /\ SlotOf(0) = read_position
        /\ empty <=> Count = 0
    BY <1>1, SizeAssumption DEF Count, SlotOf, Modulus, empty
  <1>3. full <=> Count = meta.entry_num
    BY <1>1, NextSlotInv, SizeAssumption DEF full, Count, Modulus
  <1>4. QED
    BY <1>2, <1>3

(* The contents form a sequence of Count elements.                         *)
LEMMA ContentsSeq ==
    ASSUME IInv
    PROVE  /\ Contents \in Seq(Elem \cup {NoElem})
           /\ Len(Contents) = Count
           /\ \A i \in 1..Count : Contents[i] = elements[SlotOf(i - 1)]
           /\ Contents = <<>> <=> empty
  <1>1. Count \in Nat
    BY LiveSlots, SizeAssumption DEF IInv, TypeOK
  <1>2. \A i \in 1..Count : elements[SlotOf(i - 1)] \in Elem \cup {NoElem}
    BY LiveSlots, <1>1 DEF IInv, TypeOK
  <1>3. QED
    BY <1>1, <1>2, LiveSlots DEF Contents

(* Storing into the write slot does not change the contents.               *)
LEMMA WriteKeepsContents ==
    ASSUME IInv, PushWrite
    PROVE  Contents' = Contents
  <1>1. Count' = Count /\ \A i \in 1..Count : SlotOf(i - 1)' = SlotOf(i - 1)
    BY DEF PushWrite, Count, SlotOf, Modulus
  <1>2. Count \in Nat
    BY LiveSlots, SizeAssumption DEF IInv, TypeOK
  <1>3. \A i \in 1..Count : elements'[SlotOf(i - 1)] = elements[SlotOf(i - 1)]
    BY <1>2, LiveSlots DEF PushWrite, IInv, TypeOK
  <1>4. QED
    BY <1>1, <1>3 DEF Contents

(* Publishing write_position appends the pushed element.                   *)
LEMMA PublishAppends ==
    ASSUME IInv, PushPublish
    PROVE  /\ Count < meta.entry_num
           /\ Contents' = Append(Contents, pval)
  <1>1. /\ meta.entry_num \in 0..MAX_SIZE
        /\ read_position \in 0..meta.entry_num
        /\ write_position \in 0..meta.entry_num
        /\ Count \in Nat
    BY SizeAssumption, LiveSlots DEF IInv, TypeOK
  <1>2. Count < meta.entry_num
    BY <1>1, LiveSlots DEF PushPublish, IInv
  <1>3. Count' = Count + 1
    BY <1>1, <1>2, NextSlotInv DEF PushPublish, Count, Modulus
  <1>4. \A i \in 1..Count + 1 : SlotOf(i - 1)' = SlotOf(i - 1)
    BY DEF PushPublish, SlotOf, Modulus
  <1>5. elements[SlotOf(Count)] = pval
    BY LiveSlots DEF PushPublish, IInv
  <1>6. Contents' = [i \in 1..Count + 1 |-> elements[SlotOf(i - 1)]]
    BY <1>3, <1>4 DEF Contents, PushPublish
  <1>7. \A i \in 1..Count + 1 :
          elements[SlotOf(i - 1)] = IF i = Count + 1 THEN pval
                                                     ELSE Contents[i]
    BY <1>1, <1>5, ContentsSeq
  <1>8. Append(Contents, pval) =
          [i \in 1..Count + 1 |-> IF i = Count + 1 THEN pval ELSE Contents[i]]
    <2>1. pval \in Elem \cup {NoElem}
      BY DEF IInv, TypeOK
    <2>2. QED
      BY <2>1, ContentsSeq, AppendAsFunction
  <1>9. QED
    BY <1>2, <1>6, <1>7, <1>8

(* Advancing read_position removes the element that get_and_pop copied.    *)
LEMMA AdvancePops ==
    ASSUME IInv, PopAdvance
    PROVE  /\ Contents # <<>>
           /\ cval = Head(Contents)
           /\ Contents' = Tail(Contents)
  <1>1. /\ meta.entry_num \in 0..MAX_SIZE
        /\ read_position \in 0..meta.entry_num
        /\ write_position \in 0..meta.entry_num
        /\ Count \in 0..meta.entry_num
        /\ Count # 0
    BY SizeAssumption, LiveSlots DEF IInv, TypeOK, PopAdvance
  <1>2. Contents # <<>> /\ cval = Head(Contents)
    BY <1>1, LiveSlots, ContentsSeq DEF PopAdvance, IInv
  <1>3. Count' = Count - 1
    BY <1>1, NextSlotInv DEF PopAdvance, Count, Modulus
  <1>4. \A i \in 1..Count - 1 : SlotOf(i - 1)' = SlotOf(i)
    BY <1>1, NextSlotInv DEF PopAdvance, SlotOf, Modulus, Count
  <1>5. Contents' = [i \in 1..Count - 1 |-> elements[SlotOf(i)]]
    BY <1>3, <1>4 DEF Contents, PopAdvance
  <1>6. \A i \in 1..Count - 1 : Contents[i + 1] = elements[SlotOf(i)]
    BY <1>1, ContentsSeq
  <1>7. Tail(Contents) = [i \in 1..Count - 1 |-> Contents[i + 1]]
    BY <1>2, ContentsSeq, TailAsFunction
  <1>8. QED
    BY <1>2, <1>5, <1>6, <1>7
-----------------------------------------------------------------------------
(* A step that leaves the positions, entry_num and the elements alone      *)
(* leaves the contents alone.                                              *)
LEMMA SameContents ==
    ASSUME UNCHANGED <<read_position, write_position, elements>>,
           meta.entry_num' = meta.entry_num
    PROVE  Contents' = Contents
  BY DEF Contents, Count, SlotOf, Modulus

(* Every step of the queue is a step of Fifo or changes nothing Fifo sees. *)
LEMMA StepSimulation == IInv /\ IInv' /\ [Next]_vars => [fifo!Next]_(fifo!vars)
  <1> SUFFICES ASSUME IInv, IInv', [Next]_vars PROVE [fifo!Next]_(fifo!vars)
    OBVIOUS
  <1> USE DEF storage, producerVars, consumerVars, fifo!vars
  <1>1. ASSUME NEW n \in 0..MAX_SIZE + 1, ProducerCreate(n)
        PROVE  UNCHANGED fifo!vars
    BY <1>1, SameContents DEF ProducerCreate, Opened
  <1>2. ASSUME NEW f \in Stores, InitializeStore(f) PROVE UNCHANGED fifo!vars
    <2>1. empty /\ empty'
      BY <1>2 DEF InitializeStore, IInv, Opened
    <2>2. Contents = <<>>
      BY <2>1, ContentsSeq
    <2>3. Contents' = <<>>
      <3>1. read_position' = 0 /\ write_position' = 0
        BY <1>2, <2>1 DEF InitializeStore, IInv, Opened, empty
      <3>2. Count' = 0
        BY <3>1 DEF Count, Modulus
      <3>3. QED
        BY <3>2 DEF Contents
    <2>4. QED
      BY <1>2, <2>2, <2>3 DEF InitializeStore, Opened
  <1>3. CASE ProducerAttach
    <2>1. Contents' = Contents
      BY <1>3, SameContents DEF ProducerAttach
    <2>2. CASE ppc = "detached"
      BY <1>3, <2>1, <2>2 DEF ProducerAttach, Opened
    <2>3. CASE ppc = "initialize"
      <3>1. Contents = <<>>
        BY <2>3, ContentsSeq DEF IInv, Opened
      <3>2. meta.entry_num \in Nat
        BY SizeAssumption DEF IInv, TypeOK
      <3>3. fifo!Open
        BY <1>3, <2>1, <3>1, <3>2 DEF ProducerAttach, Opened, fifo!Open
      <3>4. QED
        BY <3>3 DEF fifo!Next
    <2>4. QED
      BY <1>3, <2>2, <2>3 DEF ProducerAttach
  <1>4. CASE ProducerDestroy
    BY <1>4, SameContents DEF ProducerDestroy, Opened
  <1>5. ASSUME NEW e \in Elem, PushBegin(e) PROVE [fifo!Next]_(fifo!vars)
    <2>1. Contents' = Contents
      BY <1>5, SameContents DEF PushBegin
    <2>2. CASE ~full
      BY <1>5, <2>1, <2>2 DEF PushBegin, Opened
    <2>3. CASE full
      <3>1. Len(Contents) = meta.entry_num
        BY <2>3, LiveSlots, ContentsSeq
      <3>2. fifo!PushFull
        BY <1>5, <2>1, <2>3, <3>1 DEF PushBegin, Opened, fifo!PushFull
      <3>3. QED
        BY <3>2 DEF fifo!Next
    <2>4. QED
      BY <2>2, <2>3
  <1>6. CASE PushWrite
    BY <1>6, WriteKeepsContents DEF PushWrite, Opened
  <1>7. CASE PushPublish
    <2>1. pval \in Elem
      BY <1>7 DEF PushPublish, IInv
    <2>2. fifo!Push(pval)
      BY <1>7, PublishAppends, ContentsSeq DEF PushPublish, Opened, fifo!Push
    <2>3. QED
      BY <2>1, <2>2 DEF fifo!Next
  <1>8. CASE ConsumerCreate
    BY <1>8, SameContents DEF ConsumerCreate, Opened
  <1>9. CASE GetBegin
    <2>1. Contents' = Contents
      BY <1>9, SameContents DEF GetBegin
    <2>2. CASE ~empty
      BY <1>9, <2>1, <2>2 DEF GetBegin, Opened
    <2>3. CASE empty
      <3>1. fifo!PopEmpty
        BY <1>9, <2>1, <2>3, ContentsSeq DEF GetBegin, Opened, fifo!PopEmpty
      <3>2. QED
        BY <3>1 DEF fifo!Next
    <2>4. QED
      BY <2>2, <2>3
  <1>10. CASE Front
    BY <1>10, SameContents DEF Front, Opened
  <1>11. CASE PopBegin
    BY <1>11, SameContents DEF PopBegin, IInv, Opened
  <1>12. CASE PopAdvance
    <2>1. fifo!Pop
      BY <1>12, AdvancePops DEF PopAdvance, Opened, fifo!Pop
    <2>2. QED
      BY <2>1 DEF fifo!Next
  <1>13. CASE UNCHANGED vars
    BY <1>13, SameContents DEF vars, Opened
  <1>14. QED
    BY <1>1, <1>2, <1>3, <1>4, <1>5, <1>6, <1>7, <1>8, <1>9, <1>10, <1>11,
       <1>12, <1>13
    DEF Next, ProducerStep, ConsumerStep

(* The two-sided queue implements the atomic bounded FIFO for every        *)
(* MAX_SIZE, every entry_num and every set of elements.                    *)
THEOREM Implements == Spec => IsFifo
  <1>1. Init => fifo!Init
    BY DEF Init, fifo!Init, Opened, Contents, Count
  <1>2. QED
    BY <1>1, StepSimulation, Invariance, PTL DEF Spec, IsFifo, fifo!Spec
=============================================================================
