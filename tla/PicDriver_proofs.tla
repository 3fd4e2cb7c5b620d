-------------------------- MODULE PicDriver_proofs --------------------------
(***************************************************************************)
(* However interrupts of the two chips nest, one eoi() per handler leaves  *)
(* nothing in service: ServicesEnd, for every set of connected pins and    *)
(* every vector base.                                                      *)
(***************************************************************************)
EXTENDS PicDriver, FiniteSetTheorems, WellFoundedInduction, TLAPS

master_pins == Pins \ slave_pins

(* The master has as many pins in service as handlers have still to call   *)
(* eoi(); the slave has at most one, and then the cascade pin is in        *)
(* service, because it keeps the other slave pins back.                    *)
IInv ==
    /\ pic \in [imr : SUBSET Pins, irr : SUBSET Pins, isr : SUBSET Pins]
    /\ handlers = Cardinality(pic.isr \cap master_pins)
    /\ \A a, b \in pic.isr \cap slave_pins : a = b
    /\ pic.isr \cap slave_pins # {} => CASCADE_IRQ \in pic.isr

(* A chip with a pin in service has one of lowest number.                  *)
LEMMA MinExists ==
    ASSUME NEW S \in SUBSET Pins, S # {}
    PROVE  Min(S) \in S /\ \A x \in S : Min(S) <= x
<1>1. S \subseteq Nat BY DEF Pins, PINS
<1>2. PICK n \in S : \A x \in S : ~(<<x, n>> \in OpToRel(<, Nat))
  BY <1>1, WFMin, NatLessThanWellFounded
<1>3. \A x \in S : ~(<<x, n>> \in {ss \in Nat \X Nat : ss[1] < ss[2]})
  BY <1>2, Zenon DEF OpToRel
<1>4. ASSUME NEW x \in S PROVE n <= x
  <2>1. x \in Nat /\ n \in Nat BY <1>1
  <2>2. x < n => <<x, n>> \in {ss \in Nat \X Nat : ss[1] < ss[2]} BY <2>1
  <2>3. ~(x < n) BY <1>3, <2>2, Zenon
  <2> QED BY <2>1, <2>3
<1> QED BY <1>4 DEF Min

(* Likewise the register that eoi() reads has a highest bit.               *)
LEMMA MaxExists ==
    ASSUME NEW S \in SUBSET Pins, S # {}
    PROVE  Max(S) \in S /\ \A x \in S : x <= Max(S)
<1> DEFINE R == {15 - x : x \in S}
<1>1. R \in SUBSET Pins /\ R # {}
  <2>1. \A x \in S : 15 - x \in Pins BY DEF Pins, PINS
  <2> QED BY <2>1
<1>2. Min(R) \in R /\ \A y \in R : Min(R) <= y BY <1>1, MinExists
<1>3. PICK m \in S : Min(R) = 15 - m BY <1>2
<1>4. \A x \in S : x <= m
  <2>1. TAKE x \in S
  <2>2. 15 - x \in R OBVIOUS
  <2>3. 15 - m <= 15 - x BY <1>2, <1>3, <2>2
  <2> QED BY <2>3 DEF Pins, PINS
<1> QED BY <1>4 DEF Max, Pins, PINS

(* Counting the pins in service is sound, as there are finitely many.      *)
LEMMA PinsFinite ==
    ASSUME NEW S \in SUBSET Pins
    PROVE  IsFiniteSet(S) /\ Cardinality(S) \in Nat
<1>0. 0 \in Int /\ 15 \in Int OBVIOUS
<1>1. IsFiniteSet(0..15) BY <1>0, FS_Interval, Zenon
<1>2. S \in SUBSET (0..15) BY DEF Pins, PINS
<1>3. IsFiniteSet(S) BY <1>1, <1>2, FS_Subset
<1> QED BY <1>3, FS_CardinalityType

(* The acknowledge cycle serves a request that was deliverable.            *)
LEMMA IntaPin ==
    ASSUME pic \in [imr : SUBSET Pins, irr : SUBSET Pins, isr : SUBSET Pins],
           intr(pic)
    PROVE  inta_pin(pic) \in deliverable(pic)
<1> DEFINE D == deliverable(pic)
           F == Min({master_pin(pin) : pin \in D})
           C == {pin \in D : master_pin(pin) = F}
<1>1. D \in SUBSET Pins /\ D # {} BY DEF deliverable, intr
<1>2. {master_pin(pin) : pin \in D} \in SUBSET Pins
  BY <1>1 DEF master_pin, CASCADE_IRQ, Pins, PINS
<1>3. F \in {master_pin(pin) : pin \in D}
  <2> DEFINE Q == {master_pin(pin) : pin \in D}
  <2>1. Q \in SUBSET Pins /\ Q # {} BY <1>1, <1>2
  <2> HIDE DEF Q
  <2>2. Min(Q) \in Q BY <2>1, MinExists
  <2> QED BY <2>2 DEF Q
<1>4. C \in SUBSET Pins /\ C # {} BY <1>1, <1>3
<1>5. Min(C) \in C BY <1>4, MinExists
<1> QED BY <1>5 DEF inta_pin


(* A step that leaves the in-service register and the handlers alone.      *)
LEMMA ServicesKept ==
    ASSUME IInv, UNCHANGED handlers,
           pic' \in [imr : SUBSET Pins, irr : SUBSET Pins, isr : SUBSET Pins],
           pic'.isr = pic.isr
    PROVE  IInv'
BY DEF IInv

(* Taking an interrupt adds one pin of the master to those in service, and *)
(* one of the slave only if there was none.                                *)
LEMMA TakeKeeps ==
    ASSUME IInv, Take
    PROVE  IInv'
<1> DEFINE pin == inta_pin(pic)
           mp == master_pin(pin)
           M == pic.isr \cap master_pins
<1>1. pic \in [imr : SUBSET Pins, irr : SUBSET Pins, isr : SUBSET Pins] BY DEF IInv
<1>2. pin \in deliverable(pic) BY <1>1, IntaPin DEF Take
<1>3. pin \in Pins /\ (\A s \in pic.isr \ slave_pins : mp < s)
  BY <1>1, <1>2 DEF deliverable
<1>4. /\ pic' = [pic EXCEPT !.irr = @ \ {pin}, !.isr = @ \cup {pin, mp}]
      /\ handlers' = handlers + 1
  BY DEF Take, inta
<1> HIDE DEF pin
<1>5. mp \in master_pins /\ mp = (IF pin \in slave_pins THEN 2 ELSE pin)
  BY <1>3 DEF master_pin, master_pins, slave_pins, CASCADE_IRQ, Pins, PINS, PINS_PER_PIC
<1>6. mp \notin M
  BY <1>3, <1>5 DEF master_pins, slave_pins, Pins, PINS, PINS_PER_PIC
<1> HIDE DEF mp
<1>7. /\ pic' \in [imr : SUBSET Pins, irr : SUBSET Pins, isr : SUBSET Pins]
      /\ pic'.isr = pic.isr \cup {pin, mp}
  BY <1>1, <1>3, <1>4, <1>5 DEF master_pins
<1>8. handlers' = Cardinality(pic'.isr \cap master_pins)
  <2>1. pic'.isr \cap master_pins = M \cup {mp}
    BY <1>3, <1>5, <1>7 DEF master_pins
  <2>2. M \in SUBSET Pins BY <1>1
  <2>3. Cardinality(M \cup {mp}) = Cardinality(M) + 1
    BY <2>2, <1>6, PinsFinite, FS_AddElement
  <2> QED BY <2>1, <2>3, <1>4 DEF IInv
<1>9. CASE pin \in slave_pins
  <2>1. mp = CASCADE_IRQ BY <1>5, <1>9 DEF CASCADE_IRQ
  <2>2. pic.isr \cap slave_pins = {}
    BY <1>6, <2>1, <1>5 DEF IInv
  <2>3. pic'.isr \cap slave_pins = {pin} /\ CASCADE_IRQ \in pic'.isr
    BY <1>5, <1>7, <1>9, <2>1, <2>2 DEF master_pins
  <2> QED BY <1>7, <1>8, <2>3 DEF IInv
<1>10. CASE pin \notin slave_pins
  <2>1. pic'.isr \cap slave_pins = pic.isr \cap slave_pins
    BY <1>5, <1>7, <1>10 DEF master_pins
  <2> QED BY <1>7, <1>8, <2>1 DEF IInv
<1> QED BY <1>9, <1>10

(* eoi() removes exactly one pin of the master; if a pin of the slave is   *)
(* in service, it is the highest of all and is removed as well.            *)
LEMMA EoiKeeps ==
    ASSUME IInv, Eoi
    PROVE  IInv'
<1> DEFINE M == pic.isr \cap master_pins
           V == pic.isr \cap slave_pins
           p1 == IF V # {} THEN [pic EXCEPT !.isr = @ \ V] ELSE pic
<1>1. pic \in [imr : SUBSET Pins, irr : SUBSET Pins, isr : SUBSET Pins] BY DEF IInv
<1>2. M \in SUBSET Pins /\ V \in SUBSET Pins BY <1>1
<1>3. M # {}
  BY <1>2, PinsFinite, FS_EmptySet DEF IInv, Eoi
<1>4. Max(pic.isr) \in pic.isr /\ \A x \in pic.isr : x <= Max(pic.isr)
  BY <1>1, <1>3, MaxExists
<1>5. vector_base \in Int /\ highest_pending_isr_vec(pic) = Max(pic.isr) + vector_base
  BY <1>3, VectorBaseAligned DEF highest_pending_isr_vec
<1>6. Max(pic.isr) \in slave_pins <=> V # {}
  BY <1>1, <1>4 DEF slave_pins, Pins, PINS, PINS_PER_PIC
<1>7. /\ highest_pending_isr_vec(pic) # NoVector
      /\ is_slave_vector(highest_pending_isr_vec(pic)) <=> V # {}
  BY <1>1, <1>4, <1>5, <1>6, VectorBaseAligned
  DEF NoVector, is_slave_vector, slave_pins, Pins, PINS, PINS_PER_PIC
<1>8. V # {} => V = {Min(V)}
  BY <1>2, MinExists DEF IInv
<1>9. eoi(pic) = eoi_command(p1, master_pins)
  BY <1>7, <1>8 DEF eoi, eoi_command, master_pins
<1>10. /\ p1 \in [imr : SUBSET Pins, irr : SUBSET Pins, isr : SUBSET Pins]
       /\ p1.isr = M
  BY <1>1 DEF master_pins
<1>11. Min(M) \in M BY <1>2, <1>3, MinExists
<1>12. M \cap master_pins = M OBVIOUS
<1>13. /\ pic' = [p1 EXCEPT !.isr = M \ {Min(M)}]
       /\ handlers' = handlers - 1
  BY <1>3, <1>9, <1>10, <1>12 DEF Eoi, eoi_command
<1> HIDE DEF p1
<1>14. /\ pic' \in [imr : SUBSET Pins, irr : SUBSET Pins, isr : SUBSET Pins]
       /\ pic'.isr = M \ {Min(M)}
  BY <1>2, <1>10, <1>13
<1>15. Cardinality(M \ {Min(M)}) = Cardinality(M) - 1
  <2>1. IsFiniteSet(M) BY <1>2, PinsFinite
  <2> HIDE DEF M
  <2> QED BY <2>1, <1>11, FS_RemoveElement
<1>16. pic'.isr \cap master_pins = M \ {Min(M)} /\ pic'.isr \cap slave_pins = {}
  BY <1>14 DEF master_pins
<1> QED BY <1>13, <1>14, <1>15, <1>16 DEF IInv


(* IInv holds in every state of the driver in use.                         *)
THEOREM Invariance == Spec => []IInv
<1>1. Init => IInv
  <2> SUFFICES ASSUME Init PROVE IInv OBVIOUS
  <2>1. /\ pic \in [imr : SUBSET Pins, irr : SUBSET Pins, isr : SUBSET Pins]
        /\ pic.isr = {} /\ handlers = 0
    BY DEF Init, pic_init, mask_all
  <2>2. pic.isr \cap master_pins = {} BY <2>1
  <2> QED BY <2>1, <2>2, FS_EmptySet DEF IInv
<1>2. IInv /\ [Next]_vars => IInv'
  <2> SUFFICES ASSUME IInv, [Next]_vars PROVE IInv' OBVIOUS
  <2>0. pic \in [imr : SUBSET Pins, irr : SUBSET Pins, isr : SUBSET Pins] BY DEF IInv
  <2>1. CASE Unmask
    <3>1. /\ pic' \in [imr : SUBSET Pins, irr : SUBSET Pins, isr : SUBSET Pins]
          /\ pic'.isr = pic.isr
      BY <2>0, <2>1 DEF Unmask, unmask, unmask_master
    <3> QED BY <2>1, <3>1, ServicesKept DEF Unmask
  <2>2. CASE Mask
    <3>1. PICK vec \in Vectors : pic' = mask(pic, vec) BY <2>2 DEF Mask
    <3>2. vec - vector_base \in Pins
      BY LinesArePins, VectorBaseAligned DEF Vectors, Pins, PINS
    <3>3. /\ pic' \in [imr : SUBSET Pins, irr : SUBSET Pins, isr : SUBSET Pins]
          /\ pic'.isr = pic.isr
      BY <2>0, <3>1, <3>2 DEF mask
    <3> QED BY <2>2, <3>3, ServicesKept DEF Mask
  <2>3. CASE MaskAll \/ UnmaskAll
    <3>1. /\ pic' \in [imr : SUBSET Pins, irr : SUBSET Pins, isr : SUBSET Pins]
          /\ pic'.isr = pic.isr
      BY <2>0, <2>3 DEF MaskAll, UnmaskAll, mask_all, unmask_all
    <3> QED BY <2>3, <3>1, ServicesKept DEF MaskAll, UnmaskAll
  <2>4. CASE Raise
    <3>1. /\ pic' \in [imr : SUBSET Pins, irr : SUBSET Pins, isr : SUBSET Pins]
          /\ pic'.isr = pic.isr
      BY <2>0, <2>4, LinesArePins DEF Raise, raise_pin
    <3> QED BY <2>4, <3>1, ServicesKept DEF Raise
  <2>5. CASE Take BY <2>5, TakeKeeps
  <2>6. CASE Eoi BY <2>6, EoiKeeps
  <2>7. CASE UNCHANGED vars BY <2>7 DEF IInv, vars
  <2> QED BY <2>1, <2>2, <2>3, <2>4, <2>5, <2>6, <2>7 DEF Next
<1> QED BY <1>1, <1>2, PTL DEF Spec

(* With no handler left, the count leaves no pin of the master in service, *)
(* and without the cascade pin none of the slave.                          *)
THEOREM NoServiceLeft == Spec => []ServicesEnd
<1>1. IInv => ServicesEnd
  <2> SUFFICES ASSUME IInv, handlers = 0 PROVE pic.isr = {} BY DEF ServicesEnd
  <2>1. pic.isr \cap master_pins \in SUBSET Pins BY DEF IInv
  <2>2. pic.isr \cap master_pins = {} BY <2>1, PinsFinite, FS_EmptySet DEF IInv
  <2>3. CASCADE_IRQ \in master_pins
    BY DEF CASCADE_IRQ, master_pins, slave_pins, Pins, PINS, PINS_PER_PIC
  <2>4. pic.isr \cap slave_pins = {} BY <2>2, <2>3 DEF IInv
  <2>5. pic.isr \subseteq Pins BY DEF IInv
  <2> QED BY <2>2, <2>4, <2>5 DEF master_pins
<1> QED BY <1>1, Invariance, PTL
====
