----------------------------- MODULE PicDriver ------------------------------
(***************************************************************************)
(* The PIC driver in use: software masks and unmasks vectors, devices      *)
(* raise pins, the CPU takes interrupts, nested ones included, and every   *)
(* handler ends with one eoi().                                            *)
(***************************************************************************)
EXTENDS Pic

CONSTANT Lines           \* the pins that devices are connected to

ASSUME LinesArePins == Lines \subseteq Pins

VARIABLES
    pic,        \* registers of the pair
    unmasked,   \* vectors whose last call was unmask()
    handlers    \* interrupts taken whose handler has not called eoi() yet

vars == <<pic, unmasked, handlers>>
Vectors == {vector_base + pin : pin \in Lines}

Init == pic = pic_init /\ unmasked = {} /\ handlers = 0

Unmask ==
    \E vec \in Vectors :
        /\ pic' = unmask(pic, vec)
        /\ unmasked' = unmasked \cup {vec}
        /\ UNCHANGED handlers

Mask ==
    \E vec \in Vectors :
        /\ pic' = mask(pic, vec)
        /\ unmasked' = unmasked \ {vec}
        /\ UNCHANGED handlers

MaskAll == pic' = mask_all(pic) /\ unmasked' = {} /\ UNCHANGED handlers

UnmaskAll == pic' = unmask_all(pic) /\ unmasked' = Vectors /\ UNCHANGED handlers

Raise ==
    \E pin \in Lines :
        /\ pic' = raise_pin(pic, pin)
        /\ UNCHANGED <<unmasked, handlers>>

Take ==
    /\ intr(pic)
    /\ pic' = inta(pic)
    /\ handlers' = handlers + 1
    /\ UNCHANGED unmasked

Eoi ==
    /\ handlers > 0
    /\ pic' = eoi(pic)
    /\ handlers' = handlers - 1
    /\ UNCHANGED unmasked

Next == Unmask \/ Mask \/ MaskAll \/ UnmaskAll \/ Raise \/ Take \/ Eoi

Spec == Init /\ [][Next]_vars

(* The driver "abstracts over the combined unit" the two chips form: once  *)
(* unmask() was called for a vector, a request of its pin gets to the CPU  *)
(* when nothing else is in service.                                        *)
UnmaskedArrives ==
    \A vec \in unmasked :
        pic.isr = {} =>
            vec - vector_base \in deliverable(raise_pin(pic, vec - vector_base))

(* When every handler has called eoi(), no interrupt is left in service,   *)
(* although eoi() ends the wrong one when a master pin interrupts the      *)
(* service of a slave pin.                                                 *)
ServicesEnd == handlers = 0 => pic.isr = {}

====
