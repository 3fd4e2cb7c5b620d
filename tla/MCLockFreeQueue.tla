--------------------------- MODULE MCLockFreeQueue ---------------------------
(* Two model values as the elements of LockFreeQueue.                         *)
EXTENDS LockFreeQueue

CONSTANTS e1, e2

MCElem == {e1, e2}
=============================================================================
