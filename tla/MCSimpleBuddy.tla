---------------------------- MODULE MCSimpleBuddy ----------------------------
(* Powers of two for the TLC runs of SimpleBuddy.                          *)
EXTENDS SimpleBuddy

MCSize == [o \in 0..Bits |-> 2^o]
=============================================================================
