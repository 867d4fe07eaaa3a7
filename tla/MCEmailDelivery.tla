-------------------------- MODULE MCEmailDelivery --------------------------
(* TLC instances of EmailDelivery.                                         *)
EXTENDS EmailDelivery, TLC

MCSymmetry == Permutations(Slot) \cup Permutations(Token)
=============================================================================
