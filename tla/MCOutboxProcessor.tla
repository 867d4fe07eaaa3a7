------------------------- MODULE MCOutboxProcessor -------------------------
(* TLC instances of OutboxProcessor.                                       *)
EXTENDS OutboxProcessor, TLC

\* The first retry waits a unit of time, later ones none.
MCRetryDelay == [a \in 1 .. MaxAttempts |-> IF a = 1 THEN 1 ELSE 0]

MCSymmetry == Permutations(Proc) \cup Permutations(Token)
=============================================================================
