--------------------------- MODULE MCIdempotency ---------------------------
(* TLC instances of Idempotency: the requests of PlainReq carry the same    *)
(* payload, the others reuse the key with another one.                      *)
EXTENDS Idempotency, TLC

CONSTANTS PlainReq, PlainHash, OtherHash

MCHashOf == [r \in Req |-> IF r \in PlainReq THEN PlainHash ELSE OtherHash]

MCSymmetry == Permutations(PlainReq)
=============================================================================
