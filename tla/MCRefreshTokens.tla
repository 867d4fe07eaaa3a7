-------------------------- MODULE MCRefreshTokens --------------------------
(* TLC instance of RefreshTokens: requests are interchangeable.           *)
EXTENDS RefreshTokens, TLC

Interchangeable == Permutations(Call)
=============================================================================
