---------------------------- MODULE MCAccounts ----------------------------
(* TLC instance of Accounts: requests, e-mails and passwords are            *)
(* interchangeable.                                                         *)
EXTENDS Accounts, TLC

Interchangeable == {f @@ g @@ h : f \in Permutations(Call), g \in Permutations(Email),
                                  h \in Permutations(Password)}
=============================================================================
