--------------------------- MODULE FamilyContract ---------------------------
(* What refresh tokens promise: a family is opened once, has one token that *)
(* can be exchanged, hands it over to a token never seen before, and once   *)
(* ended is never alive again.                                              *)
CONSTANTS Token, None

VARIABLES
    live,   \* live[f]: the token family f can exchange, or None
    of      \* of[t]: the family token t was issued in, or None

vars == <<live, of>>

Init == /\ live \in [Token -> Token \cup {None}]
        /\ of \in [Token -> Token \cup {None}]
        /\ \A f \in Token : live[f] # None => of[live[f]] = f

\* The first token of a family, or the next in exchange for the live one.
Issue(t, f) == /\ of[t] = None
               /\ live[f] # None \/ \A u \in Token : of[u] # f
               /\ live' = [live EXCEPT ![f] = t]
               /\ of' = [of EXCEPT ![t] = f]

End(f) == /\ live[f] # None
          /\ live' = [live EXCEPT ![f] = None]
          /\ UNCHANGED of

Next == \E f \in Token : End(f) \/ \E t \in Token : Issue(t, f)

Spec == Init /\ [][Next]_vars
=============================================================================
