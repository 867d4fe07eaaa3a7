---------------------------- MODULE OnceContract ----------------------------
(* What an idempotency key promises its callers, with no lock, no fence and *)
(* no waiting: the key is a register for a response.  A call whose handler  *)
(* took effect may store its own, and a call is answered with what the      *)
(* register holds, if that is for its payload.  As long as nothing fails    *)
(* one handler takes effect, the register is written once and an answer     *)
(* stands; a failure may cost any of the three.                             *)
CONSTANTS Call, PayloadOf, None

VARIABLES
    executed,   \* the calls whose handler took effect
    stored,     \* the call whose response the register holds
    answer,     \* answer[c] : the call whose response c is answered with
    calm        \* nothing has failed

vars == <<executed, stored, answer, calm>>

Init == /\ executed = {}
        /\ stored = None
        /\ answer = [c \in Call |-> None]
        /\ calm = TRUE

Execute(c) == /\ c \notin executed
              /\ calm => executed = {}
              /\ executed' = executed \cup {c}
              /\ UNCHANGED <<stored, answer>>

\* A store that fails may be applied all the same: the call is not answered.
Store(c) == /\ c \in executed
            /\ calm' => stored = None
            /\ stored' = c
            /\ UNCHANGED executed

StoreSilently(c) == Store(c) /\ ~calm' /\ UNCHANGED answer

Respond(c) == Store(c) /\ answer[c] = None /\ answer' = [answer EXCEPT ![c] = c]

Replay(c) == /\ stored # None
             /\ PayloadOf[stored] = PayloadOf[c]
             /\ answer[c] = None
             /\ answer' = [answer EXCEPT ![c] = stored]
             /\ UNCHANGED <<executed, stored>>

\* A failure on the way out turns the answer into an error.
Withdraw(c) == /\ ~calm'
               /\ answer' = [answer EXCEPT ![c] = None]
               /\ UNCHANGED <<executed, stored>>

Next == /\ calm' => calm
        /\ \/ \E c \in Call : \/ Execute(c) \/ StoreSilently(c) \/ Respond(c)
                              \/ Replay(c) \/ Withdraw(c)
           \/ UNCHANGED <<executed, stored, answer>>

Spec == Init /\ [][Next]_vars
=============================================================================
