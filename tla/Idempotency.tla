---------------------------- MODULE Idempotency ----------------------------
(* RedisIdempotencyService.execute() for one scope and key: concurrent HTTP  *)
(* requests race for the lock, fence and result keys in Redis, the one that  *)
(* gets the lock runs the handler, the others wait for its result.           *)
(*                                                                           *)
(* Every Redis command or script is one atomic step; between two of them any *)
(* other request may act, the lock may expire, the process may die.  The     *)
(* fence and the result outlive the requests (ttlSeconds is hours), so only  *)
(* the lock expires.                                                         *)
EXTENDS Naturals, FiniteSets

CONSTANTS
    Req,        \* the requests that carry the key; each draws its own lock token
    Hash,       \* request hashes
    HashOf,     \* HashOf[r] : requestHash of r
    None,       \* a missing Redis key, no answer
    MaxFaults   \* bound on crashes, Redis errors and live locks that expire

ASSUME RequestsAssumption ==
    /\ HashOf \in [Req -> Hash]
    /\ None \notin Req \cup Hash
    /\ MaxFaults \in Nat

VARIABLES
    lock,       \* the request whose token the lock key holds
    fence,      \* the hash the fence key holds
    result,     \* the request whose response the result key holds
    req,        \* req[r] : the local state of r's execute() call
    executed,   \* history: requests whose handler succeeded
    faults

vars == <<lock, fence, result, req, executed, faults>>
keys == <<lock, fence, result>>

Errors == {"none", "keyReused", "outcomeUnknown", "inProgress", "handler", "redis"}

Waits == {"waiting", "waitLock", "waitFence", "lastLook"}
Holds == {"recheck", "running", "completing", "persisting"}

NewCall == [pc |-> "new", lost |-> FALSE, sawFence |-> FALSE, ok |-> FALSE,
            answer |-> None, error |-> "none"]

Goto(r, pc) == req' = [req EXCEPT ![r].pc = pc]
Fail(r, error, pc) == req' = [req EXCEPT ![r].pc = pc, ![r].answer = None, ![r].error = error]
Answer(r, from, pc) == req' = [req EXCEPT ![r].pc = pc, ![r].answer = from]

\* Mutant: the stored response is replayed whatever it was stored for.
Replay_AnyPayload(r, pc) == Answer(r, result, pc)

\* parseStoredResult(): the stored response, if it is of the same payload.
Replay(r, pc) == IF HashOf[result] = HashOf[r] THEN Answer(r, result, pc)
                                               ELSE Fail(r, "keyReused", pc)

Init == /\ lock = None /\ fence = None /\ result = None
        /\ req = [r \in Req |-> NewCall]
        /\ executed = {}
        /\ faults = 0

-----------------------------------------------------------------------------
(* Up to the lock.                                                          *)

GetResult(r) ==
    /\ req[r].pc = "new"
    /\ IF result # None THEN Replay(r, "done") ELSE Goto(r, "checkFence")
    /\ UNCHANGED <<keys, executed, faults>>

CheckFence(r) ==
    /\ req[r].pc = "checkFence"
    /\ CASE fence = None -> Goto(r, "acquire")
         [] fence = HashOf[r] -> Fail(r, "outcomeUnknown", "done")
         [] OTHER -> Fail(r, "keyReused", "done")
    /\ UNCHANGED <<keys, executed, faults>>

\* Mutant: the script's two values are passed in the wrong order.
TakeLock_Swapped(r) == /\ lock = None
                       /\ lock' = HashOf[r]
                       /\ fence' = r
                       /\ UNCHANGED result

\* acquireIdempotencyLockWithFence(): SET NX the lock, then the fence over
\* whatever fence there is.
TakeLock(r) == /\ lock = None
               /\ lock' = r
               /\ fence' = HashOf[r]
               /\ UNCHANGED result

Acquire(r) ==
    /\ req[r].pc = "acquire"
    /\ \/ TakeLock(r) /\ Goto(r, "recheck")
       \/ lock # None /\ Goto(r, "waiting") /\ UNCHANGED keys
    /\ UNCHANGED <<executed, faults>>

-----------------------------------------------------------------------------
(* waitForResult().                                                         *)

\* Mutant: a wait with nothing left to wait for goes on.
GiveUp_Never(r) == Goto(r, "waiting")

GiveUp(r) == IF req[r].sawFence THEN Goto(r, "lastLook") ELSE Fail(r, "inProgress", "done")

WaitResult(r) ==
    /\ req[r].pc = "waiting"
    /\ IF result # None THEN Replay(r, "done") ELSE Goto(r, "waitLock")
    /\ UNCHANGED <<keys, executed, faults>>

WaitLock(r) ==
    /\ req[r].pc = "waitLock"
    /\ Goto(r, IF lock # None THEN "waiting" ELSE "waitFence")
    /\ UNCHANGED <<keys, executed, faults>>

WaitFence(r) ==
    /\ req[r].pc = "waitFence"
    /\ CASE fence = None -> GiveUp(r)
         [] fence = HashOf[r] -> req' = [req EXCEPT ![r].pc = "waiting", ![r].sawFence = TRUE]
         [] OTHER -> Fail(r, "keyReused", "done")
    /\ UNCHANGED <<keys, executed, faults>>

WaitTimeout(r) ==
    /\ req[r].pc = "waiting"
    /\ GiveUp(r)
    /\ UNCHANGED <<keys, executed, faults>>

LastLook(r) ==
    /\ req[r].pc = "lastLook"
    /\ IF result # None THEN Replay(r, "done") ELSE Fail(r, "outcomeUnknown", "done")
    /\ UNCHANGED <<keys, executed, faults>>

-----------------------------------------------------------------------------
(* With the lock.                                                           *)

\* Mutant: no second look for a result once the lock is taken.
Recheck_Skipped(r) ==
    /\ req[r].pc = "recheck"
    /\ Goto(r, "running")
    /\ UNCHANGED <<keys, executed, faults>>

Recheck(r) ==
    /\ req[r].pc = "recheck"
    /\ IF result # None THEN Replay(r, "unlock") ELSE Goto(r, "running")
    /\ UNCHANGED <<keys, executed, faults>>

\* A heartbeat that finds another token, or none; one that finds its own
\* token only renews the lock.
HeartbeatLosesLock(r) ==
    /\ req[r].pc \in {"recheck", "running"}
    /\ lock # r /\ ~req[r].lost
    /\ req' = [req EXCEPT ![r].lost = TRUE]
    /\ UNCHANGED <<keys, executed, faults>>

HandlerSucceeds(r) ==
    /\ req[r].pc = "running"
    /\ req' = [req EXCEPT ![r].ok = TRUE,
                          ![r].pc = IF req[r].lost THEN "persisting" ELSE "completing"]
    /\ executed' = executed \cup {r}
    /\ UNCHANGED <<keys, faults>>

HandlerFails(r) ==
    /\ req[r].pc = "running"
    /\ Fail(r, "handler", "unlock")
    /\ UNCHANGED <<keys, executed, faults>>

\* completeIdempotency(): store the result and drop lock and fence, if the
\* lock is still ours.
Store(r) == /\ lock = r
            /\ result' = r /\ lock' = None /\ fence' = None

Complete(r) ==
    /\ req[r].pc = "completing"
    /\ \/ Store(r) /\ Answer(r, r, "done")
       \/ /\ lock # r
          /\ req' = [req EXCEPT ![r].lost = TRUE, ![r].pc = "persisting"]
          /\ UNCHANGED keys
    /\ UNCHANGED <<executed, faults>>

\* persistIdempotencyResultBestEffort(): the first result stays.
StoreIfMissing(r) == /\ result = None
                     /\ result' = r /\ fence' = None
                     /\ UNCHANGED lock

\* Mutant: a late finisher answers its own response, whatever is stored.
Persist_OwnAnswer(r) ==
    /\ req[r].pc = "persisting"
    /\ Answer(r, r, "done")
    /\ StoreIfMissing(r) \/ (result # None /\ UNCHANGED keys)
    /\ UNCHANGED <<executed, faults>>

\* Once it returns a response the finally block releases nothing.
Persist(r) ==
    /\ req[r].pc = "persisting"
    /\ \/ StoreIfMissing(r) /\ Answer(r, r, "done")
       \/ /\ result # None
          /\ Replay(r, IF HashOf[result] = HashOf[r] THEN "done" ELSE "unlock")
          /\ UNCHANGED keys
    /\ UNCHANGED <<executed, faults>>

\* The finally block of a call that stored nothing: release the lock if it is
\* ours, and drop the fence, whoever set it, if the handler did not succeed.
Unlock(r) ==
    /\ req[r].pc = "unlock"
    /\ lock' = IF lock = r THEN None ELSE lock
    /\ Goto(r, IF req[r].ok THEN "done" ELSE "unfence")
    /\ UNCHANGED <<fence, result, executed, faults>>

\* Mutant: the finally block leaves the fence.
Unfence_Keeps(r) ==
    /\ req[r].pc = "unfence"
    /\ Goto(r, "done")
    /\ UNCHANGED <<keys, executed, faults>>

Unfence(r) ==
    /\ req[r].pc = "unfence"
    /\ fence' = None
    /\ Goto(r, "done")
    /\ UNCHANGED <<lock, result, executed, faults>>

-----------------------------------------------------------------------------
(* Faults.                                                                  *)

Live(r) == req[r].pc \notin {"done", "dead"}

\* The lock's TTL runs out: a fault while its holder still renews it.
LockExpires ==
    /\ lock # None
    /\ lock' = None
    /\ IF Live(lock) THEN faults < MaxFaults /\ faults' = faults + 1 ELSE UNCHANGED faults
    /\ UNCHANGED <<fence, result, req, executed>>

Crash(r) == /\ Live(r)
            /\ Goto(r, "dead")
            /\ UNCHANGED <<keys, executed>>

HeartbeatErrors(r) == /\ req[r].pc \in {"recheck", "running"}
                      /\ req' = [req EXCEPT ![r].lost = TRUE]
                      /\ UNCHANGED <<keys, executed>>

\* A command rejects, applied or not: before the try block execute() throws;
\* inside it the finally block runs; in the finally block it skips the rest.
CommandErrors(r) ==
    /\ \/ /\ req[r].pc \in {"new", "checkFence", "acquire", "unlock", "unfence"} \cup Waits
          /\ Fail(r, "redis", "done")
       \/ req[r].pc \in {"recheck", "completing"} /\ Fail(r, "redis", "unlock")
       \/ req[r].pc = "persisting" /\ Fail(r, "outcomeUnknown", "unlock")
    /\ \/ UNCHANGED keys
       \/ req[r].pc = "acquire" /\ TakeLock(r)
       \/ req[r].pc = "completing" /\ Store(r)
       \/ req[r].pc = "persisting" /\ StoreIfMissing(r)
       \/ req[r].pc = "unlock" /\ lock = r /\ lock' = None /\ UNCHANGED <<fence, result>>
       \/ req[r].pc = "unfence" /\ fence' = None /\ UNCHANGED <<lock, result>>
    /\ UNCHANGED executed

Fault(r) == /\ faults < MaxFaults
            /\ faults' = faults + 1
            /\ Crash(r) \/ HeartbeatErrors(r) \/ CommandErrors(r)

-----------------------------------------------------------------------------
Step(r) == \/ GetResult(r) \/ CheckFence(r) \/ Acquire(r)
           \/ WaitResult(r) \/ WaitLock(r) \/ WaitFence(r) \/ LastLook(r)
           \/ Recheck(r) \/ HandlerSucceeds(r) \/ HandlerFails(r)
           \/ Complete(r) \/ Persist(r) \/ Unlock(r) \/ Unfence(r)

AllEnded == (\A r \in Req : ~Live(r)) /\ lock = None

Terminating == AllEnded /\ UNCHANGED vars

Next == \/ \E r \in Req : Step(r) \/ WaitTimeout(r) \/ HeartbeatLosesLock(r) \/ Fault(r)
        \/ LockExpires
        \/ Terminating

Spec == Init /\ [][Next]_vars

\* Calls run and handlers settle; the deadline of a wait passes while its loop
\* comes back to its head for ever, hence strong fairness.
FairSpec == Spec /\ \A r \in Req : WF_vars(Step(r)) /\ SF_vars(WaitTimeout(r))

-----------------------------------------------------------------------------
(* Properties.                                                              *)

CallType == [pc : {"new", "checkFence", "acquire", "unlock", "unfence", "done", "dead"}
                    \cup Waits \cup Holds,
             lost : BOOLEAN, sawFence : BOOLEAN, ok : BOOLEAN,
             answer : Req \cup {None}, error : Errors]

\* The types of the three keys and of the calls.
TypeOK == /\ lock \in Req \cup {None}
          /\ fence \in Hash \cup {None}
          /\ result \in Req \cup {None}
          /\ req \in [Req -> CallType]
          /\ executed \subseteq Req
          /\ faults \in 0 .. MaxFaults

\* A response a call returns is that of a handler run that succeeded for the
\* same payload, in every race, crash and loss of the lock.
AnswersWereExecuted == \A r \in Req :
    req[r].answer # None => /\ req[r].answer \in executed
                            /\ HashOf[req[r].answer] = HashOf[r]

\* As long as nothing fails, the side effects happen once for the key, however
\* the requests interleave and whichever handlers throw.
ExecutedOnce == faults = 0 => Cardinality(executed) <= 1

\* As long as nothing fails, the finished calls leave no lock and no fence that
\* would turn the next request away.
NothingLeftBehind == (faults = 0 /\ \A r \in Req : ~Live(r)) => lock = None /\ fence = None

\* Every call ends: no wait is unbounded.
EveryCallEnds == \A r \in Req : <>(req[r].pc \in {"done", "dead"})

Contract == INSTANCE OnceContract WITH
    Call <- Req, PayloadOf <- HashOf,
    stored <- result,
    answer <- [r \in Req |-> req[r].answer],
    calm <- (faults = 0)

\* The keys and their scripts implement the contract: a call takes effect once,
\* is answered with the response that is stored when it is answered, a late
\* finisher with the first one's, and nothing but a failure stores a second
\* response or takes an answer back.
ContractSpec == Contract!Spec

\* "The fence reserves the key before the handler is started" (README): the
\* lock's holder runs its handler behind its fence.
HandlerRunsFenced == \A r \in Req :
    req[r].pc = "running" /\ lock = r => fence = HashOf[r]
=============================================================================
