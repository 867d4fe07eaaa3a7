------------------------- MODULE Idempotency_proofs -------------------------
(* Proofs about Idempotency, for any number of requests and payloads and any *)
(* bound on faults.                                                          *)
EXTENDS Idempotency, FiniteSetTheorems, TLAPS

\* What is stored, or about to be, was executed; so was every answer.
Origins == /\ result # None => result \in executed
           /\ \A r \in Req : req[r].pc \in {"completing", "persisting"} => r \in executed

\* As long as nothing fails the lock's holder is alone between its acquire and
\* its store, and knows whether the handler has run.
Exclusive == faults = 0 =>
    /\ \A r \in Req : req[r].pc \in {"recheck", "running", "completing"} => lock = r
    /\ \A r \in Req : req[r].pc # "persisting"
    /\ \A r \in Req : ~req[r].lost
    /\ \A r \in Req : req[r].pc = "running" => executed = {} /\ result = None
    /\ \A r \in Req : req[r].pc = "completing" => executed = {r} /\ result = None
    /\ \/ executed = {}
       \/ result # None /\ executed = {result}
       \/ \E r \in Req : req[r].pc = "completing"

IInv == TypeOK /\ Origins /\ AnswersWereExecuted /\ Exclusive

\* The part of the invariant that holds whatever fails.
FaultyInv == TypeOK /\ Origins /\ AnswersWereExecuted

LEMMA InitIInv == Init => IInv
<1> SUFFICES ASSUME Init PROVE IInv
  OBVIOUS
<1>1. NewCall \in CallType
  BY DEF NewCall, CallType, Errors
<1>2. TypeOK
  BY <1>1, RequestsAssumption DEF Init, TypeOK
<1>3. Origins /\ AnswersWereExecuted /\ Exclusive
  BY DEF Init, NewCall, Origins, AnswersWereExecuted, Exclusive
<1> QED
  BY <1>2, <1>3 DEF IInv

\* What the invariant sees of a call's step.
Update(r, pc, a) == /\ req' \in [Req -> CallType]
                    /\ \A s \in Req : s # r => req'[s] = req[s]
                    /\ req'[r].pc = pc
                    /\ req'[r].answer = a
                    /\ req'[r].lost = req[r].lost

Control == {"new", "checkFence", "acquire", "unlock", "unfence", "done", "dead"}
             \cup Waits \cup Holds

LEMMA Updates ==
  ASSUME req \in [Req -> CallType], NEW r \in Req, NEW pc \in Control
  PROVE  /\ Goto(r, pc) => Update(r, pc, req[r].answer)
         /\ \A e \in Errors : Fail(r, e, pc) => Update(r, pc, None)
         /\ \A s \in Req : Answer(r, s, pc) => Update(r, pc, s)
<1>1. req[r] \in CallType
  OBVIOUS
<1>2. /\ [req[r] EXCEPT !.pc = pc] \in CallType
      /\ [req[r] EXCEPT !.pc = pc].pc = pc
      /\ [req[r] EXCEPT !.pc = pc].answer = req[r].answer
      /\ [req[r] EXCEPT !.pc = pc].lost = req[r].lost
  BY <1>1 DEF CallType, Control
<1>3. Goto(r, pc) => Update(r, pc, req[r].answer)
  <2> SUFFICES ASSUME Goto(r, pc) PROVE Update(r, pc, req[r].answer)
    OBVIOUS
  <2>1. req' = [req EXCEPT ![r] = [req[r] EXCEPT !.pc = pc]]
    BY <1>1 DEF Goto, CallType
  <2> QED
    BY <1>2, <2>1 DEF Update
<1>4. ASSUME NEW e \in Errors, Fail(r, e, pc) PROVE Update(r, pc, None)
  <2> DEFINE v == [req[r] EXCEPT !.pc = pc, !.answer = None, !.error = e]
  <2>1. v \in CallType /\ v.pc = pc /\ v.answer = None /\ v.lost = req[r].lost
    BY <1>1 DEF CallType, Control
  <2>2. req' = [req EXCEPT ![r] = v]
    BY <1>1, <1>4 DEF Fail, CallType
  <2> QED
    BY <2>1, <2>2 DEF Update
<1>5. ASSUME NEW s \in Req, Answer(r, s, pc) PROVE Update(r, pc, s)
  <2> DEFINE v == [req[r] EXCEPT !.pc = pc, !.answer = s]
  <2>1. v \in CallType /\ v.pc = pc /\ v.answer = s /\ v.lost = req[r].lost
    BY <1>1 DEF CallType, Control
  <2>2. req' = [req EXCEPT ![r] = v]
    BY <1>1, <1>5 DEF Answer, CallType
  <2> QED
    BY <2>1, <2>2 DEF Update
<1> QED
  BY <1>3, <1>4, <1>5

\* A replayed response was executed for the same payload.
LEMMA Replays ==
  ASSUME TypeOK, Origins, NEW r \in Req, NEW pc \in Control, result # None, Replay(r, pc)
  PROVE  \E a \in Req \cup {None} :
            /\ Update(r, pc, a)
            /\ a # None => a \in executed /\ HashOf[a] = HashOf[r]
<1>1. req \in [Req -> CallType] /\ result \in Req /\ result \in executed
  BY DEF TypeOK, Origins
<1>2. CASE HashOf[result] = HashOf[r]
  BY <1>1, <1>2, Updates DEF Replay
<1>3. CASE HashOf[result] # HashOf[r]
  <2>1. "keyReused" \in Errors
    BY DEF Errors
  <2> QED
    BY <1>1, <1>3, <2>1, Updates DEF Replay
<1> QED
  BY <1>2, <1>3

\* The part of the invariant that no fault breaks, for any step of one call.
LEMMA FaultyStep ==
  ASSUME FaultyInv, NEW r \in Req, NEW pc, NEW a \in Req \cup {None}, Update(r, pc, a),
         lock' \in Req \cup {None}, fence' \in Hash \cup {None}, result' \in Req \cup {None},
         result' # None => result' \in executed',
         executed \subseteq executed', executed' \subseteq Req, faults' \in 0 .. MaxFaults,
         pc \in {"completing", "persisting"} => r \in executed',
         a # None => a \in executed' /\ HashOf[a] = HashOf[r]
  PROVE  FaultyInv'
<1>1. TypeOK'
  BY DEF FaultyInv, TypeOK, Update
<1>2. Origins'
  BY DEF FaultyInv, Origins, Update
<1>3. AnswersWereExecuted'
  BY DEF FaultyInv, AnswersWereExecuted, Update
<1> QED
  BY <1>1, <1>2, <1>3 DEF FaultyInv

\* Steps outside the critical section, and into the handler, change no key.
LEMMA QuietStep ==
  ASSUME IInv, NEW r \in Req, NEW pc, NEW a, Update(r, pc, a),
         UNCHANGED <<keys, executed, faults>>,
         a # None => a = req[r].answer \/ (a \in executed /\ HashOf[a] = HashOf[r]),
         req[r].pc \notin {"completing", "persisting"},
         \/ pc \notin {"recheck", "running", "completing", "persisting"}
         \/ req[r].pc = "recheck" /\ pc = "running" /\ result = None
  PROVE  IInv'
<1> USE DEF IInv
<1>1. a \in Req \cup {None} /\ (a # None => a \in executed /\ HashOf[a] = HashOf[r])
  BY DEF TypeOK, AnswersWereExecuted, CallType, Update
<1>2. FaultyInv'
  BY <1>1, FaultyStep DEF keys, FaultyInv, TypeOK, Origins
<1>3. Exclusive'
  <2> SUFFICES ASSUME faults = 0 PROVE Exclusive'
    BY DEF Exclusive
  <2>1. CASE pc \notin {"recheck", "running", "completing", "persisting"}
    BY <2>1 DEF Exclusive, Update, keys
  <2>2. CASE req[r].pc = "recheck" /\ pc = "running" /\ result = None
    <3>1. lock = r
      BY <2>2 DEF Exclusive
    <3>2. executed = {}
      BY <2>2, <3>1 DEF Exclusive
    <3> QED
      BY <2>2, <3>1, <3>2 DEF Exclusive, Update, keys
  <2> QED
    BY <2>1, <2>2
<1> QED
  BY <1>2, <1>3 DEF FaultyInv

LEMMA LookStep ==
  ASSUME IInv, NEW r \in Req,
         \/ GetResult(r) \/ CheckFence(r) \/ WaitResult(r) \/ WaitLock(r) \/ WaitFence(r)
         \/ WaitTimeout(r) \/ LastLook(r) \/ Recheck(r) \/ HandlerFails(r)
  PROVE  IInv'
<1> DEFINE Ends(pc) == \E a \in Req \cup {None} :
                         /\ Update(r, pc, a)
                         /\ a # None => a = req[r].answer \/ (a \in executed /\ HashOf[a] = HashOf[r])
<1>1. /\ TypeOK /\ Origins /\ req \in [Req -> CallType] /\ req[r].answer \in Req \cup {None}
      /\ Errors = {"none", "keyReused", "outcomeUnknown", "inProgress", "handler", "redis"}
      /\ Control = {"new", "checkFence", "acquire", "unlock", "unfence", "done", "dead"}
                     \cup {"waiting", "waitLock", "waitFence", "lastLook"}
                     \cup {"recheck", "running", "completing", "persisting"}
  BY DEF IInv, TypeOK, CallType, Errors, Control, Waits, Holds
<1>2. \A pc \in Control : Goto(r, pc) => Ends(pc)
  BY <1>1, Updates
<1>3. \A pc \in Control, e \in Errors : Fail(r, e, pc) => Ends(pc)
  BY <1>1, Updates
<1>4. ASSUME NEW pc \in Control, result # None, Replay(r, pc) PROVE Ends(pc)
  <2>1. PICK b \in Req \cup {None} :
           /\ Update(r, pc, b)
           /\ b # None => b \in executed /\ HashOf[b] = HashOf[r]
    BY <1>1, <1>4, Replays
  <2> QED
    BY <2>1
<1>5. GiveUp(r) => Ends("lastLook") \/ Ends("done")
  BY <1>1, <1>2, <1>3 DEF GiveUp
<1> HIDE DEF Ends
<1>6. \/ \E pc \in {"done", "checkFence", "acquire", "waitLock", "waiting", "waitFence",
                    "lastLook", "unlock"} : Ends(pc)
      \/ req[r].pc = "recheck" /\ Ends("running") /\ result = None
  <2>1. CASE GetResult(r)
    BY <1>1, <1>2, <1>4, <2>1 DEF GetResult
  <2>2. CASE CheckFence(r)
    BY <1>1, <1>2, <1>3, <2>2 DEF CheckFence
  <2>3. CASE WaitResult(r)
    BY <1>1, <1>2, <1>4, <2>3 DEF WaitResult
  <2>4. CASE WaitLock(r)
    BY <1>1, <1>2, <2>4 DEF WaitLock
  <2>5. CASE WaitFence(r)
    <3>0. HashOf[r] # None
      BY RequestsAssumption
    <3>1. CASE fence = None
      BY <1>5, <2>5, <3>0, <3>1 DEF WaitFence
    <3>2. CASE fence # None /\ fence = HashOf[r]
      <4> DEFINE v == [req[r] EXCEPT !.pc = "waiting", !.sawFence = TRUE]
      <4>1. req' = [req EXCEPT ![r] = v]
        BY <1>1, <2>5, <3>2 DEF WaitFence, CallType
      <4>2. /\ v \in CallType /\ v.pc = "waiting" /\ v.answer = req[r].answer
            /\ v.lost = req[r].lost
        <5>1. req[r] \in CallType
          BY <1>1
        <5> QED
          BY <5>1 DEF CallType, Waits
      <4>3. Update(r, "waiting", req[r].answer)
        BY <1>1, <4>1, <4>2 DEF Update
      <4> QED
        BY <1>1, <4>3 DEF Ends
    <3>3. CASE fence # None /\ fence # HashOf[r]
      BY <1>1, <1>3, <2>5, <3>3 DEF WaitFence
    <3> QED
      BY <3>1, <3>2, <3>3
  <2>6. CASE WaitTimeout(r)
    BY <1>5, <2>6 DEF WaitTimeout
  <2>7. CASE LastLook(r)
    BY <1>1, <1>3, <1>4, <2>7 DEF LastLook
  <2>8. CASE Recheck(r)
    BY <1>1, <1>2, <1>4, <2>8 DEF Recheck
  <2>9. CASE HandlerFails(r)
    BY <1>1, <1>3, <2>9 DEF HandlerFails
  <2> QED
    BY <2>1, <2>2, <2>3, <2>4, <2>5, <2>6, <2>7, <2>8, <2>9
<1>7. /\ UNCHANGED <<keys, executed, faults>>
      /\ req[r].pc \notin {"completing", "persisting"}
  BY DEF GetResult, CheckFence, WaitResult, WaitLock, WaitFence, WaitTimeout, LastLook,
         Recheck, HandlerFails
<1> USE DEF Ends
<1>8. CASE \E pc \in {"done", "checkFence", "acquire", "waitLock", "waiting", "waitFence",
                     "lastLook", "unlock"} : Ends(pc)
  <2>1. PICK pc \in {"done", "checkFence", "acquire", "waitLock", "waiting", "waitFence",
                     "lastLook", "unlock"} : Ends(pc)
    BY <1>8
  <2>2. pc \notin {"recheck", "running", "completing", "persisting"}
    OBVIOUS
  <2> QED
    BY <1>7, <2>1, <2>2, QuietStep
<1>9. CASE req[r].pc = "recheck" /\ Ends("running") /\ result = None
  BY <1>7, <1>9, QuietStep
<1> QED
  BY <1>6, <1>8, <1>9

LEMMA AcquireStep ==
  ASSUME IInv, NEW r \in Req, Acquire(r)
  PROVE  IInv'
<1> USE DEF IInv
<1>1. /\ req \in [Req -> CallType] /\ {"waiting", "recheck"} \subseteq Control
      /\ req[r].answer \in Req \cup {None} /\ HashOf[r] \in Hash /\ MaxFaults \in Nat
      /\ req[r].answer # None => req[r].answer \in executed /\ HashOf[req[r].answer] = HashOf[r]
  BY RequestsAssumption DEF TypeOK, CallType, Control, Waits, Holds, AnswersWereExecuted
<1>2. CASE TakeLock(r) /\ Goto(r, "recheck")
  <2>1. Update(r, "recheck", req[r].answer)
    BY <1>1, <1>2, Updates
  <2>2. /\ lock = None /\ lock' = r /\ fence' = HashOf[r] /\ result' = result
        /\ executed' = executed /\ faults' = faults
    BY <1>2 DEF TakeLock, Acquire
  <2>3. FaultyInv'
    BY <1>1, <2>1, <2>2, FaultyStep DEF FaultyInv, TypeOK, Origins
  <2>4. Exclusive'
    <3> SUFFICES ASSUME faults = 0 PROVE Exclusive'
      BY <2>2 DEF Exclusive
    <3>1. lock \notin Req
      BY <2>2, RequestsAssumption
    <3>2. \A s \in Req : req[s].pc \notin {"recheck", "running", "completing", "persisting"}
      BY <3>1 DEF Exclusive
    <3>3. ~req'[r].lost
      BY <2>1 DEF Exclusive, Update
    <3> QED
      BY <2>1, <2>2, <3>2, <3>3 DEF Exclusive, Update
  <2> QED
    BY <2>3, <2>4 DEF FaultyInv
<1>3. CASE lock # None /\ Goto(r, "waiting") /\ UNCHANGED keys
  <2>1. Update(r, "waiting", req[r].answer)
    BY <1>1, <1>3, Updates
  <2>2. UNCHANGED <<keys, executed, faults>> /\ req[r].pc = "acquire"
    BY <1>3 DEF Acquire
  <2> QED
    BY <2>1, <2>2, QuietStep
<1> QED
  BY <1>2, <1>3 DEF Acquire

\* In a run without faults the heartbeat finds its lock, always.
LEMMA HeartbeatStep ==
  ASSUME IInv, NEW r \in Req, HeartbeatLosesLock(r)
  PROVE  IInv'
<1> USE DEF IInv
<1> DEFINE v == [req[r] EXCEPT !.lost = TRUE]
<1>1. /\ req \in [Req -> CallType] /\ req[r] \in CallType
      /\ v \in CallType /\ v.pc = req[r].pc /\ v.answer = req[r].answer
  BY DEF TypeOK, CallType
<1>2. /\ req' \in [Req -> CallType] /\ req'[r] = v /\ \A s \in Req : s # r => req'[s] = req[s]
      /\ UNCHANGED <<keys, executed, faults>>
  BY <1>1 DEF HeartbeatLosesLock, CallType
<1>3. TypeOK' /\ Origins' /\ AnswersWereExecuted'
  BY <1>1, <1>2 DEF TypeOK, Origins, AnswersWereExecuted, keys
<1>4. Exclusive'
  <2>1. faults # 0
    BY DEF HeartbeatLosesLock, Exclusive
  <2> QED
    BY <1>2, <2>1 DEF Exclusive
<1> QED
  BY <1>3, <1>4

LEMMA HandlerSucceedsStep ==
  ASSUME IInv, NEW r \in Req, HandlerSucceeds(r)
  PROVE  IInv'
<1> USE DEF IInv
<1> DEFINE pc == IF req[r].lost THEN "persisting" ELSE "completing"
           v == [req[r] EXCEPT !.ok = TRUE, !.pc = pc]
<1>1. req \in [Req -> CallType] /\ req[r] \in CallType /\ req[r].pc = "running"
  BY DEF TypeOK, HandlerSucceeds
<1>2. v \in CallType /\ v.pc = pc /\ v.answer = req[r].answer /\ v.lost = req[r].lost
  BY <1>1 DEF CallType, Holds
<1>3. req' = [req EXCEPT ![r] = v]
  BY <1>1 DEF HandlerSucceeds, CallType
<1>4. /\ Update(r, pc, req[r].answer)
      /\ executed' = executed \cup {r} /\ UNCHANGED <<keys, faults>>
  BY <1>1, <1>2, <1>3 DEF Update, HandlerSucceeds
<1>5. /\ req[r].answer \in Req \cup {None}
      /\ req[r].answer # None => req[r].answer \in executed /\ HashOf[req[r].answer] = HashOf[r]
  BY <1>1 DEF CallType, AnswersWereExecuted
<1>6. FaultyInv'
  BY <1>4, <1>5, FaultyStep DEF FaultyInv, TypeOK, Origins, keys
<1>7. Exclusive'
  <2> SUFFICES ASSUME faults = 0 PROVE Exclusive'
    BY <1>4 DEF Exclusive
  <2>1. /\ pc = "completing" /\ lock = r /\ executed = {} /\ result = None
        /\ \A s \in Req : s # r => req[s].pc \notin {"recheck", "running", "completing", "persisting"}
    BY <1>1 DEF Exclusive
  <2> QED
    BY <1>4, <2>1 DEF Exclusive, Update, keys
<1> QED
  BY <1>6, <1>7 DEF FaultyInv

LEMMA CompleteStep ==
  ASSUME IInv, NEW r \in Req, Complete(r)
  PROVE  IInv'
<1> USE DEF IInv
<1>1. /\ req \in [Req -> CallType] /\ req[r] \in CallType /\ req[r].pc = "completing"
      /\ r \in executed /\ executed' = executed /\ faults' = faults /\ r # None
      /\ "done" \in Control
  BY RequestsAssumption DEF TypeOK, Complete, Origins, Control
<1>2. CASE Store(r) /\ Answer(r, r, "done")
  <2>1. Update(r, "done", r)
    BY <1>1, <1>2, Updates
  <2>2. lock = r /\ result' = r /\ lock' = None /\ fence' = None
    BY <1>2 DEF Store
  <2>3. FaultyInv'
    BY <1>1, <2>1, <2>2, FaultyStep DEF FaultyInv, TypeOK
  <2>4. Exclusive'
    <3> SUFFICES ASSUME faults = 0 PROVE Exclusive'
      BY <1>1 DEF Exclusive
    <3>1. /\ executed = {r}
          /\ \A s \in Req : s # r => req[s].pc \notin {"recheck", "running", "completing", "persisting"}
      BY <1>1, <2>2 DEF Exclusive
    <3> QED
      BY <1>1, <2>1, <2>2, <3>1 DEF Exclusive, Update
  <2> QED
    BY <2>3, <2>4 DEF FaultyInv
<1>3. CASE lock # r
  <2> DEFINE v == [req[r] EXCEPT !.lost = TRUE, !.pc = "persisting"]
  <2>1. faults # 0
    BY <1>1, <1>3 DEF Exclusive
  <2>2. v \in CallType /\ v.pc = "persisting" /\ v.answer = req[r].answer
    BY <1>1 DEF CallType, Holds
  <2>3. req' = [req EXCEPT ![r] = v] /\ UNCHANGED keys
    BY <1>1, <1>3 DEF Complete, Store, CallType
  <2>4. req' \in [Req -> CallType] /\ req'[r] = v /\ \A s \in Req : s # r => req'[s] = req[s]
    BY <1>1, <2>2, <2>3
  <2>5. TypeOK' /\ Origins' /\ AnswersWereExecuted'
    BY <1>1, <2>2, <2>3, <2>4 DEF TypeOK, Origins, AnswersWereExecuted, keys
  <2> QED
    BY <1>1, <2>1, <2>5 DEF Exclusive
<1> QED
  BY <1>2, <1>3 DEF Complete, Store

\* Nobody gets here without a fault: the lock was lost.
LEMMA PersistStep ==
  ASSUME IInv, NEW r \in Req, Persist(r)
  PROVE  IInv'
<1> USE DEF IInv
<1>1. /\ req \in [Req -> CallType] /\ req[r].pc = "persisting" /\ faults # 0 /\ r # None
      /\ r \in executed /\ executed' = executed /\ faults' = faults
      /\ {"done", "unlock"} \subseteq Control
  BY RequestsAssumption DEF TypeOK, Persist, Origins, Exclusive, Control
<1>2. CASE StoreIfMissing(r) /\ Answer(r, r, "done")
  <2>1. Update(r, "done", r)
    BY <1>1, <1>2, Updates
  <2>2. FaultyInv'
    BY <1>1, <1>2, <2>1, FaultyStep DEF FaultyInv, TypeOK, StoreIfMissing
  <2> QED
    BY <1>1, <2>2 DEF FaultyInv, Exclusive
<1>3. CASE result # None
  <2> DEFINE pc == IF HashOf[result] = HashOf[r] THEN "done" ELSE "unlock"
  <2>1. pc \in Control /\ Replay(r, pc) /\ UNCHANGED keys
    BY <1>1, <1>3 DEF Persist, StoreIfMissing
  <2>2. PICK a \in Req \cup {None} :
           /\ Update(r, pc, a)
           /\ a # None => a \in executed /\ HashOf[a] = HashOf[r]
    BY <1>3, <2>1, Replays
  <2>3. FaultyInv'
    BY <1>1, <2>1, <2>2, FaultyStep DEF FaultyInv, TypeOK, Origins, keys
  <2> QED
    BY <1>1, <2>3 DEF FaultyInv, Exclusive
<1> QED
  BY <1>2, <1>3 DEF Persist

LEMMA CleanupStep ==
  ASSUME IInv, NEW r \in Req, Unlock(r) \/ Unfence(r)
  PROVE  IInv'
<1> USE DEF IInv
<1>1. /\ req \in [Req -> CallType] /\ {"done", "unfence"} \subseteq Control
      /\ req[r].answer \in Req \cup {None}
      /\ req[r].answer # None => req[r].answer \in executed /\ HashOf[req[r].answer] = HashOf[r]
  BY DEF TypeOK, CallType, Control, AnswersWereExecuted
<1>2. PICK pc \in {"done", "unfence"} : Update(r, pc, req[r].answer)
  BY <1>1, Updates DEF Unlock, Unfence
<1>3. /\ req[r].pc \in {"unlock", "unfence"}
      /\ lock' = lock \/ (lock = r /\ lock' = None)
      /\ fence' \in {fence, None} /\ result' = result
      /\ executed' = executed /\ faults' = faults
  BY DEF Unlock, Unfence
<1>4. FaultyInv'
  BY <1>1, <1>2, <1>3, FaultyStep DEF FaultyInv, TypeOK, Origins
<1>5. Exclusive'
  BY <1>2, <1>3 DEF Exclusive, Update
<1> QED
  BY <1>4, <1>5 DEF FaultyInv

LEMMA LockExpiresStep ==
  ASSUME IInv, LockExpires
  PROVE  IInv'
<1> USE DEF IInv
<1>1. /\ lock # None /\ lock' = None /\ lock \in Req
      /\ UNCHANGED <<fence, result, req, executed>>
      /\ faults' \in 0 .. MaxFaults /\ (faults' = 0 => faults = 0 /\ ~Live(lock))
  BY RequestsAssumption DEF LockExpires, TypeOK
<1>2. TypeOK' /\ Origins' /\ AnswersWereExecuted'
  BY <1>1 DEF TypeOK, Origins, AnswersWereExecuted
<1>3. Exclusive'
  BY <1>1 DEF Exclusive, Live
<1> QED
  BY <1>2, <1>3

LEMMA FaultStep ==
  ASSUME IInv, NEW r \in Req, Fault(r)
  PROVE  IInv'
<1> USE DEF IInv
<1>1. /\ req \in [Req -> CallType] /\ req[r] \in CallType
      /\ faults' \in 0 .. MaxFaults /\ faults' # 0
      /\ {"done", "unlock", "dead"} \subseteq Control
      /\ {"redis", "outcomeUnknown"} \subseteq Errors
      /\ req[r].answer \in Req \cup {None} /\ None \in Req \cup {None}
      /\ req[r].answer # None => req[r].answer \in executed /\ HashOf[req[r].answer] = HashOf[r]
  BY RequestsAssumption DEF TypeOK, CallType, Control, Errors, Fault, AnswersWereExecuted
<1>2. CASE Crash(r)
  <2>1. Update(r, "dead", req[r].answer)
    BY <1>1, <1>2, Updates DEF Crash
  <2>2. UNCHANGED <<keys, executed>>
    BY <1>2 DEF Crash
  <2>3. FaultyInv'
    BY <1>1, <2>1, <2>2, FaultyStep DEF FaultyInv, TypeOK, Origins, keys
  <2> QED
    BY <1>1, <2>3 DEF FaultyInv, Exclusive
<1>3. CASE HeartbeatErrors(r)
  <2> DEFINE v == [req[r] EXCEPT !.lost = TRUE]
  <2>1. v \in CallType /\ v.pc = req[r].pc /\ v.answer = req[r].answer
    BY <1>1 DEF CallType
  <2>2. /\ req' \in [Req -> CallType] /\ req'[r] = v /\ \A s \in Req : s # r => req'[s] = req[s]
        /\ UNCHANGED <<keys, executed>>
    BY <1>1, <1>3, <2>1 DEF HeartbeatErrors, CallType
  <2>3. TypeOK' /\ Origins' /\ AnswersWereExecuted'
    BY <1>1, <2>1, <2>2 DEF TypeOK, Origins, AnswersWereExecuted, keys
  <2> QED
    BY <1>1, <2>3 DEF Exclusive
<1>4. CASE CommandErrors(r)
  <2>1. PICK pc \in {"done", "unlock"} : Update(r, pc, None)
    BY <1>1, <1>4, Updates DEF CommandErrors
  <2>2. executed' = executed /\ HashOf[r] \in Hash
    BY <1>4, RequestsAssumption DEF CommandErrors
  <2>3. /\ lock' \in Req \cup {None} /\ fence' \in Hash \cup {None}
        /\ result' = result \/ (result' = r /\ req[r].pc \in {"completing", "persisting"})
    BY <1>4, <2>2 DEF CommandErrors, TypeOK, keys, TakeLock, Store, StoreIfMissing
  <2>4. result' \in Req \cup {None} /\ (result' # None => result' \in executed')
    BY <2>2, <2>3 DEF Origins, TypeOK
  <2>5. FaultyInv'
    BY <1>1, <2>1, <2>2, <2>3, <2>4, FaultyStep DEF FaultyInv, TypeOK
  <2> QED
    BY <1>1, <2>5 DEF FaultyInv, Exclusive
<1> QED
  BY <1>2, <1>3, <1>4 DEF Fault

-----------------------------------------------------------------------------
LEMMA NextIInv == IInv /\ [Next]_vars => IInv'
<1> SUFFICES ASSUME IInv, [Next]_vars PROVE IInv'
  OBVIOUS
<1>1. CASE UNCHANGED vars
  BY <1>1 DEF vars, IInv, TypeOK, Origins, AnswersWereExecuted, Exclusive
<1>2. ASSUME NEW r \in Req, Step(r) \/ WaitTimeout(r) \/ HeartbeatLosesLock(r) \/ Fault(r)
      PROVE  IInv'
  BY <1>2, LookStep, AcquireStep, HeartbeatStep, HandlerSucceedsStep, CompleteStep, PersistStep,
     CleanupStep, FaultStep DEF Step
<1>3. CASE LockExpires
  BY <1>3, LockExpiresStep
<1> QED
  BY <1>1, <1>2, <1>3 DEF Next, Terminating

\* The strengthened invariant holds in every reachable state.
THEOREM Inductive == Spec => []IInv
BY InitIInv, NextIInv, PTL DEF Spec

\* The three keys and the calls are always well formed.
THEOREM TypeCorrect == Spec => []TypeOK
BY Inductive, PTL DEF IInv

\* A response is never made up, nor one of another payload, whatever fails.
THEOREM AnswersHonest == Spec => []AnswersWereExecuted
BY Inductive, PTL DEF IInv

\* While nothing fails all callers of a key get one response, whoever ran the
\* handler, waited, came later or found it on the recheck.
THEOREM AnswersAgree ==
  Spec => [](faults = 0 => \A r, s \in Req :
               req[r].answer # None /\ req[s].answer # None => req[r].answer = req[s].answer)
<1>1. IInv => (faults = 0 => \A r, s \in Req :
                 req[r].answer # None /\ req[s].answer # None => req[r].answer = req[s].answer)
  <2> SUFFICES ASSUME IInv, faults = 0, NEW r \in Req, NEW s \in Req,
                      req[r].answer # None, req[s].answer # None
               PROVE  req[r].answer = req[s].answer
    OBVIOUS
  <2>1. req[r].answer \in executed /\ req[s].answer \in executed
    BY DEF IInv, AnswersWereExecuted
  <2>2. executed = {} \/ \E q : executed = {q}
    BY DEF IInv, Exclusive
  <2> QED
    BY <2>1, <2>2
<1> QED
  BY Inductive, <1>1, PTL

LEMMA ExclusiveOnce == IInv => ExecutedOnce
<1> SUFFICES ASSUME IInv, faults = 0 PROVE Cardinality(executed) <= 1
  BY DEF ExecutedOnce
<1>1. executed = {} \/ \E r \in Req : executed = {r}
  BY RequestsAssumption DEF IInv, Exclusive, TypeOK
<1>2. CASE executed = {}
  BY <1>2, FS_EmptySet
<1>3. CASE \E r \in Req : executed = {r}
  BY <1>3, FS_Singleton
<1> QED
  BY <1>1, <1>2, <1>3

\* Without faults the handler takes effect once per key, for any number of
\* racing requests.
THEOREM ExactlyOnceWithoutFaults == Spec => []ExecutedOnce
BY Inductive, ExclusiveOnce, PTL

\* While nothing fails the lock is held by a call that will drop it, the fence
\* without a lock by one that will drop it, and only a stored call is ok.
Clean == faults = 0 =>
    /\ lock # None => req[lock].pc \in {"recheck", "running", "completing", "unlock"}
    /\ fence # None => lock # None \/ \E r \in Req : req[r].pc = "unfence"
    /\ \A r \in Req : req[r].ok => req[r].pc \in {"completing", "done"}

\* What Clean sees of a call's step.
Moves(r, pc, ok) == /\ \A s \in Req : s # r => req'[s] = req[s]
                    /\ req'[r].pc = pc
                    /\ req'[r].ok = ok

LEMMA MovesBy ==
  ASSUME req \in [Req -> CallType], NEW r \in Req, NEW pc
  PROVE  /\ Goto(r, pc) => Moves(r, pc, req[r].ok)
         /\ \A e \in Errors : Fail(r, e, pc) => Moves(r, pc, req[r].ok)
         /\ \A s : Answer(r, s, pc) => Moves(r, pc, req[r].ok)
         /\ Replay(r, pc) => Moves(r, pc, req[r].ok)
<1>1. req[r] \in CallType
  OBVIOUS
<1>2. Goto(r, pc) => Moves(r, pc, req[r].ok)
  BY <1>1 DEF Goto, Moves, CallType
<1>3. ASSUME NEW e \in Errors, Fail(r, e, pc) PROVE Moves(r, pc, req[r].ok)
  BY <1>1, <1>3 DEF Fail, Moves, CallType
<1>4. ASSUME NEW s, Answer(r, s, pc) PROVE Moves(r, pc, req[r].ok)
  BY <1>1, <1>4 DEF Answer, Moves, CallType
<1>5. Replay(r, pc) => Moves(r, pc, req[r].ok)
  BY <1>3, <1>4 DEF Replay, Errors
<1> QED
  BY <1>2, <1>3, <1>4, <1>5

\* Outside the critical section a call neither holds the lock nor guards the fence.
LEMMA CleanOutside ==
  ASSUME IInv, Clean, faults = 0, NEW r \in Req, NEW pc, Moves(r, pc, req[r].ok), UNCHANGED keys,
         \/ /\ req[r].pc \in {"new", "checkFence", "acquire"} \cup Waits
            /\ pc \in {"done", "checkFence", "acquire", "running"} \cup Waits
         \/ req[r].pc \in {"recheck", "running"} /\ pc \in {"running", "unlock"}
  PROVE  Clean'
<1>1. lock = None \/ lock \in Req
  BY DEF IInv, TypeOK
<1> QED
  BY <1>1 DEF Clean, Moves, keys, Waits

LEMMA CleanStep == IInv /\ Clean /\ [Next]_vars => Clean'
<1> SUFFICES ASSUME IInv, Clean, [Next]_vars, faults' = 0 PROVE Clean'
  BY DEF Clean
<1>0. CASE UNCHANGED vars
  BY <1>0 DEF vars, Clean
<1>1. /\ req \in [Req -> CallType] /\ (lock = None \/ lock \in Req)
      /\ faults \in Nat /\ None \notin Req \cup Hash /\ HashOf \in [Req -> Hash]
  BY RequestsAssumption DEF IInv, TypeOK
<1>2. ASSUME NEW r \in Req, Step(r) \/ WaitTimeout(r) PROVE Clean'
  <2>1. faults = 0 /\ req[r] \in CallType
    BY <1>1, <1>2 DEF Step, GetResult, CheckFence, Acquire, WaitResult, WaitLock, WaitFence,
       LastLook, Recheck, HandlerSucceeds, HandlerFails, Complete, Persist, Unlock, Unfence,
       WaitTimeout
  <2> DEFINE Goes(P) == \E pc \in P : Moves(r, pc, req[r].ok)
  <2>2. GiveUp(r) => Goes({"lastLook", "done"})
    BY <1>1, MovesBy DEF GiveUp, Errors
  <2>3. CASE \/ GetResult(r) \/ CheckFence(r) \/ WaitResult(r) \/ WaitLock(r) \/ WaitFence(r)
             \/ WaitTimeout(r) \/ LastLook(r) \/ Recheck(r) \/ HandlerFails(r)
    <3>1. /\ UNCHANGED keys
          /\ \/ /\ req[r].pc \in {"new", "checkFence", "acquire"} \cup Waits
                /\ Goes({"done", "checkFence", "acquire"} \cup Waits)
             \/ req[r].pc \in {"recheck", "running"} /\ Goes({"running", "unlock"})
      <4>1. CASE GetResult(r) \/ WaitResult(r) \/ WaitLock(r)
        BY <1>1, <4>1, MovesBy DEF GetResult, WaitResult, WaitLock, Waits
      <4>2. CASE CheckFence(r) \/ LastLook(r)
        BY <1>1, <4>2, MovesBy DEF CheckFence, LastLook, Waits, Errors
      <4>3. CASE WaitFence(r)
        <5>1. ASSUME req' = [req EXCEPT ![r].pc = "waiting", ![r].sawFence = TRUE]
              PROVE  Moves(r, "waiting", req[r].ok)
          BY <1>1, <2>1, <5>1 DEF Moves, CallType
        <5>2. Goes({"lastLook", "done", "waiting"})
          <6>1. CASE fence = None
            BY <2>2, <4>3, <6>1, <1>1 DEF WaitFence
          <6>2. CASE fence # None /\ fence = HashOf[r]
            BY <4>3, <5>1, <6>2 DEF WaitFence
          <6>3. CASE fence # None /\ fence # HashOf[r]
            BY <1>1, <4>3, <6>3, MovesBy DEF WaitFence, Errors
          <6> QED
            BY <6>1, <6>2, <6>3
        <5> QED
          BY <4>3, <5>2 DEF WaitFence, Waits
      <4>4. CASE WaitTimeout(r)
        BY <2>2, <4>4 DEF WaitTimeout, Waits
      <4>5. CASE Recheck(r) \/ HandlerFails(r)
        BY <1>1, <4>5, MovesBy DEF Recheck, HandlerFails, Errors
      <4> QED
        BY <2>3, <4>1, <4>2, <4>3, <4>4, <4>5
    <3> QED
      BY <2>1, <3>1, CleanOutside
  <2>4. CASE Acquire(r)
    <3>1. CASE TakeLock(r) /\ Goto(r, "recheck")
      <4>1. Moves(r, "recheck", req[r].ok) /\ req[r].pc = "acquire" /\ lock' = r
        BY <1>1, <2>4, <3>1, MovesBy DEF TakeLock, Acquire
      <4> QED
        BY <1>1, <2>1, <4>1 DEF Clean, Moves
    <3>2. CASE lock # None /\ Goto(r, "waiting") /\ UNCHANGED keys
      <4>1. Moves(r, "waiting", req[r].ok) /\ req[r].pc = "acquire"
        BY <1>1, <2>4, <3>2, MovesBy DEF Acquire
      <4> QED
        BY <2>1, <3>2, <4>1, CleanOutside DEF Waits
    <3> QED
      BY <2>4, <3>1, <3>2 DEF Acquire
  <2>5. CASE HandlerSucceeds(r)
    <3>1. ~req[r].lost /\ lock = r
      BY <2>1, <2>5 DEF IInv, Exclusive, HandlerSucceeds
    <3>2. Moves(r, "completing", TRUE) /\ UNCHANGED keys
      BY <1>1, <2>1, <2>5, <3>1 DEF HandlerSucceeds, Moves, CallType
    <3> QED
      BY <1>1, <2>1, <3>1, <3>2 DEF Clean, Moves, keys
  <2>6. CASE Complete(r)
    <3>1. lock = r
      BY <2>1, <2>6 DEF IInv, Exclusive, Complete
    <3>2. Store(r) /\ Moves(r, "done", req[r].ok)
      BY <1>1, <2>6, <3>1, MovesBy DEF Complete
    <3> QED
      BY <1>1, <2>1, <3>2 DEF Clean, Moves, Store
  <2>7. CASE Persist(r)
    BY <2>1, <2>7 DEF IInv, Exclusive, Persist
  <2>8. CASE Unlock(r)
    <3>1. ~req[r].ok /\ req[r].pc = "unlock"
      BY <2>1, <2>8 DEF Clean, Unlock
    <3>2. /\ Moves(r, "unfence", FALSE) /\ fence' = fence
          /\ lock' = IF lock = r THEN None ELSE lock
      <4>1. Goto(r, "unfence") /\ req[r].ok = FALSE
        BY <2>1, <2>8, <3>1 DEF Unlock, CallType
      <4> QED
        BY <1>1, <2>8, <4>1, MovesBy DEF Unlock
    <3> QED
      BY <1>1, <2>1, <3>1, <3>2 DEF Clean, Moves
  <2>9. CASE Unfence(r)
    <3>1. Moves(r, "done", req[r].ok) /\ fence' = None /\ lock' = lock /\ req[r].pc = "unfence"
      BY <1>1, <2>9, MovesBy DEF Unfence
    <3> QED
      BY <1>1, <2>1, <3>1 DEF Clean, Moves
  <2> QED
    BY <1>2, <2>3, <2>4, <2>5, <2>6, <2>7, <2>8, <2>9 DEF Step
<1>3. ASSUME NEW r \in Req, HeartbeatLosesLock(r) PROVE Clean'
  <2>1. lock = r
    BY <1>3 DEF IInv, Exclusive, HeartbeatLosesLock
  <2> QED
    BY <1>3, <2>1 DEF HeartbeatLosesLock
<1>4. ASSUME NEW r \in Req, Fault(r) PROVE Clean'
  BY <1>1, <1>4 DEF Fault
<1>5. CASE LockExpires
  <2>1. faults = 0 /\ ~Live(lock) /\ lock \in Req
    BY <1>1, <1>5 DEF LockExpires
  <2> QED
    BY <1>5, <2>1 DEF LockExpires, Clean, Live
<1> QED
  BY <1>0, <1>2, <1>3, <1>4, <1>5 DEF Next, Terminating

\* Without faults a key whose calls have all ended keeps neither lock nor fence.
THEOREM NothingLeft == Spec => []NothingLeftBehind
<1>1. Init => Clean
  BY DEF Init, NewCall, Clean
<1>2. IInv /\ Clean => NothingLeftBehind
  <2> SUFFICES ASSUME IInv, Clean, faults = 0, \A r \in Req : ~Live(r)
               PROVE  lock = None /\ fence = None
    BY DEF NothingLeftBehind
  <2>1. lock = None
    <3>1. lock = None \/ lock \in Req
      BY DEF IInv, TypeOK
    <3> QED
      BY <3>1 DEF Clean, Live
  <2> QED
    BY <2>1 DEF Clean, Live
<1> QED
  BY <1>1, <1>2, Inductive, CleanStep, PTL DEF Spec

-----------------------------------------------------------------------------
(* What it takes to run a handler without its fence: a call whose handler    *)
(* failed drops its lock before its fence, and the fence it drops in the end *)
(* may be the next holder's.                                                 *)

\* No handler has failed.
NoneFailed == \A r \in Req : req[r].error # "handler"

\* While nothing fails, a call cleans up because of a stored result or of its
\* own handler, and the lock comes with its holder's fence until one is stored.
Behind == faults = 0 =>
    /\ \A r \in Req : req[r].error = "handler" => req[r].pc \in {"unlock", "unfence", "done"}
    /\ NoneFailed =>
         /\ \A r \in Req : req[r].pc \in {"unlock", "unfence"} => result # None
         /\ lock # None => result # None \/ fence = HashOf[lock]

\* What Behind sees of a call's step.
Marks(r, pc, e) == /\ \A s \in Req : s # r => req'[s] = req[s]
                   /\ req'[r].pc = pc
                   /\ req'[r].error = e

LEMMA MarksBy ==
  ASSUME req \in [Req -> CallType], NEW r \in Req, NEW pc
  PROVE  /\ Goto(r, pc) => Marks(r, pc, req[r].error)
         /\ \A e \in Errors : Fail(r, e, pc) => Marks(r, pc, e)
         /\ \A s : Answer(r, s, pc) => Marks(r, pc, req[r].error)
         /\ Replay(r, pc) => Marks(r, pc, req[r].error) \/ Marks(r, pc, "keyReused")
<1>1. req[r] \in CallType
  OBVIOUS
<1>2. Goto(r, pc) => Marks(r, pc, req[r].error)
  BY <1>1 DEF Goto, Marks, CallType
<1>3. ASSUME NEW e \in Errors, Fail(r, e, pc) PROVE Marks(r, pc, e)
  BY <1>1, <1>3 DEF Fail, Marks, CallType
<1>4. ASSUME NEW s, Answer(r, s, pc) PROVE Marks(r, pc, req[r].error)
  BY <1>1, <1>4 DEF Answer, Marks, CallType
<1>5. Replay(r, pc) => Marks(r, pc, req[r].error) \/ Marks(r, pc, "keyReused")
  BY <1>3, <1>4 DEF Replay, Errors
<1> QED
  BY <1>2, <1>3, <1>4, <1>5

LEMMA BehindBy ==
  ASSUME Behind, faults = 0, NEW r \in Req, NEW pc, NEW e, Marks(r, pc, e),
         e = req[r].error \/ req[r].error # "handler",
         e = "handler" => pc \in {"unlock", "unfence", "done"},
         e # "handler" /\ NoneFailed =>
            /\ pc \in {"unlock", "unfence"} => result' # None
            /\ lock' # None => result' # None \/ fence' = HashOf[lock'],
         result # None => result' # None
  PROVE  Behind'
BY DEF Behind, NoneFailed, Marks

\* Before and in the critical section no handler of the call has failed, and a
\* step that leaves the keys and does not fail it changes nothing.
LEMMA BehindQuietly ==
  ASSUME Behind, faults = 0, NEW r \in Req, NEW pc, NEW e, Marks(r, pc, e), UNCHANGED keys,
         req[r].pc \notin {"unlock", "unfence", "done"}, e = req[r].error \/ e # "handler",
         pc \in {"unlock", "unfence"} => result # None
  PROVE  Behind'
<1>1. req[r].error # "handler"
  BY DEF Behind
<1> QED
  BY <1>1, BehindBy DEF Behind, keys

LEMMA BehindStep == IInv /\ Clean /\ Behind /\ [Next]_vars => Behind'
<1> SUFFICES ASSUME IInv, Clean, Behind, [Next]_vars, faults' = 0 PROVE Behind'
  BY DEF Behind
<1>0. CASE UNCHANGED vars
  BY <1>0 DEF vars, Behind, NoneFailed
<1>1. /\ req \in [Req -> CallType] /\ (lock = None \/ lock \in Req)
      /\ faults \in Nat /\ None \notin Req \cup Hash /\ HashOf \in [Req -> Hash]
      /\ Errors = {"none", "keyReused", "outcomeUnknown", "inProgress", "handler", "redis"}
  BY RequestsAssumption DEF IInv, TypeOK, Errors
<1>2. ASSUME NEW r \in Req, Step(r) \/ WaitTimeout(r) PROVE Behind'
  <2>1. faults = 0 /\ req[r] \in CallType
    BY <1>1, <1>2 DEF Step, GetResult, CheckFence, Acquire, WaitResult, WaitLock, WaitFence,
       LastLook, Recheck, HandlerSucceeds, HandlerFails, Complete, Persist, Unlock, Unfence,
       WaitTimeout
  <2> DEFINE Goes == \E pc \in {"done", "checkFence", "acquire", "running"} \cup Waits : \E e :
                        Marks(r, pc, e) /\ (e = req[r].error \/ e # "handler")
  <2>2. GiveUp(r) => Goes
    BY <1>1, MarksBy DEF GiveUp, Waits
  <2>3. CASE \/ GetResult(r) \/ CheckFence(r) \/ WaitResult(r) \/ WaitLock(r) \/ WaitFence(r)
             \/ WaitTimeout(r) \/ LastLook(r)
    <3>1. UNCHANGED keys /\ req[r].pc \in {"new", "checkFence"} \cup Waits /\ Goes
      <4>1. CASE GetResult(r) \/ WaitResult(r) \/ WaitLock(r)
        BY <1>1, <4>1, MarksBy DEF GetResult, WaitResult, WaitLock, Waits
      <4>2. CASE CheckFence(r) \/ LastLook(r)
        BY <1>1, <4>2, MarksBy DEF CheckFence, LastLook, Waits
      <4>3. CASE WaitFence(r)
        <5>1. ASSUME req' = [req EXCEPT ![r].pc = "waiting", ![r].sawFence = TRUE]
              PROVE  Marks(r, "waiting", req[r].error)
          BY <1>1, <2>1, <5>1 DEF Marks, CallType
        <5>2. Goes
          <6>1. CASE fence = None
            BY <2>2, <4>3, <6>1, <1>1 DEF WaitFence
          <6>2. CASE fence # None /\ fence = HashOf[r]
            BY <4>3, <5>1, <6>2 DEF WaitFence, Waits
          <6>3. CASE fence # None /\ fence # HashOf[r]
            BY <1>1, <4>3, <6>3, MarksBy DEF WaitFence
          <6> QED
            BY <6>1, <6>2, <6>3
        <5> QED
          BY <4>3, <5>2 DEF WaitFence, Waits
      <4>4. CASE WaitTimeout(r)
        BY <2>2, <4>4 DEF WaitTimeout, Waits
      <4> QED
        BY <2>3, <4>1, <4>2, <4>3, <4>4
    <3> QED
      BY <2>1, <3>1, BehindQuietly DEF Waits
  <2>4. CASE Acquire(r)
    <3>1. CASE TakeLock(r) /\ Goto(r, "recheck")
      <4>1. /\ Marks(r, "recheck", req[r].error) /\ req[r].pc = "acquire"
            /\ lock' = r /\ fence' = HashOf[r] /\ result' = result
        BY <1>1, <2>4, <3>1, MarksBy DEF TakeLock, Acquire
      <4>2. req[r].error # "handler"
        BY <2>1, <4>1 DEF Behind
      <4> QED
        BY <2>1, <4>1, <4>2, BehindBy
    <3>2. CASE lock # None /\ Goto(r, "waiting") /\ UNCHANGED keys
      <4>1. Marks(r, "waiting", req[r].error) /\ req[r].pc = "acquire"
        BY <1>1, <2>4, <3>2, MarksBy DEF Acquire
      <4> QED
        BY <2>1, <3>2, <4>1, BehindQuietly
    <3> QED
      BY <2>4, <3>1, <3>2 DEF Acquire
  <2>5. CASE Recheck(r)
    <3>1. UNCHANGED keys /\ req[r].pc = "recheck"
      BY <2>5 DEF Recheck
    <3>2. PICK pc \in {"running", "unlock"}, e \in {req[r].error, "keyReused"} :
            Marks(r, pc, e) /\ (pc = "unlock" => result # None)
      BY <1>1, <2>5, MarksBy DEF Recheck
    <3> QED
      BY <2>1, <3>1, <3>2, BehindQuietly
  <2>6. CASE HandlerSucceeds(r)
    <3>1. ~req[r].lost /\ req[r].pc = "running"
      BY <2>1, <2>6 DEF IInv, Exclusive, HandlerSucceeds
    <3>2. Marks(r, "completing", req[r].error) /\ UNCHANGED keys
      BY <1>1, <2>1, <2>6, <3>1 DEF HandlerSucceeds, Marks, CallType
    <3> QED
      BY <2>1, <3>1, <3>2, BehindQuietly
  <2>7. CASE HandlerFails(r)
    <3>1. Marks(r, "unlock", "handler") /\ UNCHANGED keys /\ req[r].pc = "running"
      BY <1>1, <2>7, MarksBy DEF HandlerFails
    <3>2. req[r].error # "handler"
      BY <2>1, <3>1 DEF Behind
    <3> QED
      BY <2>1, <3>1, <3>2, BehindBy DEF keys
  <2>8. CASE Complete(r)
    <3>1. lock = r /\ req[r].pc = "completing"
      BY <2>1, <2>8 DEF IInv, Exclusive, Complete
    <3>2. Store(r) /\ Marks(r, "done", req[r].error)
      BY <1>1, <2>8, <3>1, MarksBy DEF Complete
    <3>3. req[r].error # "handler" /\ result' # None
      BY <1>1, <2>1, <3>1, <3>2 DEF Behind, Store
    <3> QED
      BY <2>1, <3>2, <3>3, BehindBy
  <2>9. CASE Persist(r)
    BY <2>1, <2>9 DEF IInv, Exclusive, Persist
  <2>10. CASE Unlock(r)
    <3>1. ~req[r].ok /\ req[r].pc = "unlock"
      BY <2>1, <2>10 DEF Clean, Unlock
    <3>2. /\ Marks(r, "unfence", req[r].error) /\ UNCHANGED <<fence, result>>
          /\ lock' = IF lock = r THEN None ELSE lock
      <4>1. Goto(r, "unfence")
        BY <2>1, <2>10, <3>1 DEF Unlock, CallType
      <4> QED
        BY <1>1, <2>10, <4>1, MarksBy DEF Unlock
    <3>3. NoneFailed => result # None
      BY <2>1, <3>1 DEF Behind
    <3> QED
      BY <2>1, <3>2, <3>3, BehindBy
  <2>11. CASE Unfence(r)
    <3>1. /\ Marks(r, "done", req[r].error) /\ UNCHANGED <<lock, result>>
          /\ req[r].pc = "unfence"
      BY <1>1, <2>11, MarksBy DEF Unfence
    <3>2. NoneFailed => result # None
      BY <2>1, <3>1 DEF Behind
    <3> QED
      BY <2>1, <3>1, <3>2, BehindBy
  <2> HIDE DEF Goes
  <2> QED
    BY <1>2, <2>3, <2>4, <2>5, <2>6, <2>7, <2>8, <2>9, <2>10, <2>11 DEF Step
<1>3. ASSUME NEW r \in Req, HeartbeatLosesLock(r) PROVE Behind'
  <2>1. lock = r
    BY <1>3 DEF IInv, Exclusive, HeartbeatLosesLock
  <2> QED
    BY <1>3, <2>1 DEF HeartbeatLosesLock
<1>4. ASSUME NEW r \in Req, Fault(r) PROVE Behind'
  BY <1>1, <1>4 DEF Fault
<1>5. CASE LockExpires
  BY <1>1, <1>5 DEF LockExpires, Behind, NoneFailed
<1> QED
  BY <1>0, <1>2, <1>3, <1>4, <1>5 DEF Next, Terminating

\* The README's reservation holds of every run in which nothing fails and no
\* handler throws: without faults only a call whose handler threw can take a
\* running handler's fence away.
THEOREM FencedUnlessHandlerFails ==
  Spec => []((faults = 0 /\ \A r \in Req : req[r].error # "handler") => HandlerRunsFenced)
<1>1. Init => Clean
  BY DEF Init, NewCall, Clean
<1>2. Init => Behind
  BY DEF Init, NewCall, Behind
<1>3. IInv /\ Behind =>
        ((faults = 0 /\ \A r \in Req : req[r].error # "handler") => HandlerRunsFenced)
  BY RequestsAssumption DEF IInv, Exclusive, Behind, NoneFailed, HandlerRunsFenced
<1> QED
  BY <1>1, <1>2, <1>3, Inductive, CleanStep, BehindStep, PTL DEF Spec

-----------------------------------------------------------------------------
(* The keys and their scripts implement OnceContract.                        *)

Before == {"new", "checkFence", "acquire", "recheck", "running"} \cup Waits
Over == {"unlock", "unfence", "done", "dead"}

\* A call runs its handler once, and is answered when there is nothing left to
\* do but to clean up.
Pending == \A r \in Req : /\ req[r].pc \in Before => r \notin executed
                          /\ req[r].pc \notin Over => req[r].answer = None

\* What the contract sees of a call's step.
Leads(r, pc, a) == /\ \A s \in Req : s # r => req'[s] = req[s]
                   /\ req'[r].pc = pc
                   /\ req'[r].answer = a

\* A step is allowed if the invariant goes on and the contract has the step.
Allowed == Pending' /\ Contract!Next

LEMMA LeadsBy ==
  ASSUME req \in [Req -> CallType], NEW r \in Req, NEW pc \in Control
  PROVE  /\ Goto(r, pc) => Leads(r, pc, req[r].answer)
         /\ \A e \in Errors : Fail(r, e, pc) => Leads(r, pc, None)
         /\ \A s \in Req : Answer(r, s, pc) => Leads(r, pc, s)
         /\ result \in Req /\ Replay(r, pc) =>
              \/ Leads(r, pc, None)
              \/ Leads(r, pc, result) /\ HashOf[result] = HashOf[r]
<1>1. \A a : Update(r, pc, a) => Leads(r, pc, a)
  BY DEF Update, Leads
<1>2. "keyReused" \in Errors
  BY DEF Errors
<1> QED
  BY <1>1, <1>2, Updates DEF Replay

\* The answers, before and after a call's step.
LEMMA AnswersBy ==
  ASSUME NEW r \in Req, NEW pc, NEW a, Leads(r, pc, a)
  PROVE  /\ [s \in Req |-> req'[s].answer] = [[s \in Req |-> req[s].answer] EXCEPT ![r] = a]
         /\ a = req[r].answer =>
              [s \in Req |-> req'[s].answer] = [s \in Req |-> req[s].answer]
BY DEF Leads

LEMMA PendingBy ==
  ASSUME Pending, NEW r \in Req, NEW pc, NEW a, Leads(r, pc, a),
         executed' = executed \/ executed' = executed \cup {r},
         pc \in Before => r \notin executed',
         pc \notin Over => a = None
  PROVE  Pending'
BY DEF Pending, Leads

\* A step that neither runs a handler nor answers, nor stores.
LEMMA Unseen ==
  ASSUME Pending, NEW r \in Req, NEW pc, Leads(r, pc, req[r].answer),
         UNCHANGED <<executed, result>>, faults' = 0 => faults = 0,
         \/ req[r].pc \in Before
         \/ req[r].pc \notin Over /\ pc \notin Before
         \/ pc \in Over
  PROVE  Allowed
<1>1. Pending'
  <2>1. Before \cap Over = {}
    BY DEF Before, Over, Waits
  <2> QED
    BY <2>1, PendingBy DEF Pending
<1>2. Contract!Next
  BY AnswersBy DEF Contract!Next
<1> QED
  BY <1>1, <1>2 DEF Allowed

LEMMA Replayed ==
  ASSUME Pending, NEW r \in Req, NEW pc \in Over, Leads(r, pc, result),
         result # None, HashOf[result] = HashOf[r], req[r].answer = None,
         UNCHANGED <<executed, result, faults>>
  PROVE  Allowed
<1>1. Pending'
  BY PendingBy DEF Over, Before, Waits
<1>2. Contract!Replay(r)
  BY AnswersBy DEF Contract!Replay
<1> QED
  BY <1>1, <1>2 DEF Allowed, Contract!Next

\* A step that fails may cost an answer, and may have stored a response.
LEMMA Failed ==
  ASSUME Pending, NEW r \in Req, NEW pc \in Over, Leads(r, pc, None), faults' # 0,
         UNCHANGED executed,
         \/ UNCHANGED result
         \/ result' = r /\ r \in executed /\ req[r].answer = None
  PROVE  Allowed
<1>1. Pending'
  BY PendingBy DEF Over, Before, Waits
<1>2. CASE UNCHANGED result
  <2>1. Contract!Withdraw(r)
    BY <1>2, AnswersBy DEF Contract!Withdraw
  <2> QED
    BY <1>1, <2>1 DEF Allowed, Contract!Next
<1>3. CASE result' = r /\ r \in executed /\ req[r].answer = None
  <2>1. Contract!StoreSilently(r)
    BY <1>3, AnswersBy DEF Contract!StoreSilently, Contract!Store
  <2> QED
    BY <1>1, <2>1 DEF Allowed, Contract!Next
<1> QED
  BY <1>2, <1>3

LEMMA Responded ==
  ASSUME Pending, NEW r \in Req, NEW pc \in Over, Leads(r, pc, r), r \in executed,
         result' = r, faults' = 0 => faults = 0 /\ result = None,
         req[r].answer = None, UNCHANGED executed
  PROVE  Allowed
<1>1. Pending'
  BY PendingBy DEF Over, Before, Waits
<1>2. Contract!Respond(r)
  BY AnswersBy DEF Contract!Respond, Contract!Store
<1> QED
  BY <1>1, <1>2 DEF Allowed, Contract!Next

\* What the lemmas below know of a call.
LEMMA CallKnown ==
  ASSUME IInv, Pending, NEW r \in Req
  PROVE  /\ req \in [Req -> CallType] /\ req[r] \in CallType
         /\ r # None /\ HashOf[r] # None /\ (result # None => result \in Req)
         /\ faults \in Nat
         /\ Errors = {"none", "keyReused", "outcomeUnknown", "inProgress", "handler", "redis"}
         /\ Control = Before \cup Over \cup {"completing", "persisting"}
         /\ Before = {"new", "checkFence", "acquire", "recheck", "running",
                      "waiting", "waitLock", "waitFence", "lastLook"}
         /\ Over = {"unlock", "unfence", "done", "dead"}
         /\ req[r].pc \in Before => r \notin executed
         /\ req[r].pc \notin Over => req[r].answer = None
BY RequestsAssumption DEF IInv, TypeOK, Pending, Errors, Control, Before, Over, Waits, Holds

LEMMA LookAllowed ==
  ASSUME IInv, Pending, NEW r \in Req,
         \/ GetResult(r) \/ CheckFence(r) \/ WaitResult(r) \/ WaitLock(r) \/ WaitFence(r)
         \/ WaitTimeout(r) \/ LastLook(r) \/ Recheck(r) \/ HandlerFails(r)
  PROVE  Allowed
<1>1. /\ UNCHANGED <<executed, result, faults>>
      /\ req[r].pc \in Before /\ req[r].answer = None
  <2>1. UNCHANGED <<executed, result, faults>> /\ req[r].pc \in Before
    BY CallKnown DEF GetResult, CheckFence, WaitResult, WaitLock, WaitFence, WaitTimeout, LastLook,
       Recheck, HandlerFails, keys
  <2> QED
    BY <2>1, CallKnown
<1> DEFINE Goes == \E pc \in Control : Leads(r, pc, None)
           Looks == \E pc \in Over : Leads(r, pc, result) /\ result # None
                                     /\ HashOf[result] = HashOf[r]
<1>2. \A pc \in Control : Goto(r, pc) => Goes
  BY <1>1, CallKnown, LeadsBy
<1>3. \A pc \in Control, e \in Errors : Fail(r, e, pc) => Goes
  BY CallKnown, LeadsBy
<1>4. \A pc \in {"done", "unlock"} : result # None /\ Replay(r, pc) => Goes \/ Looks
  BY CallKnown, LeadsBy
<1>5. GiveUp(r) => Goes
  <2>1. {"lastLook", "done"} \subseteq Control /\ "inProgress" \in Errors
    BY CallKnown
  <2> QED
    BY <1>2, <1>3, <2>1 DEF GiveUp
<1>6. Goes \/ Looks
  <2>0. /\ {"checkFence", "acquire", "waiting", "waitLock", "waitFence", "running", "done",
             "unlock"} \subseteq Control
        /\ {"keyReused", "outcomeUnknown", "handler"} \subseteq Errors
    BY CallKnown
  <2> HIDE DEF Goes, Looks
  <2>1. CASE GetResult(r) \/ WaitResult(r) \/ Recheck(r)
    BY <1>2, <1>4, <2>0, <2>1 DEF GetResult, WaitResult, Recheck
  <2>2. CASE CheckFence(r) \/ WaitLock(r) \/ HandlerFails(r)
    BY <1>2, <1>3, <2>0, <2>2 DEF CheckFence, WaitLock, HandlerFails
  <2>3. CASE WaitFence(r)
    <3>1. CASE fence = None
      BY <1>5, <2>3, <3>1, CallKnown DEF WaitFence
    <3>2. CASE fence # None /\ fence = HashOf[r]
      <4>1. req' = [req EXCEPT ![r].pc = "waiting", ![r].sawFence = TRUE]
        BY <2>3, <3>2 DEF WaitFence
      <4>2. Leads(r, "waiting", None)
        BY <1>1, <4>1, CallKnown DEF Leads, CallType
      <4> QED
        BY <2>0, <4>2 DEF Goes
    <3>3. CASE fence # None /\ fence # HashOf[r]
      BY <1>3, <2>0, <2>3, <3>3 DEF WaitFence
    <3> QED
      BY <3>1, <3>2, <3>3
  <2>4. CASE WaitTimeout(r)
    BY <1>5, <2>4 DEF WaitTimeout
  <2>5. CASE LastLook(r)
    BY <1>3, <1>4, <2>0, <2>5 DEF LastLook
  <2> QED
    BY <2>1, <2>2, <2>3, <2>4, <2>5
<1>7. CASE Goes
  BY <1>1, <1>7, Unseen
<1>8. CASE Looks
  BY <1>1, <1>8, Replayed
<1> QED
  BY <1>6, <1>7, <1>8

LEMMA WorkAllowed ==
  ASSUME IInv, Pending, NEW r \in Req,
         \/ Acquire(r) \/ HeartbeatLosesLock(r) \/ HandlerSucceeds(r)
         \/ Unlock(r) \/ Unfence(r)
  PROVE  Allowed
<1> USE CallKnown
<1>1. CASE Acquire(r)
  <2>1. UNCHANGED <<executed, result, faults>> /\ req[r].pc = "acquire"
    BY <1>1 DEF Acquire, TakeLock, keys
  <2>2. \E pc \in {"recheck", "waiting"} : Leads(r, pc, req[r].answer)
    BY <1>1, LeadsBy DEF Acquire
  <2> QED
    BY <2>1, <2>2, Unseen
<1>2. CASE HeartbeatLosesLock(r)
  <2>1. UNCHANGED <<executed, result, faults>> /\ req[r].pc \in Before
    BY <1>2 DEF HeartbeatLosesLock, keys
  <2>2. Leads(r, req[r].pc, req[r].answer)
    BY <1>2 DEF HeartbeatLosesLock, Leads, CallType
  <2> QED
    BY <2>1, <2>2, Unseen
<1>3. CASE HandlerSucceeds(r)
  <2>1. /\ req[r].pc = "running" /\ r \notin executed /\ req[r].answer = None
        /\ executed' = executed \cup {r} /\ UNCHANGED <<result, faults>>
    BY <1>3 DEF HandlerSucceeds, keys
  <2>2. PICK pc \in {"persisting", "completing"} : Leads(r, pc, None)
    <3>1. Leads(r, IF req[r].lost THEN "persisting" ELSE "completing", req[r].answer)
      BY <1>3 DEF HandlerSucceeds, Leads, CallType
    <3> QED
      BY <2>1, <3>1
  <2>3. Pending'
    BY <2>1, <2>2, PendingBy
  <2>4. faults = 0 => executed = {}
    BY <2>1 DEF IInv, Exclusive
  <2>5. Contract!Execute(r)
    BY <2>1, <2>2, <2>4, AnswersBy DEF Contract!Execute
  <2> QED
    BY <2>1, <2>3, <2>5 DEF Allowed, Contract!Next
<1>4. CASE Unlock(r) \/ Unfence(r)
  <2>1. UNCHANGED <<executed, result, faults>>
    BY <1>4 DEF Unlock, Unfence
  <2>2. \E pc \in {"done", "unfence"} : Leads(r, pc, req[r].answer)
    BY <1>4, LeadsBy DEF Unlock, Unfence
  <2> QED
    BY <2>1, <2>2, Unseen
<1> QED
  BY <1>1, <1>2, <1>3, <1>4

LEMMA StoreAllowed ==
  ASSUME IInv, Pending, NEW r \in Req, Complete(r) \/ Persist(r)
  PROVE  Allowed
<1> USE CallKnown
<1>1. /\ req[r].pc \in {"completing", "persisting"} /\ r \in executed
      /\ req[r].answer = None /\ UNCHANGED <<executed, faults>>
  <2>1. req[r].pc \in {"completing", "persisting"} /\ UNCHANGED <<executed, faults>>
    BY DEF Complete, Persist
  <2> QED
    BY <2>1 DEF IInv, Origins
<1>2. CASE Complete(r)
  <2>1. CASE Store(r) /\ Answer(r, r, "done")
    <3>1. Leads(r, "done", r) /\ result' = r
      BY <2>1, LeadsBy DEF Store
    <3>2. faults = 0 => result = None
      BY <1>1, <1>2 DEF IInv, Exclusive, Complete
    <3> QED
      BY <1>1, <3>1, <3>2, Responded
  <2>2. CASE ~(Store(r) /\ Answer(r, r, "done"))
    <3>1. /\ req' = [req EXCEPT ![r].lost = TRUE, ![r].pc = "persisting"]
          /\ UNCHANGED result
      BY <1>2, <2>2 DEF Complete, keys
    <3>2. Leads(r, "persisting", req[r].answer)
      BY <3>1 DEF Leads, CallType
    <3> QED
      BY <1>1, <3>1, <3>2, Unseen
  <2> QED
    BY <2>1, <2>2
<1>3. CASE Persist(r)
  <2>1. CASE StoreIfMissing(r) /\ Answer(r, r, "done")
    <3>1. Leads(r, "done", r) /\ result' = r /\ result = None
      BY <2>1, LeadsBy DEF StoreIfMissing
    <3> QED
      BY <1>1, <3>1, Responded
  <2>2. CASE ~(StoreIfMissing(r) /\ Answer(r, r, "done"))
    <3>1. /\ result # None /\ UNCHANGED result
          /\ Replay(r, IF HashOf[result] = HashOf[r] THEN "done" ELSE "unlock")
      BY <1>3, <2>2 DEF Persist, keys
    <3>2. PICK pc \in {"done", "unlock"} :
            \/ Leads(r, pc, None)
            \/ Leads(r, pc, result) /\ HashOf[result] = HashOf[r]
      BY <3>1, LeadsBy
    <3> QED
      BY <1>1, <3>1, <3>2, Unseen, Replayed
  <2> QED
    BY <2>1, <2>2
<1> QED
  BY <1>2, <1>3

LEMMA FaultAllowed ==
  ASSUME IInv, Pending, NEW r \in Req, Fault(r)
  PROVE  Allowed
<1> USE CallKnown
<1>1. faults' # 0 /\ faults' \in Nat
  BY DEF Fault
<1>2. CASE Crash(r)
  <2>1. Leads(r, "dead", req[r].answer) /\ UNCHANGED <<executed, result>>
    BY <1>2, LeadsBy DEF Crash, keys
  <2> QED
    BY <1>1, <2>1, Unseen
<1>3. CASE HeartbeatErrors(r)
  <2>1. UNCHANGED <<executed, result>> /\ req[r].pc \in Before
    BY <1>3 DEF HeartbeatErrors, keys
  <2>2. Leads(r, req[r].pc, req[r].answer)
    BY <1>3 DEF HeartbeatErrors, Leads, CallType
  <2> QED
    BY <1>1, <2>1, <2>2, Unseen
<1>4. CASE CommandErrors(r)
  <2>1. PICK pc \in {"done", "unlock"} : Leads(r, pc, None)
    BY <1>4, LeadsBy DEF CommandErrors
  <2>2. UNCHANGED executed
    BY <1>4 DEF CommandErrors
  <2>3. \/ UNCHANGED result
        \/ result' = r /\ req[r].pc \in {"completing", "persisting"}
    BY <1>4 DEF CommandErrors, keys, TakeLock, Store, StoreIfMissing
  <2>4. \/ UNCHANGED result
        \/ result' = r /\ r \in executed /\ req[r].answer = None
    BY <2>3 DEF IInv, Origins
  <2> QED
    BY <1>1, <2>1, <2>2, <2>4, Failed
<1> QED
  BY <1>2, <1>3, <1>4 DEF Fault

LEMMA ContractNext == IInv /\ Pending /\ [Next]_vars => Allowed
<1> SUFFICES ASSUME IInv, Pending, [Next]_vars PROVE Allowed
  OBVIOUS
<1>1. ASSUME NEW r \in Req, Step(r) \/ WaitTimeout(r) \/ HeartbeatLosesLock(r) \/ Fault(r)
      PROVE  Allowed
  BY <1>1, LookAllowed, WorkAllowed, StoreAllowed, FaultAllowed DEF Step
<1>2. CASE LockExpires \/ Terminating \/ UNCHANGED vars
  <2>1. UNCHANGED <<req, executed, result>> /\ (faults' = 0 => faults = 0)
    BY <1>2 DEF LockExpires, Terminating, vars, IInv, TypeOK
  <2> QED
    BY <2>1 DEF Allowed, Pending, Contract!Next
<1> QED
  BY <1>1, <1>2 DEF Next

\* Whatever requests race for the keys, and whatever fails, the callers see a
\* register: a call takes effect once, is answered with the response stored at
\* that moment, and only a failure replaces a response or withdraws an answer.
THEOREM KeepsContract == Spec => ContractSpec
<1>1. Init => Pending /\ Contract!Init
  BY DEF Init, NewCall, Pending, Contract!Init
<1>2. IInv /\ Pending /\ [Next]_vars => Pending' /\ [Contract!Next]_Contract!vars
  BY ContractNext DEF Allowed
<1> QED
  BY <1>1, <1>2, Inductive, PTL DEF Spec, ContractSpec, Contract!Spec
=============================================================================
