------------------------ MODULE OutboxProcessor_proofs ------------------------
(* Proofs about OutboxProcessor, for any number of events, workers and        *)
(* tokens, any batch size, lease, retry schedule and bound on faults.         *)
EXTENDS OutboxProcessor, TLAPS

LEMMA NoTokenNotToken == NoToken \notin Token
BY ChoicesAssumption

LEMMA IdleType == Idle \in WorkerType
<1>1. 0 \in 0 .. MaxAttempts /\ 0 \in 0 .. Stale /\ 0 \in 0 .. HeartbeatInterval
  BY SizesAssumption DEF Stale
<1> QED
  BY <1>1 DEF Idle, WorkerType

LEMMA AbsentRowType == AbsentRow \in RowType
<1>1. 0 \in 0 .. MaxAttempts /\ 0 \in 0 .. Stale
  BY SizesAssumption DEF Stale
<1> QED
  BY <1>1 DEF AbsentRow, RowType

\* How a call goes on after its claim or after an event: it is idle, or it
\* publishes one of the events left, under the same worker id and snapshot.
LEMMA ContinueStep ==
  ASSUME TypeOK, NEW p \in Proc, NEW rest \in SUBSET Event,
         Continue(p, worker[p], rest)
  PROVE  /\ worker' \in [Proc -> WorkerType]
         /\ \A q \in Proc : q # p => worker'[q] = worker[q]
         /\ \/ worker'[p] = Idle
            \/ /\ worker'[p].pc = "publishing"
               /\ worker'[p].token = worker[p].token
               /\ worker'[p].seen = worker[p].seen
               /\ worker'[p].todo = rest
               /\ worker'[p].cur \in rest
<1>1. worker \in [Proc -> WorkerType]
  BY DEF TypeOK
<1>2. CASE worker' = [worker EXCEPT ![p] = Idle]
  BY <1>1, <1>2, IdleType
<1>3. CASE \E e \in rest : worker' = [worker EXCEPT ![p] =
              [worker[p] EXCEPT !.pc = "publishing", !.todo = rest, !.cur = e, !.lost = FALSE,
                          !.inFlight = FALSE, !.timedOut = FALSE, !.stamp = 0, !.beat = 0]]
  <2>1. PICK e \in rest : worker' = [worker EXCEPT ![p] =
              [worker[p] EXCEPT !.pc = "publishing", !.todo = rest, !.cur = e, !.lost = FALSE,
                          !.inFlight = FALSE, !.timedOut = FALSE, !.stamp = 0, !.beat = 0]]
    BY <1>3
  <2> DEFINE w == [worker[p] EXCEPT !.pc = "publishing", !.todo = rest, !.cur = e, !.lost = FALSE,
                          !.inFlight = FALSE, !.timedOut = FALSE, !.stamp = 0, !.beat = 0]
  <2>2. 0 \in 0 .. Stale /\ 0 \in 0 .. HeartbeatInterval
    BY SizesAssumption DEF Stale
  <2>3. worker[p] \in WorkerType
    BY <1>1
  <2>4. w \in WorkerType
    BY <2>2, <2>3 DEF WorkerType
  <2>5. worker'[p] = w /\ \A q \in Proc : q # p => worker'[q] = worker[q]
    BY <1>1, <2>1
  <2>6. worker' \in [Proc -> WorkerType]
    BY <1>1, <2>1, <2>4
  <2>7. /\ w.pc = "publishing" /\ w.token = worker[p].token /\ w.seen = worker[p].seen
        /\ w.todo = rest /\ w.cur = e
    BY <2>3 DEF WorkerType
  <2> QED
    BY <2>5, <2>6, <2>7
<1> QED
  BY <1>2, <1>3 DEF Continue

-----------------------------------------------------------------------------
(* Type correctness.                                                        *)

\* Outside a claim and while a heartbeat is out, the call works on an event.
WorkerShape == \A p \in Proc :
    /\ worker[p].inFlight => Active(p)
    /\ Active(p) => worker[p].cur \in worker[p].todo
    /\ worker[p].pc = "idle" <=> worker[p].token = NoToken

LEMMA WorkingOn ==
  ASSUME TypeOK, WorkerShape, NEW p \in Proc, Active(p) \/ worker[p].inFlight
  PROVE  worker[p].cur \in Event /\ worker[p].cur \in worker[p].todo
BY DEF TypeOK, WorkerShape, WorkerType

\* A heartbeat moves nothing but the stamp of the row it finds its own.
LEMMA ExtendStep ==
  ASSUME TypeOK, NEW p \in Proc, worker[p].cur \in Event, Extend(p)
  PROVE  /\ row' \in [Event -> RowType]
         /\ \A e \in Event : /\ row'[e].status = row[e].status
                             /\ row'[e].attempts = row[e].attempts
                             /\ row'[e].owner = row[e].owner
<1> DEFINE c == worker[p].cur
<1>1. row \in [Event -> RowType] /\ worker[p].stamp \in 0 .. Stale
  BY DEF TypeOK, WorkerType
<1>2. [row[c] EXCEPT !.age = worker[p].stamp] \in RowType
  BY <1>1 DEF RowType
<1>3. CASE Owns(p, c)
  <2>1. row' = [row EXCEPT ![c] = [row[c] EXCEPT !.age = worker[p].stamp]]
    BY <1>3 DEF Extend
  <2>2. row' \in [Event -> RowType]
    BY <1>1, <1>2, <2>1
  <2>3. \A e \in Event : row'[e] = IF e = c THEN [row[c] EXCEPT !.age = worker[p].stamp] ELSE row[e]
    BY <1>1, <2>1
  <2> QED
    BY <1>1, <2>2, <2>3 DEF RowType
<1>4. CASE ~Owns(p, c)
  BY <1>1, <1>4 DEF Extend
<1> QED
  BY <1>3, <1>4

\* markProcessed() either finds its row and settles it, or changes nothing.
LEMMA SettleProcessedStep ==
  ASSUME TypeOK, NEW p \in Proc, worker[p].cur \in Event, SettleProcessed(p)
  PROVE  /\ row' \in [Event -> RowType]
         /\ \A e \in Event : e # worker[p].cur => row'[e] = row[e]
         /\ \/ ~Owns(p, worker[p].cur) /\ row' = row
            \/ /\ Owns(p, worker[p].cur)
               /\ row'[worker[p].cur].status = "processed"
               /\ row'[worker[p].cur].owner = NoToken
               /\ row'[worker[p].cur].attempts = row[worker[p].cur].attempts
<1> DEFINE c == worker[p].cur
           r == [row[c] EXCEPT !.status = "processed", !.age = 0, !.owner = NoToken]
<1>1. row \in [Event -> RowType] /\ 0 \in 0 .. Stale
  BY SizesAssumption DEF TypeOK, Stale
<1>2. r \in RowType
  BY <1>1 DEF RowType
<1>3. CASE Owns(p, c)
  <2>1. row' = [row EXCEPT ![c] = r]
    BY <1>1, <1>3 DEF SettleProcessed
  <2> QED
    BY <1>1, <1>2, <1>3, <2>1 DEF RowType
<1>4. CASE ~Owns(p, c)
  BY <1>1, <1>4 DEF SettleProcessed
<1> QED
  BY <1>3, <1>4

\* What markFailed() writes: one attempt more than the claim saw, given up
\* exactly when that is the last one.
LEMMA FailedRowStep ==
  ASSUME TypeOK, NEW p \in Proc, worker[p].cur \in Event,
         worker[p].seen[worker[p].cur] < MaxAttempts
  PROVE  /\ FailedRow(p) \in RowType
         /\ FailedRow(p).attempts = worker[p].seen[worker[p].cur] + 1
         /\ FailedRow(p).owner = NoToken
         /\ FailedRow(p).status = IF FailedRow(p).attempts = MaxAttempts THEN "failed" ELSE "pending"
<1> DEFINE a == worker[p].seen[worker[p].cur] + 1
<1>1. a \in 1 .. MaxAttempts /\ a \in 0 .. MaxAttempts
  BY SizesAssumption DEF TypeOK, WorkerType
<1>2. RetryDelay[a] \in Nat /\ 0 \in 0 .. Stale
  BY <1>1, ChoicesAssumption, SizesAssumption DEF Stale
<1>3. FailedRow(p) = IF a >= MaxAttempts
          THEN [AbsentRow EXCEPT !.status = "failed", !.attempts = a]
          ELSE [AbsentRow EXCEPT !.status = "pending", !.attempts = a, !.delay = RetryDelay[a]]
  BY DEF FailedRow
<1>4. a >= MaxAttempts <=> a = MaxAttempts
  BY <1>1, SizesAssumption
<1> QED
  BY <1>1, <1>2, <1>3, <1>4, AbsentRowType DEF AbsentRow, RowType

-----------------------------------------------------------------------------
(* The inductive invariant.                                                 *)

\* The rows a claim has locked are still as its SELECT saw them, and nobody
\* has its worker id yet.
ClaimsFresh == \A p \in Proc : \A e \in Event :
    worker[p].pc = "claiming" =>
        /\ row[e].owner # worker[p].token
        /\ e \in worker[p].todo => /\ row[e].status \in {"pending", "processing"}
                                   /\ row[e].attempts = worker[p].seen[e]

\* No two calls ever hold the same worker id.
TokensDistinct == \A p, q \in Proc :
    p # q /\ worker[p].pc # "idle" => worker[p].token # worker[q].token

TodoAppended == \A p \in Proc : \A e \in worker[p].todo : row[e].status # "absent"

MarkingDelivered == \A p \in Proc : worker[p].pc = "marking" => worker[p].cur \in delivered

IInv == /\ TypeOK
        /\ WorkerShape
        /\ TokensDistinct
        /\ ClaimsFresh
        /\ TodoAppended
        /\ OwnedSnapshotIsFresh
        /\ FailedExactlyWhenExhausted
        /\ MarkingDelivered
        /\ ProcessedWasDelivered

LEMMA InitIInv == Init => IInv
<1> SUFFICES ASSUME Init PROVE IInv
  OBVIOUS
<1>1. /\ row \in [Event -> RowType] /\ \A e \in Event : row[e] = AbsentRow
      /\ worker \in [Proc -> WorkerType] /\ \A p \in Proc : worker[p] = Idle
      /\ delivered = {} /\ faults = 0
  BY IdleType, AbsentRowType DEF Init
<1>2. TypeOK
  BY <1>1, SizesAssumption DEF TypeOK
<1>3. WorkerShape /\ TokensDistinct /\ ClaimsFresh /\ TodoAppended /\ MarkingDelivered
  BY <1>1 DEF WorkerShape, TokensDistinct, ClaimsFresh, TodoAppended, MarkingDelivered, Active, Idle
<1>4. OwnedSnapshotIsFresh /\ ProcessedWasDelivered
  BY <1>1 DEF OwnedSnapshotIsFresh, ProcessedWasDelivered, Active, Idle, AbsentRow
<1>5. FailedExactlyWhenExhausted
  BY <1>1, SizesAssumption DEF FailedExactlyWhenExhausted, AbsentRow
<1> QED
  BY <1>2, <1>3, <1>4, <1>5 DEF IInv

\* What the invariant sees of a row and of a worker.
SameRow(e) == /\ row'[e].status = row[e].status
              /\ row'[e].attempts = row[e].attempts
              /\ row'[e].owner = row[e].owner

SameWorker(p) == /\ worker'[p].pc = worker[p].pc
                 /\ worker'[p].token = worker[p].token
                 /\ worker'[p].todo = worker[p].todo
                 /\ worker'[p].cur = worker[p].cur
                 /\ worker'[p].seen = worker[p].seen
                 /\ worker'[p].inFlight => Active(p)

\* Steps that move stamps, timers and flags only.
LEMMA QuietStep ==
  ASSUME IInv, TypeOK', delivered' = delivered,
         \A e \in Event : SameRow(e), \A p \in Proc : SameWorker(p)
  PROVE  IInv'
<1> USE DEF IInv
<1>1. WorkerShape'
  BY DEF WorkerShape, SameWorker, Active
<1>2. TokensDistinct'
  BY DEF TokensDistinct, SameWorker
<1>3. ClaimsFresh'
  BY DEF ClaimsFresh, SameWorker, SameRow
<1>4. TodoAppended'
  BY DEF TodoAppended, SameWorker, SameRow, TypeOK, WorkerType
<1>5. OwnedSnapshotIsFresh'
  BY DEF OwnedSnapshotIsFresh, SameWorker, SameRow, Active, Owns
<1>6. FailedExactlyWhenExhausted'
  BY DEF FailedExactlyWhenExhausted, SameRow
<1>7. MarkingDelivered'
  BY DEF MarkingDelivered, SameWorker
<1>8. ProcessedWasDelivered'
  BY DEF ProcessedWasDelivered, SameRow
<1> QED
  BY <1>1, <1>2, <1>3, <1>4, <1>5, <1>6, <1>7, <1>8

\* A call settles, or returns to pending, the row it is at.
Settles(p) ==
    LET e == worker[p].cur
    IN  /\ Owns(p, e) /\ ~RowLocked(e)
        /\ row'[e].owner = NoToken
        /\ row'[e].status \in {"pending", "processed", "failed"}
        /\ row'[e].status = "failed" <=> row'[e].attempts = MaxAttempts
        /\ row'[e].status = "processed" => e \in delivered

Stays(p) == /\ worker'[p].pc \in {"publishing", "marking", "failing"}
            /\ worker'[p].token = worker[p].token
            /\ worker'[p].todo = worker[p].todo
            /\ worker'[p].cur = worker[p].cur
            /\ worker'[p].seen = worker[p].seen
            /\ worker'[p].pc = "marking" => worker[p].cur \in delivered'

MovesOn(p) == /\ worker'[p].pc = "publishing"
              /\ worker'[p].token = worker[p].token
              /\ worker'[p].todo = worker[p].todo \ {worker[p].cur}
              /\ worker'[p].cur \in worker'[p].todo
              /\ worker'[p].seen = worker[p].seen
              /\ Settles(p) \/ ~Owns(p, worker[p].cur)

\* Every step a call takes while it works on an event.
LEMMA ActiveStep ==
  ASSUME IInv, TypeOK', NEW p \in Proc, Active(p),
         delivered \subseteq delivered',
         \A e \in Event : e # worker[p].cur => SameRow(e),
         SameRow(worker[p].cur) \/ Settles(p),
         \A q \in Proc : q # p => worker'[q] = worker[q],
         worker'[p] = Idle \/ Stays(p) \/ MovesOn(p)
  PROVE  IInv'
<1> DEFINE c == worker[p].cur
<1> USE DEF IInv
<1>0. c \in Event /\ c \in worker[p].todo /\ worker[p].pc # "idle" /\ worker[p].token # NoToken
  BY WorkingOn DEF WorkerShape, Active
<1>a. /\ Idle.pc = "idle" /\ Idle.token = NoToken /\ Idle.todo = {} /\ ~Idle.inFlight
  BY DEF Idle
<1>b. worker'[p] = Idle \/ worker'[p].token = worker[p].token
  BY DEF Stays, MovesOn
<1>c. worker'[p] = Idle \/ worker'[p].pc \in {"publishing", "marking", "failing"}
  BY DEF Stays, MovesOn
<1>1. WorkerShape'
  <2> SUFFICES ASSUME NEW q \in Proc
               PROVE  /\ worker'[q].inFlight => Active(q)'
                      /\ Active(q)' => worker'[q].cur \in worker'[q].todo
                      /\ worker'[q].pc = "idle" <=> worker'[q].token = NoToken
    BY DEF WorkerShape
  <2>1. CASE q # p
    BY <2>1 DEF WorkerShape, Active
  <2>2. CASE q = p /\ worker'[p] = Idle
    BY <2>2, <1>a DEF Active
  <2>3. CASE q = p /\ (Stays(p) \/ MovesOn(p))
    BY <2>3, <1>0 DEF Active, Stays, MovesOn
  <2> QED
    BY <2>1, <2>2, <2>3
<1>2. TokensDistinct'
  <2> SUFFICES ASSUME NEW q \in Proc, NEW r \in Proc, q # r, worker'[q].pc # "idle"
               PROVE  worker'[q].token # worker'[r].token
    BY DEF TokensDistinct
  <2>1. CASE q # p /\ r # p
    BY <2>1 DEF TokensDistinct
  <2>2. CASE q = p
    BY <2>2, <1>0, <1>a, <1>b DEF TokensDistinct
  <2>3. CASE r = p
    BY <2>3, <1>a, <1>b DEF TokensDistinct, WorkerShape
  <2> QED
    BY <2>1, <2>2, <2>3
<1>3. ClaimsFresh'
  <2> SUFFICES ASSUME NEW q \in Proc, NEW e \in Event, worker'[q].pc = "claiming"
               PROVE  /\ row'[e].owner # worker'[q].token
                      /\ e \in worker'[q].todo => /\ row'[e].status \in {"pending", "processing"}
                                                  /\ row'[e].attempts = worker'[q].seen[e]
    BY DEF ClaimsFresh
  <2>1. q # p /\ worker'[q] = worker[q]
    BY <1>a, <1>c
  <2>2. CASE SameRow(e)
    BY <2>1, <2>2 DEF ClaimsFresh, SameRow
  <2>3. CASE e = c /\ Settles(p)
    <3>1. row'[e].owner # worker[q].token
      BY <2>1, <2>3 DEF Settles, WorkerShape
    <3>2. e \notin worker[q].todo
      BY <2>1, <2>3 DEF Settles, RowLocked
    <3> QED
      BY <2>1, <3>1, <3>2
  <2> QED
    BY <2>2, <2>3
<1>4. TodoAppended'
  <2> SUFFICES ASSUME NEW q \in Proc, NEW e \in worker'[q].todo
               PROVE  row'[e].status # "absent"
    BY DEF TodoAppended
  <2>1. e \in worker[q].todo
    BY <1>a DEF Stays, MovesOn
  <2>2. e \in Event
    BY <2>1 DEF TypeOK, WorkerType
  <2> QED
    BY <2>1, <2>2 DEF TodoAppended, SameRow, Settles
<1>5. OwnedSnapshotIsFresh'
  <2> SUFFICES ASSUME NEW q \in Proc, NEW e \in Event, Active(q)', Owns(q, e)'
               PROVE  /\ e \in worker'[q].todo
                      /\ worker'[q].seen[e] = row'[e].attempts
    BY DEF OwnedSnapshotIsFresh
  <2>0. row'[e].status = "processing" /\ row'[e].owner = worker'[q].token
    BY DEF Owns
  <2>1. SameRow(e)
    BY <2>0 DEF Settles
  <2>2. CASE q # p
    BY <2>0, <2>1, <2>2 DEF OwnedSnapshotIsFresh, Owns, SameRow, Active
  <2>3. CASE q = p
    <3>1. worker'[p] # Idle
      BY <1>a, <2>3 DEF Active
    <3>2. Owns(p, e)
      BY <2>0, <2>1, <2>3, <3>1, <1>b DEF Owns, SameRow
    <3>3. e \in worker[p].todo /\ worker[p].seen[e] = row[e].attempts
      BY <3>2 DEF OwnedSnapshotIsFresh
    <3>4. CASE Stays(p)
      BY <2>1, <2>3, <3>3, <3>4 DEF Stays, SameRow
    <3>5. CASE MovesOn(p)
      <4>1. e # c
        BY <2>0, <3>2, <3>5 DEF MovesOn, Settles
      <4> QED
        BY <2>1, <2>3, <3>3, <3>5, <4>1 DEF MovesOn, SameRow
    <3> QED
      BY <3>1, <3>4, <3>5
  <2> QED
    BY <2>2, <2>3
<1>6. FailedExactlyWhenExhausted'
  BY DEF FailedExactlyWhenExhausted, SameRow, Settles
<1>7. MarkingDelivered'
  BY <1>a DEF MarkingDelivered, Stays, MovesOn
<1>8. ProcessedWasDelivered'
  BY DEF ProcessedWasDelivered, SameRow, Settles
<1> QED
  BY <1>1, <1>2, <1>3, <1>4, <1>5, <1>6, <1>7, <1>8

-----------------------------------------------------------------------------
(* One lemma per kind of step.                                              *)

LEMMA AppendStep ==
  ASSUME IInv, NEW e \in Event, Append(e)
  PROVE  IInv'
<1> USE DEF IInv
<1>1. row \in [Event -> RowType] /\ row[e].attempts \in 0 .. MaxAttempts
  BY DEF TypeOK, RowType
<1>2. /\ row' = [row EXCEPT ![e] = [row[e] EXCEPT !.status = "pending"]]
      /\ worker' = worker /\ delivered' = delivered /\ faults' = faults
  BY <1>1 DEF Append
<1>3. [row[e] EXCEPT !.status = "pending"] \in RowType
  BY <1>1 DEF RowType
<1>4. /\ \A d \in Event : d # e => row'[d] = row[d]
      /\ row'[e].status = "pending" /\ row[e].status = "absent"
      /\ row'[e].attempts = row[e].attempts /\ row'[e].owner = row[e].owner
  BY <1>1, <1>2 DEF RowType, Append
<1>5. TypeOK'
  BY <1>1, <1>2, <1>3 DEF TypeOK
<1>6. \A p \in Proc : e \notin worker[p].todo
  BY <1>4 DEF TodoAppended
<1>7. WorkerShape' /\ TokensDistinct' /\ MarkingDelivered'
  BY <1>2 DEF WorkerShape, TokensDistinct, MarkingDelivered, Active
<1>8. ClaimsFresh'
  BY <1>2, <1>4, <1>6 DEF ClaimsFresh
<1>9. TodoAppended'
  BY <1>2, <1>4, <1>6 DEF TodoAppended, TypeOK, WorkerType
<1>10. OwnedSnapshotIsFresh'
  BY <1>2, <1>4 DEF OwnedSnapshotIsFresh, Owns, Active
<1>11. FailedExactlyWhenExhausted' /\ ProcessedWasDelivered'
  BY <1>2, <1>4 DEF FailedExactlyWhenExhausted, ProcessedWasDelivered
<1> QED
  BY <1>5, <1>7, <1>8, <1>9, <1>10, <1>11

LEMMA ClaimSelectStep ==
  ASSUME IInv, NEW p \in Proc, ClaimSelect(p)
  PROVE  IInv'
<1> USE DEF IInv
<1> DEFINE locks(batch) == [e \in Event |-> IF e \in batch THEN row[e].attempts ELSE 0]
           claim(t, batch) == [Idle EXCEPT !.pc = "claiming", !.token = t, !.todo = batch,
                                           !.seen = locks(batch)]
<1>1. PICK t \in FreshTokens, batch \in SUBSET Event :
         /\ worker' = [worker EXCEPT ![p] = claim(t, batch)]
         /\ \A e \in batch : Claimable(e)
  <2>1. PICK t \in FreshTokens :
           worker' = [worker EXCEPT ![p] =
              claim(t, Oldest({e \in Event : Claimable(e) /\ ~RowLocked(e)}, BatchSize))]
    BY DEF ClaimSelect
  <2>2. \A e \in Oldest({d \in Event : Claimable(d) /\ ~RowLocked(d)}, BatchSize) :
           e \in Event /\ Claimable(e)
    BY DEF Oldest
  <2> HIDE DEF claim
  <2> QED
    BY <2>1, <2>2
<1>2. /\ row \in [Event -> RowType] /\ worker \in [Proc -> WorkerType]
      /\ row' = row /\ delivered' = delivered /\ faults' = faults
      /\ worker[p].pc = "idle"
  BY DEF TypeOK, ClaimSelect
<1>3. /\ t \in Token
      /\ \A e \in Event : row[e].owner # t
      /\ \A q \in Proc : worker[q].token # t
  BY DEF FreshTokens
<1>4. locks(batch) \in [Event -> 0 .. MaxAttempts]
  BY <1>2, SizesAssumption DEF RowType
<1>5. /\ claim(t, batch) \in WorkerType
      /\ claim(t, batch).pc = "claiming" /\ claim(t, batch).token = t
      /\ claim(t, batch).todo = batch /\ claim(t, batch).seen = locks(batch)
      /\ ~claim(t, batch).inFlight
  <2> HIDE DEF locks
  <2> QED
    BY <1>3, <1>4, IdleType DEF Idle, WorkerType
<1>6. /\ worker'[p] = claim(t, batch)
      /\ \A q \in Proc : q # p => worker'[q] = worker[q]
      /\ worker' \in [Proc -> WorkerType]
  <2> HIDE DEF claim
  <2> QED
    BY <1>1, <1>2, <1>5
<1> HIDE DEF claim
<1>7. TypeOK'
  BY <1>2, <1>6 DEF TypeOK
<1>8. WorkerShape' /\ MarkingDelivered'
  BY <1>2, <1>3, <1>5, <1>6, NoTokenNotToken DEF WorkerShape, MarkingDelivered, Active
<1>9. TokensDistinct'
  BY <1>3, <1>5, <1>6 DEF TokensDistinct
<1>10. \A e \in batch : /\ row[e].status \in {"pending", "processing"}
                        /\ row[e].attempts = locks(batch)[e]
  BY <1>1 DEF Claimable
<1>11. ClaimsFresh'
  <2> HIDE DEF locks
  <2> SUFFICES ASSUME NEW q \in Proc, NEW e \in Event, worker'[q].pc = "claiming"
               PROVE  /\ row'[e].owner # worker'[q].token
                      /\ e \in worker'[q].todo => /\ row'[e].status \in {"pending", "processing"}
                                                  /\ row'[e].attempts = worker'[q].seen[e]
    BY DEF ClaimsFresh
  <2>1. CASE q = p
    BY <1>2, <1>3, <1>5, <1>6, <1>10, <2>1
  <2>2. CASE q # p
    BY <1>2, <1>6, <2>2 DEF ClaimsFresh
  <2> QED
    BY <2>1, <2>2
<1>12. TodoAppended'
  BY <1>2, <1>5, <1>6, <1>10 DEF TodoAppended
<1>13. OwnedSnapshotIsFresh'
  BY <1>2, <1>5, <1>6 DEF OwnedSnapshotIsFresh, Owns, Active
<1>14. FailedExactlyWhenExhausted' /\ ProcessedWasDelivered'
  BY <1>2 DEF FailedExactlyWhenExhausted, ProcessedWasDelivered
<1> QED
  BY <1>7, <1>8, <1>9, <1>11, <1>12, <1>13, <1>14

\* What the claim's UPDATE does to the rows.
LEMMA ClaimedRows ==
  ASSUME IInv, NEW p \in Proc, ClaimCommit(p)
  PROVE  /\ row' \in [Event -> RowType]
         /\ \A e \in Event : row'[e].attempts = row[e].attempts
         /\ \A e \in worker[p].todo : /\ row'[e].status = "processing"
                                      /\ row'[e].owner = worker[p].token
                                      /\ row[e].status \in {"pending", "processing"}
         /\ \A e \in Event \ worker[p].todo : row'[e] = row[e]
<1> DEFINE r(e) == [row[e] EXCEPT !.status = "processing", !.age = worker[p].stamp,
                                  !.owner = worker[p].token]
<1>1. /\ row \in [Event -> RowType] /\ worker[p].stamp \in 0 .. Stale
      /\ worker[p].token \in Token \cup {NoToken} /\ worker[p].todo \subseteq Event
  BY DEF IInv, TypeOK, WorkerType
<1>2. \A e \in Event : /\ r(e) \in RowType /\ r(e).attempts = row[e].attempts
                       /\ r(e).status = "processing" /\ r(e).owner = worker[p].token
  BY <1>1 DEF RowType
<1>3. row' = [e \in Event |-> IF e \in worker[p].todo THEN r(e) ELSE row[e]]
  BY DEF ClaimCommit
<1>4. \A e \in worker[p].todo : row[e].status \in {"pending", "processing"}
  BY <1>1 DEF IInv, ClaimsFresh, ClaimCommit
<1> QED
  BY <1>1, <1>2, <1>3, <1>4

LEMMA ClaimCommitStep ==
  ASSUME IInv, NEW p \in Proc, ClaimCommit(p)
  PROVE  IInv'
<1> USE DEF IInv
<1> DEFINE todo == worker[p].todo
           t == worker[p].token
<1>1. /\ worker[p].pc = "claiming" /\ todo \subseteq Event /\ t # NoToken
      /\ delivered' = delivered /\ faults' = faults
  BY DEF TypeOK, WorkerType, WorkerShape, ClaimCommit
<1>2. /\ row' \in [Event -> RowType]
      /\ \A e \in Event : row'[e].attempts = row[e].attempts
      /\ \A e \in todo : row'[e].status = "processing" /\ row'[e].owner = t
      /\ \A e \in todo : row[e].status \in {"pending", "processing"}
      /\ \A e \in Event \ todo : row'[e] = row[e]
  BY ClaimedRows
<1>3. /\ worker' \in [Proc -> WorkerType]
      /\ \A q \in Proc : q # p => worker'[q] = worker[q]
      /\ \/ worker'[p] = Idle
         \/ /\ worker'[p].pc = "publishing" /\ worker'[p].token = t
            /\ worker'[p].seen = worker[p].seen
            /\ worker'[p].todo = todo /\ worker'[p].cur \in todo
  BY <1>1, ContinueStep DEF ClaimCommit
<1>4. /\ Idle.pc = "idle" /\ Idle.token = NoToken /\ Idle.todo = {} /\ ~Idle.inFlight
  BY DEF Idle
<1>5. TypeOK'
  BY <1>1, <1>2, <1>3 DEF TypeOK
<1>6. WorkerShape' /\ MarkingDelivered'
  BY <1>1, <1>3, <1>4 DEF WorkerShape, MarkingDelivered, Active
<1>7. TokensDistinct'
  BY <1>1, <1>3, <1>4 DEF TokensDistinct, WorkerShape
<1>8. ClaimsFresh'
  <2> SUFFICES ASSUME NEW q \in Proc, NEW e \in Event, worker'[q].pc = "claiming"
               PROVE  /\ row'[e].owner # worker'[q].token
                      /\ e \in worker'[q].todo => /\ row'[e].status \in {"pending", "processing"}
                                                  /\ row'[e].attempts = worker'[q].seen[e]
    BY DEF ClaimsFresh
  <2>1. q # p /\ worker'[q] = worker[q] /\ worker[q].token # t
    BY <1>1, <1>3, <1>4 DEF TokensDistinct
  <2>2. CASE e \in todo
    BY <1>2, <2>1, <2>2 DEF ClaimsFresh
  <2>3. CASE e \notin todo
    BY <1>2, <2>1, <2>3 DEF ClaimsFresh
  <2> QED
    BY <2>2, <2>3
<1>9. TodoAppended'
  <2> SUFFICES ASSUME NEW q \in Proc, NEW e \in worker'[q].todo
               PROVE  row'[e].status # "absent"
    BY DEF TodoAppended
  <2>1. e \in worker[q].todo /\ e \in Event
    BY <1>3, <1>4 DEF TypeOK, WorkerType
  <2> QED
    BY <1>2, <2>1 DEF TodoAppended
<1>10. OwnedSnapshotIsFresh'
  <2> SUFFICES ASSUME NEW q \in Proc, NEW e \in Event, Active(q)', Owns(q, e)'
               PROVE  /\ e \in worker'[q].todo
                      /\ worker'[q].seen[e] = row'[e].attempts
    BY DEF OwnedSnapshotIsFresh
  <2>0. row'[e].status = "processing" /\ row'[e].owner = worker'[q].token
    BY DEF Owns
  <2>1. CASE q = p
    <3>1. /\ worker'[p].token = t /\ worker'[p].todo = todo
          /\ worker'[p].seen = worker[p].seen
      BY <1>3, <1>4, <2>1 DEF Active
    <3>2. e \in todo
      BY <1>1, <1>2, <2>0, <2>1, <3>1 DEF ClaimsFresh
    <3> QED
      BY <1>1, <1>2, <2>1, <3>1, <3>2 DEF ClaimsFresh
  <2>2. CASE q # p
    <3>1. worker'[q] = worker[q] /\ worker[q].token # t
      BY <1>1, <1>3, <2>2 DEF TokensDistinct
    <3>2. e \notin todo
      BY <1>2, <2>0, <3>1
    <3> QED
      BY <1>2, <2>0, <3>1, <3>2 DEF OwnedSnapshotIsFresh, Owns, Active
  <2> QED
    BY <2>1, <2>2
<1>11. FailedExactlyWhenExhausted' /\ ProcessedWasDelivered'
  <2> SUFFICES ASSUME NEW e \in Event
               PROVE  /\ row'[e].status = "failed" <=> row'[e].attempts = MaxAttempts
                      /\ row'[e].status = "processed" => e \in delivered'
    BY DEF FailedExactlyWhenExhausted, ProcessedWasDelivered
  <2>1. /\ row[e].status = "failed" <=> row[e].attempts = MaxAttempts
        /\ row[e].status = "processed" => e \in delivered
    BY DEF FailedExactlyWhenExhausted, ProcessedWasDelivered
  <2>2. CASE e \in todo
    BY <1>1, <1>2, <2>1, <2>2
  <2>3. CASE e \notin todo
    BY <1>1, <1>2, <2>1, <2>3
  <2> QED
    BY <2>2, <2>3
<1> QED
  BY <1>5, <1>6, <1>7, <1>8, <1>9, <1>10, <1>11

\* The steps that change p's flags and timers, and at most the stamp of a row.
Flags(p) ==
    /\ \A q \in Proc : q # p => worker'[q] = worker[q]
    /\ SameWorker(p)

LEMMA FlagsStep ==
  ASSUME IInv, TypeOK', NEW p \in Proc, delivered' = delivered,
         \A e \in Event : SameRow(e), Flags(p)
  PROVE  IInv'
<1>1. \A q \in Proc : SameWorker(q)
  BY DEF Flags, SameWorker, IInv, WorkerShape
<1> QED
  BY <1>1, QuietStep

LEMMA HeartbeatStep ==
  ASSUME IInv, NEW p \in Proc,
         Heartbeat(p) \/ HeartbeatErrors(p) \/ HandlerTimeout(p)
  PROVE  IInv' /\ delivered' = delivered /\ \A e \in Event : SameRow(e)
<1> USE DEF IInv
<1> DEFINE w == worker[p]
<1>1. /\ worker \in [Proc -> WorkerType] /\ w \in WorkerType /\ row \in [Event -> RowType]
      /\ 0 \in 0 .. Stale /\ 0 \in 0 .. HeartbeatInterval
      /\ delivered \subseteq Event /\ faults \in 0 .. MaxFaults
  BY SizesAssumption DEF TypeOK, Stale
<1>2. CASE HeartbeatFires(p)
  <2>1. PICK v \in {[w EXCEPT !.beat = 0], [w EXCEPT !.beat = 0, !.inFlight = TRUE, !.stamp = 0]} :
           worker' = [worker EXCEPT ![p] = v]
    BY <1>1, <1>2 DEF HeartbeatFires
  <2>2. /\ v \in WorkerType
        /\ v.pc = w.pc /\ v.token = w.token /\ v.todo = w.todo /\ v.cur = w.cur /\ v.seen = w.seen
    BY <1>1 DEF WorkerType
  <2>3. Active(p) /\ row' = row /\ delivered' = delivered /\ faults' = faults
    BY <1>2 DEF HeartbeatFires
  <2>4. TypeOK' /\ Flags(p)
    BY <1>1, <2>1, <2>2, <2>3 DEF TypeOK, Flags, SameWorker
  <2>5. \A e \in Event : SameRow(e)
    BY <2>3 DEF SameRow
  <2> QED
    BY <2>3, <2>4, <2>5, FlagsStep
<1>3. CASE HandlerTimeout(p)
  <2>1. worker' = [worker EXCEPT ![p] = [w EXCEPT !.timedOut = TRUE]]
    BY <1>1, <1>3 DEF HandlerTimeout
  <2>2. [w EXCEPT !.timedOut = TRUE] \in WorkerType
    BY <1>1 DEF WorkerType
  <2>3. Active(p) /\ row' = row /\ delivered' = delivered /\ faults' = faults
    BY <1>3 DEF HandlerTimeout, Active
  <2>4. TypeOK' /\ Flags(p)
    BY <1>1, <2>1, <2>2, <2>3 DEF TypeOK, Flags, SameWorker, WorkerType
  <2>5. \A e \in Event : SameRow(e)
    BY <2>3 DEF SameRow
  <2> QED
    BY <2>3, <2>4, <2>5, FlagsStep
<1>4. CASE HeartbeatSettles(p) \/ HeartbeatErrors(p)
  <2>1. PICK l \in BOOLEAN :
           worker' = [worker EXCEPT ![p] = [w EXCEPT !.inFlight = FALSE, !.stamp = 0, !.lost = l]]
    <3>1. CASE HeartbeatErrors(p)
      BY <1>1, <3>1 DEF HeartbeatErrors
    <3>2. CASE HeartbeatSettles(p)
      <4>1. (w.lost \/ ~Owns(p, w.cur)) \in BOOLEAN
        BY <1>1 DEF WorkerType
      <4> QED
        BY <1>1, <3>2, <4>1 DEF HeartbeatSettles
    <3> QED
      BY <1>4, <3>1, <3>2
  <2> DEFINE v == [w EXCEPT !.inFlight = FALSE, !.stamp = 0, !.lost = l]
  <2>2. /\ v \in WorkerType /\ ~v.inFlight
        /\ v.pc = w.pc /\ v.token = w.token /\ v.todo = w.todo /\ v.cur = w.cur /\ v.seen = w.seen
    BY <1>1 DEF WorkerType
  <2>3. /\ w.inFlight /\ delivered' = delivered /\ faults' \in 0 .. MaxFaults
    BY <1>1, <1>4, SizesAssumption DEF HeartbeatSettles, HeartbeatErrors
  <2>4. row' = row \/ Extend(p)
    BY <1>4 DEF HeartbeatSettles, HeartbeatErrors
  <2>5. row' \in [Event -> RowType] /\ \A e \in Event : SameRow(e)
    BY <1>1, <2>3, <2>4, WorkingOn, ExtendStep DEF SameRow
  <2>6. TypeOK' /\ Flags(p)
    <3> HIDE DEF v
    <3> QED
      BY <1>1, <2>1, <2>2, <2>3, <2>5 DEF TypeOK, Flags, SameWorker, v
  <2> QED
    BY <2>3, <2>5, <2>6, FlagsStep
<1> QED
  BY <1>2, <1>3, <1>4 DEF Heartbeat

LEMMA TickStep ==
  ASSUME IInv, Tick
  PROVE  IInv' /\ delivered' = delivered /\ \A e \in Event : SameRow(e)
<1> USE DEF IInv
<1> DEFINE r(e) == [row[e] EXCEPT !.delay = Sooner(@),
                                  !.age = IF row[e].status = "processing" THEN Older(@, Stale) ELSE @]
           w(p) == [worker[p] EXCEPT !.stamp = IF InStatement(p) THEN Older(@, Stale) ELSE @,
                                     !.beat = IF Active(p) THEN Older(@, HeartbeatInterval) ELSE @]
<1>1. /\ row \in [Event -> RowType] /\ worker \in [Proc -> WorkerType]
      /\ delivered \subseteq Event /\ faults \in 0 .. MaxFaults
  BY DEF TypeOK
<1>2. \A b \in Nat : \A n \in 0 .. b : Older(n, b) \in 0 .. b
  BY DEF Older
<1>3. \A n \in Nat : Sooner(n) \in Nat
  BY DEF Sooner
<1>4. Stale \in Nat /\ HeartbeatInterval \in Nat
  BY SizesAssumption DEF Stale
<1>5. \A e \in Event : /\ r(e) \in RowType /\ r(e).status = row[e].status
                       /\ r(e).attempts = row[e].attempts /\ r(e).owner = row[e].owner
  <2> SUFFICES ASSUME NEW e \in Event
               PROVE  /\ r(e) \in RowType /\ r(e).status = row[e].status
                      /\ r(e).attempts = row[e].attempts /\ r(e).owner = row[e].owner
    OBVIOUS
  <2>1. Older(row[e].age, Stale) \in 0 .. Stale /\ Sooner(row[e].delay) \in Nat
    BY <1>1, <1>2, <1>3, <1>4 DEF RowType
  <2> QED
    BY <1>1, <2>1 DEF RowType
<1>6. \A p \in Proc : /\ w(p) \in WorkerType /\ w(p).pc = worker[p].pc
                      /\ w(p).token = worker[p].token /\ w(p).todo = worker[p].todo
                      /\ w(p).cur = worker[p].cur /\ w(p).seen = worker[p].seen
                      /\ w(p).inFlight = worker[p].inFlight
  <2> SUFFICES ASSUME NEW p \in Proc
               PROVE  /\ w(p) \in WorkerType /\ w(p).pc = worker[p].pc
                      /\ w(p).token = worker[p].token /\ w(p).todo = worker[p].todo
                      /\ w(p).cur = worker[p].cur /\ w(p).seen = worker[p].seen
                      /\ w(p).inFlight = worker[p].inFlight
    OBVIOUS
  <2>1. /\ Older(worker[p].stamp, Stale) \in 0 .. Stale
        /\ Older(worker[p].beat, HeartbeatInterval) \in 0 .. HeartbeatInterval
    BY <1>1, <1>2, <1>4 DEF WorkerType
  <2> QED
    BY <1>1, <2>1 DEF WorkerType
<1>7. /\ row' = [e \in Event |-> r(e)] /\ worker' = [p \in Proc |-> w(p)]
      /\ delivered' = delivered /\ faults' = faults
  BY DEF Tick
<1> HIDE DEF r, w
<1>8. TypeOK'
  BY <1>1, <1>5, <1>6, <1>7 DEF TypeOK
<1>9. \A e \in Event : SameRow(e)
  BY <1>5, <1>7 DEF SameRow
<1>10. \A p \in Proc : SameWorker(p)
  BY <1>6, <1>7 DEF SameWorker, WorkerShape
<1> QED
  BY <1>7, <1>8, <1>9, <1>10, QuietStep

LEMMA HandlerStep ==
  ASSUME IInv, NEW p \in Proc, Handler(p)
  PROVE  IInv'
<1> USE DEF IInv
<1> DEFINE w == worker[p]
<1>1. /\ w \in WorkerType /\ worker \in [Proc -> WorkerType] /\ Active(p) /\ w.cur \in Event
  BY WorkingOn DEF TypeOK, Handler, HandlerSucceeds, HandlerFails, Active
<1>2. PICK s \in {"marking", "failing"} :
         /\ worker' = [worker EXCEPT ![p] = [w EXCEPT !.pc = s]]
         /\ s = "marking" => w.cur \in delivered'
  BY <1>1 DEF Handler, HandlerSucceeds, HandlerFails
<1>3. /\ row' = row /\ faults' = faults
      /\ delivered \subseteq delivered' /\ delivered' \subseteq Event
  BY <1>1 DEF TypeOK, Handler, HandlerSucceeds, HandlerFails
<1>4. /\ [w EXCEPT !.pc = s] \in WorkerType /\ [w EXCEPT !.pc = s].pc = s
      /\ [w EXCEPT !.pc = s].token = w.token /\ [w EXCEPT !.pc = s].todo = w.todo
      /\ [w EXCEPT !.pc = s].cur = w.cur /\ [w EXCEPT !.pc = s].seen = w.seen
  BY <1>1 DEF WorkerType
<1>5. /\ TypeOK' /\ Stays(p) /\ \A q \in Proc : q # p => worker'[q] = worker[q]
  BY <1>1, <1>2, <1>3, <1>4 DEF TypeOK, Stays
<1>6. \A e \in Event : SameRow(e)
  BY <1>3 DEF SameRow
<1> QED
  BY <1>1, <1>3, <1>5, <1>6, ActiveStep

\* The event is settled and the call goes on; or it was stolen, nothing is
\* written, and the call goes on to record a failure.
LEMMA MarkProcessedStep ==
  ASSUME IInv, NEW p \in Proc, MarkProcessed(p) \/ MarkProcessedErrors(p)
  PROVE  IInv'
<1> USE DEF IInv
<1> DEFINE w == worker[p]
           c == worker[p].cur
<1>1. /\ w \in WorkerType /\ worker \in [Proc -> WorkerType] /\ row \in [Event -> RowType]
      /\ Active(p) /\ w.pc = "marking" /\ c \in Event /\ c \in delivered
      /\ w.todo \subseteq Event
      /\ row[c].attempts \in 0 .. MaxAttempts
  BY WorkingOn DEF TypeOK, MarkProcessed, MarkProcessedErrors, Active, MarkingDelivered,
                   WorkerType, RowType
<1>2. /\ delivered' = delivered /\ delivered \subseteq Event
      /\ faults' \in 0 .. MaxFaults
  BY SizesAssumption DEF TypeOK, MarkProcessed, MarkProcessedErrors
<1>3. ASSUME ~RowLocked(c), SettleProcessed(p)
      PROVE  /\ row' \in [Event -> RowType]
             /\ \A e \in Event : e # c => SameRow(e)
             /\ (SameRow(c) /\ ~Owns(p, c)) \/ Settles(p)
  <2>1. row[c].attempts # MaxAttempts \/ ~Owns(p, c)
    BY <1>1 DEF FailedExactlyWhenExhausted, Owns
  <2> QED
    BY <1>1, <1>3, <2>1, SettleProcessedStep DEF SameRow, Settles
<1>4. CASE MarkProcessed(p) /\ Owns(p, c)
  <2>1. Settles(p) /\ row' \in [Event -> RowType] /\ \A e \in Event : e # c => SameRow(e)
    BY <1>3, <1>4 DEF MarkProcessed
  <2>2. Continue(p, worker[p], w.todo \ {c})
    BY <1>4 DEF MarkProcessed
  <2>3. /\ worker' \in [Proc -> WorkerType]
        /\ \A q \in Proc : q # p => worker'[q] = worker[q]
        /\ worker'[p] = Idle \/ MovesOn(p)
    BY <1>1, <2>1, <2>2, ContinueStep DEF MovesOn
  <2>4. TypeOK'
    BY <1>2, <2>1, <2>3 DEF TypeOK
  <2> QED
    BY <1>1, <1>2, <2>1, <2>3, <2>4, ActiveStep
<1>5. CASE (MarkProcessed(p) /\ ~Owns(p, c)) \/ MarkProcessedErrors(p)
  <2>1. worker' = [worker EXCEPT ![p] = [w EXCEPT !.pc = "failing"]]
    BY <1>1, <1>5 DEF MarkProcessed, MarkProcessedErrors
  <2>2. /\ [w EXCEPT !.pc = "failing"] \in WorkerType
        /\ [w EXCEPT !.pc = "failing"].pc = "failing"
        /\ [w EXCEPT !.pc = "failing"].token = w.token /\ [w EXCEPT !.pc = "failing"].todo = w.todo
        /\ [w EXCEPT !.pc = "failing"].cur = w.cur /\ [w EXCEPT !.pc = "failing"].seen = w.seen
    BY <1>1 DEF WorkerType
  <2>3. /\ worker' \in [Proc -> WorkerType] /\ Stays(p)
        /\ \A q \in Proc : q # p => worker'[q] = worker[q]
    BY <1>1, <2>1, <2>2 DEF Stays
  <2>4. row' = row \/ (~RowLocked(c) /\ SettleProcessed(p))
    BY <1>5 DEF MarkProcessed, MarkProcessedErrors
  <2>5. /\ row' \in [Event -> RowType] /\ \A e \in Event : e # c => SameRow(e)
        /\ SameRow(c) \/ Settles(p)
    BY <1>1, <1>3, <2>4 DEF SameRow
  <2>6. TypeOK'
    BY <1>2, <2>3, <2>5 DEF TypeOK
  <2> QED
    BY <1>1, <1>2, <2>3, <2>5, <2>6, ActiveStep
<1> QED
  BY <1>4, <1>5

\* The row a failing call still owns is the one its snapshot was taken of.
LEMMA MarkFailedRows ==
  ASSUME IInv, NEW p \in Proc, MarkFailed(p)
  PROVE  /\ worker[p].cur \in Event /\ Active(p)
         /\ row' \in [Event -> RowType]
         /\ \A e \in Event : e # worker[p].cur => row'[e] = row[e]
         /\ \/ ~Owns(p, worker[p].cur) /\ row' = row
            \/ /\ Settles(p)
               /\ row[worker[p].cur].attempts < MaxAttempts
               /\ row'[worker[p].cur].attempts = row[worker[p].cur].attempts + 1
               /\ row'[worker[p].cur].status =
                      IF row'[worker[p].cur].attempts = MaxAttempts THEN "failed" ELSE "pending"
<1> USE DEF IInv
<1> DEFINE c == worker[p].cur
<1>1. /\ row \in [Event -> RowType] /\ Active(p) /\ c \in Event
      /\ row[c].attempts \in 0 .. MaxAttempts
  BY WorkingOn DEF TypeOK, RowType, MarkFailed, Active
<1>2. CASE Owns(p, c)
  <2>1. row[c].attempts # MaxAttempts /\ worker[p].seen[c] = row[c].attempts
    BY <1>1, <1>2 DEF FailedExactlyWhenExhausted, OwnedSnapshotIsFresh, Owns
  <2>2. row[c].attempts < MaxAttempts
    BY <1>1, <2>1, SizesAssumption
  <2>3. row' = [row EXCEPT ![c] = FailedRow(p)]
    BY <1>2 DEF MarkFailed
  <2>4. /\ FailedRow(p) \in RowType
        /\ FailedRow(p).attempts = row[c].attempts + 1
        /\ FailedRow(p).owner = NoToken
        /\ FailedRow(p).status = IF FailedRow(p).attempts = MaxAttempts THEN "failed" ELSE "pending"
    BY <1>1, <2>1, <2>2, FailedRowStep
  <2>5. row'[c] = FailedRow(p) /\ ~RowLocked(c)
    BY <1>1, <2>3 DEF MarkFailed
  <2> QED
    BY <1>1, <1>2, <2>2, <2>3, <2>4, <2>5 DEF Settles
<1>3. CASE ~Owns(p, c)
  BY <1>1, <1>3 DEF MarkFailed
<1> QED
  BY <1>2, <1>3

LEMMA MarkFailedStep ==
  ASSUME IInv, NEW p \in Proc, MarkFailed(p)
  PROVE  IInv'
<1> USE DEF IInv
<1> DEFINE c == worker[p].cur
<1>1. /\ c \in Event /\ Active(p) /\ row' \in [Event -> RowType]
      /\ \A e \in Event : e # c => SameRow(e)
      /\ (SameRow(c) /\ ~Owns(p, c)) \/ Settles(p)
  BY MarkFailedRows DEF SameRow
<1>2. /\ delivered' = delivered /\ delivered \subseteq Event /\ faults' = faults
      /\ faults \in 0 .. MaxFaults /\ worker[p].todo \subseteq Event
      /\ Continue(p, worker[p], worker[p].todo \ {c})
  BY DEF TypeOK, WorkerType, MarkFailed
<1>3. /\ worker' \in [Proc -> WorkerType]
      /\ \A q \in Proc : q # p => worker'[q] = worker[q]
      /\ worker'[p] = Idle \/ MovesOn(p)
  BY <1>1, <1>2, ContinueStep DEF MovesOn
<1>4. TypeOK'
  BY <1>1, <1>2, <1>3 DEF TypeOK
<1> QED
  BY <1>1, <1>2, <1>3, <1>4, ActiveStep

\* A claim that rolls back only gives its locks and its worker id up.
LEMMA AbandonStep ==
  ASSUME IInv, NEW p \in Proc, Abandon(p)
  PROVE  IInv' /\ delivered' = delivered /\ \A e \in Event : SameRow(e)
<1> USE DEF IInv
<1>1. /\ worker \in [Proc -> WorkerType] /\ row \in [Event -> RowType]
      /\ delivered' = delivered /\ delivered \subseteq Event /\ faults' \in 0 .. MaxFaults
      /\ worker[p].pc # "idle"
  BY SizesAssumption DEF TypeOK, Abandon
<1>2. /\ worker' \in [Proc -> WorkerType] /\ worker'[p] = Idle
      /\ \A q \in Proc : q # p => worker'[q] = worker[q]
  BY <1>1, IdleType DEF Abandon
<1>3. row' = row \/ (worker[p].inFlight /\ Extend(p))
  BY DEF Abandon
<1>4. row' \in [Event -> RowType] /\ \A e \in Event : SameRow(e)
  BY <1>1, <1>3, WorkingOn, ExtendStep DEF SameRow
<1>5. TypeOK'
  BY <1>1, <1>2, <1>4 DEF TypeOK
<1>6. CASE Active(p)
  <2>1. worker[p].cur \in Event
    BY <1>6, WorkingOn
  <2>2. IInv'
    BY <1>1, <1>2, <1>4, <1>5, <1>6, <2>1, ActiveStep
  <2> QED
    BY <1>1, <1>4, <2>2
<1>7. CASE ~Active(p)
  <2>1. /\ Idle.pc = "idle" /\ Idle.token = NoToken /\ Idle.todo = {} /\ ~Idle.inFlight
    BY DEF Idle
  <2>2. WorkerShape' /\ MarkingDelivered'
    BY <1>1, <1>2, <2>1 DEF WorkerShape, MarkingDelivered, Active
  <2>3. TokensDistinct'
    BY <1>2, <2>1 DEF TokensDistinct, WorkerShape
  <2>4. ClaimsFresh'
    BY <1>2, <1>4, <2>1 DEF ClaimsFresh, SameRow
  <2>5. TodoAppended'
    <3> SUFFICES ASSUME NEW q \in Proc, NEW e \in worker'[q].todo
                 PROVE  row'[e].status # "absent"
      BY DEF TodoAppended
    <3>1. e \in worker[q].todo /\ e \in Event
      BY <1>1, <1>2, <2>1 DEF WorkerType
    <3> QED
      BY <1>4, <3>1 DEF TodoAppended, SameRow
  <2>6. OwnedSnapshotIsFresh'
    BY <1>2, <1>4, <2>1 DEF OwnedSnapshotIsFresh, SameRow, Owns, Active
  <2>7. FailedExactlyWhenExhausted' /\ ProcessedWasDelivered'
    BY <1>1, <1>4 DEF FailedExactlyWhenExhausted, ProcessedWasDelivered, SameRow
  <2> QED
    BY <1>1, <1>4, <1>5, <2>2, <2>3, <2>4, <2>5, <2>6, <2>7
<1> QED
  BY <1>6, <1>7

-----------------------------------------------------------------------------
(* The theorems.                                                            *)

LEMMA NextIInv == IInv /\ [Next]_vars => IInv'
<1> SUFFICES ASSUME IInv, [Next]_vars PROVE IInv'
  OBVIOUS
<1>1. CASE UNCHANGED vars
  <2>1. TypeOK' /\ delivered' = delivered
    BY <1>1 DEF IInv, TypeOK, vars
  <2>2. (\A e \in Event : SameRow(e)) /\ (\A p \in Proc : SameWorker(p))
    BY <1>1 DEF IInv, WorkerShape, SameRow, SameWorker, vars
  <2> QED
    BY <2>1, <2>2, QuietStep
<1>2. CASE \E e \in Event : Append(e)
  BY <1>2, AppendStep
<1>3. CASE \E p \in Proc : ClaimSelect(p) \/ ClaimCommit(p)
  BY <1>3, ClaimSelectStep, ClaimCommitStep
<1>4. CASE \E p \in Proc : Heartbeat(p) \/ HeartbeatErrors(p) \/ HandlerTimeout(p)
  BY <1>4, HeartbeatStep
<1>5. CASE \E p \in Proc : Handler(p)
  BY <1>5, HandlerStep
<1>6. CASE \E p \in Proc : MarkProcessed(p) \/ MarkProcessedErrors(p)
  BY <1>6, MarkProcessedStep
<1>7. CASE \E p \in Proc : MarkFailed(p)
  BY <1>7, MarkFailedStep
<1>8. CASE \E p \in Proc : Abandon(p)
  BY <1>8, AbandonStep
<1>9. CASE Tick
  BY <1>9, TickStep
<1> QED
  BY <1>1, <1>2, <1>3, <1>4, <1>5, <1>6, <1>7, <1>8, <1>9 DEF Next, Claim, Mark, Fault

\* The strengthened invariant holds in every reachable state.
THEOREM Inductive == Spec => []IInv
BY InitIInv, NextIInv, PTL DEF Spec

\* The table and the workers' local state are always well formed.
THEOREM TypeCorrect == Spec => []TypeOK
BY Inductive, PTL DEF IInv

\* A worker id names one running call: locked_by never lets two calls pass
\* the same conditional update.
THEOREM WorkerIdsUnique == Spec => []TokensDistinct
BY Inductive, PTL DEF IInv

\* Whoever may still mark a row counts from the attempts it has.
THEOREM SnapshotsFresh == Spec => []OwnedSnapshotIsFresh
BY Inductive, PTL DEF IInv

\* Rows are given up exactly when their budget is used up, so no open row
\* falls out of the claim's filter.
THEOREM NoStuckRows == Spec => []FailedExactlyWhenExhausted
BY Inductive, PTL DEF IInv

\* A processed row's handlers have finished, whatever leases were lost.
THEOREM AtLeastOnce == Spec => []ProcessedWasDelivered
BY Inductive, PTL DEF IInv

-----------------------------------------------------------------------------
(* The table and its workers implement OutboxContract.                      *)

stateBar == [e \in Event |-> IF row[e].status \in {"pending", "processing"}
                               THEN "open" ELSE row[e].status]
failuresBar == [e \in Event |-> row[e].attempts]

LEMMA ContractStutter ==
  ASSUME delivered' = delivered,
         \A e \in Event : stateBar'[e] = stateBar[e] /\ row'[e].attempts = row[e].attempts
  PROVE  UNCHANGED Contract!vars
<1>1. stateBar' = stateBar
  BY DEF stateBar
<1>2. failuresBar' = failuresBar
  BY DEF failuresBar
<1> QED
  BY <1>1, <1>2 DEF Contract!vars, stateBar, failuresBar

LEMMA SameRowsStutter ==
  ASSUME delivered' = delivered, \A e \in Event : SameRow(e)
  PROVE  UNCHANGED Contract!vars
<1>1. \A e \in Event : stateBar'[e] = stateBar[e] /\ row'[e].attempts = row[e].attempts
  BY DEF stateBar, SameRow
<1> QED
  BY <1>1, ContractStutter

\* Settling the row of a delivered event is the contract's Settle.
LEMMA ContractSettle ==
  ASSUME IInv, NEW p \in Proc, worker[p].pc = "marking", SettleProcessed(p), delivered' = delivered
  PROVE  Contract!Next \/ UNCHANGED Contract!vars
<1> DEFINE c == worker[p].cur
<1>1. c \in Event /\ c \in delivered /\ row \in [Event -> RowType]
  BY WorkingOn DEF IInv, MarkingDelivered, Active, TypeOK
<1>2. CASE ~Owns(p, c)
  <2>1. \A e \in Event : SameRow(e)
    BY <1>2 DEF SettleProcessed, SameRow
  <2> QED
    BY <2>1, SameRowsStutter
<1>3. CASE Owns(p, c)
  <2>1. /\ \A e \in Event : e # c => row'[e] = row[e]
        /\ row'[c].status = "processed" /\ row'[c].attempts = row[c].attempts
        /\ row[c].status = "processing"
    BY <1>1, <1>3, SettleProcessedStep DEF IInv, Owns
  <2>2. stateBar' = [stateBar EXCEPT ![c] = "processed"]
    BY <1>1, <2>1 DEF stateBar
  <2>3. stateBar[c] = "open" /\ failuresBar' = failuresBar
    BY <1>1, <2>1 DEF stateBar, failuresBar
  <2>4. Contract!Settle(c)
    BY <1>1, <2>2, <2>3 DEF Contract!Settle, stateBar, failuresBar
  <2>5. c \in Event
    BY <1>1
  <2> QED
    BY <2>4, <2>5 DEF Contract!Next, Contract!Settle
<1> QED
  BY <1>2, <1>3

LEMMA ContractCountFailure ==
  ASSUME IInv, NEW p \in Proc, MarkFailed(p)
  PROVE  Contract!Next \/ UNCHANGED Contract!vars
<1> DEFINE c == worker[p].cur
<1>1. /\ c \in Event /\ row \in [Event -> RowType] /\ delivered' = delivered
      /\ \A e \in Event : e # c => row'[e] = row[e]
      /\ row[c].attempts \in 0 .. MaxAttempts
  BY MarkFailedRows DEF IInv, TypeOK, RowType, MarkFailed
<1>2. CASE row' = row
  BY <1>1, <1>2, SameRowsStutter DEF SameRow
<1>3. CASE /\ row[c].attempts < MaxAttempts /\ Owns(p, c)
           /\ row'[c].attempts = row[c].attempts + 1
           /\ row'[c].status = IF row'[c].attempts = MaxAttempts THEN "failed" ELSE "pending"
  <2>1. stateBar[c] = "open" /\ failuresBar[c] = row[c].attempts
    BY <1>1, <1>3 DEF stateBar, failuresBar, Owns
  <2>2. failuresBar' = [failuresBar EXCEPT ![c] = @ + 1]
    BY <1>1, <1>3 DEF failuresBar
  <2>3. stateBar'[c] = IF failuresBar[c] + 1 = MaxAttempts THEN "failed" ELSE "open"
    BY <1>1, <1>3, <2>1 DEF stateBar
  <2>4. stateBar' = [stateBar EXCEPT ![c] =
                       IF failuresBar[c] + 1 = MaxAttempts THEN "failed" ELSE "open"]
    BY <1>1, <2>3 DEF stateBar
  <2>5. Contract!CountFailure(c)
    BY <1>1, <1>3, <2>1, <2>2, <2>4 DEF Contract!CountFailure, stateBar, failuresBar
  <2>6. c \in Event
    BY <1>1
  <2> QED
    BY <2>5, <2>6 DEF Contract!Next, Contract!CountFailure
<1> QED
  BY <1>2, <1>3, MarkFailedRows DEF Settles

LEMMA ContractInit == Init => Contract!Init
BY DEF Init, AbsentRow, Contract!Init

LEMMA ContractNext == IInv /\ [Next]_vars => Contract!Next \/ UNCHANGED Contract!vars
<1> SUFFICES ASSUME IInv, [Next]_vars PROVE Contract!Next \/ UNCHANGED Contract!vars
  OBVIOUS
<1>0. row \in [Event -> RowType]
  BY DEF IInv, TypeOK
<1>1. CASE UNCHANGED vars
  BY <1>1, SameRowsStutter DEF SameRow, vars
<1>2. CASE \E e \in Event : Append(e)
  <2>1. PICK e \in Event : Append(e)
    BY <1>2
  <2>2. /\ row[e].status = "absent" /\ row'[e].status = "pending"
        /\ row'[e].attempts = row[e].attempts
        /\ \A d \in Event : d # e => row'[d] = row[d]
    BY <1>0, <2>1 DEF Append, RowType
  <2>3. stateBar' = [stateBar EXCEPT ![e] = "open"] /\ stateBar[e] = "absent"
    BY <2>2 DEF stateBar
  <2>4. failuresBar' = failuresBar
    BY <2>2 DEF failuresBar
  <2>5. Contract!Publish(e)
    BY <2>1, <2>3, <2>4 DEF Contract!Publish, Append, stateBar, failuresBar
  <2> QED
    BY <2>5 DEF Contract!Next
<1>3. CASE \E p \in Proc : ClaimSelect(p) \/ HandlerFails(p)
  BY <1>3, SameRowsStutter DEF SameRow, ClaimSelect, HandlerFails
<1>4. CASE \E p \in Proc : ClaimCommit(p)
  <2>1. PICK p \in Proc : ClaimCommit(p)
    BY <1>4
  <2>2. \A e \in Event : /\ row'[e].attempts = row[e].attempts
                         /\ stateBar'[e] = stateBar[e]
    BY <2>1, ClaimedRows DEF stateBar
  <2> QED
    BY <2>1, <2>2, ContractStutter DEF ClaimCommit
<1>5. CASE \E p \in Proc : \/ Heartbeat(p) \/ HeartbeatErrors(p) \/ HandlerTimeout(p)
                           \/ Abandon(p)
  BY <1>5, HeartbeatStep, AbandonStep, SameRowsStutter
<1>6. CASE \E p \in Proc : HandlerSucceeds(p)
  <2>1. PICK p \in Proc : HandlerSucceeds(p)
    BY <1>6
  <2> DEFINE c == worker[p].cur
  <2>2. c \in Event /\ row[c].status # "absent"
    BY <2>1, WorkingOn DEF HandlerSucceeds, Active, IInv, TodoAppended
  <2>3. stateBar[c] # "absent" /\ stateBar' = stateBar /\ failuresBar' = failuresBar
    BY <2>1, <2>2 DEF HandlerSucceeds, stateBar, failuresBar
  <2>4. Contract!Deliver(c)
    BY <2>1, <2>3 DEF Contract!Deliver, HandlerSucceeds, stateBar, failuresBar
  <2> QED
    BY <2>2, <2>4 DEF Contract!Next
<1>7. CASE \E p \in Proc : MarkProcessed(p) \/ MarkProcessedErrors(p)
  <2>1. PICK p \in Proc : MarkProcessed(p) \/ MarkProcessedErrors(p)
    BY <1>7
  <2>2. /\ worker[p].pc = "marking" /\ delivered' = delivered
        /\ row' = row \/ SettleProcessed(p)
    BY <2>1 DEF MarkProcessed, MarkProcessedErrors
  <2> QED
    BY <2>2, ContractSettle, SameRowsStutter DEF SameRow
<1>8. CASE \E p \in Proc : MarkFailed(p)
  BY <1>8, ContractCountFailure
<1>9. CASE Tick
  BY <1>9, TickStep, SameRowsStutter
<1> QED
  BY <1>1, <1>2, <1>3, <1>4, <1>5, <1>6, <1>7, <1>8, <1>9
     DEF Next, Claim, Handler, Mark, Fault

\* The outbox keeps its contract under every race, crash, steal and database
\* error: settled once, one attempt per counted failure, never reopened.
THEOREM ImplementsContract == Spec => ContractSpec
BY Inductive, ContractInit, ContractNext, PTL DEF Spec, ContractSpec, Contract!Spec
=============================================================================
