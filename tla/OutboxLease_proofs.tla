-------------------------- MODULE OutboxLease_proofs --------------------------
(* The timing argument behind the lease: one event per batch, timers and      *)
(* statements that keep their time, and room in the lease for one interval    *)
(* and two statements keep every event in one handler, for any number of      *)
(* events, calls and attempts.                                                *)
EXTENDS OutboxProcessor_proofs, FiniteSetTheorems

\* What the theorem asks of the constants.
Roomy == /\ Timely
         /\ BatchSize = 1
         /\ MaxFaults = 0
         /\ HeartbeatInterval + 2 * MaxLag <= LockTtl

\* How old the lease of the event a call works on may be: its stamp was at
\* most MaxLag old when it was written, and the next one is under way, or due.
Bound(p) == IF worker[p].inFlight THEN MaxLag + HeartbeatInterval + worker[p].stamp
                                  ELSE MaxLag + worker[p].beat

\* A call at work owns the one event of its batch, under a lease still young.
Holding == \A p \in Proc : Active(p) =>
    /\ worker[p].todo = {worker[p].cur}
    /\ Owns(p, worker[p].cur)
    /\ ~worker[p].lost
    /\ row[worker[p].cur].age <= Bound(p)

Prompt == \A p \in Proc : InStatement(p) => worker[p].stamp <= MaxLag

\* A claim locks one event, which is in no other batch.
Single == \A p \in Proc : worker[p].pc = "claiming" => Cardinality(worker[p].todo) = 1

Disjoint == \A p, q \in Proc : \A e \in Event :
    p # q /\ worker[p].pc = "claiming" /\ e \in worker[p].todo =>
         /\ worker[q].pc = "claiming" => e \notin worker[q].todo
         /\ Active(q) => e # worker[q].cur

Apart == Single /\ Disjoint

InTime == Holding /\ Prompt /\ Apart

\* A young lease is in nobody's reach.
LEMMA YoungLease ==
  ASSUME Roomy, IInv, InTime, NEW p \in Proc, Active(p)
  PROVE  /\ worker[p].cur \in Event
         /\ row[worker[p].cur].age <= LockTtl
         /\ row[worker[p].cur].status = "processing"
         /\ ~Claimable(worker[p].cur)
         /\ ~RowLocked(worker[p].cur)
<1> DEFINE c == worker[p].cur
<1>1. c \in Event /\ worker[p] \in WorkerType /\ row[c] \in RowType
  BY WorkingOn DEF IInv, TypeOK
<1>2. /\ row[c].age \in Nat /\ worker[p].beat \in 0 .. HeartbeatInterval
      /\ worker[p].stamp \in Nat /\ row[c].status = "processing" /\ row[c].age <= Bound(p)
  BY <1>1, SizesAssumption DEF InTime, Holding, Owns, RowType, WorkerType, Stale
<1>3. worker[p].inFlight => worker[p].stamp <= MaxLag
  BY DEF InTime, Prompt, InStatement
<1>4. row[c].age <= LockTtl
  BY <1>2, <1>3, SizesAssumption DEF Bound, Roomy
<1>5. ~Claimable(c)
  BY <1>2, <1>4, SizesAssumption DEF Claimable
<1>6. ~RowLocked(c)
  BY <1>1 DEF RowLocked, InTime, Apart, Single, Disjoint, Active
<1> QED
  BY <1>1, <1>2, <1>4, <1>5, <1>6

\* No two calls work on one event.
LEMMA OneOwner ==
  ASSUME IInv, InTime, NEW p \in Proc, NEW q \in Proc, p # q, Active(p), Active(q)
  PROVE  worker[p].cur # worker[q].cur
BY DEF IInv, InTime, Holding, Owns, TokensDistinct, Active

\* ORDER BY created_at LIMIT 1 selects one row at most.
LEMMA OldestOne ==
  ASSUME NEW S \in SUBSET Event, Oldest(S, 1) # {}
  PROVE  Cardinality(Oldest(S, 1)) = 1
<1>1. PICK e \in Oldest(S, 1) : TRUE
  OBVIOUS
<1>2. IsFiniteSet(Event)
  BY FS_Interval, SizesAssumption DEF Event
<1>3. ASSUME NEW d \in S, d < e PROVE FALSE
  <2>1. IsFiniteSet({x \in S : x < e})
    BY <1>2, FS_Subset
  <2>2. Cardinality({x \in S : x < e}) = 0
    BY <1>1, <2>1, FS_CardinalityType DEF Oldest
  <2> QED
    BY <1>3, <2>1, <2>2, FS_EmptySet
<1>4. ASSUME NEW f \in Oldest(S, 1), e < f PROVE FALSE
  <2>1. IsFiniteSet({x \in S : x < f})
    BY <1>2, FS_Subset
  <2>2. Cardinality({x \in S : x < f}) = 0
    BY <1>4, <2>1, FS_CardinalityType DEF Oldest
  <2> QED
    BY <1>1, <1>4, <2>1, <2>2, FS_EmptySet DEF Oldest
<1>5. Oldest(S, 1) = {e}
  <2>1. \A f \in Oldest(S, 1) : f \in S /\ f \in Nat /\ e \in Nat
    BY <1>1, SizesAssumption DEF Oldest, Event
  <2>2. \A f \in Oldest(S, 1) : f = e
    BY <1>1, <1>3, <1>4, <2>1 DEF Oldest
  <2> QED
    BY <1>1, <2>2
<1> QED
  BY <1>5, FS_Singleton

LEMMA InTimeInit == Init => InTime
<1> SUFFICES ASSUME Init PROVE InTime
  OBVIOUS
<1>1. \A p \in Proc : worker[p].pc = "idle" /\ ~worker[p].inFlight
  BY DEF Init, Idle
<1> QED
  BY <1>1 DEF InTime, Holding, Prompt, Apart, Single, Disjoint, Active, InStatement

-----------------------------------------------------------------------------
(* The steps.                                                               *)

Others(p) == \A q \in Proc : q # p => worker'[q] = worker[q]

\* A call at work goes on with its event, its lease still young.
LEMMA StayStep ==
  ASSUME Roomy, IInv, InTime, NEW p \in Proc, Active(p), Others(p),
         worker'[p].pc \in {"publishing", "marking", "failing"},
         worker'[p].token = worker[p].token,
         worker'[p].todo = worker[p].todo, worker'[p].cur = worker[p].cur,
         ~worker'[p].lost,
         worker'[p].inFlight => worker'[p].stamp <= MaxLag,
         \A e \in Event : e # worker[p].cur => row'[e] = row[e],
         row'[worker[p].cur].status = "processing",
         row'[worker[p].cur].owner = row[worker[p].cur].owner,
         row'[worker[p].cur].age <= Bound(p)'
  PROVE  InTime'
<1>1. Holding'
  <2> SUFFICES ASSUME NEW q \in Proc, Active(q)'
               PROVE  /\ worker'[q].todo = {worker'[q].cur}
                      /\ Owns(q, worker[q].cur)'
                      /\ ~worker'[q].lost
                      /\ row'[worker'[q].cur].age <= Bound(q)'
    BY DEF Holding
  <2>1. CASE q = p
    BY <2>1 DEF InTime, Holding, Owns
  <2>2. CASE q # p
    <3>1. worker'[q] = worker[q] /\ Active(q)
      BY <2>2 DEF Others, Active
    <3>2. worker[q].cur # worker[p].cur /\ worker[q].cur \in Event
      BY <2>2, <3>1, OneOwner, YoungLease
    <3>3. row'[worker[q].cur] = row[worker[q].cur]
      BY <3>2
    <3> QED
      BY <3>1, <3>3 DEF InTime, Holding, Owns, Bound
  <2> QED
    BY <2>1, <2>2
<1>2. Prompt'
  BY DEF InTime, Prompt, InStatement, Others
<1>3. Apart'
  BY DEF InTime, Apart, Single, Disjoint, Others, Active
<1> QED
  BY <1>1, <1>2, <1>3 DEF InTime

\* A call returns, having touched no row but its own.
LEMMA EndStep ==
  ASSUME Roomy, IInv, InTime, NEW p \in Proc, Active(p), Others(p), worker'[p] = Idle,
         \A e \in Event : e # worker[p].cur => row'[e] = row[e]
  PROVE  InTime'
<1>0. Idle.pc = "idle" /\ ~Idle.inFlight
  BY DEF Idle
<1>1. Holding'
  <2> SUFFICES ASSUME NEW q \in Proc, Active(q)'
               PROVE  /\ worker'[q].todo = {worker'[q].cur}
                      /\ Owns(q, worker[q].cur)'
                      /\ ~worker'[q].lost
                      /\ row'[worker'[q].cur].age <= Bound(q)'
    BY DEF Holding
  <2>1. q # p /\ worker'[q] = worker[q] /\ Active(q)
    BY <1>0 DEF Others, Active
  <2>2. worker[q].cur # worker[p].cur /\ worker[q].cur \in Event
    BY <2>1, OneOwner, YoungLease
  <2> QED
    BY <2>1, <2>2 DEF InTime, Holding, Owns, Bound
<1>2. Prompt'
  BY <1>0 DEF InTime, Prompt, InStatement, Others
<1>3. Apart'
  BY <1>0 DEF InTime, Apart, Single, Disjoint, Others, Active
<1> QED
  BY <1>1, <1>2, <1>3 DEF InTime

LEMMA AppendInTime ==
  ASSUME Roomy, IInv, InTime, NEW e \in Event, Append(e)
  PROVE  InTime'
<1>1. worker' = worker /\ \A d \in Event : d # e => row'[d] = row[d]
  BY DEF Append, IInv, TypeOK
<1>2. \A p \in Proc : Active(p) => worker[p].cur \in Event /\ worker[p].cur # e
  BY YoungLease DEF Append
<1>3. Holding'
  BY <1>1, <1>2 DEF InTime, Holding, Active, Owns, Bound
<1> QED
  BY <1>1, <1>3 DEF InTime, Prompt, Apart, Single, Disjoint, InStatement, Active

LEMMA SelectInTime ==
  ASSUME Roomy, IInv, InTime, NEW p \in Proc, ClaimSelect(p)
  PROVE  InTime'
<1> DEFINE S == {e \in Event : Claimable(e) /\ ~RowLocked(e)}
           batch == Oldest(S, 1)
<1>1. /\ Others(p) /\ worker[p].pc = "idle" /\ row' = row /\ batch # {}
      /\ worker'[p].pc = "claiming" /\ worker'[p].todo = batch
      /\ worker'[p].stamp = 0 /\ ~worker'[p].inFlight
  BY DEF ClaimSelect, Others, Idle, IInv, TypeOK, Roomy
<1>2. Cardinality(batch) = 1
  BY <1>1, OldestOne
<1>3. \A e \in batch : e \in Event /\ Claimable(e) /\ ~RowLocked(e)
  BY DEF Oldest
<1>4. Holding'
  BY <1>1 DEF InTime, Holding, Active, Owns, Bound, Others
<1>5. Prompt'
  BY <1>1, SizesAssumption DEF InTime, Prompt, InStatement, Others
<1>6. Apart'
  <2>1. \A q \in Proc : Active(q) => worker[q].cur \notin batch
    BY <1>3, YoungLease
  <2>2. \A q \in Proc : \A e \in batch : worker[q].pc = "claiming" => e \notin worker[q].todo
    BY <1>3 DEF RowLocked
  <2> HIDE DEF batch
  <2> QED
    BY <1>1, <1>2, <2>1, <2>2 DEF InTime, Apart, Single, Disjoint, Others, Active
<1> QED
  BY <1>4, <1>5, <1>6 DEF InTime

LEMMA CommitInTime ==
  ASSUME Roomy, IInv, InTime, NEW p \in Proc, ClaimCommit(p)
  PROVE  InTime'
<1> DEFINE T == worker[p].todo
<1>0. /\ worker[p] \in WorkerType /\ T \subseteq Event /\ worker[p].stamp \in Nat
      /\ worker[p].pc = "claiming" /\ worker[p].stamp <= MaxLag
  <2>1. worker[p] \in WorkerType /\ worker[p].pc = "claiming"
    BY DEF IInv, TypeOK, ClaimCommit
  <2>2. T \subseteq Event /\ worker[p].stamp \in Nat
    BY <2>1, SizesAssumption DEF WorkerType, Stale
  <2>3. worker[p].stamp <= MaxLag
    BY <2>1 DEF InTime, Prompt, InStatement
  <2> QED
    BY <2>1, <2>2, <2>3
<1>1. PICK e \in Event : T = {e}
  <2>1. Cardinality(T) = 1
    BY <1>0 DEF InTime, Apart, Single, Disjoint
  <2>2. IsFiniteSet(T)
    <3>1. IsFiniteSet(Event)
      BY FS_Interval, SizesAssumption DEF Event
    <3> QED
      BY <1>0, <3>1, FS_Subset
  <2> QED
    BY <1>0, <2>1, <2>2, FS_Singleton
<1>2. /\ Others(p) /\ \A d \in Event : d # e => row'[d] = row[d]
      /\ row'[e] = [row[e] EXCEPT !.status = "processing", !.age = worker[p].stamp,
                                  !.owner = worker[p].token]
  <2>1. Others(p)
    BY <1>1 DEF ClaimCommit, Continue, Others, IInv, TypeOK
  <2> QED
    BY <1>0, <1>1, <2>1 DEF ClaimCommit
<1>3. row'[e].status = "processing" /\ row'[e].owner = worker[p].token /\ row'[e].age = worker[p].stamp
  <2>1. row[e] \in RowType
    BY DEF IInv, TypeOK
  <2> QED
    BY <1>2, <2>1 DEF RowType
<1>4. /\ worker'[p].pc = "publishing" /\ worker'[p].todo = {e} /\ worker'[p].cur = e
      /\ worker'[p].token = worker[p].token /\ ~worker'[p].lost /\ ~worker'[p].inFlight
      /\ worker'[p].beat = 0
  <2>1. PICK d \in T : worker' = [worker EXCEPT ![p] =
              [worker[p] EXCEPT !.pc = "publishing", !.todo = T, !.cur = d, !.lost = FALSE,
                        !.inFlight = FALSE, !.timedOut = FALSE, !.stamp = 0, !.beat = 0]]
    BY <1>1 DEF ClaimCommit, Continue
  <2> QED
    BY <1>0, <1>1, <2>1 DEF IInv, TypeOK, WorkerType
<1>5. \A q \in Proc : Active(q) => worker[q].cur # e /\ worker[q].cur \in Event
  BY <1>0, <1>1, YoungLease DEF InTime, Apart, Single, Disjoint, Active
<1>6. Holding'
  <2> SUFFICES ASSUME NEW q \in Proc, Active(q)'
               PROVE  /\ worker'[q].todo = {worker'[q].cur}
                      /\ Owns(q, worker[q].cur)'
                      /\ ~worker'[q].lost
                      /\ row'[worker'[q].cur].age <= Bound(q)'
    BY DEF Holding
  <2>1. CASE q = p
    BY <1>0, <1>3, <1>4, <2>1, SizesAssumption DEF Owns, Bound
  <2>2. CASE q # p
    <3>1. worker'[q] = worker[q] /\ Active(q)
      BY <1>2, <2>2 DEF Others, Active
    <3>2. row'[worker[q].cur] = row[worker[q].cur]
      BY <1>2, <1>5, <3>1
    <3> QED
      BY <3>1, <3>2 DEF InTime, Holding, Owns, Bound
  <2> QED
    BY <2>1, <2>2
<1>7. Prompt'
  BY <1>2, <1>4 DEF InTime, Prompt, InStatement, Others
<1>8. Apart'
  BY <1>0, <1>1, <1>2, <1>4 DEF InTime, Apart, Single, Disjoint, Others, Active
<1> QED
  BY <1>6, <1>7, <1>8 DEF InTime

LEMMA HeartbeatInTime ==
  ASSUME Roomy, IInv, InTime, NEW p \in Proc, Heartbeat(p)
  PROVE  InTime'
<1> DEFINE c == worker[p].cur
<1>1. /\ Active(p) /\ c \in Event /\ worker[p] \in WorkerType /\ row[c] \in RowType
      /\ Owns(p, c) /\ ~worker[p].lost /\ row[c].age <= Bound(p)
  <2>1. Active(p)
    BY DEF IInv, WorkerShape, Heartbeat, HeartbeatFires, HeartbeatSettles
  <2> QED
    BY <2>1, YoungLease DEF IInv, TypeOK, InTime, Holding
<1>2. /\ worker[p].stamp \in Nat /\ worker[p].beat \in Nat /\ row[c].age \in Nat
      /\ worker[p].inFlight => worker[p].stamp <= MaxLag
      /\ row \in [Event -> RowType] /\ worker \in [Proc -> WorkerType]
  BY <1>1, SizesAssumption DEF WorkerType, RowType, Stale, InTime, Prompt, InStatement, IInv, TypeOK
<1>3. CASE HeartbeatFires(p)
  <2>1. /\ Others(p) /\ row' = row /\ worker[p].beat = HeartbeatInterval
        /\ \A f \in {"pc", "token", "todo", "cur", "lost"} : worker'[p][f] = worker[p][f]
        /\ worker'[p].beat = 0 /\ worker'[p].inFlight
        /\ worker'[p].stamp = IF worker[p].inFlight THEN worker[p].stamp ELSE 0
    BY <1>1, <1>2, <1>3 DEF HeartbeatFires, Others, WorkerType
  <2>2. row[c].age <= Bound(p)'
    BY <1>1, <1>2, <2>1, SizesAssumption DEF Bound
  <2> QED
    BY <1>1, <1>2, <2>1, <2>2, StayStep, SizesAssumption DEF Active, Owns
<1>4. CASE HeartbeatSettles(p)
  <2>1. /\ Others(p) /\ worker[p].inFlight
        /\ \A f \in {"pc", "token", "todo", "cur", "lost", "beat"} : worker'[p][f] = worker[p][f]
        /\ ~worker'[p].inFlight
    BY <1>1, <1>2, <1>4 DEF HeartbeatSettles, Others, WorkerType
  <2>2. row' = [row EXCEPT ![c].age = worker[p].stamp]
    BY <1>1, <1>4 DEF HeartbeatSettles, Extend
  <2>3. /\ \A e \in Event : e # c => row'[e] = row[e]
        /\ row'[c].status = row[c].status /\ row'[c].owner = row[c].owner
        /\ row'[c].age = worker[p].stamp
    BY <1>1, <1>2, <2>2 DEF RowType
  <2>4. row'[c].age <= Bound(p)'
    BY <1>2, <2>1, <2>3, SizesAssumption DEF Bound
  <2> QED
    BY <1>1, <2>1, <2>3, <2>4, StayStep DEF Active, Owns
<1> QED
  BY <1>3, <1>4 DEF Heartbeat

LEMMA HandlerInTime ==
  ASSUME Roomy, IInv, InTime, NEW p \in Proc, Handler(p) \/ HandlerTimeout(p)
  PROVE  InTime'
<1> DEFINE c == worker[p].cur
<1>1. /\ Active(p) /\ c \in Event /\ worker[p] \in WorkerType
      /\ Owns(p, c) /\ ~worker[p].lost /\ row[c].age <= Bound(p)
      /\ worker[p].inFlight => worker[p].stamp <= MaxLag
  <2>1. Active(p)
    BY DEF Active, Handler, HandlerSucceeds, HandlerFails, HandlerTimeout
  <2> QED
    BY <2>1, YoungLease DEF IInv, TypeOK, InTime, Holding, Prompt, InStatement
<1>2. /\ Others(p) /\ row' = row
      /\ \A f \in {"token", "todo", "cur", "lost", "inFlight", "stamp", "beat"} :
           worker'[p][f] = worker[p][f]
      /\ worker'[p].pc \in {"publishing", "marking", "failing"}
  <2>1. worker \in [Proc -> WorkerType]
    BY DEF IInv, TypeOK
  <2>2. CASE HandlerSucceeds(p)
    BY <1>1, <2>1, <2>2 DEF HandlerSucceeds, Others, WorkerType
  <2>3. CASE HandlerFails(p)
    BY <1>1, <2>1, <2>3 DEF HandlerFails, Others, WorkerType
  <2>4. CASE HandlerTimeout(p)
    BY <1>1, <2>1, <2>4 DEF HandlerTimeout, Others, WorkerType
  <2> QED
    BY <2>2, <2>3, <2>4 DEF Handler
<1>3. Bound(p)' = Bound(p)
  BY <1>2 DEF Bound
<1> QED
  BY <1>1, <1>2, <1>3, StayStep DEF Owns

\* The only event of its batch settled, a call returns.
LEMMA MarkInTime ==
  ASSUME Roomy, IInv, InTime, NEW p \in Proc, Mark(p)
  PROVE  InTime'
<1> DEFINE c == worker[p].cur
<1>1. Active(p) /\ c \in Event /\ Owns(p, c) /\ worker[p].todo = {c}
  <2>1. Active(p)
    BY DEF Active, Mark, MarkProcessed, MarkFailed
  <2> QED
    BY <2>1, YoungLease DEF InTime, Holding
<1>2. row \in [Event -> RowType] /\ worker \in [Proc -> WorkerType]
  BY DEF IInv, TypeOK
<1>3. worker' = [worker EXCEPT ![p] = Idle]
  <2>1. Continue(p, worker[p], {})
    BY <1>1 DEF Mark, MarkProcessed, MarkFailed
  <2> QED
    BY <2>1 DEF Continue
<1>4. \A e \in Event : e # c => row'[e] = row[e]
  BY <1>1, <1>2 DEF Mark, MarkProcessed, MarkFailed, SettleProcessed
<1> QED
  BY <1>1, <1>2, <1>3, <1>4, EndStep DEF Others

\* Time passes: a lease ages no faster than the bound on it.
LEMMA TickInTime ==
  ASSUME Roomy, IInv, InTime, Tick
  PROVE  InTime'
<1>0. \A p \in Proc : worker[p] \in WorkerType
  BY DEF IInv, TypeOK
<1>1. ASSUME NEW p \in Proc
      PROVE  /\ \A f \in {"pc", "token", "todo", "cur", "lost", "inFlight"} :
                   worker'[p][f] = worker[p][f]
             /\ worker'[p].stamp = IF InStatement(p) THEN Older(worker[p].stamp, Stale)
                                                     ELSE worker[p].stamp
             /\ worker'[p].beat = IF Active(p) THEN Older(worker[p].beat, HeartbeatInterval)
                                               ELSE worker[p].beat
  <2>1. worker'[p] = [worker[p] EXCEPT
           !.stamp = IF InStatement(p) THEN Older(worker[p].stamp, Stale) ELSE worker[p].stamp,
           !.beat = IF Active(p) THEN Older(worker[p].beat, HeartbeatInterval) ELSE worker[p].beat]
    BY DEF Tick
  <2> QED
    BY <1>0, <2>1 DEF WorkerType
<1>2. ASSUME NEW e \in Event
      PROVE  /\ row'[e].status = row[e].status /\ row'[e].owner = row[e].owner
             /\ row[e].status = "processing" => row'[e].age = Older(row[e].age, Stale)
  <2>1. row[e] \in RowType
    BY DEF IInv, TypeOK
  <2>2. row'[e] = [row[e] EXCEPT !.delay = Sooner(row[e].delay),
             !.age = IF row[e].status = "processing" THEN Older(row[e].age, Stale) ELSE row[e].age]
    BY DEF Tick
  <2> QED
    BY <2>1, <2>2 DEF RowType
<1>3. \A p \in Proc : /\ InStatement(p) => worker[p].stamp < MaxLag
                      /\ Active(p) => worker[p].beat < HeartbeatInterval
  BY DEF Tick, Roomy
<1>4. \A p \in Proc : (Active(p)' <=> Active(p)) /\ (InStatement(p)' <=> InStatement(p))
  BY <1>1 DEF Active, InStatement
<1>5. ASSUME NEW n \in Nat, n < MaxLag PROVE Older(n, Stale) = n + 1
  BY <1>5, SizesAssumption DEF Older, Stale, Roomy
<1>6. Prompt'
  <2> SUFFICES ASSUME NEW p \in Proc, InStatement(p) PROVE worker'[p].stamp <= MaxLag
    BY <1>4 DEF Prompt
  <2>1. worker[p].stamp \in Nat /\ worker[p].stamp < MaxLag
    BY <1>0, <1>3, SizesAssumption DEF WorkerType, Stale
  <2> QED
    BY <1>1, <1>5, <2>1, SizesAssumption
<1>7. Holding'
  <2> SUFFICES ASSUME NEW p \in Proc, Active(p)
               PROVE  /\ worker'[p].todo = {worker'[p].cur}
                      /\ Owns(p, worker[p].cur)'
                      /\ ~worker'[p].lost
                      /\ row'[worker'[p].cur].age <= Bound(p)'
    BY <1>4 DEF Holding
  <2> DEFINE c == worker[p].cur
  <2>1. /\ c \in Event /\ worker[p].todo = {c} /\ Owns(p, c) /\ ~worker[p].lost
        /\ row[c].age <= Bound(p)
    BY YoungLease DEF InTime, Holding
  <2>2. worker'[p].todo = {worker'[p].cur} /\ Owns(p, c)' /\ ~worker'[p].lost /\ worker'[p].cur = c
    BY <1>1, <1>2, <2>1 DEF Owns
  <2>3. worker[p].stamp \in Nat /\ worker[p].beat \in Nat /\ row[c].age \in Nat
    BY <1>0, <2>1, SizesAssumption DEF WorkerType, RowType, Stale, IInv, TypeOK
  <2>4. row'[c].age <= row[c].age + 1
    BY <1>2, <2>1, <2>3, SizesAssumption DEF Owns, Older, Stale
  <2>5. row'[c].age \in Nat
    BY <1>2, <2>1, <2>3, SizesAssumption DEF Owns, Older, Stale
  <2>6. CASE worker[p].inFlight
    <3>1. worker'[p].inFlight /\ worker'[p].stamp = worker[p].stamp + 1
      BY <1>1, <1>3, <1>5, <2>3, <2>6 DEF InStatement
    <3> QED
      BY <2>1, <2>2, <2>3, <2>4, <2>5, <2>6, <3>1, SizesAssumption DEF Bound
  <2>7. CASE ~worker[p].inFlight
    <3>1. ~worker'[p].inFlight /\ worker'[p].beat = worker[p].beat + 1
      BY <1>1, <1>3, <2>3, <2>7, SizesAssumption DEF Older
    <3> QED
      BY <2>1, <2>2, <2>3, <2>4, <2>5, <2>7, <3>1, SizesAssumption DEF Bound
  <2> QED
    BY <2>6, <2>7
<1>8. Apart'
  BY <1>1, <1>4 DEF InTime, Apart, Single, Disjoint
<1> QED
  BY <1>6, <1>7, <1>8 DEF InTime

LEMMA NextInTime ==
  Roomy /\ IInv /\ InTime /\ [Next]_vars => InTime'
<1> SUFFICES ASSUME Roomy, IInv, InTime, [Next]_vars PROVE InTime'
  OBVIOUS
<1>1. CASE UNCHANGED vars
  BY <1>1 DEF vars, InTime, Holding, Prompt, Apart, Single, Disjoint, Active, Owns, Bound, InStatement
<1>2. ASSUME NEW p \in Proc, Fault(p) PROVE FALSE
  BY <1>2 DEF Fault, HeartbeatErrors, MarkProcessedErrors, Abandon, IInv, TypeOK, Roomy
<1>3. ASSUME NEW p \in Proc, Claim(p) PROVE InTime'
  BY <1>3, SelectInTime, CommitInTime DEF Claim
<1> QED
  BY <1>1, <1>2, <1>3, AppendInTime, HeartbeatInTime, HandlerInTime, MarkInTime, TickInTime DEF Next

\* A lease with room for one interval and two statements, batches of one event
\* and no fault keep every event in one handler at a time, whatever the number
\* of calls: the reclaim of processPending() never reaches a running handler.
THEOREM LeaseSuffices == Roomy => (Spec => []NoConcurrentHandlers)
<1> SUFFICES ASSUME Roomy PROVE Spec => []NoConcurrentHandlers
  OBVIOUS
<1>1. IInv /\ InTime /\ [Next]_vars => InTime'
  BY NextInTime
<1>2. IInv /\ InTime => NoConcurrentHandlers
  BY OneOwner DEF NoConcurrentHandlers, Active
<1> QED
  BY <1>1, <1>2, InTimeInit, Inductive, PTL DEF Spec
=============================================================================
