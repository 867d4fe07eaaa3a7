--------------------------- MODULE OutboxProcessor ---------------------------
(* The transactional outbox: the outbox_events table, the writer that        *)
(* appends to it, and concurrent DrizzleOutboxProcessor.processPending()     *)
(* calls (one worker per call: several BullMQ slots, several worker          *)
(* processes) that claim batches of rows under a lease, publish each row to  *)
(* the domain event router, extend the lease of the row being published and  *)
(* settle the row.                                                           *)
(*                                                                           *)
(* Time is relative.  A row keeps the age of its locked_at stamp and the     *)
(* time left before available_at; a worker keeps the age of the `now` its    *)
(* statement in flight will write and the time since its interval fired.     *)
(* Tick advances them all, and ages past the lease saturate at Stale.        *)
EXTENDS Naturals, FiniteSets

CONSTANTS
    NumEvents,          \* events, numbered in the order of created_at
    Proc,               \* processPending() calls that may run at the same time
    Token,              \* the worker ids randomUUID() draws from
    NoToken,            \* locked_by IS NULL
    BatchSize,          \* options.batchSize
    MaxAttempts,        \* options.maxAttempts
    LockTtl,            \* options.lockTtlMs
    HeartbeatInterval,  \* options.heartbeatIntervalMs
    RetryDelay,         \* options.retryDelaySeconds, by attempt
    HasTimeout,         \* options.handlerTimeoutMs > 0
    Timely,             \* intervals fire when due, statements take at most MaxLag
    MaxLag,             \* longest a claim or heartbeat is in flight, if Timely
    MaxFaults           \* bound on crashes and database errors

Event == 1 .. NumEvents
NoEvent == 0
Stale == LockTtl + 1

ASSUME SizesAssumption ==
    /\ NumEvents \in Nat
    /\ BatchSize \in Nat \ {0}
    /\ MaxAttempts \in Nat \ {0}
    /\ LockTtl \in Nat \ {0}
    /\ HeartbeatInterval \in Nat \ {0}
    /\ MaxLag \in Nat
    /\ MaxFaults \in Nat
ASSUME ChoicesAssumption ==
    /\ RetryDelay \in [1 .. MaxAttempts -> Nat]
    /\ HasTimeout \in BOOLEAN
    /\ Timely \in BOOLEAN
    /\ NoToken \notin Token

VARIABLES
    row,        \* row[e] : the outbox_events row of e
    worker,     \* worker[p] : the local state of a processPending() call
    delivered,  \* history: events some handler run finished
    faults      \* crashes and database errors so far

vars == <<row, worker, delivered, faults>>

AbsentRow == [status |-> "absent", attempts |-> 0, delay |-> 0, age |-> 0, owner |-> NoToken]

Idle == [pc |-> "idle", token |-> NoToken, todo |-> {}, cur |-> NoEvent,
         seen |-> [e \in Event |-> 0], lost |-> FALSE, inFlight |-> FALSE,
         timedOut |-> FALSE, stamp |-> 0, beat |-> 0]

\* A worker between the start of a publish and the clearInterval() after it.
Active(p) == worker[p].pc \in {"publishing", "marking", "failing"}

\* Mutant: the claim selects without FOR UPDATE SKIP LOCKED.
RowLocked_Never(e) == FALSE

\* A claim transaction holds the row locks of its SELECT ... FOR UPDATE until
\* it commits or rolls back; a statement on such a row waits.
RowLocked(e) == \E p \in Proc : worker[p].pc = "claiming" /\ e \in worker[p].todo

\* The WHERE clause the heartbeat and both marks share.
Owns(p, e) == row[e].status = "processing" /\ row[e].owner = worker[p].token

FreshTokens == Token \ ({row[e].owner : e \in Event} \cup {worker[p].token : p \in Proc})

\* Mutants: failed rows are claimed again; a row whose call died is not.
Claimable_AlsoFailed(e) == /\ row[e].delay = 0
                           /\ \/ row[e].status \in {"pending", "failed"}
                              \/ row[e].status = "processing" /\ row[e].age > LockTtl

Claimable_PendingOnly(e) == /\ row[e].delay = 0
                            /\ row[e].attempts < MaxAttempts
                            /\ row[e].status = "pending"

Claimable(e) == /\ row[e].delay = 0
                /\ row[e].attempts < MaxAttempts
                /\ \/ row[e].status = "pending"
                   \/ row[e].status = "processing" /\ row[e].age > LockTtl

\* ORDER BY created_at LIMIT n.
Oldest(S, n) == {e \in S : Cardinality({d \in S : d < e}) < n}

\* The for loop goes on with the oldest event of rest, or the call returns.
Continue(p, w, rest) ==
    \/ /\ rest = {}
       /\ worker' = [worker EXCEPT ![p] = Idle]
    \/ \E e \in rest :
         /\ \A d \in rest : e <= d
         /\ worker' = [worker EXCEPT ![p] =
                [w EXCEPT !.pc = "publishing", !.todo = rest, !.cur = e, !.lost = FALSE,
                          !.inFlight = FALSE, !.timedOut = FALSE, !.stamp = 0, !.beat = 0]]

-----------------------------------------------------------------------------
Init == /\ row = [e \in Event |-> AbsentRow]
        /\ worker = [p \in Proc |-> Idle]
        /\ delivered = {}
        /\ faults = 0

\* DrizzleOutboxWriter.append(), at the commit of its transaction.
Append(e) ==
    /\ row[e].status = "absent"
    /\ \A d \in 1 .. e - 1 : row[d].status # "absent"
    /\ row' = [row EXCEPT ![e].status = "pending"]
    /\ UNCHANGED <<worker, delivered, faults>>

\* claimPendingBatch(): `now` is read and the rows are selected and locked,
\* the rows other claims hold skipped.  A claim that finds no row returns.
ClaimSelect(p) ==
    /\ worker[p].pc = "idle"
    /\ \E t \in FreshTokens :
         LET batch == Oldest({e \in Event : Claimable(e) /\ ~RowLocked(e)}, BatchSize)
         IN  /\ batch # {}
             /\ worker' = [worker EXCEPT ![p] =
                    [Idle EXCEPT !.pc = "claiming", !.token = t, !.todo = batch,
                                 !.seen = [e \in Event |-> IF e \in batch THEN row[e].attempts ELSE 0]]]
    /\ UNCHANGED <<row, delivered, faults>>

\* The claim's UPDATE commits; its stamp is as old as the transaction took.
ClaimCommit(p) ==
    /\ worker[p].pc = "claiming"
    /\ row' = [e \in Event |->
                 IF e \in worker[p].todo
                   THEN [row[e] EXCEPT !.status = "processing", !.age = worker[p].stamp,
                                       !.owner = worker[p].token]
                   ELSE row[e]]
    /\ Continue(p, worker[p], worker[p].todo)
    /\ UNCHANGED <<delivered, faults>>

\* The interval fires: nothing to do after a loss or while the last beat is out.
HeartbeatFires(p) ==
    /\ Active(p)
    /\ worker[p].beat = HeartbeatInterval
    /\ worker' = [worker EXCEPT ![p] =
           IF @.inFlight \/ @.lost THEN [@ EXCEPT !.beat = 0]
                                   ELSE [@ EXCEPT !.beat = 0, !.inFlight = TRUE, !.stamp = 0]]
    /\ UNCHANGED <<row, delivered, faults>>

\* Mutant: the heartbeat checks the ownership but does not write the stamp.
Extend_NoStamp(p) == row' = row

\* extendLock() writes the `now` it read when the interval fired.
Extend(p) == row' = IF Owns(p, worker[p].cur)
                      THEN [row EXCEPT ![worker[p].cur].age = worker[p].stamp]
                      ELSE row

HeartbeatSettles(p) ==
    /\ worker[p].inFlight
    /\ ~RowLocked(worker[p].cur)
    /\ Extend(p)
    /\ worker' = [worker EXCEPT ![p].inFlight = FALSE, ![p].stamp = 0,
                                ![p].lost = @ \/ ~Owns(p, worker[p].cur)]
    /\ UNCHANGED <<delivered, faults>>

\* The statement rejects, applied or not: the code takes it for a lost lease.
HeartbeatErrors(p) ==
    /\ worker[p].inFlight
    /\ faults < MaxFaults
    /\ UNCHANGED row \/ (~RowLocked(worker[p].cur) /\ Extend(p))
    /\ worker' = [worker EXCEPT ![p].inFlight = FALSE, ![p].stamp = 0, ![p].lost = TRUE]
    /\ faults' = faults + 1
    /\ UNCHANGED delivered

-----------------------------------------------------------------------------
\* The router's handlers finish; a publish that timed out was awaited and fails.
HandlerSucceeds(p) ==
    /\ worker[p].pc = "publishing"
    /\ delivered' = delivered \cup {worker[p].cur}
    /\ worker' = [worker EXCEPT ![p].pc =
           IF worker[p].timedOut \/ worker[p].lost THEN "failing" ELSE "marking"]
    /\ UNCHANGED <<row, faults>>

\* Mutant: the rejection of a handler is swallowed.
HandlerFails_Swallowed(p) ==
    /\ worker[p].pc = "publishing"
    /\ worker' = [worker EXCEPT ![p].pc = "marking"]
    /\ UNCHANGED <<row, delivered, faults>>

HandlerFails(p) ==
    /\ worker[p].pc = "publishing"
    /\ worker' = [worker EXCEPT ![p].pc = "failing"]
    /\ UNCHANGED <<row, delivered, faults>>

HandlerTimeout(p) ==
    /\ HasTimeout
    /\ worker[p].pc = "publishing"
    /\ ~worker[p].timedOut
    /\ worker' = [worker EXCEPT ![p].timedOut = TRUE]
    /\ UNCHANGED <<row, delivered, faults>>

\* Mutant: the mark goes by the row's id alone.
SettleProcessed_ByIdOnly(p) ==
    row' = [row EXCEPT ![worker[p].cur].status = "processed", ![worker[p].cur].age = 0,
                       ![worker[p].cur].owner = NoToken]

SettleProcessed(p) ==
    LET e == worker[p].cur
    IN  row' = IF Owns(p, e)
                 THEN [row EXCEPT ![e].status = "processed", ![e].age = 0, ![e].owner = NoToken]
                 ELSE row

\* markProcessed(); no row updated throws into the catch that marks a failure.
MarkProcessed(p) ==
    /\ worker[p].pc = "marking"
    /\ ~RowLocked(worker[p].cur)
    /\ SettleProcessed(p)
    /\ IF Owns(p, worker[p].cur)
         THEN Continue(p, worker[p], worker[p].todo \ {worker[p].cur})
         ELSE worker' = [worker EXCEPT ![p].pc = "failing"]
    /\ UNCHANGED <<delivered, faults>>

MarkProcessedErrors(p) ==
    /\ worker[p].pc = "marking"
    /\ faults < MaxFaults
    /\ UNCHANGED row \/ (~RowLocked(worker[p].cur) /\ SettleProcessed(p))
    /\ worker' = [worker EXCEPT ![p].pc = "failing"]
    /\ faults' = faults + 1
    /\ UNCHANGED delivered

\* Mutant: one attempt too many before a row is given up.
FailedRow_OneMore(p) ==
    LET attempts == worker[p].seen[worker[p].cur] + 1
    IN  IF attempts > MaxAttempts
          THEN [AbsentRow EXCEPT !.status = "failed", !.attempts = attempts]
          ELSE [AbsentRow EXCEPT !.status = "pending", !.attempts = attempts,
                                 !.delay = RetryDelay[attempts]]

\* The row markFailed() writes, from the attempts its claim read.
FailedRow(p) ==
    LET attempts == worker[p].seen[worker[p].cur] + 1
    IN  IF attempts >= MaxAttempts
          THEN [AbsentRow EXCEPT !.status = "failed", !.attempts = attempts]
          ELSE [AbsentRow EXCEPT !.status = "pending", !.attempts = attempts,
                                 !.delay = RetryDelay[attempts]]

\* markFailed(); no row updated is audited as ownershipLost and skipped.
MarkFailed(p) ==
    /\ worker[p].pc = "failing"
    /\ ~RowLocked(worker[p].cur)
    /\ row' = IF Owns(p, worker[p].cur)
                THEN [row EXCEPT ![worker[p].cur] = FailedRow(p)]
                ELSE row
    /\ Continue(p, worker[p], worker[p].todo \ {worker[p].cur})
    /\ UNCHANGED <<delivered, faults>>

\* The process dies, or a statement no catch covers rejects (the claim,
\* markFailed()): the call ends where it is, a claim rolls back, and a
\* heartbeat already sent may still land.
Abandon(p) ==
    /\ worker[p].pc # "idle"
    /\ faults < MaxFaults
    /\ \/ UNCHANGED row
       \/ worker[p].inFlight /\ ~RowLocked(worker[p].cur) /\ Extend(p)
    /\ worker' = [worker EXCEPT ![p] = Idle]
    /\ faults' = faults + 1
    /\ UNCHANGED delivered

-----------------------------------------------------------------------------
InStatement(p) == worker[p].pc = "claiming" \/ worker[p].inFlight

Sooner(n) == IF n = 0 THEN 0 ELSE n - 1
Older(n, bound) == IF n < bound THEN n + 1 ELSE bound

\* One unit of time passes.  If Timely, not while something is overdue.
Tick ==
    /\ Timely => \A p \in Proc : /\ InStatement(p) => worker[p].stamp < MaxLag
                                 /\ Active(p) => worker[p].beat < HeartbeatInterval
    /\ row' = [e \in Event |->
                 [row[e] EXCEPT !.delay = Sooner(@),
                                !.age = IF row[e].status = "processing" THEN Older(@, Stale) ELSE @]]
    /\ worker' = [p \in Proc |->
                 [worker[p] EXCEPT !.stamp = IF InStatement(p) THEN Older(@, Stale) ELSE @,
                                   !.beat = IF Active(p) THEN Older(@, HeartbeatInterval) ELSE @]]
    /\ UNCHANGED <<delivered, faults>>

Claim(p) == ClaimSelect(p) \/ ClaimCommit(p)
Heartbeat(p) == HeartbeatFires(p) \/ HeartbeatSettles(p)
Handler(p) == HandlerSucceeds(p) \/ HandlerFails(p)
Mark(p) == MarkProcessed(p) \/ MarkFailed(p)
Fault(p) == HeartbeatErrors(p) \/ MarkProcessedErrors(p) \/ Abandon(p)

Next == \/ \E e \in Event : Append(e)
        \/ \E p \in Proc : \/ Claim(p) \/ Heartbeat(p) \/ Handler(p)
                           \/ HandlerTimeout(p) \/ Mark(p) \/ Fault(p)
        \/ Tick

Spec == Init /\ [][Next]_vars

\* The queue keeps running processPending(), handlers settle (the code awaits
\* them for ever), the database answers and time passes.  Nothing is assumed of
\* faults, timeouts and producers.
Fairness == /\ \A p \in Proc : /\ WF_vars(ClaimSelect(p)) /\ WF_vars(ClaimCommit(p))
                               /\ WF_vars(HeartbeatFires(p)) /\ WF_vars(HeartbeatSettles(p))
                               /\ WF_vars(Handler(p)) /\ WF_vars(Mark(p))
            /\ WF_vars(Tick)

FairSpec == Spec /\ Fairness

-----------------------------------------------------------------------------
(* Properties.                                                              *)

RowType == [status : {"absent", "pending", "processing", "processed", "failed"},
            attempts : 0 .. MaxAttempts, delay : Nat, age : 0 .. Stale,
            owner : Token \cup {NoToken}]

WorkerType == [pc : {"idle", "claiming", "publishing", "marking", "failing"},
               token : Token \cup {NoToken}, todo : SUBSET Event, cur : Event \cup {NoEvent},
               seen : [Event -> 0 .. MaxAttempts], lost : BOOLEAN, inFlight : BOOLEAN,
               timedOut : BOOLEAN, stamp : 0 .. Stale, beat : 0 .. HeartbeatInterval]

\* The types of the table and of the workers' local state.
TypeOK == /\ row \in [Event -> RowType]
          /\ worker \in [Proc -> WorkerType]
          /\ delivered \subseteq Event
          /\ faults \in 0 .. MaxFaults

\* A row locked by a running call is one of its unfinished events, and the
\* attempts that call will count from are still the row's: markFailed() writes
\* an absolute number computed from a snapshot taken before every await.
OwnedSnapshotIsFresh == \A p \in Proc : \A e \in Event :
    Active(p) /\ Owns(p, e) => /\ e \in worker[p].todo
                               /\ worker[p].seen[e] = row[e].attempts

\* An event is given up exactly when its budget is used up: no row can be left
\* open that the claim's attempts filter would never select again.
FailedExactlyWhenExhausted == \A e \in Event :
    row[e].status = "failed" <=> row[e].attempts = MaxAttempts

\* No event is marked processed that no handler run finished, whoever
\* claimed, lost, reclaimed or settled it in between.
ProcessedWasDelivered == \A e \in Event : row[e].status = "processed" => e \in delivered

\* "Heartbeat prevents duplicate reclaim while a worker is actively
\* publishing" (README): no event is in two handlers at once.
NoConcurrentHandlers == \A p, q \in Proc :
    /\ p # q
    /\ worker[p].pc = "publishing"
    /\ worker[q].pc = "publishing"
    => worker[p].cur # worker[q].cur

\* Every appended event is settled in the end, through retries, reclaims of
\* what a crashed call held, and steals.
AllSettled == \A e \in Event :
    (row[e].status # "absent") ~> (row[e].status \in {"processed", "failed"})

Contract == INSTANCE OutboxContract WITH
    state <- [e \in Event |-> IF row[e].status \in {"pending", "processing"}
                                THEN "open" ELSE row[e].status],
    failures <- [e \in Event |-> row[e].attempts]

\* The table and its workers implement the contract: whatever workers race for
\* a row, it is settled once, each counted failure adds one attempt, and
\* nothing reopens a settled event.
ContractSpec == Contract!Spec
=============================================================================
