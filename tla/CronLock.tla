------------------------------ MODULE CronLock ------------------------------
(* The cron leaders that keep the outbox processed: the tick of             *)
(* OutboxSchedule, RedisDistributedLock.runWithLock() around it, and the    *)
(* one BullMQ job it enqueues under a fixed id.  Redis executes a command   *)
(* at one instant and answers later; BullMQ and its worker are external.    *)
(* Time is relative: the lock and the timers hold what is left of them.     *)
EXTENDS Naturals

CONSTANTS
    Leader,         \* cron processes
    None, Orphan,   \* no holder; a token no running tick holds
    LockTtl,        \* cronLockTtlMs, in units of a second
    MaxLag,         \* time a command may take to be executed or answered
    Attempts,       \* defaultJobOptions.attempts
    MaxFaults       \* bound on crashes, shutdowns and rejected commands

ASSUME LockAssumption ==
    /\ LockTtl \in Nat \ {0} /\ MaxLag \in Nat
    /\ Attempts \in Nat \ {0} /\ MaxFaults \in Nat
    /\ None \notin Leader /\ Orphan \notin Leader /\ None # Orphan

\* A heartbeat falls due, is executed and is answered within the ttl.
ASSUME TimingAssumption == LockTtl >= 3 /\ (LockTtl \div 3) + 2 * MaxLag < LockTtl

VARIABLES
    lock,       \* the lock key: holder and time to live
    leader,     \* leader[p] : position and locals of p's tick
    job,        \* the job "outbox-process-pending": state and tries so far
    faults

vars == <<lock, leader, job, faults>>

Free == [holder |-> None, ttl |-> 0]
NoJob == [state |-> "absent", tries |-> 0]
Idle == [pc |-> "idle", lost |-> FALSE, beat |-> 0, beating |-> FALSE, lag |-> 0]
Down == [Idle EXCEPT !.pc = "down"]

Init == /\ lock = Free
        /\ leader = [p \in Leader |-> Idle]
        /\ job = NoJob
        /\ faults = 0

\* Mutant: the lock is renewed only when it runs out.
HeartbeatInterval_Whole == LockTtl

\* Math.max(Math.floor(ttlMs / 3), 1000)
HeartbeatInterval == IF LockTtl < 3 THEN 1 ELSE LockTtl \div 3

Goto(p, pc) == leader' = [leader EXCEPT ![p].pc = pc]

EndTick(p) == leader' = [leader EXCEPT ![p] = Idle]

-----------------------------------------------------------------------------
(* The tick.                                                                *)

\* The interval fires; tickRunning keeps a second tick of the process out.
StartTick(p) == /\ leader[p].pc = "idle"
                /\ Goto(p, "acquiring")
                /\ UNCHANGED <<lock, job, faults>>

\* SET NX PX is executed; a tick refused the lock is over.
Acquire(p) ==
    /\ leader[p].pc = "acquiring"
    /\ \/ /\ lock.holder = None
          /\ lock' = [holder |-> p, ttl |-> LockTtl]
          /\ leader' = [leader EXCEPT ![p].pc = "acquired", ![p].lag = 0]
       \/ lock.holder # None /\ EndTick(p) /\ UNCHANGED lock
    /\ UNCHANGED <<job, faults>>

\* The answer arrives: the heartbeat is set up and the handler starts.
EnterHandler(p) ==
    /\ leader[p].pc = "acquired"
    /\ leader' = [leader EXCEPT ![p].pc = "adding", ![p].beat = HeartbeatInterval]
    /\ UNCHANGED <<lock, job, faults>>

\* A firing of the interval sends no second extend while one is on its way.
Fire(p) ==
    /\ leader[p].pc = "adding" /\ leader[p].beat = 0
    /\ leader' = [leader EXCEPT ![p].beat = HeartbeatInterval, ![p].beating = TRUE,
                                ![p].lag = IF leader[p].beating THEN @ ELSE 0]
    /\ UNCHANGED <<lock, job, faults>>

\* Mutant: the ttl is added to what is left.
Extend_Adds(p) ==
    /\ leader[p].pc = "adding" /\ leader[p].beating
    /\ lock' = IF lock.holder = p THEN [lock EXCEPT !.ttl = @ + LockTtl] ELSE lock
    /\ leader' = [leader EXCEPT ![p].beating = FALSE,
                                ![p].lost = leader[p].lost \/ lock.holder # p]
    /\ UNCHANGED <<job, faults>>

Extend(p) ==
    /\ leader[p].pc = "adding" /\ leader[p].beating
    /\ lock' = IF lock.holder = p THEN [lock EXCEPT !.ttl = LockTtl] ELSE lock
    /\ leader' = [leader EXCEPT ![p].beating = FALSE,
                                ![p].lost = leader[p].lost \/ lock.holder # p]
    /\ UNCHANGED <<job, faults>>

\* The handler's enqueue: a job under the id that is still there absorbs it.
AddJob == job' = IF job.state = "absent" THEN [NoJob EXCEPT !.state = "waiting"] ELSE job

\* The handler ends; the interval is cleared whether the lock was lost or not.
Handle(p) == /\ leader[p].pc = "adding"
             /\ AddJob
             /\ Goto(p, "releasing")
             /\ UNCHANGED <<lock, faults>>

\* Mutant: DEL without comparing the token.
Release_Unconditional(p) == /\ leader[p].pc = "releasing"
                            /\ lock' = Free
                            /\ EndTick(p)
                            /\ UNCHANGED <<job, faults>>

Release(p) == /\ leader[p].pc = "releasing"
              /\ lock' = IF lock.holder = p THEN Free ELSE lock
              /\ EndTick(p)
              /\ UNCHANGED <<job, faults>>

-----------------------------------------------------------------------------
(* The outbox worker and BullMQ.                                            *)

PickJob == /\ job.state = "waiting"
           /\ job' = [job EXCEPT !.state = "active"]
           /\ UNCHANGED <<lock, leader, faults>>

\* removeOnComplete
CompleteJob == /\ job.state = "active"
               /\ job' = NoJob
               /\ UNCHANGED <<lock, leader, faults>>

\* Mutant: without removeOnFail the failed job keeps its id.
FailJob_Kept ==
    /\ job.state = "active" /\ faults < MaxFaults
    /\ job' = [state |-> IF job.tries + 1 < Attempts THEN "waiting" ELSE "failed",
               tries |-> job.tries + 1]
    /\ faults' = faults + 1
    /\ UNCHANGED <<lock, leader>>

\* A rejected or stalled run: retried while attempts are left, then removed.
FailJob ==
    /\ job.state = "active" /\ faults < MaxFaults
    /\ job' = IF job.tries + 1 < Attempts
                THEN [state |-> "waiting", tries |-> job.tries + 1] ELSE NoJob
    /\ faults' = faults + 1
    /\ UNCHANGED <<lock, leader>>

-----------------------------------------------------------------------------
(* Faults and time.                                                         *)

\* p's process is gone; its token, if it holds the lock, is nobody's.
Abandon(p) == lock' = IF lock.holder = p THEN [lock EXCEPT !.holder = Orphan] ELSE lock

\* A crash, or a shutdown: onModuleDestroy() lets no tick start any more, and
\* the process exits before or after the one that runs has ended.
Crash(p) == /\ leader[p].pc # "down"
            /\ leader' = [leader EXCEPT ![p] = Down]
            /\ Abandon(p)
            /\ UNCHANGED job

Restart(p) == /\ leader[p].pc = "down"
              /\ EndTick(p)
              /\ UNCHANGED <<lock, job, faults>>

\* A command rejects, executed or not; runTickSafely() logs what the tick throws.
AcquireErrors(p) ==
    /\ leader[p].pc = "acquiring"
    /\ EndTick(p)
    /\ \/ UNCHANGED lock
       \/ lock.holder = None /\ lock' = [holder |-> Orphan, ttl |-> LockTtl]
    /\ UNCHANGED job

ExtendErrors(p) ==
    /\ leader[p].pc = "adding" /\ leader[p].beating
    /\ leader' = [leader EXCEPT ![p].beating = FALSE, ![p].lost = TRUE]
    /\ \/ UNCHANGED lock
       \/ lock.holder = p /\ lock' = [lock EXCEPT !.ttl = LockTtl]
    /\ UNCHANGED job

HandlerErrors(p) == /\ leader[p].pc = "adding"
                    /\ UNCHANGED job \/ AddJob
                    /\ Goto(p, "releasing")
                    /\ UNCHANGED lock

ReleaseErrors(p) ==
    /\ leader[p].pc = "releasing"
    /\ EndTick(p)
    /\ Abandon(p) \/ (lock.holder = p /\ lock' = Free)
    /\ UNCHANGED job

Fault(p) == /\ faults < MaxFaults
            /\ faults' = faults + 1
            /\ \/ Crash(p) \/ AcquireErrors(p) \/ ExtendErrors(p)
               \/ HandlerErrors(p) \/ ReleaseErrors(p)

\* A due timer fires and a command in flight is done within MaxLag.
OnTime(p) == /\ leader[p].pc = "acquired" => leader[p].lag < MaxLag
             /\ leader[p].pc = "adding" =>
                  leader[p].beat > 0 /\ (leader[p].beating => leader[p].lag < MaxLag)

Aged(l) ==
    CASE l.pc = "acquired" -> [l EXCEPT !.lag = @ + 1]
      [] l.pc = "adding" -> [l EXCEPT !.beat = @ - 1,
                                      !.lag = IF l.beating THEN @ + 1 ELSE @]
      [] OTHER -> l

\* One unit of time passes; a lock at the end of its life is gone.
Elapse ==
    /\ \A p \in Leader : OnTime(p)
    /\ lock' = IF lock.ttl <= 1 THEN Free ELSE [lock EXCEPT !.ttl = @ - 1]
    /\ leader' = [p \in Leader |-> Aged(leader[p])]
    /\ UNCHANGED <<job, faults>>

-----------------------------------------------------------------------------
Tick(p) == \/ StartTick(p) \/ Acquire(p) \/ EnterHandler(p)
           \/ Handle(p) \/ Release(p)

Heartbeat(p) == Fire(p) \/ Extend(p)

Next == \/ Elapse \/ PickJob \/ CompleteJob \/ FailJob
        \/ \E p \in Leader : Tick(p) \/ Heartbeat(p) \/ Restart(p) \/ Fault(p)

Spec == Init /\ [][Next]_vars

\* Intervals fire, commands are answered, BullMQ runs what waits, a process
\* that is down is started again, and time passes.
FairSpec == Spec /\ WF_vars(PickJob) /\ WF_vars(CompleteJob) /\ WF_vars(Elapse)
                 /\ \A p \in Leader : /\ WF_vars(Tick(p))
                                      /\ WF_vars(Heartbeat(p))
                                      /\ WF_vars(Restart(p))

-----------------------------------------------------------------------------
(* Properties.                                                              *)

\* The types of the lock, the ticks and the job.
TypeOK ==
    /\ lock \in [holder : Leader \cup {None, Orphan}, ttl : 0 .. LockTtl]
    /\ leader \in [Leader -> [pc : {"idle", "acquiring", "acquired", "adding",
                                    "releasing", "down"},
                              lost : BOOLEAN, beat : 0 .. HeartbeatInterval,
                              beating : BOOLEAN, lag : 0 .. MaxLag]]
    /\ job \in [state : {"absent", "waiting", "active"}, tries : 0 .. Attempts]
    /\ faults \in 0 .. MaxFaults

\* Two handlers run under the lock together only if one of them has been told
\* that it may have lost it, and so ends in an error: a heartbeat every third
\* of the ttl keeps the lock of any other, however long its handler takes.
HandlersExclude ==
    \A p, q \in Leader :
        (p # q /\ leader[p].pc = "adding" /\ leader[q].pc = "adding") =>
            (leader[p].lost \/ leader[q].lost)

\* Nobody takes the lock from a process: it leaves its holder by a step of the
\* holder itself or at the end of its time to live, so a tick that outlived
\* its own lock does not release the next holder's.
OnlyHolderLetsGo ==
    [][\A p \in Leader : (lock.holder = p /\ lock'.holder # p) =>
            (leader'[p].pc # leader[p].pc \/ lock.ttl = 1)]_vars

\* The outbox job runs again and again: no crash between lock and release, no
\* rejected command and no failed or stalled job under the fixed id stops it.
OutboxKeepsRunning == []<>(job.state = "active")
=============================================================================
