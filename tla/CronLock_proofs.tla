-------------------------- MODULE CronLock_proofs --------------------------
(* Proofs about CronLock, for any number of cron leaders, any lock ttl and  *)
(* lag between which LockAssumption and TimingAssumption leave room, and    *)
(* any bound on faults.                                                     *)
EXTENDS CronLock, TLAPS

LockType == [holder : Leader \cup {None, Orphan}, ttl : 0 .. LockTtl]

TickType == [pc : {"idle", "acquiring", "acquired", "adding", "releasing", "down"},
             lost : BOOLEAN, beat : 0 .. HeartbeatInterval,
             beating : BOOLEAN, lag : 0 .. MaxLag]

JobType == [state : {"absent", "waiting", "active"}, tries : 0 .. Attempts]

\* What the tick l of p may rely on when the lock is k: since its acquire the
\* lock is p's and has lost no more time than the answer took; in the handler,
\* unless p knows better, there is time for the next heartbeat to fall due and
\* be executed.
KeptBy(p, l, k) ==
    /\ l.pc = "acquired" => k.holder = p /\ k.ttl + l.lag >= LockTtl
    /\ (l.pc = "adding" /\ ~l.lost) =>
         /\ k.holder = p
         /\ l.beating => k.ttl + l.lag >= MaxLag + 1
         /\ ~l.beating => k.ttl >= l.beat + MaxLag + 1

Kept == \A p \in Leader : KeptBy(p, leader[p], lock)

HeldLives == lock.holder # None => lock.ttl >= 1

IInv == TypeOK /\ Kept /\ HeldLives

\* The interval of the heartbeat, and the room it leaves.
LEMMA Interval == /\ HeartbeatInterval \in Nat \ {0}
                  /\ HeartbeatInterval + 2 * MaxLag < LockTtl
                  /\ LockTtl \in Nat /\ MaxLag \in Nat
<1>1. LockTtl \in Nat /\ MaxLag \in Nat /\ LockTtl >= 3
      /\ (LockTtl \div 3) + 2 * MaxLag < LockTtl
  BY LockAssumption, TimingAssumption
<1>2. LockTtl \div 3 \in Nat /\ LockTtl \div 3 >= 1
  BY <1>1
<1> QED
  BY <1>1, <1>2 DEF HeartbeatInterval

LEMMA TypeOKMeans ==
  TypeOK <=> /\ lock \in LockType /\ leader \in [Leader -> TickType]
             /\ job \in JobType /\ faults \in 0 .. MaxFaults
BY DEF TypeOK, LockType, TickType, JobType

LEMMA Constants == /\ Free \in LockType /\ NoJob \in JobType
                   /\ Idle \in TickType /\ Down \in TickType
                   /\ Free.holder = None /\ Idle.pc = "idle" /\ Down.pc = "down"
<1>1. 0 \in 0 .. HeartbeatInterval /\ 0 \in 0 .. MaxLag /\ 0 \in 0 .. LockTtl
      /\ 0 \in 0 .. Attempts
  BY Interval, LockAssumption
<1>2. Free \in LockType /\ NoJob \in JobType /\ Free.holder = None
  BY <1>1 DEF Free, NoJob, LockType, JobType
<1>3. Idle \in TickType /\ Idle.pc = "idle"
  BY <1>1 DEF Idle, TickType
<1>4. Down \in TickType /\ Down.pc = "down"
  BY <1>3 DEF Down, TickType
<1> QED
  BY <1>2, <1>3, <1>4

LEMMA InitIInv == Init => IInv
<1> SUFFICES ASSUME Init PROVE IInv
  OBVIOUS
<1>1. TypeOK
  BY Constants, TypeOKMeans, LockAssumption DEF Init
<1>2. Kept
  BY Constants DEF Init, Kept, KeptBy
<1>3. HeldLives
  BY Constants DEF Init, HeldLives
<1> QED
  BY <1>1, <1>2, <1>3 DEF IInv

-----------------------------------------------------------------------------
(* Steps of one process.                                                    *)

\* A step of p that touches the lock only if it is free or p's own leaves what
\* the others rely on.
LEMMA ActorStep ==
  ASSUME IInv, NEW p \in Leader, NEW l \in TickType,
         leader' = [leader EXCEPT ![p] = l],
         lock' \in LockType, lock' = lock \/ lock.holder \in {None, p},
         job' \in JobType, faults' \in 0 .. MaxFaults,
         HeldLives', KeptBy(p, l, lock')
  PROVE  IInv'
<1>1. leader \in [Leader -> TickType]
  BY TypeOKMeans DEF IInv
<1>2. leader' \in [Leader -> TickType] /\ leader'[p] = l
      /\ \A q \in Leader \ {p} : leader'[q] = leader[q]
  BY <1>1
<1>3. TypeOK'
  BY <1>2 DEF TypeOK, LockType, TickType, JobType
<1>4. ASSUME NEW q \in Leader PROVE KeptBy(q, leader'[q], lock')
  <2>1. CASE q = p
    BY <1>2, <2>1
  <2>2. CASE q # p
    <3>1. leader'[q] = leader[q] /\ KeptBy(q, leader[q], lock)
      BY <1>2, <2>2 DEF IInv, Kept
    <3>2. lock.holder = q => lock' = lock
      BY <2>2, LockAssumption
    <3> QED
      BY <3>1, <3>2 DEF KeptBy
  <2> QED
    BY <2>1, <2>2
<1> QED
  BY <1>3, <1>4 DEF IInv, Kept

\* Where a tick relies on nothing.
Careless == {"idle", "acquiring", "releasing", "down"}

LEMMA CarelessKept == ASSUME NEW p, NEW l, NEW k, l.pc \in Careless PROVE KeptBy(p, l, k)
BY DEF Careless, KeptBy

LEMMA Positions ==
  ASSUME IInv, NEW p \in Leader, NEW pc \in Careless
  PROVE  [leader[p] EXCEPT !.pc = pc] \in TickType
         /\ [leader[p] EXCEPT !.pc = pc].pc = pc
BY TypeOKMeans DEF IInv, TickType, Careless

\* A step to a position where nothing is relied on.
LEMMA CarelessStep ==
  ASSUME IInv, NEW p \in Leader, NEW pc \in Careless,
         Goto(p, pc) \/ EndTick(p) \/ leader' = [leader EXCEPT ![p] = Down],
         lock' \in LockType, lock' = lock \/ lock.holder \in {None, p},
         job' \in JobType, faults' \in 0 .. MaxFaults, HeldLives'
  PROVE  IInv'
<1>1. leader \in [Leader -> TickType]
  BY TypeOKMeans DEF IInv
<1>2. PICK l \in TickType : l.pc \in Careless /\ leader' = [leader EXCEPT ![p] = l]
  <2>1. CASE Goto(p, pc)
    <3>1. leader' = [leader EXCEPT ![p] = [leader[p] EXCEPT !.pc = pc]]
      BY <1>1, <2>1 DEF Goto
    <3> QED
      BY <3>1, Positions
  <2>2. CASE EndTick(p)
    BY <2>2, Constants DEF EndTick, Careless
  <2>3. CASE leader' = [leader EXCEPT ![p] = Down]
    BY <2>3, Constants DEF Careless
  <2> QED
    BY <2>1, <2>2, <2>3
<1>3. KeptBy(p, l, lock')
  BY <1>2, CarelessKept
<1> QED
  BY <1>2, <1>3, ActorStep

\* The types that a step does not change.
LEMMA Types == IInv => /\ lock \in LockType /\ job \in JobType
                       /\ faults \in 0 .. MaxFaults /\ HeldLives
                       /\ leader \in [Leader -> TickType]
BY TypeOKMeans DEF IInv

LEMMA AddJobType == ASSUME job \in JobType, AddJob PROVE job' \in JobType
<1>1. [NoJob EXCEPT !.state = "waiting"] \in JobType
  BY Constants DEF NoJob, JobType
<1> QED
  BY <1>1 DEF AddJob

LEMMA AbandonLock ==
  ASSUME IInv, NEW p \in Leader, Abandon(p)
  PROVE  lock' \in LockType /\ (lock' = lock \/ lock.holder = p) /\ HeldLives'
BY Types, LockAssumption DEF Abandon, LockType, HeldLives

LEMMA FreeLock ==
  ASSUME lock' = Free PROVE lock' \in LockType /\ HeldLives'
BY Constants DEF HeldLives

LEMMA FullLock ==
  ASSUME NEW h \in Leader \cup {None, Orphan}, lock' = [holder |-> h, ttl |-> LockTtl]
  PROVE  lock' \in LockType /\ HeldLives'
BY Interval DEF LockType, HeldLives

LEMMA RenewedLock ==
  ASSUME IInv, lock' = [lock EXCEPT !.ttl = LockTtl]
  PROVE  lock' = [holder |-> lock.holder, ttl |-> LockTtl] /\ lock' \in LockType /\ HeldLives'
BY Types, Interval DEF LockType, HeldLives

-----------------------------------------------------------------------------
(* The tick.                                                                *)

LEMMA StartTickStep == ASSUME IInv, NEW p \in Leader, StartTick(p) PROVE IInv'
<1>1. HeldLives'
  BY Types DEF StartTick, HeldLives
<1> QED
  BY <1>1, Types, CarelessStep DEF StartTick, Careless

LEMMA AcquireStep == ASSUME IInv, NEW p \in Leader, Acquire(p) PROVE IInv'
<1>1. CASE lock.holder = None /\ lock' = [holder |-> p, ttl |-> LockTtl]
           /\ leader' = [leader EXCEPT ![p].pc = "acquired", ![p].lag = 0]
  <2> DEFINE l == [leader[p] EXCEPT !.pc = "acquired", !.lag = 0]
  <2>0. leader[p] \in TickType /\ 0 \in 0 .. MaxLag
    BY Types, Interval
  <2>1. l \in TickType /\ l.pc = "acquired" /\ l.lag = 0
    BY <2>0 DEF TickType
  <2>2. leader' = [leader EXCEPT ![p] = l]
    BY <1>1, Types DEF TickType
  <2>3. KeptBy(p, l, lock')
    BY <1>1, <2>1, Interval DEF KeptBy
  <2>4. lock' \in LockType /\ HeldLives'
    BY <1>1, FullLock
  <2>5. job' \in JobType /\ faults' \in 0 .. MaxFaults
    BY Types DEF Acquire
  <2> HIDE DEF l
  <2> QED
    BY <1>1, <2>1, <2>2, <2>3, <2>4, <2>5, ActorStep
<1>2. CASE EndTick(p) /\ UNCHANGED lock
  <2>1. HeldLives'
    BY <1>2, Types DEF HeldLives
  <2> QED
    BY <1>2, <2>1, Types, CarelessStep DEF Acquire, Careless
<1> QED
  BY <1>1, <1>2 DEF Acquire

LEMMA EnterHandlerStep == ASSUME IInv, NEW p \in Leader, EnterHandler(p) PROVE IInv'
<1> DEFINE l == [leader[p] EXCEPT !.pc = "adding", !.beat = HeartbeatInterval]
<1>0. leader[p] \in TickType /\ HeartbeatInterval \in 0 .. HeartbeatInterval
  BY Types, Interval
<1>1. l \in TickType /\ l.pc = "adding" /\ l.beat = HeartbeatInterval
  BY <1>0 DEF TickType
<1>2. leader' = [leader EXCEPT ![p] = l]
  BY Types DEF EnterHandler, TickType
<1>3. lock.holder = p /\ lock.ttl + leader[p].lag >= LockTtl /\ leader[p].lag \in 0 .. MaxLag
      /\ lock.ttl \in Nat
  BY Types DEF EnterHandler, IInv, Kept, KeptBy, TickType, LockType
<1>4. l.lag = leader[p].lag /\ lock' = lock
  BY DEF EnterHandler, TickType
<1>5. KeptBy(p, l, lock')
  BY <1>1, <1>3, <1>4, Interval DEF KeptBy
<1>6. HeldLives' /\ job' \in JobType /\ faults' \in 0 .. MaxFaults
  BY Types DEF EnterHandler, HeldLives
<1> HIDE DEF l
<1> QED
  BY <1>1, <1>2, <1>4, <1>5, <1>6, Types, ActorStep

LEMMA HandleStep == ASSUME IInv, NEW p \in Leader, Handle(p) PROVE IInv'
<1>1. HeldLives' /\ job' \in JobType
  BY Types, AddJobType DEF Handle, HeldLives
<1> QED
  BY <1>1, Types, CarelessStep DEF Handle, Careless

LEMMA ReleaseStep == ASSUME IInv, NEW p \in Leader, Release(p) PROVE IInv'
<1>1. lock' = lock \/ (lock.holder = p /\ lock' = Free)
  BY DEF Release
<1>2. lock' \in LockType /\ HeldLives'
  BY <1>1, Types, FreeLock DEF HeldLives
<1> QED
  BY <1>1, <1>2, Types, CarelessStep DEF Release, Careless

LEMMA TickStep == ASSUME IInv, NEW p \in Leader, Tick(p) PROVE IInv'
BY StartTickStep, AcquireStep, EnterHandlerStep, HandleStep, ReleaseStep DEF Tick

-----------------------------------------------------------------------------
(* The heartbeat.                                                           *)

LEMMA FireStep == ASSUME IInv, NEW p \in Leader, Fire(p) PROVE IInv'
<1> DEFINE l == [leader[p] EXCEPT !.beat = HeartbeatInterval, !.beating = TRUE,
                                  !.lag = IF leader[p].beating THEN @ ELSE 0]
<1>0. leader[p] \in TickType /\ HeartbeatInterval \in 0 .. HeartbeatInterval
      /\ 0 \in 0 .. MaxLag
  BY Types, Interval
<1>1. /\ l \in TickType /\ l.pc = leader[p].pc /\ l.lost = leader[p].lost /\ l.beating
      /\ l.lag = (IF leader[p].beating THEN leader[p].lag ELSE 0)
  BY <1>0 DEF TickType
<1>2. leader' = [leader EXCEPT ![p] = l] /\ leader[p].pc = "adding" /\ leader[p].beat = 0
  BY Types DEF Fire, TickType
<1>3. lock' = lock /\ HeldLives' /\ job' \in JobType /\ faults' \in 0 .. MaxFaults
  BY Types DEF Fire, HeldLives
<1>4. lock.ttl \in Nat /\ KeptBy(p, leader[p], lock)
  BY Types DEF IInv, Kept, LockType
<1> HIDE DEF l
<1>5. KeptBy(p, l, lock')
  BY <1>1, <1>2, <1>3, <1>4, Interval DEF KeptBy
<1> QED
  BY <1>1, <1>2, <1>3, <1>5, Types, ActorStep

\* The answer to a heartbeat: an extended lock, or the knowledge that it is lost.
LEMMA BeatAnswered ==
  ASSUME IInv, NEW p \in Leader, NEW lost \in BOOLEAN, leader[p].pc = "adding",
         leader' = [leader EXCEPT ![p].beating = FALSE, ![p].lost = lost],
         \/ lock' = lock /\ lost
         \/ lock.holder = p /\ lock' = [lock EXCEPT !.ttl = LockTtl],
         job' = job, faults' \in 0 .. MaxFaults
  PROVE  IInv'
<1> DEFINE l == [leader[p] EXCEPT !.beating = FALSE, !.lost = lost]
<1>0. leader[p] \in TickType
  BY Types
<1>1. /\ l \in TickType /\ l.pc = "adding" /\ l.lost = lost /\ l.beating = FALSE
      /\ l.beat = leader[p].beat
  BY <1>0 DEF TickType
<1>2. leader' = [leader EXCEPT ![p] = l]
  BY Types DEF TickType
<1> HIDE DEF l
<1>3. lock' \in LockType /\ HeldLives' /\ job' \in JobType
  BY Types, RenewedLock DEF HeldLives
<1>4. KeptBy(p, l, lock')
  <2>1. CASE lost
    BY <1>1, <2>1 DEF KeptBy
  <2>2. CASE lock.holder = p /\ lock' = [lock EXCEPT !.ttl = LockTtl]
    <3>1. lock' = [holder |-> p, ttl |-> LockTtl]
      BY <2>2, RenewedLock
    <3>2. leader[p].beat \in 0 .. HeartbeatInterval
      BY <1>0 DEF TickType
    <3> QED
      BY <1>1, <3>1, <3>2, Interval DEF KeptBy
  <2> QED
    BY <2>1, <2>2
<1> QED
  BY <1>1, <1>2, <1>3, <1>4, ActorStep

LEMMA ExtendStep == ASSUME IInv, NEW p \in Leader, Extend(p) PROVE IInv'
<1> DEFINE lost == leader[p].lost \/ lock.holder # p
<1>1. leader[p] \in TickType
  BY Types
<1>2. lost \in BOOLEAN
  OBVIOUS
<1>3. \/ lock' = lock /\ lost
      \/ lock.holder = p /\ lock' = [lock EXCEPT !.ttl = LockTtl]
  BY DEF Extend
<1>4. /\ leader[p].pc = "adding" /\ job' = job /\ faults' = faults
      /\ leader' = [leader EXCEPT ![p].beating = FALSE, ![p].lost = lost]
  BY DEF Extend
<1> HIDE DEF lost
<1> QED
  BY <1>2, <1>3, <1>4, Types, BeatAnswered

-----------------------------------------------------------------------------
(* Faults and restarts.                                                     *)

LEMMA RestartStep == ASSUME IInv, NEW p \in Leader, Restart(p) PROVE IInv'
<1>1. HeldLives'
  BY Types DEF Restart, HeldLives
<1> QED
  BY <1>1, Types, CarelessStep DEF Restart, Careless

LEMMA FaultStep == ASSUME IInv, NEW p \in Leader, Fault(p) PROVE IInv'
<1>1. faults' \in 0 .. MaxFaults
  BY Types, LockAssumption DEF Fault
<1>2. CASE Crash(p)
  BY <1>1, <1>2, Types, AbandonLock, CarelessStep DEF Crash, Careless
<1>3. CASE AcquireErrors(p)
  <2>1. lock' = lock \/ (lock.holder = None /\ lock' = [holder |-> Orphan, ttl |-> LockTtl])
    BY <1>3 DEF AcquireErrors
  <2>2. lock' \in LockType /\ HeldLives'
    BY <2>1, Types, FullLock DEF HeldLives
  <2> QED
    BY <1>1, <1>3, <2>1, <2>2, Types, CarelessStep DEF AcquireErrors, Careless
<1>4. CASE ExtendErrors(p)
  BY <1>1, <1>4, BeatAnswered DEF ExtendErrors
<1>5. CASE HandlerErrors(p)
  <2>1. HeldLives' /\ job' \in JobType
    BY <1>5, Types, AddJobType DEF HandlerErrors, HeldLives
  <2> QED
    BY <1>1, <1>5, <2>1, Types, CarelessStep DEF HandlerErrors, Careless
<1>6. CASE ReleaseErrors(p)
  <2>1. lock' \in LockType /\ HeldLives' /\ (lock' = lock \/ lock.holder = p)
    BY <1>6, AbandonLock, FreeLock DEF ReleaseErrors
  <2> QED
    BY <1>1, <1>6, <2>1, Types, CarelessStep DEF ReleaseErrors, Careless
<1> QED
  BY <1>2, <1>3, <1>4, <1>5, <1>6 DEF Fault

-----------------------------------------------------------------------------
(* The worker, and time.                                                    *)

\* A step that leaves the lock and the ticks alone.
LEMMA JobStep ==
  ASSUME IInv, UNCHANGED <<lock, leader>>, job' \in JobType, faults' \in 0 .. MaxFaults
  PROVE  IInv'
<1>1. TypeOK'
  BY Types DEF TypeOK, LockType, TickType, JobType
<1>2. Kept' /\ HeldLives'
  BY DEF IInv, Kept, KeptBy, HeldLives
<1> QED
  BY <1>1, <1>2 DEF IInv

LEMMA WorkerStep ==
  ASSUME IInv, PickJob \/ CompleteJob \/ FailJob
  PROVE  IInv'
<1>0. job \in JobType /\ faults \in 0 .. MaxFaults
  BY Types
<1>1. CASE PickJob
  <2>1. [job EXCEPT !.state = "active"] \in JobType
    BY <1>0 DEF JobType
  <2> QED
    BY <1>0, <1>1, <2>1, JobStep DEF PickJob
<1>2. CASE CompleteJob
  BY <1>0, <1>2, Constants, JobStep DEF CompleteJob
<1>3. CASE FailJob
  <2>1. job.tries \in Nat
    BY <1>0 DEF JobType
  <2>2. job.tries + 1 < Attempts =>
          [state |-> "waiting", tries |-> job.tries + 1] \in JobType
    BY <2>1, LockAssumption DEF JobType
  <2>3. job' \in JobType /\ UNCHANGED <<lock, leader>>
    BY <1>3, <2>2, Constants DEF FailJob
  <2>4. faults' \in 0 .. MaxFaults
    BY <1>0, <1>3, LockAssumption DEF FailJob
  <2> QED
    BY <2>3, <2>4, JobStep
<1> QED
  BY <1>1, <1>2, <1>3

\* One unit of time passes for a tick that is on time.
LEMMA AgedTick ==
  ASSUME NEW l \in TickType,
         l.pc = "acquired" => l.lag < MaxLag,
         l.pc = "adding" => l.beat > 0 /\ (l.beating => l.lag < MaxLag)
  PROVE  /\ Aged(l) \in TickType /\ Aged(l).pc = l.pc /\ Aged(l).lost = l.lost
         /\ Aged(l).beating = l.beating
         /\ l.pc = "acquired" => Aged(l).lag = l.lag + 1
         /\ l.pc = "adding" => /\ Aged(l).beat = l.beat - 1
                               /\ Aged(l).lag = IF l.beating THEN l.lag + 1 ELSE l.lag
<1>1. l.lag \in Nat /\ l.beat \in Nat /\ l.lag <= MaxLag /\ l.beat <= HeartbeatInterval
      /\ MaxLag \in Nat /\ HeartbeatInterval \in Nat
  BY Interval DEF TickType
<1>2. CASE l.pc = "acquired"
  <2>1. l.lag + 1 \in 0 .. MaxLag
    BY <1>1, <1>2
  <2> QED
    BY <1>2, <2>1 DEF Aged, TickType
<1>3. CASE l.pc = "adding"
  <2>1. l.beat - 1 \in 0 .. HeartbeatInterval
    BY <1>1, <1>3
  <2>2. (IF l.beating THEN l.lag + 1 ELSE l.lag) \in 0 .. MaxLag
    BY <1>1, <1>3
  <2>3. Aged(l) = [l EXCEPT !.beat = l.beat - 1,
                            !.lag = IF l.beating THEN l.lag + 1 ELSE l.lag]
    BY <1>3 DEF Aged, TickType
  <2> QED
    BY <1>3, <2>1, <2>2, <2>3 DEF TickType
<1>4. CASE l.pc \notin {"acquired", "adding"}
  BY <1>4 DEF Aged
<1> QED
  BY <1>2, <1>3, <1>4

\* What it relies on: the lock has time left, and keeps enough.
LEMMA AgedKept ==
  ASSUME NEW l \in TickType, NEW p, NEW k, NEW n, KeptBy(p, l, k), k.ttl \in 0 .. LockTtl,
         k.ttl > 1 => n = [holder |-> k.holder, ttl |-> k.ttl - 1],
         l.pc = "acquired" => l.lag < MaxLag,
         l.pc = "adding" => l.beat > 0 /\ (l.beating => l.lag < MaxLag)
  PROVE  KeptBy(p, Aged(l), n)
<1>1. /\ l.lag \in Nat /\ l.beat \in Nat /\ k.ttl \in Nat
      /\ l.beating \in BOOLEAN
  BY Interval DEF TickType
<1>2. PICK m :
      /\ m = Aged(l)
      /\ m.pc = l.pc /\ m.lost = l.lost /\ m.beating = l.beating
      /\ l.pc = "acquired" => m.lag = l.lag + 1
      /\ l.pc = "adding" => /\ m.beat = l.beat - 1
                            /\ m.lag = IF l.beating THEN l.lag + 1 ELSE l.lag
  BY AgedTick
<1>3. CASE l.pc = "acquired"
  <2>1. k.holder = p /\ k.ttl + l.lag >= LockTtl /\ k.ttl > 1
    BY <1>1, <1>3, Interval DEF KeptBy
  <2>2. n.holder = p /\ n.ttl = k.ttl - 1
    BY <2>1
  <2> QED
    BY <1>1, <1>2, <1>3, <2>1, <2>2, Interval DEF KeptBy
<1>4. CASE l.pc = "adding" /\ ~l.lost
  <2>1. /\ k.holder = p /\ k.ttl > 1
        /\ l.beating => k.ttl + l.lag >= MaxLag + 1
        /\ ~l.beating => k.ttl >= l.beat + MaxLag + 1
    BY <1>1, <1>4, Interval DEF KeptBy
  <2>2. n.holder = p /\ n.ttl = k.ttl - 1
    BY <2>1
  <2> QED
    BY <1>1, <1>2, <1>4, <2>1, <2>2, Interval DEF KeptBy
<1>5. CASE ~(l.pc = "acquired" \/ (l.pc = "adding" /\ ~l.lost))
  BY <1>2, <1>5 DEF KeptBy
<1> QED
  BY <1>3, <1>4, <1>5

LEMMA ElapseStep == ASSUME IInv, Elapse PROVE IInv'
<1>1. /\ leader \in [Leader -> TickType] /\ lock \in LockType /\ job \in JobType
      /\ lock.ttl \in 0 .. LockTtl /\ faults \in 0 .. MaxFaults
  BY Types DEF LockType
<1>2. ASSUME NEW p \in Leader
      PROVE  /\ leader'[p] = Aged(leader[p]) /\ OnTime(p) /\ leader[p] \in TickType
             /\ KeptBy(p, leader[p], lock)
  BY <1>1 DEF Elapse, IInv, Kept
<1>3. \/ lock.ttl <= 1 /\ lock' = Free
      \/ lock.ttl > 1 /\ lock' = [lock EXCEPT !.ttl = lock.ttl - 1]
  BY <1>1 DEF Elapse
<1>4. lock.ttl > 1 => /\ lock' = [holder |-> lock.holder, ttl |-> lock.ttl - 1]
                      /\ lock.ttl - 1 \in 0 .. LockTtl /\ lock.ttl - 1 >= 1
  BY <1>1, <1>3, Interval DEF LockType
<1>5. lock' \in LockType /\ HeldLives'
  BY <1>1, <1>3, <1>4, FreeLock DEF LockType, HeldLives
<1>6. leader' \in [Leader -> TickType]
  <2>1. ASSUME NEW p \in Leader PROVE Aged(leader[p]) \in TickType
    BY <1>2, AgedTick DEF OnTime
  <2> QED
    BY <2>1 DEF Elapse
<1>7. TypeOK'
  BY <1>1, <1>5, <1>6 DEF Elapse, TypeOK, LockType, TickType, JobType
<1>8. ASSUME NEW p \in Leader PROVE KeptBy(p, leader'[p], lock')
  <2>1. lock' = Free \/ lock.ttl > 1
    BY <1>1, <1>3
  <2>2. KeptBy(p, Aged(leader[p]), lock')
    BY <1>1, <1>2, <1>3, <1>4, AgedKept DEF OnTime
  <2> QED
    BY <1>2, <2>2
<1> QED
  BY <1>5, <1>7, <1>8 DEF IInv, Kept

LEMMA NextIInv == IInv /\ [Next]_vars => IInv'
<1> SUFFICES ASSUME IInv, [Next]_vars PROVE IInv'
  OBVIOUS
<1>1. CASE Elapse
  BY <1>1, ElapseStep
<1>2. CASE PickJob \/ CompleteJob \/ FailJob
  BY <1>2, WorkerStep
<1>3. ASSUME NEW p \in Leader, Tick(p) PROVE IInv'
  BY <1>3, TickStep
<1>4. ASSUME NEW p \in Leader, Heartbeat(p) PROVE IInv'
  BY <1>4, FireStep, ExtendStep DEF Heartbeat
<1>5. ASSUME NEW p \in Leader, Restart(p) \/ Fault(p) PROVE IInv'
  BY <1>5, RestartStep, FaultStep
<1>6. CASE UNCHANGED vars
  BY <1>6, Types, JobStep DEF vars
<1> QED
  BY <1>1, <1>2, <1>3, <1>4, <1>5, <1>6 DEF Next

-----------------------------------------------------------------------------
\* The lock, the ticks and the job keep their types.
THEOREM TypeCorrect == Spec => []TypeOK
<1>1. IInv => TypeOK
  BY DEF IInv
<1> QED
  BY InitIInv, NextIInv, <1>1, PTL DEF Spec

\* However long handlers take, and whatever fails, two of them run under the
\* lock together only if one was told that it may have lost it.
THEOREM LockExcludes == Spec => []HandlersExclude
<1>1. IInv => HandlersExclude
  BY LockAssumption DEF IInv, Kept, KeptBy, HandlersExclude
<1> QED
  BY InitIInv, NextIInv, <1>1, PTL DEF Spec

\* A lock leaves its holder only by the holder's own step or by its ttl.
THEOREM HolderLetsGo == Spec => OnlyHolderLetsGo
<1> DEFINE LetsGo == \A p \in Leader : (lock.holder = p /\ lock'.holder # p) =>
                        (leader'[p].pc # leader[p].pc \/ lock.ttl = 1)
<1>1. IInv /\ [Next]_vars => [LetsGo]_vars
  <2> SUFFICES ASSUME IInv, Next, NEW p \in Leader, lock.holder = p, lock'.holder # p
               PROVE  leader'[p].pc # leader[p].pc \/ lock.ttl = 1
    OBVIOUS
  <2>1. /\ leader \in [Leader -> TickType] /\ lock \in LockType /\ lock.ttl >= 1
        /\ lock.ttl \in Nat /\ p # None /\ p # Orphan
    BY Types, LockAssumption DEF HeldLives, LockType
  <2>2. CASE Elapse
    BY <2>1, <2>2 DEF Elapse, LockType
  <2>3. CASE PickJob \/ CompleteJob \/ FailJob
    BY <2>3 DEF PickJob, CompleteJob, FailJob
  <2>4. ASSUME NEW q \in Leader, Tick(q) \/ Heartbeat(q) \/ Restart(q) \/ Fault(q)
        PROVE  leader'[p].pc # leader[p].pc
    <3>1. CASE Tick(q)
      BY <2>1, <3>1, Constants DEF Tick, StartTick, Acquire, EnterHandler, Handle,
                                   Release, EndTick, LockType
    <3>2. CASE Heartbeat(q) \/ Restart(q)
      BY <2>1, <3>2 DEF Heartbeat, Fire, Extend, Restart, LockType
    <3>3. CASE Fault(q)
      BY <2>1, <3>3, Constants DEF Fault, Crash, Abandon, AcquireErrors, ExtendErrors,
                                   HandlerErrors, ReleaseErrors, EndTick, LockType
    <3> QED
      BY <2>4, <3>1, <3>2, <3>3
  <2> QED
    BY <2>2, <2>3, <2>4 DEF Next
<1> QED
  BY InitIInv, NextIInv, <1>1, PTL DEF Spec, OnlyHolderLetsGo
=============================================================================
