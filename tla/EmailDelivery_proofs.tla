------------------------ MODULE EmailDelivery_proofs ------------------------
(* Proofs about EmailDelivery, for any number of worker slots and tokens,   *)
(* any budget of attempts and stalls, and any bound on enqueues and faults. *)
EXTENDS EmailDelivery, TLAPS

JobType == [state : {"absent", "waiting", "active", "completed", "failed"},
            tries : 0 .. Attempts, stalls : 0 .. MaxStalls, slot : Slot \cup {None}]

RunType == [pc : {"idle", "acquire", "rendering", "sending", "completing",
                  "ambiguous", "releasing"},
            token : Token \cup {None}, lost : BOOLEAN]

KeyType == Token \cup Markers \cup {None}

\* A job has a slot while it is active, and an attempt left until it ends.
Queued == /\ job.slot # None <=> job.state = "active"
          /\ job.state \in {"waiting", "active"} => job.tries < Attempts

\* Positions of a run that acquired the key and has not lost it to its knowledge.
Holding == {"rendering", "sending", "completing", "releasing"}

\* What a run has, and what it has done.
RunOK(r, mails) ==
    /\ r.pc \in {"idle", "acquire"} => ~r.lost
    /\ r.pc \in Holding \cup {"ambiguous"} => r.token \in Token
    /\ r.pc \in {"completing", "ambiguous"} => mails > 0

Runs == \A s \in Slot : RunOK(run[s], sent)

\* As long as nothing has failed there is one run, the active job's; it holds
\* the key, and a mail that was accepted is in its hands or behind a marker.
Calm == faults = 0 =>
    /\ \A s \in Slot : run[s].pc # "idle" => job.slot = s
    /\ \A s \in Slot : job.slot = s => run[s].pc # "idle"
    /\ \A s \in Slot : run[s].pc \in Holding => key = run[s].token /\ ~run[s].lost
    /\ \A s \in Slot : run[s].pc # "ambiguous"
    /\ key \in Token => \E s \in Slot : run[s].pc \in Holding
    /\ sent <= 1
    /\ sent = 1 => (key \in Markers \/ \E s \in Slot : run[s].pc = "completing")

IInv == TypeOK /\ Queued /\ Runs /\ MarkersMeanSent /\ Calm

LEMMA TypeOKMeans ==
  TypeOK <=> /\ job \in JobType /\ key \in KeyType /\ run \in [Slot -> RunType]
             /\ sent \in 0 .. 2 /\ enqueues \in 0 .. MaxEnqueues /\ faults \in 0 .. MaxFaults
BY DEF TypeOK, JobType, KeyType, RunType

LEMMA Names == /\ None \notin Slot /\ None \notin Token /\ None \notin Markers
               /\ \A t \in Token : t \notin Markers
BY DeliveryAssumption DEF Markers

LEMMA Bounds ==
  ASSUME IInv
  PROVE  /\ faults \in 0 .. MaxFaults /\ faults \in Nat
         /\ faults < MaxFaults => faults + 1 \in 0 .. MaxFaults /\ faults + 1 # 0
         /\ sent \in 0 .. 2 /\ enqueues \in 0 .. MaxEnqueues
         /\ enqueues < MaxEnqueues => enqueues + 1 \in 0 .. MaxEnqueues
BY TypeOKMeans, DeliveryAssumption DEF IInv

\* What is known of the run in slot s.
LEMMA Known ==
  ASSUME IInv, NEW s \in Slot
  PROVE  /\ run[s] \in RunType /\ RunOK(run[s], sent) /\ job \in JobType /\ key \in KeyType
         /\ run \in [Slot -> RunType] /\ Queued /\ MarkersMeanSent /\ Calm /\ sent \in 0 .. 2
BY TypeOKMeans DEF IInv, Runs

LEMMA NoRunType == NoRun \in RunType /\ NoRun.pc = "idle" /\ NoRun.lost = FALSE
BY DEF NoRun, RunType

LEMMA InitIInv == Init => IInv
<1> SUFFICES ASSUME Init PROVE IInv
  OBVIOUS
<1>1. NoJob \in JobType /\ NoJob.slot = None /\ NoJob.state = "absent"
  BY DeliveryAssumption DEF NoJob, JobType
<1>2. TypeOK
  BY <1>1, NoRunType, TypeOKMeans, DeliveryAssumption DEF Init, KeyType
<1>3. \A s \in Slot : run[s].pc = "idle" /\ run[s].lost = FALSE
  BY NoRunType DEF Init
<1>4. Queued /\ Runs
  BY <1>1, <1>3 DEF Init, Queued, Runs, RunOK, Holding
<1>5. MarkersMeanSent
  BY Names DEF Init, MarkersMeanSent
<1>6. Calm
  BY <1>1, <1>3, Names DEF Init, Calm, Holding
<1> QED
  BY <1>2, <1>4, <1>5, <1>6 DEF IInv

-----------------------------------------------------------------------------
(* Steps of one run.                                                        *)

\* The run in slot s becomes r, no other run moves, and mails only come.
Becomes(s, r) == /\ r \in RunType /\ run' = [run EXCEPT ![s] = r]
                 /\ sent' \in 0 .. 2 /\ sent <= sent'

LEMMA RunStep ==
  ASSUME IInv, NEW s \in Slot, NEW r, Becomes(s, r), RunOK(r, sent'),
         job' \in JobType, Queued', key' \in KeyType,
         key' \in Markers => key \in Markers \/ sent' > 0,
         enqueues' = enqueues, faults' \in 0 .. MaxFaults, Calm'
  PROVE  IInv'
<1>1. /\ run' \in [Slot -> RunType] /\ run'[s] = r
      /\ \A q \in Slot \ {s} : run'[q] = run[q]
  BY Known DEF Becomes
<1>2. sent \in Nat /\ sent' \in Nat /\ sent <= sent'
  BY Known DEF Becomes
<1>3. TypeOK'
  BY <1>1, Bounds DEF Becomes, TypeOK, JobType, KeyType, RunType
<1>4. ASSUME NEW q \in Slot PROVE RunOK(run'[q], sent')
  <2>1. CASE q = s
    BY <1>1, <2>1
  <2>2. CASE q # s
    BY <1>1, <1>2, <2>2, Known DEF RunOK
  <2> QED
    BY <2>1, <2>2
<1>5. Runs'
  BY <1>4 DEF Runs
<1>6. MarkersMeanSent'
  BY <1>2, Known DEF MarkersMeanSent
<1> QED
  BY <1>3, <1>5, <1>6 DEF IInv

\* How a run ends: the job, if the slot has it, is no longer active.
LEMMA Ends ==
  ASSUME IInv, NEW s \in Slot, Reject(s) \/ Resolve(s) \/ RejectForGood(s)
  PROVE  /\ run' = [run EXCEPT ![s] = NoRun]
         /\ job' \in JobType /\ Queued'
         /\ job.slot = s => job'.slot = None
         /\ job.slot # s => job'.slot = job.slot
<1>1. run' = [run EXCEPT ![s] = NoRun]
  BY DEF Reject, Resolve, RejectForGood, Settle
<1>2. job \in JobType /\ Queued /\ None \notin Slot
  BY Known, Names
<1>3. CASE job.slot # s
  BY <1>1, <1>2, <1>3 DEF Reject, Resolve, RejectForGood, Settle, Queued
<1>4. CASE job.slot = s
  <2>1. job.state = "active" /\ job.tries \in Nat /\ job.tries < Attempts /\ Attempts \in Nat
    BY <1>2, <1>4, DeliveryAssumption DEF Queued, JobType
  <2>2. PICK st \in {"waiting", "completed", "failed"}, n \in 0 .. Attempts :
          /\ job' = [job EXCEPT !.state = st, !.tries = n, !.slot = None]
          /\ st = "waiting" => n < Attempts
    <3>1. CASE Reject(s)
      <4>1. job.tries + 1 \in 0 .. Attempts
        BY <2>1
      <4> QED
        BY <1>4, <2>1, <3>1, <4>1 DEF Reject
    <3>2. CASE Resolve(s) \/ RejectForGood(s)
      <4>1. job.tries \in 0 .. Attempts
        BY <1>2 DEF JobType
      <4>2. \A st \in {"completed", "failed"} :
              [job EXCEPT !.state = st, !.slot = None]
                = [job EXCEPT !.state = st, !.tries = job.tries, !.slot = None]
        BY <1>2 DEF JobType
      <4> QED
        BY <1>4, <3>2, <4>1, <4>2 DEF Resolve, RejectForGood, Settle
    <3> QED
      BY <3>1, <3>2
  <2>3. job' \in JobType /\ job'.state = st /\ job'.tries = n /\ job'.slot = None
    BY <1>2, <2>2 DEF JobType
  <2> QED
    BY <1>1, <1>2, <1>4, <2>2, <2>3 DEF Queued
<1> QED
  BY <1>3, <1>4

\* A run that ends keeps the invariant if, as long as nothing failed, the key
\* is free and no mail is out, or the key is a marker.
LEMMA EndStep ==
  ASSUME IInv, NEW s \in Slot, Reject(s) \/ Resolve(s) \/ RejectForGood(s),
         run[s].pc # "idle", sent' = sent, enqueues' = enqueues,
         faults' \in 0 .. MaxFaults, key' \in KeyType,
         key' \in Markers => key \in Markers \/ sent > 0,
         faults' = 0 => /\ faults = 0
                        /\ key' \in Markers \/ (key' = None /\ sent = 0)
  PROVE  IInv'
<1>1. /\ run' = [run EXCEPT ![s] = NoRun] /\ job' \in JobType /\ Queued'
      /\ job.slot = s => job'.slot = None
  BY Ends
<1>2. Becomes(s, NoRun) /\ RunOK(NoRun, sent')
  BY <1>1, NoRunType, Known DEF Becomes, RunOK, Holding
<1>3. Calm'
  <2>1. SUFFICES ASSUME faults' = 0 PROVE Calm'
    BY DEF Calm
  <2>2. job.slot = s /\ \A q \in Slot \ {s} : run[q].pc = "idle"
    BY <2>1, Known DEF Calm
  <2>3. \A q \in Slot : run'[q].pc = "idle"
    BY <1>1, <2>2, Known, NoRunType
  <2>4. job'.slot = None
    BY <1>1, <2>2
  <2>5. sent <= 1
    BY <2>1, Known DEF Calm
  <2> QED
    BY <2>1, <2>3, <2>4, <2>5, Names DEF Calm, Holding
<1> QED
  BY <1>1, <1>2, <1>3, RunStep

\* The one run there is as long as nothing failed.
LEMMA CalmRun ==
  ASSUME IInv, NEW s \in Slot, run[s].pc # "idle", faults = 0
  PROVE  /\ job.slot = s /\ \A q \in Slot \ {s} : run[q].pc = "idle"
         /\ run[s].pc \in Holding => key = run[s].token /\ key \in Token /\ ~run[s].lost
         /\ run[s].pc # "ambiguous"
         /\ key \in Token => run[s].pc \in Holding
         /\ sent \in {0, 1}
         /\ sent = 1 => (key \in Markers \/ run[s].pc = "completing")
<1>1. job.slot = s /\ \A q \in Slot \ {s} : run[q].pc = "idle"
  BY Known DEF Calm
<1>2. \A q \in Slot : run[q].pc \in Holding \cup {"completing"} => q = s
  BY <1>1 DEF Holding
<1> QED
  BY <1>1, <1>2, Known DEF Calm, RunOK, Holding

\* A run that goes on.
LEMMA GoOn ==
  ASSUME IInv, NEW s \in Slot, NEW r, Becomes(s, r), RunOK(r, sent'),
         run[s].pc # "idle", r.pc # "idle", UNCHANGED <<job, enqueues>>,
         faults' \in 0 .. MaxFaults, key' \in KeyType,
         key' \in Markers => key \in Markers \/ sent' > 0,
         faults' = 0 =>
            /\ faults = 0 /\ r.pc # "ambiguous"
            /\ r.pc \in Holding => key' = r.token /\ ~r.lost
            /\ key' \in Token => r.pc \in Holding
            /\ sent' <= 1 /\ (sent' = 1 => (key' \in Markers \/ r.pc = "completing"))
  PROVE  IInv'
<1>1. job' \in JobType /\ Queued'
  BY Known DEF Queued
<1>2. run'[s] = r /\ \A q \in Slot \ {s} : run'[q] = run[q]
  BY Known DEF Becomes
<1>3. Calm'
  <2>1. SUFFICES ASSUME faults' = 0 PROVE Calm'
    BY DEF Calm
  <2>2. job'.slot = s /\ \A q \in Slot \ {s} : run'[q].pc = "idle"
    BY <1>2, <2>1, CalmRun
  <2> QED
    BY <1>2, <2>1, <2>2 DEF Calm, Holding
<1> QED
  BY <1>1, <1>3, RunStep

LEMMA AcquireStep == ASSUME IInv, NEW s \in Slot, Acquire(s) PROVE IInv'
<1>1. /\ run[s].pc = "acquire" /\ run[s] \in RunType /\ RunOK(run[s], sent) /\ key \in KeyType
      /\ UNCHANGED <<sent, enqueues, faults>> /\ sent \in 0 .. 2 /\ run \in [Slot -> RunType]
      /\ faults' \in 0 .. MaxFaults
  BY Known, Bounds DEF Acquire
<1>2. ASSUME NEW t \in FreshTokens, key = None, key' = t, UNCHANGED job,
             run' = [run EXCEPT ![s].pc = "rendering", ![s].token = t]
      PROVE  IInv'
  <2>1. t \in Token
    BY DEF FreshTokens
  <2>2. PICK r : r = [run[s] EXCEPT !.pc = "rendering", !.token = t]
    OBVIOUS
  <2>3. /\ r \in RunType /\ r.pc = "rendering" /\ r.token = t /\ r.lost = run[s].lost
    BY <1>1, <2>1, <2>2 DEF RunType
  <2>4. Becomes(s, r)
    <3>1. run' = [run EXCEPT ![s] = r]
      BY <1>1, <1>2, <2>2 DEF RunType
    <3>2. sent' \in 0 .. 2 /\ sent <= sent'
      BY <1>1
    <3> QED
      BY <2>3, <3>1, <3>2 DEF Becomes
  <2>5. RunOK(r, sent') /\ ~r.lost
    BY <1>1, <2>1, <2>3 DEF RunOK, Holding
  <2>6. key' \in KeyType /\ key' \notin Markers
    BY <1>2, <2>1, Names DEF KeyType
  <2>7. faults = 0 => sent = 0
    BY <1>1, <1>2, CalmRun, Names
  <2> QED
    BY <1>1, <1>2, <2>3, <2>4, <2>5, <2>6, <2>7, GoOn DEF Holding
<1>3. CASE key # None /\ Resolve(s) /\ UNCHANGED key
  <2>1. faults = 0 => key \in Markers
    BY <1>1, <1>3, CalmRun DEF KeyType, Holding
  <2> QED
    BY <1>1, <1>3, <2>1, EndStep
<1> QED
  BY <1>2, <1>3 DEF Acquire

\* A run that only changes its position.
LEMMA Advance ==
  ASSUME IInv, NEW s \in Slot, NEW pc, run' = [run EXCEPT ![s].pc = pc],
         run[s].pc \in Holding, pc \in Holding \/ (pc = "ambiguous" /\ faults' # 0),
         pc \in {"completing", "ambiguous"} => sent' > 0, sent' \in 0 .. 2, sent <= sent',
         UNCHANGED <<job, key, enqueues>>, faults' \in 0 .. MaxFaults,
         faults' = 0 => faults = 0 /\ sent' <= 1 /\ (sent' = 1 => pc = "completing")
  PROVE  IInv'
<1>1. run[s] \in RunType /\ RunOK(run[s], sent) /\ run \in [Slot -> RunType]
  BY Known
<1>2. PICK r : r = [run[s] EXCEPT !.pc = pc]
  OBVIOUS
<1>3. r \in RunType /\ r.pc = pc /\ r.token = run[s].token /\ r.lost = run[s].lost
  BY <1>1, <1>2 DEF RunType, Holding
<1>4. Becomes(s, r)
  BY <1>1, <1>2, <1>3 DEF Becomes, RunType
<1>5. RunOK(r, sent') /\ run[s].pc # "idle" /\ r.pc # "idle"
  BY <1>1, <1>3 DEF RunOK, Holding
<1>6. faults = 0 => key = r.token /\ ~r.lost
  BY <1>3, CalmRun DEF Holding
<1>7. key' \in KeyType /\ (key' \in Markers => key \in Markers \/ sent' > 0)
  BY Known
<1> QED
  BY <1>3, <1>4, <1>5, <1>6, <1>7, GoOn

LEMMA RenderStep == ASSUME IInv, NEW s \in Slot, Render(s) PROVE IInv'
<1>1. /\ run[s].pc = "rendering" /\ UNCHANGED <<job, key, sent, enqueues, faults>>
      /\ faults' \in 0 .. MaxFaults /\ sent' \in 0 .. 2 /\ sent <= sent'
  BY Known, Bounds DEF Render
<1>2. PICK pc \in {"sending", "releasing"} : run' = [run EXCEPT ![s].pc = pc]
  BY DEF Render
<1>3. faults = 0 => sent' = 0
  BY <1>1, CalmRun, Names DEF Holding
<1>4. run[s].pc \in Holding /\ pc \in Holding /\ pc \notin {"completing", "ambiguous"}
  BY <1>1, <1>2 DEF Holding
<1>5. faults' = 0 => faults = 0 /\ sent' <= 1 /\ (sent' = 1 => pc = "completing")
  BY <1>1, <1>3
<1>6. UNCHANGED <<job, key, enqueues>>
  BY <1>1
<1> QED
  BY <1>1, <1>2, <1>4, <1>5, <1>6, Advance

LEMMA SendStep == ASSUME IInv, NEW s \in Slot, Send(s) PROVE IInv'
<1>1. /\ run[s].pc = "sending" /\ UNCHANGED <<job, key, enqueues, faults>>
      /\ faults' \in 0 .. MaxFaults /\ sent \in 0 .. 2
  BY Known, Bounds DEF Send
<1>2. faults = 0 => sent = 0 /\ ~run[s].lost
  BY <1>1, CalmRun, Names DEF Holding
<1>3. CASE Accept /\ run' = [run EXCEPT ![s].pc = IF run[s].lost THEN "ambiguous" ELSE "completing"]
  <2>1. sent' \in 0 .. 2 /\ sent <= sent' /\ sent' > 0 /\ (sent = 0 => sent' = 1)
    BY <1>1, <1>3 DEF Accept
  <2>2. PICK pc \in {"ambiguous", "completing"} :
          /\ pc = IF run[s].lost THEN "ambiguous" ELSE "completing"
          /\ run' = [run EXCEPT ![s].pc = pc]
    BY <1>3
  <2>3. run[s].pc \in Holding /\ (pc \in Holding \/ (pc = "ambiguous" /\ faults' # 0))
    BY <1>1, <1>2, <2>2 DEF Holding
  <2>4. faults' = 0 => faults = 0 /\ sent' <= 1 /\ (sent' = 1 => pc = "completing")
    BY <1>1, <1>2, <2>1, <2>2
  <2>5. UNCHANGED <<job, key, enqueues>>
    BY <1>1
  <2> QED
    BY <1>1, <2>1, <2>2, <2>3, <2>4, <2>5, Advance
<1>4. CASE run' = [run EXCEPT ![s].pc = "releasing"] /\ UNCHANGED sent
  <2>1. run[s].pc \in Holding /\ "releasing" \in Holding
        /\ "releasing" \notin {"completing", "ambiguous"}
    BY <1>1 DEF Holding
  <2>2. faults' = 0 => faults = 0 /\ sent' <= 1 /\ sent' # 1
    BY <1>1, <1>2, <1>4
  <2>3. sent' \in 0 .. 2 /\ sent <= sent' /\ UNCHANGED <<job, key, enqueues>>
    BY <1>1, <1>4
  <2> QED
    BY <1>1, <1>4, <2>1, <2>2, <2>3, Advance
<1> QED
  BY <1>3, <1>4 DEF Send

LEMMA CompleteStep == ASSUME IInv, NEW s \in Slot, Complete(s) PROVE IInv'
<1>1. /\ run[s].pc = "completing" /\ UNCHANGED <<sent, enqueues, faults>>
      /\ faults' \in 0 .. MaxFaults /\ sent \in 0 .. 2 /\ sent > 0 /\ sent <= sent
  BY Known, Bounds DEF Complete, RunOK
<1>2. CASE key = run[s].token /\ key' = "completed" /\ Resolve(s)
  <2>1. key' \in Markers /\ key' \in KeyType
    BY <1>2 DEF Markers, KeyType
  <2> QED
    BY <1>1, <1>2, <2>1, EndStep
<1>3. CASE key # run[s].token /\ run' = [run EXCEPT ![s].pc = "ambiguous"]
           /\ UNCHANGED <<job, key>>
  <2>1. run[s].pc \in Holding /\ faults # 0
    BY <1>1, <1>3, CalmRun DEF Holding
  <2>2. sent' > 0 /\ sent' \in 0 .. 2 /\ sent <= sent' /\ UNCHANGED <<job, key, enqueues>>
        /\ faults' # 0
    BY <1>1, <1>3, <2>1
  <2> QED
    BY <1>1, <1>3, <2>1, <2>2, Advance
<1> QED
  BY <1>2, <1>3 DEF Complete

LEMMA MarkAmbiguousStep == ASSUME IInv, NEW s \in Slot, MarkAmbiguous(s) PROVE IInv'
<1>1. /\ run[s].pc = "ambiguous" /\ sent > 0 /\ faults' \in 0 .. MaxFaults
      /\ sent' = sent /\ enqueues' = enqueues /\ faults' = faults
  BY Known, Bounds DEF MarkAmbiguous, RunOK
<1>2. key' \in Markers /\ key' \in KeyType /\ RejectForGood(s)
  BY DEF MarkAmbiguous, Markers, KeyType
<1> QED
  BY <1>1, <1>2, EndStep

LEMMA ReleaseStep == ASSUME IInv, NEW s \in Slot, Release(s) PROVE IInv'
<1>1. /\ run[s].pc = "releasing" /\ faults' \in 0 .. MaxFaults
      /\ sent' = sent /\ enqueues' = enqueues /\ faults' = faults /\ Reject(s)
      /\ key' = IF key = run[s].token THEN None ELSE key
  BY Bounds DEF Release
<1>2. key' \in KeyType /\ (key' \in Markers => key \in Markers)
  BY <1>1, Known, Names DEF KeyType
<1>3. faults = 0 => key' = None /\ sent = 0
  BY <1>1, CalmRun, Names DEF Holding
<1> QED
  BY <1>1, <1>2, <1>3, EndStep

\* A heartbeat finds the lease lost, or fails.
LEMMA LosesLeaseStep ==
  ASSUME IInv, NEW s \in Slot,
         \/ HeartbeatLosesLease(s)
         \/ HeartbeatErrors(s) /\ faults' \in 0 .. MaxFaults /\ faults' # 0
                               /\ enqueues' = enqueues
  PROVE  IInv'
<1>1. /\ run[s].pc \in {"rendering", "sending"} /\ run' = [run EXCEPT ![s].lost = TRUE]
      /\ UNCHANGED <<job, key, sent, enqueues>> /\ faults' \in 0 .. MaxFaults
      /\ sent \in 0 .. 2 /\ run[s] \in RunType /\ RunOK(run[s], sent) /\ run \in [Slot -> RunType]
  BY Known, Bounds DEF HeartbeatLosesLease, HeartbeatErrors
<1>2. faults' # 0
  BY CalmRun DEF HeartbeatLosesLease, Holding
<1>3. PICK r : r = [run[s] EXCEPT !.lost = TRUE]
  OBVIOUS
<1>4. r \in RunType /\ r.pc = run[s].pc /\ r.token = run[s].token
  BY <1>1, <1>3 DEF RunType
<1>5. Becomes(s, r)
  <2>1. run' = [run EXCEPT ![s] = r]
    BY <1>1, <1>3 DEF RunType
  <2>2. sent' \in 0 .. 2 /\ sent <= sent'
    BY <1>1
  <2> QED
    BY <1>4, <2>1, <2>2 DEF Becomes
<1>6. RunOK(r, sent') /\ run[s].pc # "idle" /\ r.pc # "idle"
  BY <1>1, <1>4 DEF RunOK
<1>7. key' \in KeyType /\ (key' \in Markers => key \in Markers) /\ UNCHANGED <<job, enqueues>>
  BY <1>1, Known
<1> QED
  BY <1>1, <1>2, <1>5, <1>6, <1>7, GoOn

-----------------------------------------------------------------------------
(* Faults of a run.                                                         *)

LEMMA FaultStep == ASSUME IInv, NEW s \in Slot, Fault(s) PROVE IInv'
<1>1. faults' \in 0 .. MaxFaults /\ faults' # 0 /\ enqueues' = enqueues /\ sent \in 0 .. 2
  BY Known, Bounds DEF Fault
<1>2. CASE Crash(s)
  <2>1. Becomes(s, NoRun) /\ RunOK(NoRun, sent')
    BY <1>1, <1>2, NoRunType DEF Crash, Becomes, RunOK, Holding
  <2>2. job' \in JobType /\ Queued' /\ key' \in KeyType /\ (key' \in Markers => key \in Markers)
    BY <1>2, Known DEF Crash, Queued
  <2>3. Calm'
    BY <1>1 DEF Calm
  <2> QED
    BY <1>1, <2>1, <2>2, <2>3, RunStep
<1>3. CASE HeartbeatErrors(s)
  BY <1>1, <1>3, LosesLeaseStep
<1>4. CASE SendAnswerLost(s)
  <2>1. /\ run[s].pc \in Holding /\ "releasing" \in Holding
        /\ "releasing" \notin {"completing", "ambiguous"}
        /\ run' = [run EXCEPT ![s].pc = "releasing"]
    BY <1>4 DEF SendAnswerLost, Holding
  <2>2. sent' \in 0 .. 2 /\ sent <= sent'
    BY <1>1, <1>4 DEF SendAnswerLost, Accept
  <2>3. UNCHANGED <<job, key, enqueues>>
    BY <1>1, <1>4 DEF SendAnswerLost
  <2> QED
    BY <1>1, <2>1, <2>2, <2>3, Advance
<1>5. CASE StoreErrors(s)
  <2>1. /\ run[s].pc # "idle" /\ sent' = sent
        /\ Reject(s) \/ Resolve(s) \/ RejectForGood(s)
    BY <1>5 DEF StoreErrors
  <2>2. \/ key' = key
        \/ key' \in Token
        \/ key' \in Markers /\ run[s].pc \in {"completing", "ambiguous"}
        \/ key' = None
    BY <1>5 DEF StoreErrors, FreshTokens, Markers
  <2>3. key' \in KeyType /\ (key' \in Markers => key \in Markers \/ sent > 0)
    BY <2>2, Known, Names DEF KeyType, RunOK
  <2> QED
    BY <1>1, <2>1, <2>3, EndStep
<1> QED
  BY <1>2, <1>3, <1>4, <1>5 DEF Fault

-----------------------------------------------------------------------------
(* The queue and the lease.                                                 *)

\* A step that moves no run.
LEMMA QueueStep ==
  ASSUME IInv, UNCHANGED <<run, sent>>, job' \in JobType, Queued', key' \in KeyType,
         key' \in Markers => key \in Markers,
         enqueues' \in 0 .. MaxEnqueues, faults' \in 0 .. MaxFaults,
         faults' = 0 => faults = 0 /\ job'.slot = job.slot /\ key' = key
  PROVE  IInv'
<1>1. TypeOK'
  BY TypeOKMeans DEF IInv, TypeOK, JobType, KeyType, RunType
<1>2. Runs' /\ MarkersMeanSent'
  BY DEF IInv, Runs, MarkersMeanSent
<1>3. Calm'
  BY DEF IInv, Calm
<1> QED
  BY <1>1, <1>2, <1>3 DEF IInv

\* What is known where no run is concerned.
LEMMA Now ==
  ASSUME IInv
  PROVE  /\ job \in JobType /\ key \in KeyType /\ Queued /\ Calm
         /\ run \in [Slot -> RunType]
BY TypeOKMeans DEF IInv

LEMMA EnqueueStep == ASSUME IInv, Enqueue PROVE IInv'
<1>1. UNCHANGED <<run, sent, key, faults>> /\ enqueues' \in 0 .. MaxEnqueues
      /\ faults' \in 0 .. MaxFaults
  BY Bounds DEF Enqueue
<1>2. /\ [NoJob EXCEPT !.state = "waiting"] \in JobType
      /\ [NoJob EXCEPT !.state = "waiting"].state = "waiting"
      /\ [NoJob EXCEPT !.state = "waiting"].slot = None
      /\ [NoJob EXCEPT !.state = "waiting"].tries = 0
  BY DeliveryAssumption DEF NoJob, JobType
<1>3. job' \in JobType /\ Queued' /\ job'.slot = job.slot
  BY <1>2, Now, DeliveryAssumption DEF Enqueue, Queued
<1> QED
  BY <1>1, <1>3, Now, QueueStep

LEMMA PruneStep == ASSUME IInv, Prune PROVE IInv'
<1>1. UNCHANGED <<run, sent, key, faults, enqueues>> /\ enqueues' \in 0 .. MaxEnqueues
      /\ faults' \in 0 .. MaxFaults
  BY Bounds DEF Prune
<1>2. NoJob \in JobType /\ NoJob.slot = None /\ NoJob.state = "absent"
  BY DeliveryAssumption DEF NoJob, JobType
<1>3. job' \in JobType /\ Queued' /\ job'.slot = job.slot
  BY <1>2, Now DEF Prune, Queued
<1> QED
  BY <1>1, <1>3, Now, QueueStep

LEMMA StalledStep == ASSUME IInv, StalledCheck PROVE IInv'
<1>1. UNCHANGED <<run, sent, key, enqueues>> /\ enqueues' \in 0 .. MaxEnqueues
  BY Bounds DEF StalledCheck
<1>2. job \in JobType /\ Queued /\ job.state = "active" /\ job.slot \in Slot
      /\ job.tries < Attempts
  BY Now DEF StalledCheck, Queued, JobType
<1>3. PICK st \in {"waiting", "failed"}, n \in 0 .. MaxStalls :
        job' = [job EXCEPT !.state = st, !.stalls = n, !.slot = None]
  <2>1. job.stalls \in 0 .. MaxStalls
    BY <1>2 DEF JobType
  <2>2. job.stalls < MaxStalls => job.stalls + 1 \in 0 .. MaxStalls
    BY <2>1, DeliveryAssumption
  <2>3. job' = [job EXCEPT !.state = IF job.stalls < MaxStalls THEN "waiting" ELSE "failed",
                           !.stalls = IF job.stalls < MaxStalls THEN job.stalls + 1
                                                                ELSE job.stalls,
                           !.slot = None]
    BY <1>2 DEF StalledCheck, JobType
  <2>4. CASE job.stalls < MaxStalls
    BY <2>2, <2>3, <2>4
  <2>5. CASE ~(job.stalls < MaxStalls)
    BY <2>1, <2>3, <2>5
  <2> QED
    BY <2>4, <2>5
<1>4. job' \in JobType /\ job'.state = st /\ job'.slot = None /\ job'.tries = job.tries
  BY <1>2, <1>3 DEF JobType
<1>5. Queued'
  BY <1>2, <1>4 DEF Queued
<1>6. faults' \in 0 .. MaxFaults /\ faults' # 0
  BY <1>2, Now, Bounds DEF StalledCheck, Calm
<1> QED
  BY <1>1, <1>4, <1>5, <1>6, Now, QueueStep

LEMMA LeaseExpiresStep == ASSUME IInv, LeaseExpires PROVE IInv'
<1>1. UNCHANGED <<job, run, sent, enqueues>> /\ enqueues' \in 0 .. MaxEnqueues
      /\ key \in Token /\ key' = None
  BY Bounds DEF LeaseExpires
<1>2. faults = 0 => \E s \in Slot : run[s].token = key
  BY <1>1, Now DEF Calm
<1>3. faults' \in 0 .. MaxFaults /\ faults' # 0
  BY <1>2, Bounds DEF LeaseExpires
<1>4. job' \in JobType /\ Queued' /\ key' \in KeyType /\ key' \notin Markers
  BY <1>1, Now, Names DEF Queued, KeyType
<1> QED
  BY <1>1, <1>3, <1>4, QueueStep

LEMMA StartStep == ASSUME IInv, NEW s \in Slot, Start(s) PROVE IInv'
<1>1. /\ UNCHANGED <<key, sent, enqueues, faults>> /\ faults' \in 0 .. MaxFaults
      /\ run[s].pc = "idle" /\ job.state = "waiting" /\ run[s] \in RunType
      /\ RunOK(run[s], sent) /\ job \in JobType /\ Queued /\ sent \in 0 .. 2
      /\ run \in [Slot -> RunType] /\ key \in KeyType
      /\ run' = [run EXCEPT ![s].pc = "acquire"]
      /\ job' = [job EXCEPT !.state = "active", !.slot = s]
  BY Known, Bounds DEF Start
<1>2. PICK r : r = [run[s] EXCEPT !.pc = "acquire"]
  OBVIOUS
<1>3. r \in RunType /\ r.pc = "acquire" /\ r.lost = run[s].lost
  BY <1>1, <1>2 DEF RunType
<1>4. Becomes(s, r)
  <2>1. run' = [run EXCEPT ![s] = r]
    BY <1>1, <1>2 DEF RunType
  <2>2. sent' \in 0 .. 2 /\ sent <= sent'
    BY <1>1
  <2> QED
    BY <1>3, <2>1, <2>2 DEF Becomes
<1>5. RunOK(r, sent')
  BY <1>1, <1>3 DEF RunOK, Holding
<1>6. job' \in JobType /\ job'.state = "active" /\ job'.slot = s /\ job'.tries = job.tries
  BY <1>1 DEF JobType
<1>7. Queued'
  BY <1>1, <1>6, Names DEF Queued
<1>8. Calm'
  <2>1. SUFFICES ASSUME faults = 0 PROVE Calm'
    BY <1>1 DEF Calm
  <2>2. \A q \in Slot : run[q].pc = "idle"
    BY <1>1, <2>1, Now, Names DEF Queued, Calm
  <2>3. run'[s].pc = "acquire" /\ \A q \in Slot \ {s} : run'[q].pc = "idle"
    BY <1>1, <1>3, <1>4, <2>2 DEF Becomes
  <2> QED
    BY <1>1, <1>6, <2>1, <2>2, <2>3, Now DEF Calm, Holding
<1> QED
  BY <1>1, <1>4, <1>5, <1>6, <1>7, <1>8, RunStep

LEMMA NextIInv == IInv /\ [Next]_vars => IInv'
<1> SUFFICES ASSUME IInv, [Next]_vars PROVE IInv'
  OBVIOUS
<1>1. CASE Enqueue \/ Prune \/ StalledCheck \/ LeaseExpires
  BY <1>1, EnqueueStep, PruneStep, StalledStep, LeaseExpiresStep
<1>2. ASSUME NEW s \in Slot, Start(s) \/ Step(s) \/ HeartbeatLosesLease(s) \/ Fault(s)
      PROVE  IInv'
  BY <1>2, StartStep, AcquireStep, RenderStep, SendStep, CompleteStep, MarkAmbiguousStep,
     ReleaseStep, LosesLeaseStep, FaultStep DEF Step
<1>3. CASE Terminating \/ UNCHANGED vars
  <2>1. UNCHANGED <<job, key, run, sent, enqueues, faults>>
    BY <1>3 DEF Terminating, vars
  <2>2. job' \in JobType /\ key' \in KeyType /\ Queued'
    BY <2>1, Now DEF Queued
  <2> QED
    BY <2>1, <2>2, Bounds, QueueStep
<1> QED
  BY <1>1, <1>2, <1>3 DEF Next

-----------------------------------------------------------------------------
\* The job, the key and the runs keep their types.
THEOREM TypeCorrect == Spec => []TypeOK
<1>1. IInv => TypeOK
  BY DEF IInv
<1> QED
  BY InitIInv, NextIInv, <1>1, PTL DEF Spec

\* Whatever crashes, stalls and loses leases, a marker stands for a mail that
\* was accepted.
THEOREM MarkersStand == Spec => []MarkersMeanSent
<1>1. IInv => MarkersMeanSent
  BY DEF IInv
<1> QED
  BY InitIInv, NextIInv, <1>1, PTL DEF Spec

\* However often the job is enqueued and retried, nothing but a fault sends a
\* second mail.
THEOREM SendsOnce == Spec => []SentOnce
<1>1. IInv => SentOnce
  BY DEF IInv, Calm, SentOnce
<1> QED
  BY InitIInv, NextIInv, <1>1, PTL DEF Spec

\* A marker is never overwritten by anything but a marker.
THEOREM MarkersRemain == Spec => MarkersStick
<1>1. IInv /\ [Next]_vars => [(key \in Markers) => (key' \in Markers)]_vars
  <2> SUFFICES ASSUME IInv, Next, key \in Markers, key' # key PROVE key' \in Markers
    OBVIOUS
  <2>1. key # None /\ key \notin Token
    BY Names
  <2>2. ~(Enqueue \/ Prune \/ StalledCheck \/ LeaseExpires \/ Terminating)
    BY <2>1 DEF Enqueue, Prune, StalledCheck, LeaseExpires, Terminating, vars
  <2>3. PICK s \in Slot : Start(s) \/ Step(s) \/ HeartbeatLosesLease(s) \/ Fault(s)
    BY <2>2 DEF Next
  <2>4. run[s].pc \in {"completing", "releasing"} => run[s].token \in Token
    BY Known DEF RunOK, Holding
  <2>5. CASE Start(s) \/ HeartbeatLosesLease(s)
    BY <2>5 DEF Start, HeartbeatLosesLease
  <2>6. CASE Step(s)
    BY <2>1, <2>4, <2>6 DEF Step, Acquire, Render, Send, Complete, MarkAmbiguous, Release, Markers
  <2>7. CASE Fault(s)
    BY <2>1, <2>4, <2>7 DEF Fault, Crash, HeartbeatErrors, SendAnswerLost, StoreErrors, Markers
  <2> QED
    BY <2>3, <2>5, <2>6, <2>7
<1> QED
  BY InitIInv, NextIInv, <1>1, PTL DEF Spec, MarkersStick

-----------------------------------------------------------------------------
(* What a completed job promises.  A run that finds the key taken counts its *)
(* job as completed, so a crashed run's key can complete a job no mail was   *)
(* sent for; nothing else can.                                               *)

\* As long as nothing has failed a completed job has sent its mail.
Delivered == faults = 0 /\ job.state = "completed" => sent > 0

LEMMA DeliveredStep == IInv /\ Delivered /\ [Next]_vars => Delivered'
<1> SUFFICES ASSUME IInv, Delivered, [Next]_vars, faults' = 0, job'.state = "completed"
             PROVE  sent' > 0
  BY DEF Delivered
<1>1. /\ faults \in Nat /\ sent \in 0 .. 2 /\ job \in JobType /\ Queued
      /\ faults + 1 # 0
  BY Bounds, Now
<1>2. ASSUME job' = job, faults' = faults, sent' = sent \/ Accept PROVE sent' > 0
  BY <1>1, <1>2 DEF Delivered, Accept
<1>3. CASE Enqueue \/ Prune \/ StalledCheck \/ LeaseExpires
  <2>1. CASE Enqueue
    <3>1. [NoJob EXCEPT !.state = "waiting"].state = "waiting"
      BY DEF NoJob
    <3> QED
      BY <1>2, <2>1, <3>1 DEF Enqueue
  <2>2. CASE Prune
    BY <2>2 DEF Prune, NoJob
  <2>3. CASE StalledCheck
    BY <1>1, <2>3 DEF StalledCheck, JobType
  <2>4. CASE LeaseExpires
    BY <1>1, <1>2, <2>4 DEF LeaseExpires
  <2> QED
    BY <1>3, <2>1, <2>2, <2>3, <2>4
<1>4. ASSUME NEW s \in Slot, Start(s) \/ HeartbeatLosesLease(s) PROVE sent' > 0
  <2>1. CASE Start(s)
    BY <1>1, <2>1 DEF Start, JobType
  <2>2. CASE HeartbeatLosesLease(s)
    BY <1>2, <2>2 DEF HeartbeatLosesLease
  <2> QED
    BY <1>4, <2>1, <2>2
<1>5. ASSUME NEW s \in Slot, Step(s) PROVE sent' > 0
  <2>1. faults = 0 /\ run[s].pc # "idle" /\ RunOK(run[s], sent) /\ key \in KeyType
    BY <1>5, Known DEF Step, Acquire, Render, Send, Complete, MarkAmbiguous, Release
  <2>2. CASE Acquire(s)
    <3>1. CASE UNCHANGED job
      BY <1>2, <2>2, <3>1 DEF Acquire
    <3>2. CASE key # None /\ Resolve(s)
      \* The run of a calm job finds no token, so it finds a marker.
      <4>1. key \in Markers
        BY <2>1, <2>2, <3>2, CalmRun DEF Acquire, KeyType, Holding
      <4> QED
        BY <1>1, <2>2, <4>1, Known DEF Acquire, MarkersMeanSent
    <3> QED
      BY <2>2, <3>1, <3>2 DEF Acquire
  <2>3. CASE Render(s) \/ Send(s)
    BY <1>2, <2>3 DEF Render, Send
  <2>4. CASE Complete(s) \/ MarkAmbiguous(s)
    BY <2>1, <2>4 DEF Complete, MarkAmbiguous, RunOK
  <2>5. CASE Release(s)
    <3>1. CASE job.slot = s
      <4>1. job'.state \in {"waiting", "failed"}
        BY <1>1, <2>5, <3>1 DEF Release, Reject, JobType
      <4> QED
        BY <4>1
    <3>2. CASE job.slot # s
      BY <1>2, <2>5, <3>2 DEF Release, Reject
    <3> QED
      BY <3>1, <3>2
  <2> QED
    BY <1>5, <2>2, <2>3, <2>4, <2>5 DEF Step
<1>6. ASSUME NEW s \in Slot, Fault(s) PROVE FALSE
  BY <1>1, <1>6 DEF Fault
<1>7. CASE Terminating \/ UNCHANGED vars
  BY <1>2, <1>7 DEF Terminating, vars
<1> QED
  BY <1>3, <1>4, <1>5, <1>6, <1>7 DEF Next

\* The README's promise holds of every run in which nothing fails: only a
\* crash, a stall, a lost lease or an error makes a completed job lose its mail.
THEOREM SentUnlessFaults == Spec => [](faults = 0 => CompletedJobSent)
<1>1. Init => Delivered
  BY DEF Init, NoJob, Delivered
<1>2. Delivered => (faults = 0 => CompletedJobSent)
  BY DEF Delivered, CompletedJobSent
<1> QED
  BY InitIInv, NextIInv, <1>1, <1>2, DeliveredStep, PTL DEF Spec
=============================================================================
