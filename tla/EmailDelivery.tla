--------------------------- MODULE EmailDelivery ---------------------------
(* One notification email behind its idempotency key: the BullMQ job the    *)
(* event handler enqueues under a fixed job id, the EmailProcessor runs     *)
(* that deliver it, and the RedisJobExecutionStore key that lets one run at *)
(* a time send.  BullMQ and the mail server are external: a job is retried  *)
(* after a rejected run, put back once when its worker stalls, and a run    *)
(* that lost the job can no longer settle it.                               *)
EXTENDS Naturals

CONSTANTS
    Slot,           \* worker slots that may run the job
    Token,          \* ownership tokens randomUUID() draws from
    None,
    Attempts,       \* defaultJobOptions.attempts
    MaxStalls,      \* BullMQ's maxStalledCount
    MaxEnqueues,    \* bound on how often the handler enqueues the job
    MaxFaults       \* bound on crashes, stalls, lost leases and errors

ASSUME DeliveryAssumption ==
    /\ Attempts \in Nat \ {0}
    /\ MaxStalls \in Nat /\ MaxEnqueues \in Nat /\ MaxFaults \in Nat
    /\ None \notin Slot \cup Token
    /\ {"completed", "sent-ambiguous"} \cap (Token \cup {None}) = {}

VARIABLES
    job,        \* the BullMQ job: state, tries and stalls so far, running slot
    key,        \* the job-execution key
    run,        \* run[s] : the local state of EmailProcessor.process() in slot s
    sent,       \* history: mails the server accepted, 2 standing for more
    enqueues,
    faults

vars == <<job, key, run, sent, enqueues, faults>>

NoJob == [state |-> "absent", tries |-> 0, stalls |-> 0, slot |-> None]
NoRun == [pc |-> "idle", token |-> None, lost |-> FALSE]

Markers == {"completed", "sent-ambiguous"}

Init == /\ job = NoJob
        /\ key = None
        /\ run = [s \in Slot |-> NoRun]
        /\ sent = 0 /\ enqueues = 0 /\ faults = 0

Accept == sent' = IF sent < 2 THEN sent + 1 ELSE sent

-----------------------------------------------------------------------------
(* The queue.                                                               *)

\* UserRegisteredEventHandler.handle(): the fixed job id makes a repeat of an
\* event still in the queue a no-op, a pruned one is a new job.
Enqueue ==
    /\ enqueues < MaxEnqueues
    /\ enqueues' = enqueues + 1
    /\ job' = IF job.state = "absent" THEN [NoJob EXCEPT !.state = "waiting"] ELSE job
    /\ UNCHANGED <<key, run, sent, faults>>

\* removeOnComplete and removeOnFail drop finished jobs in the end.
Prune == /\ job.state \in {"completed", "failed"}
         /\ job' = NoJob
         /\ UNCHANGED <<key, run, sent, enqueues, faults>>

Start(s) == /\ job.state = "waiting"
            /\ run[s].pc = "idle"
            /\ job' = [job EXCEPT !.state = "active", !.slot = s]
            /\ run' = [run EXCEPT ![s].pc = "acquire"]
            /\ UNCHANGED <<key, sent, enqueues, faults>>

\* The worker of the running job is gone, or fails to renew BullMQ's lock.
StalledCheck ==
    /\ job.state = "active"
    /\ IF run[job.slot].pc = "idle"
         THEN UNCHANGED faults
         ELSE faults < MaxFaults /\ faults' = faults + 1
    /\ job' = [job EXCEPT !.state = IF job.stalls < MaxStalls THEN "waiting" ELSE "failed",
                          !.stalls = IF job.stalls < MaxStalls THEN @ + 1 ELSE @,
                          !.slot = None]
    /\ UNCHANGED <<key, run, sent, enqueues>>

\* How a run ends: only the slot the job is active in settles it.
Settle(s, state) ==
    /\ run' = [run EXCEPT ![s] = NoRun]
    /\ job' = IF job.slot = s THEN [job EXCEPT !.state = state, !.slot = None] ELSE job

Resolve(s) == Settle(s, "completed")

RejectForGood(s) == Settle(s, "failed")

\* Mutants of Reject: the attempts budget is not passed on; a rejected run is
\* put back without counting it.
Reject_NoBudget(s) ==
    /\ run' = [run EXCEPT ![s] = NoRun]
    /\ job' = IF job.slot = s
                THEN [job EXCEPT !.state = "waiting", !.tries = @ + 1, !.slot = None]
                ELSE job

Reject_Endless(s) ==
    /\ run' = [run EXCEPT ![s] = NoRun]
    /\ job' = IF job.slot = s THEN [job EXCEPT !.state = "waiting", !.slot = None] ELSE job

Reject(s) ==
    /\ run' = [run EXCEPT ![s] = NoRun]
    /\ job' = IF job.slot = s
                THEN [job EXCEPT !.state = IF job.tries + 1 < Attempts THEN "waiting" ELSE "failed",
                                 !.tries = @ + 1, !.slot = None]
                ELSE job

-----------------------------------------------------------------------------
(* EmailProcessor.process().                                                *)

FreshTokens == Token \ ({key} \cup {run[s].token : s \in Slot})

\* A run that finds the key taken returns, and BullMQ takes that for success.
Acquire(s) ==
    /\ run[s].pc = "acquire"
    /\ \/ /\ key = None
          /\ \E t \in FreshTokens :
               /\ key' = t
               /\ run' = [run EXCEPT ![s].pc = "rendering", ![s].token = t]
          /\ UNCHANGED job
       \/ key # None /\ Resolve(s) /\ UNCHANGED key
    /\ UNCHANGED <<sent, enqueues, faults>>

HeartbeatLosesLease(s) ==
    /\ run[s].pc \in {"rendering", "sending"}
    /\ key # run[s].token /\ ~run[s].lost
    /\ run' = [run EXCEPT ![s].lost = TRUE]
    /\ UNCHANGED <<job, key, sent, enqueues, faults>>

\* Mutant: a lease lost before the send is handled as one lost after it.
Render_LossIsAmbiguous(s) ==
    /\ run[s].pc = "rendering"
    /\ \/ ~run[s].lost /\ run' = [run EXCEPT ![s].pc = "sending"]
       \/ run' = [run EXCEPT ![s].pc = IF run[s].lost THEN "ambiguous" ELSE "releasing"]
    /\ UNCHANGED <<job, key, sent, enqueues, faults>>

\* The template renders and assertOwnershipBeforeSend() lets the send start,
\* or either throws.
Render(s) ==
    /\ run[s].pc = "rendering"
    /\ \/ ~run[s].lost /\ run' = [run EXCEPT ![s].pc = "sending"]
       \/ run' = [run EXCEPT ![s].pc = "releasing"]
    /\ UNCHANGED <<job, key, sent, enqueues, faults>>

\* The server takes the mail, or refuses it before taking it.
Send(s) ==
    /\ run[s].pc = "sending"
    /\ \/ /\ Accept
          /\ run' = [run EXCEPT ![s].pc = IF run[s].lost THEN "ambiguous" ELSE "completing"]
       \/ /\ run' = [run EXCEPT ![s].pc = "releasing"]
          /\ UNCHANGED sent
    /\ UNCHANGED <<job, key, enqueues, faults>>

\* Mutant: a completed run gives the key up.
Complete_FreesKey(s) ==
    /\ run[s].pc = "completing"
    /\ \/ key = run[s].token /\ key' = None /\ Resolve(s)
       \/ /\ key # run[s].token
          /\ run' = [run EXCEPT ![s].pc = "ambiguous"]
          /\ UNCHANGED <<job, key>>
    /\ UNCHANGED <<sent, enqueues, faults>>

Complete(s) ==
    /\ run[s].pc = "completing"
    /\ \/ key = run[s].token /\ key' = "completed" /\ Resolve(s)
       \/ /\ key # run[s].token
          /\ run' = [run EXCEPT ![s].pc = "ambiguous"]
          /\ UNCHANGED <<job, key>>
    /\ UNCHANGED <<sent, enqueues, faults>>

\* markAmbiguousSent() overwrites whatever the key holds.
MarkAmbiguous(s) ==
    /\ run[s].pc = "ambiguous"
    /\ key' = "sent-ambiguous"
    /\ RejectForGood(s)
    /\ UNCHANGED <<sent, enqueues, faults>>

\* Mutant: a plain DEL instead of the compare-and-delete script.
Release_Unconditional(s) ==
    /\ run[s].pc = "releasing"
    /\ key' = None
    /\ Reject(s)
    /\ UNCHANGED <<sent, enqueues, faults>>

Release(s) ==
    /\ run[s].pc = "releasing"
    /\ key' = IF key = run[s].token THEN None ELSE key
    /\ Reject(s)
    /\ UNCHANGED <<sent, enqueues, faults>>

-----------------------------------------------------------------------------
(* Faults.                                                                  *)

\* The lease runs out: a fault while the run that holds it is alive.
LeaseExpires ==
    /\ key \in Token
    /\ key' = None
    /\ IF \E s \in Slot : run[s].token = key
         THEN faults < MaxFaults /\ faults' = faults + 1
         ELSE UNCHANGED faults
    /\ UNCHANGED <<job, run, sent, enqueues>>

Crash(s) == /\ run[s].pc # "idle"
            /\ run' = [run EXCEPT ![s] = NoRun]
            /\ UNCHANGED <<job, key, sent>>

HeartbeatErrors(s) == /\ run[s].pc \in {"rendering", "sending"}
                      /\ run' = [run EXCEPT ![s].lost = TRUE]
                      /\ UNCHANGED <<job, key, sent>>

\* The server takes the mail but its answer is lost.
SendAnswerLost(s) == /\ run[s].pc = "sending"
                     /\ Accept
                     /\ run' = [run EXCEPT ![s].pc = "releasing"]
                     /\ UNCHANGED <<job, key>>

\* A Redis command of the store rejects, applied or not.
StoreErrors(s) ==
    /\ \/ run[s].pc \in {"acquire", "completing", "releasing"} /\ Reject(s)
       \/ run[s].pc = "ambiguous" /\ RejectForGood(s)
    /\ \/ UNCHANGED key
       \/ run[s].pc = "acquire" /\ key = None /\ key' \in FreshTokens
       \/ run[s].pc = "completing" /\ key = run[s].token /\ key' = "completed"
       \/ run[s].pc = "releasing" /\ key = run[s].token /\ key' = None
       \/ run[s].pc = "ambiguous" /\ key' = "sent-ambiguous"
    /\ UNCHANGED sent

Fault(s) == /\ faults < MaxFaults
            /\ faults' = faults + 1
            /\ Crash(s) \/ HeartbeatErrors(s) \/ SendAnswerLost(s) \/ StoreErrors(s)
            /\ UNCHANGED enqueues

-----------------------------------------------------------------------------
Step(s) == \/ Acquire(s) \/ Render(s) \/ Send(s)
           \/ Complete(s) \/ MarkAmbiguous(s) \/ Release(s)

\* Nothing left to run, no lease left to expire and the event settled.
Quiet == /\ job.state \in {"absent", "completed", "failed"}
         /\ \A s \in Slot : run[s].pc = "idle"
         /\ key \notin Token

Terminating == Quiet /\ UNCHANGED vars

Next == \/ Enqueue \/ Prune \/ StalledCheck \/ LeaseExpires \/ Terminating
        \/ \E s \in Slot : Start(s) \/ Step(s) \/ HeartbeatLosesLease(s) \/ Fault(s)

Spec == Init /\ [][Next]_vars

\* BullMQ hands waiting jobs out and looks for stalled ones; runs go on.
FairSpec == Spec /\ WF_vars(\E s \in Slot : Start(s)) /\ WF_vars(StalledCheck)
                 /\ \A s \in Slot : WF_vars(Step(s))

-----------------------------------------------------------------------------
(* Properties.                                                              *)

\* The types of the job, the key and the runs.
TypeOK ==
    /\ job \in [state : {"absent", "waiting", "active", "completed", "failed"},
                tries : 0 .. Attempts, stalls : 0 .. MaxStalls, slot : Slot \cup {None}]
    /\ key \in Token \cup Markers \cup {None}
    /\ run \in [Slot -> [pc : {"idle", "acquire", "rendering", "sending", "completing",
                               "ambiguous", "releasing"},
                         token : Token \cup {None}, lost : BOOLEAN]]
    /\ sent \in 0 .. 2
    /\ enqueues \in 0 .. MaxEnqueues
    /\ faults \in 0 .. MaxFaults

\* A marker that turns every later run away stands for a mail that was
\* accepted, whichever runs crashed, lost their lease or overtook each other.
MarkersMeanSent == key \in Markers => sent > 0

\* Once written, a marker stays a marker: no late release, completion or lease
\* expiry of another run opens the key for one more send.
MarkersStick == [][(key \in Markers) => (key' \in Markers)]_vars

\* As long as nothing fails a repeated, retried or re-enqueued job sends once.
SentOnce == faults = 0 => sent <= 1

\* The job ends, whatever happens to its workers.
JobEnds == (job.state \in {"waiting", "active"}) ~> (job.state \in {"completed", "failed"})

\* "Failure model (at-least-once)" (README): a job BullMQ counts as completed
\* has sent its mail, or a run that may still send it is going on.
CompletedJobSent ==
    (job.state = "completed" /\ \A s \in Slot : run[s].pc = "idle") => sent > 0
=============================================================================
