--------------------------- MODULE WorkerExecution ---------------------------
(***************************************************************************)
(* The control plane's side of the external worker protocol                *)
(* (internal/application/worker_execution.go, with the restore of worker   *)
(* jobs in backup.go).  A job is queued once per request key, handed to    *)
(* workers under a fence and a lease, started, kept alive by heartbeats    *)
(* and closed by one report.  Every handler runs inside store.Update, a    *)
(* serialised transaction, so every handler is one action.                 *)
(*                                                                         *)
(* Requests are lost, delayed and repeated by the network: a worker's call *)
(* is modelled by letting every attempt ever created be the subject of a   *)
(* call at any later time.  A call the code answers without a write (an    *)
(* error before recoverWorker, the replay of an identical report, a second *)
(* start) is a stuttering step and has no action.                          *)
(*                                                                         *)
(* Configuration, credential scope, intelligence-patch and check authority *)
(* are evaluated by other components at the moment of the call; here each  *)
(* evaluation is an input of the action, unconstrained.  A capability      *)
(* stands for one claim scope: capability, repository and recipe filter.   *)
(***************************************************************************)
EXTENDS Integers, Sequences

CONSTANTS
    Keys,          \* request keys of one product
    Workers,       \* principals of the workers configuration
    Capabilities,  \* what a recipe may ask for
    Native,        \* the capabilities that a restore quarantines
    Budgets,       \* values of max_attempts a request may carry
    Lease,         \* lease length, in ticks
    Hour,          \* the largest admissible distance of a deadline, in ticks
    MaxTime,       \* bound of the clock
    None           \* "no report yet"

ASSUME WorkerAssumption ==
    /\ Native \subseteq Capabilities
    /\ Budgets \subseteq 1..10
    /\ Lease \in Nat \ {0}
    /\ Hour \in Nat \ {0}
    /\ MaxTime \in Nat
    /\ None \notin {"PASSED", "CHECK_FAILED", "EXECUTOR_FAILED"}

VARIABLES
    workerJobs,      \* st.WorkerJobs, in the order they were appended
    workerAttempts,  \* st.WorkerAttempts, in the order they were appended
    operations,      \* the audit operation of every job, same index as the job
    starts,          \* of the audit log st.Events, the accepted worker_start events
    quarantined,     \* the product has a NativeQuarantine record
    clock            \* time.Now(), the same for every handler

vars == <<workerJobs, workerAttempts, operations, starts, quarantined, clock>>

Results == {"PASSED", "CHECK_FAILED", "EXECUTOR_FAILED"}
Terminal == {"SUCCEEDED", "FAILED", "CANCELLED", "DEADLINE_EXCEEDED"}
Uncertain == "RECONCILIATION_REQUIRED"
JobStatus == {"QUEUED", "CLAIMED", "RUNNING", Uncertain} \union Terminal
AttemptStatus ==
    {"CLAIMED", "RUNNING", "EXPIRED", "SUCCEEDED", "FAILED", "CANCELLED", Uncertain}
Job == [key : Keys, capability : Capabilities, deadline : Nat,
        maxAttempts : Budgets, status : JobStatus, fence : Nat,
        cancellationRequested : BOOLEAN]
Attempt == [job : Nat, principal : Workers, fence : Nat, leaseUntil : Nat,
            status : AttemptStatus, report : Results \union {None}]
Operation == [status : {"PENDING", "RUNNING", "SUCCEEDED", "FAILED", "CANCELLED"},
              attempts : Nat, finished : BOOLEAN, error : BOOLEAN]
Event == [job : Nat, fence : Nat]

Jobs == DOMAIN workerJobs
Attempts == DOMAIN workerAttempts

(***************************************************************************)
(* The attempt that carries the job's fence; the loop returns the first.   *)
(***************************************************************************)
currentWorkerAttempt(j) ==
    {i \in Attempts :
        /\ workerAttempts[i].job = j
        /\ workerAttempts[i].fence = workerJobs[j].fence
        /\ \A k \in Attempts :
              (workerAttempts[k].job = j /\ workerAttempts[k].fence = workerJobs[j].fence)
                 => i <= k}

(***************************************************************************)
(* The operation record workerAudit derives from a job.                    *)
(***************************************************************************)

MirrorOf(job) ==
    [status   |-> CASE job.status = "QUEUED" -> "PENDING"
                    [] job.status = "DEADLINE_EXCEEDED" -> "FAILED"
                    [] job.status \in Terminal \ {"DEADLINE_EXCEEDED"} -> job.status
                    [] OTHER -> "RUNNING",
     attempts |-> job.fence,
     finished |-> job.status \in Terminal,
     error    |-> job.status = Uncertain]

\* workerAudit for one job: the operation mirrors it; of the events it appends
\* only the ones named in started are kept.
workerAudit(j, job, started) ==
    /\ operations' = [operations EXCEPT ![j] = MirrorOf(job)]
    /\ starts' = starts \union started

(***************************************************************************)
(* queue_worker_job.  A request key names one job of the product for ever: *)
(* the lookup precedes every deadline and configuration check, so a retry  *)
(* of a request whose answer was lost finds the job it created.            *)
(***************************************************************************)
NewJob(key, capability, deadline, budget) ==
    [key |-> key, capability |-> capability, deadline |-> deadline,
     maxAttempts |-> budget, status |-> "QUEUED", fence |-> 0,
     cancellationRequested |-> FALSE]

queue_worker_job(key, capability, deadline, budget) ==
    /\ ~(quarantined /\ capability \in Native)
    /\ \A j \in Jobs : workerJobs[j].key # key
    /\ clock < deadline /\ deadline <= clock + Hour /\ deadline <= MaxTime
    /\ LET job == NewJob(key, capability, deadline, budget) IN
       /\ workerJobs' = Append(workerJobs, job)
       /\ operations' = Append(operations, MirrorOf(job))
    /\ UNCHANGED <<workerAttempts, starts, quarantined, clock>>

(***************************************************************************)
(* One job's transaction: the job becomes job, its current attempt, if it  *)
(* has one, gets the status a.                                             *)
(***************************************************************************)
WithAttemptStatus(j, a) ==
    [i \in Attempts |->
        IF i \in currentWorkerAttempt(j)
        THEN [workerAttempts[i] EXCEPT !.status = a] ELSE workerAttempts[i]]

Write(j, job, a) ==
    /\ workerJobs' = [workerJobs EXCEPT ![j] = job]
    /\ workerAttempts' = WithAttemptStatus(j, a)
    /\ workerAudit(j, job, {})
    /\ UNCHANGED <<quarantined, clock>>

(***************************************************************************)
(* cancel_worker_job.  An execution that may have begun is never declared  *)
(* cancelled: it waits for reconciliation.                                 *)
(***************************************************************************)
cancel_worker_job(j) ==
    LET job == [workerJobs[j] EXCEPT
                  !.status = IF @ \in {"RUNNING", Uncertain} THEN Uncertain
                             ELSE "CANCELLED",
                  !.cancellationRequested = TRUE]
    IN  /\ workerJobs[j].status \notin Terminal
        /\ Write(j, job, job.status)

\* reconcile_worker_job: an operator closes an uncertain execution, never as
\* a success.
reconcile_worker_job(j, outcome) ==
    LET job == [workerJobs[j] EXCEPT !.status = outcome]
    IN  /\ workerJobs[j].status = Uncertain
        /\ outcome \in {"FAILED", "CANCELLED"}
        /\ Write(j, job, outcome)

(***************************************************************************)
(* recoverWorker: what the passing of time does to a live job, applied     *)
(* lazily by whichever handler touches the job next.  It is a step of its  *)
(* own for a worker's call, which commits the recovery it is refused for,  *)
(* and for the check publication and the delivery that look at the job.    *)
(***************************************************************************)
LeaseExpired(j) ==
    /\ workerJobs[j].status \in {"CLAIMED", "RUNNING"}
    /\ \E i \in currentWorkerAttempt(j) : clock >= workerAttempts[i].leaseUntil

DueByLeaseOnly(j) == LeaseExpired(j)

Due(j) ==
    /\ workerJobs[j].status \in {"QUEUED", "CLAIMED", "RUNNING"}
    /\ clock >= workerJobs[j].deadline \/ LeaseExpired(j)

RecoveryReplays(j) ==
    CASE workerJobs[j].status = "QUEUED" -> "DEADLINE_EXCEEDED"
      [] /\ workerJobs[j].status \in {"CLAIMED", "RUNNING"}
         /\ clock < workerJobs[j].deadline
         /\ workerJobs[j].fence < workerJobs[j].maxAttempts -> "QUEUED"
      [] OTHER -> "FAILED"

RecoveredStatus(j) ==
    CASE workerJobs[j].status = "RUNNING" -> Uncertain
      [] workerJobs[j].status = "QUEUED" -> "DEADLINE_EXCEEDED"
      [] /\ workerJobs[j].status = "CLAIMED"
         /\ clock < workerJobs[j].deadline
         /\ workerJobs[j].fence < workerJobs[j].maxAttempts -> "QUEUED"
      [] OTHER -> "FAILED"

recoverWorker(j) ==
    /\ Due(j)
    /\ Write(j, [workerJobs[j] EXCEPT !.status = RecoveredStatus(j)], "EXPIRED")

(***************************************************************************)
(* ClaimWorker: one transaction walks the matching jobs in order, recovers *)
(* each of them, and claims the first one that may run.  invalid are the   *)
(* jobs whose patch, configuration or check authority no longer holds,     *)
(* unready the ones whose initial check is not published yet.              *)
(***************************************************************************)
Matching(capability) ==
    {j \in Jobs : /\ workerJobs[j].capability = capability
                  /\ ~(quarantined /\ capability \in Native)}

StatusAfterRecovery(j) == IF Due(j) THEN RecoveredStatus(j) ELSE workerJobs[j].status

Claimable(capability, invalid, unready) ==
    {j \in Matching(capability) \ (invalid \union unready) :
        /\ StatusAfterRecovery(j) = "QUEUED"
        /\ workerJobs[j].fence < workerJobs[j].maxAttempts}

\* The first claimable job: a set with at most one member.
Claimed(capability, invalid, unready) ==
    {c \in Claimable(capability, invalid, unready) :
        \A d \in Claimable(capability, invalid, unready) : c <= d}

\* The queued jobs the walk still examines: those up to the claimed one.
Examined(capability, invalid, unready) ==
    {j \in Matching(capability) :
        /\ StatusAfterRecovery(j) = "QUEUED"
        /\ \A c \in Claimed(capability, invalid, unready) : j <= c}

Exhausted(j) == workerJobs[j].fence >= workerJobs[j].maxAttempts

ClaimedJob(j, capability, invalid, unready) ==
    IF j \notin Matching(capability) THEN workerJobs[j]
    ELSE IF j \in Claimed(capability, invalid, unready)
    THEN [workerJobs[j] EXCEPT !.status = "CLAIMED", !.fence = @ + 1]
    ELSE [workerJobs[j] EXCEPT !.status =
            CASE j \in Examined(capability, invalid, unready) \intersect invalid
                   -> Uncertain
              [] /\ j \in Examined(capability, invalid, unready)
                           \ (invalid \union unready)
                 /\ Exhausted(j) -> "FAILED"
              [] OTHER -> StatusAfterRecovery(j)]

AttemptLeftAlone(i, capability) == workerAttempts[i]

RecoveredAttempt(i, capability) ==
    IF \E j \in Matching(capability) : Due(j) /\ i \in currentWorkerAttempt(j)
    THEN [workerAttempts[i] EXCEPT !.status = "EXPIRED"] ELSE workerAttempts[i]

Earlier(a, b) == IF a <= b THEN a ELSE b

LeaseEnd(j) == Earlier(clock + Lease, workerJobs[j].deadline)

NewAttempt(j, p) ==
    [job |-> j, principal |-> p, fence |-> workerJobs[j].fence + 1,
     leaseUntil |-> LeaseEnd(j), status |-> "CLAIMED", report |-> None]

ClaimWorker(p, capability, invalid, unready) ==
    LET next == [j \in Jobs |-> ClaimedJob(j, capability, invalid, unready)]
        swept == [i \in Attempts |-> RecoveredAttempt(i, capability)]
    IN  /\ workerJobs' = next
        /\ \/ /\ Claimed(capability, invalid, unready) = {}
              /\ workerAttempts' = swept
           \/ \E c \in Claimed(capability, invalid, unready) :
                workerAttempts' = Append(swept, NewAttempt(c, p))
        /\ operations' = [j \in Jobs |->
                            IF next[j] # workerJobs[j] THEN MirrorOf(next[j])
                            ELSE operations[j]]
        /\ UNCHANGED <<starts, quarantined, clock>>

(***************************************************************************)
(* mutateWorker, for the call of the worker that holds attempt i.          *)
(***************************************************************************)
\* Ownership: the attempt's fence is the job's fence, so a superseded worker
\* is refused; a quarantined native product refuses every call.
Owned(i) ==
    LET j == workerAttempts[i].job IN
    /\ workerAttempts[i].fence = workerJobs[j].fence
    /\ ~(quarantined /\ workerJobs[j].capability \in Native)

\* The recheck behind recoverWorker; Due(j) covers the deadline and the lease
\* of a live job.
Admitted(i) ==
    LET j == workerAttempts[i].job IN
    /\ Owned(i)
    /\ ~Due(j)
    /\ clock < workerAttempts[i].leaseUntil
    /\ clock < workerJobs[j].deadline
    /\ ~workerJobs[j].cancellationRequested
    /\ workerJobs[j].status \notin Terminal \union {Uncertain}

WriteAttempt(i, job, attempt, started) ==
    /\ workerJobs' = [workerJobs EXCEPT ![workerAttempts[i].job] = job]
    /\ workerAttempts' = [workerAttempts EXCEPT ![i] = attempt]
    /\ workerAudit(workerAttempts[i].job, job, started)
    /\ UNCHANGED <<quarantined, clock>>

StartLeavesClaim(i) ==
    LET j == workerAttempts[i].job IN
    /\ Admitted(i)
    /\ workerJobs[j].status = "CLAIMED"
    /\ WriteAttempt(i, workerJobs[j], workerAttempts[i],
                    {[job |-> j, fence |-> workerJobs[j].fence]})

StartWorker(i) ==
    LET j == workerAttempts[i].job IN
    /\ Admitted(i)
    /\ workerJobs[j].status = "CLAIMED"
    /\ WriteAttempt(i, [workerJobs[j] EXCEPT !.status = "RUNNING"],
                    [workerAttempts[i] EXCEPT !.status = "RUNNING"],
                    {[job |-> j, fence |-> workerJobs[j].fence]})

HeartbeatWorker(i) ==
    LET j == workerAttempts[i].job IN
    /\ Admitted(i)
    /\ workerJobs[j].status \in {"CLAIMED", "RUNNING"}
    /\ WriteAttempt(i, workerJobs[j],
                    [workerAttempts[i] EXCEPT !.leaseUntil = LeaseEnd(j)],
                    {})

Verdict(result) == IF result = "PASSED" THEN "SUCCEEDED" ELSE "FAILED"

ReportFromClaim(i, result) ==
    LET j == workerAttempts[i].job IN
    /\ workerAttempts[i].report = None
    /\ Admitted(i)
    /\ WriteAttempt(i, [workerJobs[j] EXCEPT !.status = Verdict(result)],
                    [workerAttempts[i] EXCEPT !.status = Verdict(result),
                                              !.report = result],
                    {})

\* A second report of the attempt never reaches the write: an identical one is
\* answered from the stored one, another one is a conflict.
ReportWorker(i, result) ==
    LET j == workerAttempts[i].job IN
    /\ workerAttempts[i].report = None
    /\ Admitted(i)
    /\ workerJobs[j].status = "RUNNING"
    /\ WriteAttempt(i, [workerJobs[j] EXCEPT !.status = Verdict(result)],
                    [workerAttempts[i] EXCEPT !.status = Verdict(result),
                                              !.report = result],
                    {})

(***************************************************************************)
(* RestoreBackup into an empty instance, with the backup taken at this     *)
(* moment: nothing that may still run at the source runs again here.       *)
(***************************************************************************)
Live == {j \in Jobs : workerJobs[j].status \notin Terminal}

RestoredJob(j) ==
    IF j \in Live
    THEN [workerJobs[j] EXCEPT !.status = Uncertain, !.cancellationRequested = TRUE]
    ELSE workerJobs[j]

RestoreBackup ==
    /\ quarantined' = TRUE
    /\ workerJobs' = [j \in Jobs |-> RestoredJob(j)]
    /\ workerAttempts' =
         [i \in Attempts |->
            IF \E j \in Live : i \in currentWorkerAttempt(j)
            THEN [workerAttempts[i] EXCEPT !.status = Uncertain, !.leaseUntil = clock]
            ELSE workerAttempts[i]]
    /\ operations' = [j \in Jobs |-> IF j \in Live THEN MirrorOf(RestoredJob(j))
                                     ELSE operations[j]]
    /\ UNCHANGED <<starts, clock>>

Tick ==
    /\ clock < MaxTime
    /\ clock' = clock + 1
    /\ UNCHANGED <<workerJobs, workerAttempts, operations, starts, quarantined>>

Init ==
    /\ workerJobs = <<>>
    /\ workerAttempts = <<>>
    /\ operations = <<>>
    /\ starts = {}
    /\ quarantined = FALSE
    /\ clock = 0

Queue ==
    \E key \in Keys, capability \in Capabilities, budget \in Budgets,
       deadline \in 1..MaxTime : queue_worker_job(key, capability, deadline, budget)

Claim(capability) ==
    \E p \in Workers, invalid \in SUBSET Matching(capability) :
        \E unready \in SUBSET (Matching(capability) \ invalid) :
            ClaimWorker(p, capability, invalid, unready)

Next ==
    \/ Queue
    \/ \E j \in Jobs : cancel_worker_job(j)
    \/ \E j \in Jobs, outcome \in {"FAILED", "CANCELLED"} :
         reconcile_worker_job(j, outcome)
    \/ \E capability \in Capabilities : Claim(capability)
    \/ \E j \in Jobs : recoverWorker(j)
    \/ \E i \in Attempts : StartWorker(i)
    \/ \E i \in Attempts : HeartbeatWorker(i)
    \/ \E i \in Attempts, result \in Results : ReportWorker(i, result)
    \/ RestoreBackup
    \/ Tick

Spec == Init /\ [][Next]_vars

\* What every poll does at least, even when no job may be handed out: it
\* recovers the matching jobs that are due.
Poll(capability) ==
    \E p \in Workers : ClaimWorker(p, capability, {}, Matching(capability))

\* Workers of every capability keep polling and time passes.
FairSpec == Spec /\ WF_vars(Tick)
                 /\ \A capability \in Capabilities : WF_vars(Poll(capability))

-----------------------------------------------------------------------------
(***************************************************************************)
(* Properties                                                              *)
(***************************************************************************)

\* Every variable holds a value of the kind the code stores.
TypeOK ==
    /\ workerJobs \in Seq(Job)
    /\ workerAttempts \in Seq(Attempt)
    /\ operations \in Seq(Operation)
    /\ Len(operations) = Len(workerJobs)
    /\ starts \subseteq Event
    /\ quarantined \in BOOLEAN
    /\ clock \in Nat

StartsOf(j) == {e \in starts : e.job = j}

\* Automatic replay is disabled once an execution may have begun: whatever
\* leases expire, calls are repeated or workers are replaced, the audit log
\* never holds two accepted starts of one job (recoverWorker sends a RUNNING
\* job to reconciliation, only a CLAIMED one back to the queue).
StartedAtMostOnce ==
    \A j \in Jobs : \A e, f \in StartsOf(j) : e = f

\* A stored report is the last word: its attempt carries the job's current
\* fence, the log shows that very attempt starting, the job ended with the
\* report's verdict, and a job is SUCCEEDED only through such a report.
VerdictStands ==
    /\ \A i \in Attempts : workerAttempts[i].report # None =>
          LET j == workerAttempts[i].job IN
          /\ i \in currentWorkerAttempt(j)
          /\ workerJobs[j].status = Verdict(workerAttempts[i].report)
          /\ \E e \in StartsOf(j) : e.fence = workerAttempts[i].fence
    /\ \A j \in Jobs : workerJobs[j].status = "SUCCEEDED" =>
          \E i \in currentWorkerAttempt(j) : workerAttempts[i].report = "PASSED"

\* Fencing: an attempt that is live carries the fence of its job and the job
\* agrees with it, so two workers never hold one job, and an attempt a later
\* claim superseded stays expired without a report.
SingleLiveAttempt ==
    \A i \in Attempts :
        LET a == workerAttempts[i]
            j == a.job IN
        /\ a.status \in {"CLAIMED", "RUNNING"} =>
              i \in currentWorkerAttempt(j) /\ workerJobs[j].status = a.status
        /\ a.fence < workerJobs[j].fence => a.status = "EXPIRED" /\ a.report = None

\* The operation shown to users tells the truth about the job: it is closed,
\* and closed as a success, exactly when the job is, and it carries the
\* reconciliation error exactly while the job waits for reconciliation.
OperationTellsTruth ==
    \A j \in Jobs :
        LET op == operations[j]
            job == workerJobs[j] IN
        /\ (op.status \in {"SUCCEEDED", "FAILED", "CANCELLED"})
              <=> (job.status \in Terminal)
        /\ (op.status = "SUCCEEDED") <=> (job.status = "SUCCEEDED")
        /\ (op.status = "PENDING") <=> (job.status = "QUEUED")
        /\ op.finished <=> (job.status \in Terminal)
        /\ op.error <=> (job.status = Uncertain)
        /\ op.attempts = job.fence

\* A requested cancellation is never lost: the job is not live any more, and
\* no report that was under way turns it into a success.
CancellationSticks ==
    \A j \in Jobs : workerJobs[j].cancellationRequested =>
        workerJobs[j].status \in {Uncertain, "CANCELLED", "FAILED"}

\* A job waiting in the queue always has an attempt left, so no claim ever
\* finds an exhausted job there, and no job is claimed more often than its
\* request allowed.
AttemptsLeftInQueue ==
    \A j \in Jobs :
        /\ workerJobs[j].fence <= workerJobs[j].maxAttempts
        /\ workerJobs[j].status = "QUEUED" =>
              workerJobs[j].fence < workerJobs[j].maxAttempts

\* After a restore, claims and calls skip the quarantined capabilities; no
\* job of theirs is live then, so none is stranded where nothing can end it.
QuarantineStrandsNothing ==
    quarantined => \A j \in Jobs :
        workerJobs[j].capability \in Native =>
            workerJobs[j].status \in Terminal \union {Uncertain}

\* A lease that has run out is never revived: no late heartbeat extends it, no
\* late start or report is accepted under it.
ExpiredLeaseIsDead ==
    [][\A i \in Attempts :
          clock >= workerAttempts[i].leaseUntil =>
            /\ workerAttempts'[i].leaseUntil <= clock'
            /\ workerAttempts'[i].report = workerAttempts[i].report
            /\ workerAttempts'[i].status = "RUNNING"
                  => workerAttempts[i].status = "RUNNING"]_vars

\* What is settled stays settled: no handler changes a terminal job or any
\* attempt of one.
SettledIsFinal ==
    [][/\ \A j \in Jobs : workerJobs[j].status \in Terminal =>
             workerJobs'[j] = workerJobs[j]
       /\ \A i \in Attempts :
             workerJobs[workerAttempts[i].job].status \in Terminal =>
                workerAttempts'[i] = workerAttempts[i]]_vars

\* As long as workers poll, no job lingers: each one ends, or is put before an
\* operator as an uncertain execution.
JobsSettle ==
    \A key \in Keys :
        (\E j \in Jobs : workerJobs[j].key = key)
          ~> (\E j \in Jobs : /\ workerJobs[j].key = key
                              /\ workerJobs[j].status \in Terminal \union {Uncertain})

-----------------------------------------------------------------------------
(***************************************************************************)
(* The promise to the one who made the request                             *)
(***************************************************************************)
PhaseOf(status) ==
    CASE status = "QUEUED"    -> "waiting"
      [] status = "CLAIMED"   -> "held"
      [] status = "RUNNING"   -> "executing"
      [] status = Uncertain   -> "uncertain"
      [] status = "SUCCEEDED" -> "passed"
      [] OTHER                -> "closed"

JobsOf(key) == {j \in Jobs : workerJobs[j].key = key}

PhaseOfKey(key) ==
    IF JobsOf(key) = {} THEN "absent"
    ELSE PhaseOf(workerJobs[CHOOSE j \in JobsOf(key) : TRUE].status)

Lifecycle == INSTANCE JobLifecycle WITH phase <- [key \in Keys |-> PhaseOfKey(key)]

\* The protocol with its fences, leases, sweeps and restores implements the
\* lifecycle: nothing it does shows as a second execution, as a success out of
\* nowhere or as a request that changes after it was closed.
ImplementsLifecycle == Lifecycle!Spec

=============================================================================
