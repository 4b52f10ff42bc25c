---------------------------- MODULE NativeDelivery ----------------------------
(***************************************************************************)
(* Native publication and delivery (internal/application/                  *)
(* native_publication.go, native_delivery.go, with the native paths of     *)
(* worker.go, worker_execution.go and backup.go), composed with the worker *)
(* protocol.  A delivery queues a build job, then a job that publishes the *)
(* archive of that very build, follows both, and hands the admitted        *)
(* artifact to the deployment phases.  Its jobs are fenced by it: no       *)
(* worker may claim, start, keep or report one after the delivery ended.   *)
(*                                                                         *)
(* A publication is admitted by the report of its worker or, after its     *)
(* lease ended, by an operator's reconciliation.  Both are three steps:    *)
(* eligibility, the reading of the registry outside of the store, and      *)
(* eligibility again in the transaction that admits.                       *)
(*                                                                         *)
(* A receipt is the accepted build attempt it was made by, and so is the   *)
(* digest it names.  Comparisons with the configuration, the branches at   *)
(* the provider and the build's check are an input of the step that makes  *)
(* them.  A request is a standalone build and publication, without a       *)
(* delivery.  The phases before the build and after the artifact are those *)
(* of OperationExecutor, kept as far as the fences depend on them.         *)
(***************************************************************************)
EXTENDS WorkerExecution, FiniteSets

CONSTANTS
    Deliveries,  \* DEPLOY operations of a native component
    Requests,    \* standalone builds
    Processes,   \* the processes that run Tick against the shared store
    MaxMishaps   \* how often a server dies in a Tick or outlives its lease

Build == "local_oci_build"
Publish == "registry_publish"

ASSUME NativeAssumption ==
    /\ Capabilities = {Build, Publish} /\ Native = Capabilities
    /\ Keys = (Deliveries \union Requests) \X Capabilities
    /\ Deliveries \intersect Requests = {}
    /\ MaxMishaps \in Nat
    /\ None \notin Processes

VARIABLES
    deliveries,  \* the requested DEPLOY operations
    receipts,    \* of a publication job, the build attempt its receipt is of, else 0; index of the job
    artifacts,   \* st.DeliveryArtifacts, in the order they were appended
    calls,       \* publication reports and reconciliations under way
    ticking,     \* per server, the Tick in progress
    registry,    \* the digests the registry holds
    mishaps

protocolVars == <<workerJobs, workerAttempts, operations, starts, quarantined, clock>>
callVars == <<calls, registry>>
tickVars == <<ticking, mishaps>>
ownVars == <<deliveries, receipts, artifacts, calls, ticking, registry, mishaps>>
nativeVars == <<protocolVars, ownVars>>

Over == {"SUCCEEDED", "FAILED", "CANCELLED"}
Phases == {"PREFLIGHT", "NATIVE_BUILD", "INSPECT", "APPLY", "APPLY_UNCERTAIN"}
NotTicking == [stage |-> "NONE"]

Owner(j) == workerJobs[j].key[1]
Managed(j) == Owner(j) \in Deliveries
Linked(d) == {deliveries[d].build, deliveries[d].publication} \ {0}
Requested == DOMAIN deliveries

-----------------------------------------------------------------------------
(***************************************************************************)
(* The live fence of a delivery                                            *)
(***************************************************************************)
\* nativeDeliveryAllowed, without the comparisons with configuration and check.
FenceWithoutDeadline(d) == ~quarantined /\ deliveries[d].status \notin Over

nativeDeliveryAllowed(d) ==
    /\ ~quarantined
    /\ deliveries[d].status \notin Over
    /\ clock < deliveries[d].deadline

\* managedWorkerAllowed: a job is run only for the delivery that links it.
managedWorkerAllowed(j) ==
    Managed(j) => nativeDeliveryAllowed(Owner(j)) /\ j \in Linked(Owner(j))

\* deploy_integration of a native component freezes its authority for an hour.
deploy_integration(d) ==
    /\ d \notin Requested
    /\ ~quarantined
    /\ clock + Hour <= MaxTime
    /\ deliveries' = [e \in Requested \union {d} |->
         IF e # d THEN deliveries[e]
         ELSE [status |-> "PENDING", phase |-> "PREFLIGHT", owner |-> None,
               leased |-> FALSE, deadline |-> clock + Hour,
               build |-> 0, publication |-> 0, artifact |-> 0]]
    /\ UNCHANGED <<protocolVars, receipts, artifacts, callVars, tickVars>>

\* appendJob, and the queue commands of standalone jobs.
AppendJob(key, capability, deadline, receipt) ==
    LET job == NewJob(key, capability, deadline, 1) IN
    /\ workerJobs' = Append(workerJobs, job)
    /\ operations' = Append(operations, MirrorOf(job))
    /\ receipts' = Append(receipts, receipt)
    /\ UNCHANGED <<workerAttempts, starts, quarantined, clock>>

queue_build(r) ==
    \E deadline \in 1..MaxTime :
        /\ queue_worker_job(<<r, Build>>, Build, deadline, 1)
        /\ receipts' = Append(receipts, 0)
        /\ UNCHANGED <<deliveries, artifacts, callVars, tickVars>>

\* The attempt whose report the build was accepted with.
Accepted(j) == {i \in currentWorkerAttempt(j) : /\ workerJobs[j].status = "SUCCEEDED"
                                                /\ workerAttempts[i].status = "SUCCEEDED"
                                                /\ workerAttempts[i].report = "PASSED"}

\* queue_worker_publication: of a standalone build only.
queue_worker_publication(r) ==
    /\ ~quarantined
    /\ JobsOf(<<r, Publish>>) = {}
    /\ \E b \in JobsOf(<<r, Build>>), deadline \in 1..MaxTime : \E i \in Accepted(b) :
          /\ clock < deadline /\ deadline <= clock + Hour
          /\ AppendJob(<<r, Publish>>, Publish, deadline, i)
    /\ UNCHANGED <<deliveries, artifacts, callVars, tickVars>>

-----------------------------------------------------------------------------
(***************************************************************************)
(* The worker protocol under the fence                                     *)
(***************************************************************************)
Allowed(capability) == {j \in Matching(capability) : managedWorkerAllowed(j)}

ClaimFenced(capability) ==
    \E p \in Workers, drifted \in SUBSET Allowed(capability) :
        LET invalid == drifted \union (Matching(capability) \ Allowed(capability)) IN
        \E unready \in {{}, {j \in Matching(capability) \ invalid : capability = Build}} :
            ClaimWorker(p, capability, invalid, unready)

\* A publication's success goes through reportPublication.
ReportFenced(i, result) ==
    /\ workerJobs[workerAttempts[i].job].capability = Publish => result # "PASSED"
    /\ ReportWorker(i, result)

WorkerStep ==
    /\ \/ \E capability \in Capabilities : ClaimFenced(capability)
       \/ \E j \in Jobs, outcome \in {"FAILED", "CANCELLED"} :
            reconcile_worker_job(j, outcome)
       \/ \E j \in Jobs : ~Managed(j) /\ cancel_worker_job(j)
       \/ \E j \in Jobs : managedWorkerAllowed(j) /\ recoverWorker(j)
       \/ \E i \in Attempts :
            /\ managedWorkerAllowed(workerAttempts[i].job)
            /\ \/ StartWorker(i)
               \/ HeartbeatWorker(i)
               \/ \E result \in Results : ReportFenced(i, result)
    /\ UNCHANGED ownVars

ClockTicks == Tick /\ UNCHANGED ownVars

\* A publisher that was started pushes what its receipt names, at any later time.
Push(j) ==
    /\ receipts[j] # 0
    /\ \E e \in starts : e.job = j
    /\ registry' = registry \union {receipts[j]}
    /\ UNCHANGED <<protocolVars, deliveries, receipts, artifacts, calls, tickVars>>

-----------------------------------------------------------------------------
(***************************************************************************)
(* Admission of a publication                                              *)
(***************************************************************************)
\* A job of a delivery is the one that its delivery links.
nativeWorkerOrigin(j) == Managed(j) => j \in Linked(Owner(j))

\* The build a publication was queued for and its accepted report.
BuildProvenance(j) ==
    LET a == workerAttempts[receipts[j]] IN
    /\ receipts[j] \in Attempts
    /\ workerJobs[a.job].status = "SUCCEEDED"
    /\ a.status = "SUCCEEDED" /\ a.report = "PASSED"
    /\ nativeWorkerOrigin(a.job)

\* historicalPublicationEligible: the product and the build it came from.
historicalPublicationEligible(j) ==
    /\ workerJobs[j].capability = Publish /\ ~quarantined
    /\ ~workerJobs[j].cancellationRequested
    /\ nativeWorkerOrigin(j)
    /\ BuildProvenance(j)

publicationEligible(j) == managedWorkerAllowed(j) /\ historicalPublicationEligible(j)

publicationReportEligible(i) ==
    LET j == workerAttempts[i].job IN
    /\ workerAttempts[i].fence = workerJobs[j].fence
    /\ workerAttempts[i].report = None
    /\ publicationEligible(j)
    /\ workerJobs[j].status = "RUNNING" /\ workerAttempts[i].status = "RUNNING"
    /\ clock < workerAttempts[i].leaseUntil /\ clock < workerJobs[j].deadline

\* The eligibility of a reconciliation: an expired execution nobody reported.
ReconcileEligible(i) ==
    LET j == workerAttempts[i].job IN
    /\ i \in currentWorkerAttempt(j)
    /\ publicationEligible(j)
    /\ workerJobs[j].status = Uncertain /\ workerAttempts[i].status = "EXPIRED"
    /\ workerAttempts[i].report = None
    /\ clock < workerJobs[j].deadline

ArtifactsOf(j) == {n \in DOMAIN artifacts : artifacts[n].job = j}

\* admitNative
admitNative(i, reconciled) ==
    artifacts' = IF ArtifactsOf(workerAttempts[i].job) # {} THEN artifacts
                 ELSE Append(artifacts, [job |-> workerAttempts[i].job, attempt |-> i,
                               digest |-> receipts[workerAttempts[i].job],
                               reconciled |-> reconciled])

\* reportPublication: eligible, outside of the transaction.
ReportAsked(i) ==
    /\ publicationReportEligible(i)
    /\ calls' = calls \union {[kind |-> "report", attempt |-> i, read |-> FALSE]}
    /\ UNCHANGED <<protocolVars, deliveries, receipts, artifacts, registry, tickVars>>

\* reconcilePublication: recovery and eligibility in one transaction.
ReconcileAsked(i) ==
    LET j == workerAttempts[i].job IN
    /\ \/ ReconcileEligible(i) /\ UNCHANGED protocolVars
       \/ /\ recoverWorker(j)
          /\ i \in currentWorkerAttempt(j) /\ publicationEligible(j)
          /\ RecoveredStatus(j) = Uncertain /\ clock < workerJobs[j].deadline
    /\ calls' = calls \union {[kind |-> "reconcile", attempt |-> i, read |-> FALSE]}
    /\ UNCHANGED <<deliveries, receipts, artifacts, registry, tickVars>>

\* readPublication, between the two observations of the source.
ReadRegistry(call) ==
    /\ ~call.read
    /\ receipts[workerAttempts[call.attempt].job] \in registry
    /\ calls' = (calls \ {call}) \union {[call EXCEPT !.read = TRUE]}
    /\ UNCHANGED <<protocolVars, deliveries, receipts, artifacts, registry, tickVars>>

AdmitReport(i) ==
    LET j == workerAttempts[i].job IN
    /\ publicationReportEligible(i)
    /\ WriteAttempt(i, [workerJobs[j] EXCEPT !.status = "SUCCEEDED"],
                    [workerAttempts[i] EXCEPT !.status = "SUCCEEDED", !.report = "PASSED"], {})
    /\ admitNative(i, FALSE)

\* The attempt stays EXPIRED and without a report.
ReconcileAsReported(i) ==
    LET j == workerAttempts[i].job IN
    /\ ReconcileEligible(i)
    /\ WriteAttempt(i, [workerJobs[j] EXCEPT !.status = "SUCCEEDED"],
                    [workerAttempts[i] EXCEPT !.status = "SUCCEEDED"], {})
    /\ admitNative(i, TRUE)

AdmitReconciled(i) ==
    LET j == workerAttempts[i].job IN
    /\ ReconcileEligible(i)
    /\ WriteAttempt(i, [workerJobs[j] EXCEPT !.status = "SUCCEEDED"], workerAttempts[i], {})
    /\ admitNative(i, TRUE)

Admit(call) ==
    /\ call.read
    /\ \/ call.kind = "report" /\ AdmitReport(call.attempt)
       \/ call.kind = "reconcile" /\ AdmitReconciled(call.attempt)
    /\ calls' = calls \ {call}
    /\ UNCHANGED <<deliveries, receipts, registry, tickVars>>

\* The registry or the source cannot be read, the source has moved, the call is
\* no longer eligible or its server dies.
CallEnds(call) ==
    /\ calls' = calls \ {call}
    /\ UNCHANGED <<protocolVars, deliveries, receipts, artifacts, registry, tickVars>>

\* What an artifact was admitted on: its job and the attempt that published it.
publicationEvidence(n) ==
    LET a == artifacts[n]
        attempt == workerAttempts[a.attempt]
    IN  /\ workerJobs[a.job].status = "SUCCEEDED" /\ workerJobs[a.job].capability = Publish
        /\ attempt.job = a.job /\ attempt.fence = workerJobs[a.job].fence
        /\ a.digest = receipts[a.job]
        /\ nativeWorkerOrigin(a.job)
        /\ IF a.reconciled THEN attempt.status = "EXPIRED" /\ attempt.report = None
           ELSE attempt.status = "SUCCEEDED" /\ attempt.report = "PASSED"

\* validatedExistingArtifact: what makes an artifact an input of a deployment.
\* Nothing of a quarantined product is one.
validatedExistingArtifact(n) == ~quarantined /\ publicationEvidence(n)

-----------------------------------------------------------------------------
(***************************************************************************)
(* Stopping a delivery                                                     *)
(***************************************************************************)

Stopped(d, status) ==
    deliveries' = [deliveries EXCEPT ![d].status = status, ![d].owner = None,
                                     ![d].leased = FALSE]

ToStop(d) == {j \in Linked(d) : workerJobs[j].status \notin Terminal}

stopNativeDelivery(d, status) ==
    LET stopped == [j \in Jobs |->
            IF j \notin ToStop(d) THEN workerJobs[j]
            ELSE [workerJobs[j] EXCEPT
                    !.status = IF @ \in {"RUNNING", Uncertain} THEN Uncertain ELSE "CANCELLED",
                    !.cancellationRequested = TRUE]]
    IN  /\ Stopped(d, status)
        /\ workerJobs' = stopped
        /\ workerAttempts' = [i \in Attempts |->
              IF \E j \in ToStop(d) : i \in currentWorkerAttempt(j)
              THEN [workerAttempts[i] EXCEPT !.status = stopped[workerAttempts[i].job].status]
              ELSE workerAttempts[i]]
        /\ operations' = [j \in Jobs |-> IF j \in ToStop(d) THEN MirrorOf(stopped[j])
                                         ELSE operations[j]]
        /\ UNCHANGED <<starts, quarantined, clock>>

\* After the intent to propose a pull request nothing is cancelled any more.
PastIntent(d) == deliveries[d].phase = "APPLY_UNCERTAIN"

cancel_native_delivery(d) ==
    /\ deliveries[d].status \notin Over /\ ~PastIntent(d)
    /\ stopNativeDelivery(d, "CANCELLED")
    /\ UNCHANGED <<receipts, artifacts, callVars, tickVars>>

\* cancel_worker_job of a managed job stops its delivery, ended or not.
cancel_managed_job(j) ==
    /\ Managed(j) /\ workerJobs[j].status \notin Terminal
    /\ ~PastIntent(Owner(j))
    /\ stopNativeDelivery(Owner(j), "CANCELLED")
    /\ UNCHANGED <<receipts, artifacts, callVars, tickVars>>

RestoreNative ==
    /\ RestoreBackup
    /\ deliveries' = [d \in Requested |->
         IF deliveries[d].status \in Over THEN deliveries[d]
         ELSE [deliveries[d] EXCEPT !.status = "CANCELLED", !.owner = None, !.leased = FALSE]]
    /\ calls' = {} /\ ticking' = [s \in Processes |-> NotTicking]
    /\ UNCHANGED <<receipts, artifacts, registry, mishaps>>

-----------------------------------------------------------------------------
(***************************************************************************)
(* Tick on a delivery                                                      *)
(***************************************************************************)
TakeDelivery(s, d) ==
    /\ ticking[s] = NotTicking
    /\ deliveries[d].status \notin Over /\ ~deliveries[d].leased
    /\ deliveries' = [deliveries EXCEPT ![d].status = "RUNNING", ![d].owner = s,
                                        ![d].leased = TRUE]
    /\ ticking' = [ticking EXCEPT ![s] = [stage |-> "TAKEN", delivery |-> d,
                                    copy |-> deliveries'[d]]]
    /\ UNCHANGED <<protocolVars, receipts, artifacts, callVars, mishaps>>

\* save and tickNativeDelivery compare the owner of the lease and not its end.
OwnerKept(s) == deliveries[ticking[s].delivery].owner = s

EndTick(s) == ticking' = [ticking EXCEPT ![s] = NotTicking]

OwnershipLost(s) ==
    /\ ticking[s] # NotTicking /\ ~OwnerKept(s)
    /\ EndTick(s)
    /\ UNCHANGED <<protocolVars, deliveries, receipts, artifacts, callVars, mishaps>>

\* finish with BLOCKED: the copy is stored, and jobs are left alone.
Block(s) ==
    /\ ticking[s].stage = "TAKEN" /\ OwnerKept(s)
    /\ deliveries' = [deliveries EXCEPT ![ticking[s].delivery] =
          [ticking[s].copy EXCEPT !.status = "FAILED", !.owner = None, !.leased = FALSE]]
    /\ EndTick(s)
    /\ UNCHANGED <<protocolVars, receipts, artifacts, callVars, mishaps>>

\* save of the next phase, with the fence and the artifact checked again.
Save(s, phase) ==
    LET d == ticking[s].delivery IN
    /\ OwnerKept(s) /\ nativeDeliveryAllowed(d)
    /\ ticking[s].copy.artifact # 0 => validatedExistingArtifact(ticking[s].copy.artifact)
    /\ deliveries' = [deliveries EXCEPT ![d] =
          [ticking[s].copy EXCEPT !.phase = phase, !.owner = None, !.leased = FALSE]]
    /\ EndTick(s)
    /\ UNCHANGED <<protocolVars, receipts, artifacts, callVars, mishaps>>

Advance(s) ==
    /\ ticking[s].stage = "TAKEN"
    /\ \/ ticking[s].copy.phase = "PREFLIGHT" /\ Save(s, "NATIVE_BUILD")
       \/ /\ ticking[s].copy.phase = "INSPECT"
          /\ historicalPublicationEligible(artifacts[ticking[s].copy.artifact].job)
          /\ artifacts[ticking[s].copy.artifact].digest \in registry
          /\ Save(s, "APPLY")

\* The intent is saved with the lease kept, then the pull request is proposed.
IntendProposal(s) ==
    LET d == ticking[s].delivery IN
    /\ ticking[s].stage = "TAKEN" /\ ticking[s].copy.phase \in {"APPLY", "APPLY_UNCERTAIN"}
    /\ OwnerKept(s) /\ nativeDeliveryAllowed(d)
    /\ validatedExistingArtifact(ticking[s].copy.artifact)
    /\ deliveries' = [deliveries EXCEPT ![d] =
          [ticking[s].copy EXCEPT !.phase = "APPLY_UNCERTAIN", !.leased = deliveries[d].leased]]
    /\ ticking' = [ticking EXCEPT ![s] = [stage |-> "PROPOSE", delivery |-> d, copy |-> deliveries'[d]]]
    /\ UNCHANGED <<protocolVars, receipts, artifacts, callVars, mishaps>>

Propose(s) ==
    /\ ticking[s].stage = "PROPOSE"
    /\ ticking' = [ticking EXCEPT ![s].stage = "PROPOSED"]
    /\ UNCHANGED <<protocolVars, deliveries, receipts, artifacts, callVars, mishaps>>

\* The pull request waits, was merged, does not match or was closed.
Conclude(s) ==
    LET d == ticking[s].delivery IN
    /\ ticking[s].stage = "PROPOSED" /\ OwnerKept(s)
    /\ \E status \in {"RUNNING"} \union Over :
          /\ status \in {"RUNNING", "SUCCEEDED"} => nativeDeliveryAllowed(d)
          /\ deliveries' = [deliveries EXCEPT ![d] =
                [ticking[s].copy EXCEPT !.status = status, !.owner = None, !.leased = FALSE]]
    /\ EndTick(s)
    /\ UNCHANGED <<protocolVars, receipts, artifacts, callVars, mishaps>>

\* The job a delivery waits for.
Followed(d) ==
    LET build == deliveries[d].build IN
    IF workerJobs[build].status = "SUCCEEDED" /\ deliveries[d].publication # 0
    THEN deliveries[d].publication ELSE build

LeaseGiven(d) == [deliveries[d] EXCEPT !.owner = None, !.leased = FALSE]

InNativeBuild(s) ==
    /\ ticking[s].stage = "TAKEN" /\ ticking[s].copy.phase = "NATIVE_BUILD"
    /\ OwnerKept(s)
    /\ EndTick(s)
    /\ UNCHANGED <<callVars, artifacts, mishaps>>

\* The authority, the build's check or the size of its archive does not hold.
StopTick(s) ==
    /\ InNativeBuild(s)
    /\ stopNativeDelivery(ticking[s].delivery, "FAILED")
    /\ UNCHANGED receipts

QueueBuild(s) ==
    LET d == ticking[s].delivery IN
    /\ InNativeBuild(s)
    /\ nativeDeliveryAllowed(d) /\ deliveries[d].build = 0
    /\ AppendJob(<<d, Build>>, Build, deliveries[d].deadline, 0)
    /\ deliveries' = [deliveries EXCEPT ![d] = [LeaseGiven(d) EXCEPT !.build = Len(workerJobs) + 1]]

\* The build's report is in; its check is published.
QueuePublication(s) ==
    LET d == ticking[s].delivery IN
    /\ InNativeBuild(s)
    /\ nativeDeliveryAllowed(d)
    /\ deliveries[d].build # 0 /\ deliveries[d].publication = 0
    /\ \E i \in Accepted(deliveries[d].build) :
          AppendJob(<<d, Publish>>, Publish, deliveries[d].deadline, i)
    /\ deliveries' = [deliveries EXCEPT ![d] =
          [LeaseGiven(d) EXCEPT !.publication = Len(workerJobs) + 1]]

\* recoverWorker on the job, then what its status asks for.  A build that has
\* succeeded and whose check is still under way is waited for.
Follow(s) ==
    LET d == ticking[s].delivery
        j == Followed(d)
        status == StatusAfterRecovery(j)
    IN  /\ InNativeBuild(s)
        /\ nativeDeliveryAllowed(d) /\ deliveries[d].build # 0
        /\ \A n \in ArtifactsOf(j) : validatedExistingArtifact(n)
        /\ IF Due(j) THEN recoverWorker(j) ELSE UNCHANGED protocolVars
        /\ deliveries' = [deliveries EXCEPT ![d] =
             IF status = "SUCCEEDED" /\ j = deliveries[d].publication
             THEN [LeaseGiven(d) EXCEPT !.phase = "INSPECT",
                                      !.artifact = CHOOSE n \in ArtifactsOf(j) : TRUE]
             ELSE IF status \in Terminal \ {"SUCCEEDED"}
             THEN [LeaseGiven(d) EXCEPT !.status = "FAILED"] ELSE LeaseGiven(d)]
        /\ UNCHANGED receipts

tickNativeDelivery(s) == StopTick(s) \/ QueueBuild(s) \/ QueuePublication(s) \/ Follow(s)

TickStep(s) ==
    \/ \E d \in Requested : TakeDelivery(s, d)
    \/ OwnershipLost(s) \/ Block(s) \/ Advance(s)
    \/ tickNativeDelivery(s)
    \/ IntendProposal(s) \/ Propose(s) \/ Conclude(s)

ProcessDies(s) ==
    /\ ticking[s] # NotTicking
    /\ mishaps < MaxMishaps /\ mishaps' = mishaps + 1
    /\ EndTick(s)
    /\ UNCHANGED <<protocolVars, deliveries, receipts, artifacts, callVars>>

\* A lease ends after its holder died, or while it is slow.
LeaseEnds(d) ==
    /\ deliveries[d].leased
    /\ IF \E s \in Processes : ticking[s] # NotTicking /\ ticking[s].delivery = d /\ deliveries[d].owner = s
       THEN mishaps < MaxMishaps /\ mishaps' = mishaps + 1 ELSE UNCHANGED mishaps
    /\ deliveries' = [deliveries EXCEPT ![d].leased = FALSE]
    /\ UNCHANGED <<protocolVars, receipts, artifacts, callVars, ticking>>

NativeInit ==
    /\ Init
    /\ deliveries = <<>> /\ receipts = <<>> /\ artifacts = <<>>
    /\ calls = {} /\ registry = {} /\ mishaps = 0
    /\ ticking = [s \in Processes |-> NotTicking]

NativeNext ==
    \/ \E d \in Deliveries : deploy_integration(d)
    \/ \E r \in Requests : queue_build(r) \/ queue_worker_publication(r)
    \/ WorkerStep \/ ClockTicks \/ RestoreNative
    \/ \E j \in Jobs : Push(j)
    \/ \E i \in Attempts : ReportAsked(i) \/ ReconcileAsked(i)
    \/ \E call \in calls : ReadRegistry(call) \/ Admit(call) \/ CallEnds(call)
    \/ \E d \in Requested : cancel_native_delivery(d)
    \/ \E j \in Jobs : cancel_managed_job(j)
    \/ \E s \in Processes : TickStep(s)
    \/ \E s \in Processes : ProcessDies(s)
    \/ \E d \in Requested : LeaseEnds(d)

NativeSpec == NativeInit /\ [][NativeNext]_nativeVars

\* The service loops tick, leases end and time passes.
NativeFairSpec ==
    /\ NativeSpec
    /\ \A s \in Processes : WF_nativeVars(TickStep(s))
    /\ WF_nativeVars(ClockTicks)
    /\ \A d \in Deliveries : WF_nativeVars(d \in Requested /\ LeaseEnds(d))

-----------------------------------------------------------------------------
(***************************************************************************)
(* Properties                                                              *)
(***************************************************************************)

\* A publication has succeeded exactly if one artifact was admitted for it,
\* however its worker's report and an operator's reconciliation interleave.  The
\* bytes of an artifact were in the registry, and as long as no restore has
\* quarantined its product it passes both checks every later deployment of it
\* starts with (inspectNativeArtifact): its own evidence, and that of the build
\* it was made from, the accepted report included.  Cancellations of the jobs and
\* the delivery, late reports and the end of a lease disturb neither.
ArtifactStaysValid ==
    /\ \A j \in Jobs : workerJobs[j].capability = Publish =>
          Cardinality(ArtifactsOf(j)) = IF workerJobs[j].status = "SUCCEEDED" THEN 1 ELSE 0
    /\ \A n \in DOMAIN artifacts :
          /\ artifacts[n].digest \in registry
          /\ ~quarantined => /\ validatedExistingArtifact(n)
                             /\ historicalPublicationEligible(artifacts[n].job)

\* Every delivery ends, by its deadline at the latest.
DeliveriesEnd ==
    \A d \in Deliveries :
        d \in Requested ~> d \in Requested /\ deliveries[d].status \in Over

===============================================================================
