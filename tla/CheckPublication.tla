--------------------------- MODULE CheckPublication ---------------------------
(***************************************************************************)
(* Publication of GitHub checks for worker jobs (internal/application/     *)
(* checks.go), composed with the worker protocol: a job whose recipe binds *)
(* a check is queued together with a CHECK_PUBLICATION operation, no       *)
(* worker may claim it before its check was seen at the provider, and the  *)
(* check follows the job to its conclusion.                                *)
(*                                                                         *)
(* Several servers share the store.  A Tick takes the operation under a    *)
(* 45 s lease, freezes an intent in one transaction, calls the provider    *)
(* outside of it and records the outcome in a second one.  A request whose *)
(* caller gave up stays on the wire and may still take effect.             *)
(*                                                                         *)
(* checkAuthority compares the frozen inputs, connection and repository    *)
(* with the configuration of the moment: apart from the quarantine its     *)
(* outcome is an input.  Jobs are standalone ones; jobs of a managed       *)
(* delivery add an authority of their own.  The payload of a check is its  *)
(* status, its conclusion and the job status its summary shows: the other  *)
(* fields follow from the job.                                             *)
(***************************************************************************)
EXTENDS WorkerExecution

CONSTANTS
    Servers,            \* the processes that run Tick against the shared store
    Finalize,           \* the recipe's finalization allowance, in ticks
    ObservationBudget,  \* checkObservationBudget, 64 in the code
    MaxFaults           \* how often a call fails, a server dies or outlives its lease

\* What a check run shows.
Payloads == [status : {"queued", "in_progress", "completed"},
             conclusion : {"", "success", "failure", "cancelled", "timed_out"},
             result : JobStatus]

ASSUME CheckAssumption ==
    /\ Finalize \in Nat \ {0}
    /\ ObservationBudget \in Nat \ {0}
    /\ MaxFaults \in Nat
    /\ None \notin Servers \union Payloads

VARIABLES
    checks,   \* the CHECK_PUBLICATION operation of every job, same index
    late,     \* jobs whose UpdatedAt is not before their deadline
    tick,     \* per server, the tickCheck in progress
    wire,     \* requests sent to the provider and not yet processed
    runs,     \* the check run the provider shows for every job, same index
    created,  \* how many check runs the provider made for every job
    faults

jobVars == <<workerJobs, workerAttempts, operations, starts, quarantined, clock>>
checkVars == <<checks, late, tick, wire, runs, created, faults>>
allVars == <<jobVars, checkVars>>

Ended == {"SUCCEEDED", "FAILED", "CANCELLED"}

Checks == DOMAIN checks
NoTick == [stage |-> "NONE"]

\* queueWorkerCheck, in the transaction that queues the job.
NewCheck == [status |-> "PENDING", phase |-> "CHECK_CREATE_READY", owner |-> None,
             leased |-> FALSE, intent |-> None, observed |-> None, observations |-> 0]

-----------------------------------------------------------------------------
(***************************************************************************)
(* The worker protocol with checks                                         *)
(***************************************************************************)

\* checkInitialReady: the check was seen and has not been given up.
checkInitialReady(j) ==
    /\ checks[j].status \notin {"FAILED", "CANCELLED"}
    /\ checks[j].observed # None
    /\ checks[j].observed.status \in {"queued", "in_progress"}

\* workerAudit stamps the job whenever it changes.
Stamp == late' = {j \in DOMAIN workerJobs' :
                    IF j \in Jobs /\ workerJobs'[j] = workerJobs[j] THEN j \in late
                    ELSE clock >= workerJobs'[j].deadline}

QueueWithCheck ==
    \E key \in Keys, capability \in Capabilities, budget \in Budgets,
       deadline \in 1..(MaxTime - Finalize) :
          /\ queue_worker_job(key, capability, deadline, budget)
          /\ checks' = Append(checks, NewCheck)
          /\ runs' = Append(runs, None)
          /\ created' = Append(created, 0)
          /\ UNCHANGED <<tick, wire, faults>>

ClaimReady(capability) ==
    \E p \in Workers, invalid \in SUBSET Matching(capability) :
        ClaimWorker(p, capability, invalid,
                    {j \in Matching(capability) \ invalid : ~checkInitialReady(j)})

\* What else happens to jobs leaves the checks alone.
JobStep ==
    /\ \/ \E j \in Jobs : cancel_worker_job(j)
       \/ \E j \in Jobs, outcome \in {"FAILED", "CANCELLED"} :
            reconcile_worker_job(j, outcome)
       \/ \E capability \in Capabilities : ClaimReady(capability)
       \/ \E j \in Jobs : recoverWorker(j)
       \/ \E i \in Attempts : StartWorker(i)
       \/ \E i \in Attempts : HeartbeatWorker(i)
       \/ \E i \in Attempts, result \in Results : ReportWorker(i, result)
    /\ UNCHANGED <<checks, tick, wire, runs, created, faults>>

TimePasses == Tick /\ UNCHANGED <<checks, tick, wire, runs, created, faults>>

\* The restored instance cancels the active operations; the one that was backed
\* up has stopped, and what it sent is still on the wire.
RestoreWithChecks ==
    /\ RestoreBackup
    /\ checks' = [j \in Checks |->
                    IF checks[j].status \in Ended THEN checks[j]
                    ELSE [checks[j] EXCEPT !.status = "CANCELLED", !.owner = None,
                                           !.leased = FALSE]]
    /\ tick' = [s \in Servers |-> NoTick]
    /\ wire' = {[m EXCEPT !.from = None] : m \in wire}
    /\ UNCHANGED <<runs, created, faults>>

-----------------------------------------------------------------------------
(***************************************************************************)
(* tickCheck, first transaction: freeze the intent                         *)
(***************************************************************************)
\* Tick takes an operation nobody holds.
TakeCheck(s, j) ==
    /\ tick[s] = NoTick
    /\ checks[j].status \notin Ended /\ ~checks[j].leased
    /\ checks' = [checks EXCEPT ![j].status = "RUNNING", ![j].owner = s, ![j].leased = TRUE]
    /\ tick' = [tick EXCEPT ![s] = [stage |-> "BEGIN", job |-> j]]
    /\ UNCHANGED <<jobVars, wire, runs, created, faults>>

\* checkUpdate: owner and end of the lease are checked.
HoldsLease(s) == LET c == checks[tick[s].job] IN c.owner = s /\ c.leased

LeaseLost(s) ==
    /\ tick[s].stage \in {"BEGIN", "DONE"}
    /\ ~HoldsLease(s)
    /\ tick' = [tick EXCEPT ![s] = NoTick]
    /\ UNCHANGED <<jobVars, checks, wire, runs, created, faults>>

FinalizeOver(j) == clock >= workerJobs[j].deadline + Finalize

\* The job as desiredCheck sees it, after recoverWorker.
Recovered(j) ==
    IF Due(j) THEN [workerJobs[j] EXCEPT !.status = RecoveredStatus(j)] ELSE workerJobs[j]

\* A claimed job found past its deadline is FAILED by recovery, and reported as
\* what it was.
FailedByDeadline(j) ==
    /\ Recovered(j).status = "FAILED"
    /\ clock >= workerJobs[j].deadline
    /\ Due(j) \/ j \in late
    /\ \E i \in currentWorkerAttempt(j) :
          /\ Due(j) \/ workerAttempts[i].status = "EXPIRED"
          /\ workerAttempts[i].report = None

TimedOutEarly(j) == clock + 1 >= workerJobs[j].deadline
TimedOut(j) == clock >= workerJobs[j].deadline

ConclusionOf(j) ==
    LET status == Recovered(j).status IN
    IF workerJobs[j].cancellationRequested THEN "cancelled"
    ELSE IF \/ status \notin Terminal /\ TimedOut(j)
            \/ FailedByDeadline(j)
            \/ status = "DEADLINE_EXCEEDED"
    THEN "timed_out"
    ELSE CASE status = "SUCCEEDED" -> "success"
           [] status = "FAILED" -> "failure"
           [] status = "CANCELLED" -> "cancelled"
           [] OTHER -> ""

desiredCheck(j) ==
    [status |-> IF ConclusionOf(j) # "" THEN "completed"
                ELSE IF \/ Recovered(j).status \in {"CLAIMED", "RUNNING", Uncertain}
                        \/ checks[j].observed # None /\ checks[j].observed.status = "in_progress"
                THEN "in_progress" ELSE "queued",
     conclusion |-> ConclusionOf(j),
     result |-> Recovered(j).status]

\* The first registration is always as queued.
RegistrationAsDesired(j) == desiredCheck(j)
RegistrationOf(j) == [status |-> "queued", conclusion |-> "", result |-> "QUEUED"]

\* The transaction's effect on the job: what recoverWorker does, if anything.
RecoverJob(j) ==
    IF Due(j) THEN recoverWorker(j)
    ELSE UNCHANGED <<workerJobs, workerAttempts, operations, starts, quarantined, clock>>

Released(c) == [c EXCEPT !.owner = None, !.leased = FALSE]

GiveUpForNow(s, j) ==
    /\ checks' = [checks EXCEPT ![j] = Released(@)]
    /\ tick' = [tick EXCEPT ![s] = NoTick]

GiveUp(s, j) ==
    /\ checks' = [checks EXCEPT ![j] = [Released(@) EXCEPT !.status = "FAILED"]]
    /\ tick' = [tick EXCEPT ![s] = NoTick]

\* The intent goes into the store, with one observation charged, before the call.
Intend(s, j, phase, intent, action) ==
    /\ checks' = [checks EXCEPT ![j].phase = phase, ![j].intent = intent,
                                ![j].observations = @ + 1]
    /\ tick' = [tick EXCEPT ![s] = [stage |-> "CALL", job |-> j, action |-> action,
                                    intent |-> intent]]

\* checkAuthority: the comparisons with the configuration of the moment, and the
\* quarantine a restore leaves.
checkAuthority(authorised) == authorised /\ ~quarantined

BudgetSpent(j) == FinalizeOver(j) \/ checks[j].observations >= ObservationBudget

\* Neither deadline nor authority allow another observation.
RefuseCheck(s, authorised) ==
    LET j == tick[s].job IN
    /\ tick[s].stage = "BEGIN" /\ HoldsLease(s)
    /\ BudgetSpent(j) \/ ~checkAuthority(authorised)
    /\ GiveUp(s, j)
    /\ UNCHANGED <<jobVars, wire, runs, created, faults>>

MayObserve(s, phase) ==
    LET j == tick[s].job IN
    /\ tick[s].stage = "BEGIN" /\ HoldsLease(s)
    /\ ~BudgetSpent(j) /\ checkAuthority(TRUE)
    /\ checks[j].phase = phase
    /\ RecoverJob(j)
    /\ UNCHANGED <<wire, runs, created, faults>>

IntendCreate(s) ==
    LET j == tick[s].job IN
    /\ MayObserve(s, "CHECK_CREATE_READY")
    /\ Intend(s, j, "CHECK_CREATE_UNCERTAIN", RegistrationOf(j), "create")

\* A missing answer to the create is looked for, never replaced by a second one.
CreateAgain(s) ==
    LET j == tick[s].job IN
    /\ MayObserve(s, "CHECK_CREATE_UNCERTAIN")
    /\ Intend(s, j, "CHECK_CREATE_UNCERTAIN", checks[j].intent, "create")

IntendFind(s) ==
    LET j == tick[s].job IN
    /\ MayObserve(s, "CHECK_CREATE_UNCERTAIN")
    /\ Intend(s, j, "CHECK_CREATE_UNCERTAIN", checks[j].intent, "find")

IntendRead(s) ==
    LET j == tick[s].job IN
    /\ MayObserve(s, "CHECK_UPDATE_UNCERTAIN")
    /\ Intend(s, j, "CHECK_UPDATE_UNCERTAIN", checks[j].intent, "read")

\* CHECK_OBSERVE: the check shows what it should, or is updated.
ObserveUnchanged(s) ==
    LET j == tick[s].job IN
    /\ MayObserve(s, "CHECK_OBSERVE")
    /\ checks[j].observed = desiredCheck(j)
    /\ checks' = [checks EXCEPT ![j] = Released(@)]
    /\ tick' = [tick EXCEPT ![s] = NoTick]

IntendUpdate(s) ==
    LET j == tick[s].job IN
    /\ MayObserve(s, "CHECK_OBSERVE")
    /\ checks[j].observed # desiredCheck(j)
    /\ Intend(s, j, "CHECK_UPDATE_UNCERTAIN", desiredCheck(j), "update")

-----------------------------------------------------------------------------
(***************************************************************************)
(* The provider                                                            *)
(***************************************************************************)
Answer(t, answer) == [stage |-> "DONE", job |-> t.job, intent |-> t.intent, answer |-> answer]

Fault == faults < MaxFaults /\ faults' = faults + 1

SendCheck(s) ==
    /\ tick[s].stage = "CALL" /\ tick[s].action \in {"create", "update"}
    /\ wire' = wire \union {[job |-> tick[s].job, action |-> tick[s].action,
                             payload |-> tick[s].intent, from |-> s]}
    /\ tick' = [tick EXCEPT ![s] = [stage |-> "WAIT", job |-> @.job, intent |-> @.intent]]
    /\ UNCHANGED <<jobVars, checks, runs, created, faults>>

\* FindCheckRun and ReadCheckRun.
ReadRun(s) ==
    /\ tick[s].stage = "CALL" /\ tick[s].action \in {"find", "read"}
    /\ tick' = [tick EXCEPT ![s] = Answer(@, runs[@.job])]
    /\ UNCHANGED <<jobVars, checks, wire, runs, created, faults>>

\* A caller that waits for the answer gets it unless it gives up.
ProcessRequest(m) ==
    /\ wire' = wire \ {m}
    /\ runs' = [runs EXCEPT ![m.job] = m.payload]
    /\ created' = [created EXCEPT ![m.job] = IF m.action = "create" THEN @ + 1 ELSE @]
    /\ tick' = IF m.from = None THEN tick
               ELSE [tick EXCEPT ![m.from] = Answer(@, m.payload)]
    /\ UNCHANGED <<jobVars, checks, faults>>

Detached(s) == {IF m.from = s THEN [m EXCEPT !.from = None] ELSE m : m \in wire}

\* The call fails before it is sent, before it is processed or on its way back.
CallFails(s) ==
    /\ tick[s].stage \in {"CALL", "WAIT", "DONE"}
    /\ Fault
    /\ tick' = [tick EXCEPT ![s] = Answer(@, None)]
    /\ wire' = Detached(s)
    /\ UNCHANGED <<jobVars, checks, runs, created>>

\* The process dies; its lease runs out on its own.
ServerDies(s) ==
    /\ tick[s] # NoTick
    /\ Fault
    /\ tick' = [tick EXCEPT ![s] = NoTick]
    /\ wire' = Detached(s)
    /\ UNCHANGED <<jobVars, checks, runs, created>>

\* A lease ends while its holder is slow, or after its holder died.
CheckLeaseEnds(j) ==
    /\ checks[j].leased
    /\ checks' = [checks EXCEPT ![j].leased = FALSE]
    /\ IF \E s \in Servers : tick[s] # NoTick /\ tick[s].job = j /\ checks[j].owner = s
       THEN Fault ELSE UNCHANGED faults
    /\ UNCHANGED <<jobVars, tick, wire, runs, created>>

-----------------------------------------------------------------------------
(***************************************************************************)
(* tickCheck, second transaction: record the outcome                       *)
(***************************************************************************)
PostIORefused(s, authorised) ==
    LET j == tick[s].job IN
    /\ tick[s].stage = "DONE" /\ HoldsLease(s)
    /\ ~checkAuthority(authorised) \/ FinalizeOver(j)
    /\ GiveUp(s, j)
    /\ UNCHANGED <<jobVars, wire, runs, created, faults>>

\* What is taken as the state of the check: the answer, if it is the intent.
Confirmed(s) == tick[s].answer = tick[s].intent

RecordOutcome(s) ==
    LET j == tick[s].job IN
    /\ tick[s].stage = "DONE" /\ HoldsLease(s)
    /\ checkAuthority(TRUE) /\ ~FinalizeOver(j)
    /\ checks' = [checks EXCEPT ![j] =
         IF Confirmed(s)
         THEN [Released(@) EXCEPT !.observed = tick[s].intent, !.phase = "CHECK_OBSERVE",
                 !.status = IF tick[s].intent.status = "completed" THEN "SUCCEEDED" ELSE "RUNNING"]
         ELSE Released(@)]
    /\ tick' = [tick EXCEPT ![s] = NoTick]
    /\ UNCHANGED <<jobVars, wire, runs, created, faults>>

tickCheck(s) ==
    \/ \E j \in Jobs : TakeCheck(s, j)
    \/ LeaseLost(s)
    \/ \E authorised \in BOOLEAN : RefuseCheck(s, authorised)
    \/ IntendCreate(s) \/ IntendFind(s) \/ IntendRead(s)
    \/ ObserveUnchanged(s) \/ IntendUpdate(s)
    \/ SendCheck(s) \/ ReadRun(s)
    \/ \E authorised \in BOOLEAN : PostIORefused(s, authorised)
    \/ RecordOutcome(s)

CheckOperation ==
    [status : {"PENDING", "RUNNING"} \union Ended,
     phase : {"CHECK_CREATE_READY", "CHECK_CREATE_UNCERTAIN", "CHECK_OBSERVE",
              "CHECK_UPDATE_UNCERTAIN"},
     owner : Servers \union {None}, leased : BOOLEAN,
     intent : Payloads \union {None}, observed : Payloads \union {None},
     observations : Nat]

TickRecord ==
    {NoTick}
    \union [stage : {"BEGIN"}, job : Nat]
    \union [stage : {"CALL"}, job : Nat, intent : Payloads,
            action : {"create", "find", "read", "update"}]
    \union [stage : {"WAIT"}, job : Nat, intent : Payloads]
    \union [stage : {"DONE"}, job : Nat, intent : Payloads, answer : Payloads \union {None}]

Request == [job : Nat, action : {"create", "update"}, payload : Payloads,
            from : Servers \union {None}]

CheckTypeOK ==
    /\ checks \in Seq(CheckOperation) /\ Len(checks) = Len(workerJobs)
    /\ runs \in Seq(Payloads \union {None}) /\ Len(runs) = Len(workerJobs)
    /\ created \in Seq(Nat) /\ Len(created) = Len(workerJobs)
    /\ late \subseteq Jobs
    /\ tick \in [Servers -> TickRecord]
    /\ wire \subseteq Request
    /\ faults \in Nat

CheckInit ==
    /\ Init
    /\ checks = <<>> /\ runs = <<>> /\ created = <<>>
    /\ late = {} /\ wire = {} /\ faults = 0
    /\ tick = [s \in Servers |-> NoTick]

CheckNext ==
    /\ \/ QueueWithCheck
       \/ JobStep
       \/ TimePasses
       \/ RestoreWithChecks
       \/ \E s \in Servers : tickCheck(s)
       \/ \E m \in wire : ProcessRequest(m)
       \/ \E s \in Servers : CallFails(s)
       \/ \E s \in Servers : ServerDies(s)
       \/ \E j \in Checks : CheckLeaseEnds(j)
    /\ Stamp

CheckSpec == CheckInit /\ [][CheckNext]_allVars

\* The service loops tick, leases end, time passes, and the provider processes
\* the requests of callers that still wait for it.
CheckFairSpec ==
    /\ CheckSpec
    /\ \A s \in Servers : WF_allVars(tickCheck(s) /\ Stamp)
    /\ WF_allVars(TimePasses /\ Stamp)
    /\ WF_allVars((\E j \in Checks : CheckLeaseEnds(j)) /\ Stamp)
    /\ WF_allVars((\E m \in wire : m.from # None /\ ProcessRequest(m)) /\ Stamp)

-----------------------------------------------------------------------------
(***************************************************************************)
(* ValidateWorkerChecks, evaluated by the store on every update            *)
(***************************************************************************)
validCheckPayload(w) == w.status = "completed" <=> w.conclusion # ""

checkSuccessProvenance(j) ==
    /\ workerJobs[j].status = "SUCCEEDED" /\ ~workerJobs[j].cancellationRequested
    /\ \E i \in currentWorkerAttempt(j) : /\ workerAttempts[i].status = "SUCCEEDED"
                                          /\ workerAttempts[i].report = "PASSED"

ValidateWorkerChecks(j) ==
    LET c == checks[j]
        kept == {c.intent, c.observed} \ {None}
    IN  /\ \A w \in kept : validCheckPayload(w)
        /\ (\E w \in kept : w.conclusion = "success") => checkSuccessProvenance(j)
        /\ c.intent = None => c.phase = "CHECK_CREATE_READY"
        /\ c.phase = "CHECK_CREATE_READY" => kept = {} /\ c.observations = 0
        /\ c.phase = "CHECK_CREATE_UNCERTAIN" =>
              c.intent.status = "queued" /\ c.observed = None
        /\ c.phase \in {"CHECK_OBSERVE", "CHECK_UPDATE_UNCERTAIN"} => c.observed # None
        /\ c.status = "SUCCEEDED" => c.observed = c.intent /\ c.intent.status = "completed"

-----------------------------------------------------------------------------
(***************************************************************************)
(* Properties                                                              *)
(***************************************************************************)

\* One check per job: whatever answers are lost and whichever server goes on,
\* the provider is never made to create a second run (a find follows an
\* uncertain create).
CreatedOnce == \A j \in Checks : created[j] <= 1

\* What the provider shows as concluded is true of the job for ever: green
\* exactly for an accepted report of success, and no conclusion is published
\* that a report still under way could contradict.
ConclusionIsTrue ==
    \A j \in Jobs : runs[j] # None =>
        LET job == workerJobs[j] IN
        CASE runs[j].conclusion = "success"   -> job.status = "SUCCEEDED"
          [] runs[j].conclusion = "failure"   -> job.status = "FAILED"
          [] runs[j].conclusion = "cancelled" ->
                job.cancellationRequested \/ job.status = "CANCELLED"
          [] runs[j].conclusion = "timed_out" ->
                clock >= job.deadline /\ job.status # "SUCCEEDED"
          [] OTHER -> TRUE

\* The store evaluates ValidateWorkerChecks on every update and refuses the
\* update otherwise: no Tick, call or restore runs into that refusal.
StoredIsValid == \A j \in Checks : ValidateWorkerChecks(j)

\* Every publication ends, at its finalization deadline at the latest.
ChecksEnd ==
    \A key \in Keys :
        JobsOf(key) # {} ~> \E j \in JobsOf(key) : checks[j].status \in Ended

===============================================================================
