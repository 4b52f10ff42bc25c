# Verification of the AI development workspace

TLA+ models of the control plane in `src/` (a Go service that keeps a product's
work graph, runs builds, checks and deployments through external workers and
GitHub, and answers people and agents over HTTP and MCP), with TLC runs on small
instances and TLAPS proofs.

`PROJECT.json` lists the components, the runs, the code lines each definition
stands for, a mutant per property, the hazards and the theorems.

## 1. Inventory

All durable state is one document (`domain.State`), changed only inside
`Store.Update(ctx, func(*State) error)`: the function runs on a private copy, its
result is stored when it returns nil, and updates of one database are serialised
by the lock on the revision row (Postgres) or on the state file. Everything
outside such a function (calls to GitHub, registries, Docker, models) happens
without a lock. Most hard behaviour comes from that gap.

| Component | State it keeps | Operations | Hard behaviour | What makes it correct |
|---|---|---|---|---|
| External worker protocol (`application/worker_execution.go`) | jobs, attempts, their audit operations, events, quarantine | queue, cancel, reconcile, claim, start, heartbeat, report, restore | repeated and late calls, leases that end, several workers, restore of a live state | one live attempt per job, no second start, reports final, cancellation not lost, jobs settle |
| Worker supervisor (`workerrunner`) | one journal file per job, processes, containers | recover, claim, begin/complete create, execute, report, cleanup, watchdog, operator closure | processes die anywhere, `docker create` takes effect late, three processes clean up one job | done means gone, one job alone on the host, deadline reaps |
| Operation executor (`application/worker.go`, `gitops_pr.go`, `existing_artifact.go`) | operations: phase, lease, intent, base revision, artifact | Tick: preflight, dispatch, build lookup, inspect, apply, wait for pull request; save | several servers, stale copies, requests that outlive their caller, concurrent commits | dispatched once, applied means seen, no foreign change lost, operations settle |
| Candidate Dev reservation (`dev_reservation.go`) | environment epoch and hold | reserve, release | excludes deployments that may have effects under way | a hold is quiet |
| Dev activation, runtime, restoration (`dev_*.go`) | baseline capture, activation and its children, intents, generations of the restoration, confirmation, verification | capture, deploy, propose, look up, reconcile, plan, confirm, verify, release | requests that outlive their caller, proofs by reading only, people who merge, close, reopen and edit in between | each proposal sent once, none overlaps another, no foreign image overwritten, the reservation ends clean |
| Check publication (`checks.go`) | check records on jobs | create, update, finalize | answer lost between create and record, budget of observations | one provider check per job, conclusion follows the job |
| Native publication and delivery (`native_*.go`, `publishrunner`, `ocipublisher`, `artifactspool`) | publication jobs, parent operations, spool | two-phase admission of reports, reconciliation by registry reading, parent stages | eligibility read before the registry and used after it | a published digest was read in the registry; a parent follows only its own jobs |
| Composition (`composition*.go`, `source_retention.go`, `worker_flow.go`, `flow_guard.go`, `feature_patch.go`) | compositions, the environment's selection and its generation, compose operations, conflicts, retained refs, generated branches | submit, supersede, retain, compose, queue children, resolve, refresh by schedule | selection changes under a running composition, writes to Git whose answer is lost, stale copies saved | no Git write repeated, a person's choice is never displaced, progress is kept |
| Candidates, promotion, release (`flow.go`, `worker_flow.go`, `main_candidate.go`, `scenarios.go`) | candidate and promotion operations, scenario runs, releases | request, compose, advance main, queue builds, run scenarios, promote, observe, record | main moves while it is advanced; what was verified changes before the release | built from main, no push lost, a release rests on what still holds |
| Authentication (`auth`, `agentconnect`) | identities, tokens, device grants | device authorization, approve, deny, poll, refresh | two sides race on one grant, limits | a grant is exchanged at most once and only after approval |
| Git scheduler, inventory (`git_scheduler.go`, ...) | schedules, cursors | inspect, refresh compositions | requests by people next to the schedule | a refresh follows the person's choice |
| Commands and work graph (`service.go`, ...) | products, features, tasks, environments | single-transaction commands with revision and request keys | replays, stale revisions | a request is applied once |
| Backup (`backup.go`) | archive | export, restore | live effects at the source of the archive | nothing restored runs by itself |
| Persistence (`persistence`) | revision row, files | Update, View | two writers | serialised updates |
| Retention (`domain/*retention*.go`, `retention.go`, `artifact_pins.go`) | policy; reads operations, runs, rows, jobs, observations, holds, releases | the keep set | the records it reads are left by deliveries that fail, race and end late | nothing that may still be needed is unprotected |
| Intelligence (`intelligence*`) | invocations | dispatch, record, patch | a paid call whose answer is lost | at most one paid dispatch per request |
| Registry observer and inventory (`registryobserver`, `domain/registry_*.go`, `application/registry_inventory.go`) | journal file, reports, admitted inventories | ask, scan, compare, report, admit, summarise | the registry changes while it is read; crashes; late reports | complete means nothing missed, current means seen lately |
| Providers, runtime observation, transport | little of their own | API plumbing | lost and late requests | part of the models that use them |

Interactions: commands queue operations and jobs; Tick advances operations and
queues jobs as parents of native deliveries; workers claim jobs over HTTP and run
them under a supervisor; the reservation and the executor exclude each other
through operations, their intents and the environment record; a restore
quarantines jobs and operations of all of them.

## 2. Modules

| Module | Models |
|---|---|
| `WorkerExecution` | the control plane's side of the worker protocol |
| `JobLifecycle` | what that protocol promises about a request, without fences, leases or attempts |
| `WorkerSupervisor` | the worker host: supervisor, watchdogs, operator, Docker daemon, journals |
| `WorkerSupervisorProofs` | the proofs about `WorkerSupervisor` |
| `CheckPublication` | a job's check run at GitHub, composed with `WorkerExecution` |
| `WorkerExecutionProofs` | the proofs about the worker protocol and what is composed with it: `WorkerExecution` (part 1), `CheckPublication` (part 2), `NativeDelivery` (part 3) |
| `OperationExecutor` | Tick on ordinary deployments, the reservation and the provider |
| `OperationExecutorProofs` | the proofs about `OperationExecutor` |
| `NativeDelivery` | a delivery's build and publication jobs, the admission of their reports, Tick on the parent, the registry |
| `DeviceAuth` | device authorization, browser login, agents and their tokens, revocation, and the client that asks for a code |
| `DeviceAuthProofs` | the proofs about `DeviceAuth` |
| `CandidateDev` | one reservation: baseline, activation by grouped proposals, restoration, release, the GitOps repositories and the people who work on them |
| `CandidateDevProofs` | the proofs about `CandidateDev` |
| `CompositionFlow` | one environment's compositions: selection, compose operations, retained refs, generated branches, conflicts, the scheduler's refresh |
| `CompositionFlowProofs` | the proofs about `CompositionFlow` |
| `ReleaseFlow` | candidates, main of the source repositories, scenarios, promotions and releases |
| `ReleaseFlowProofs` | the proofs about `ReleaseFlow` |
| `RegistryObservation` | the scan of a changing registry, the observer's journal, inventories and what the retention report concludes from them |
| `Retention` | the keep set, over all the actors that write the records it is computed from |
| `RetentionProofs` | the proofs about `Retention` (part 1) and `RegistryObservation` (part 2) |
| `MC...` | symmetry sets and bounds for TLC; the `.cfg` files give the constants |

### WorkerExecution

`workerJobs`, `workerAttempts` and `operations` are the slices of the state, in
order of creation; `starts` is the audit log's `worker_start` events;
`quarantined` is the product's `NativeQuarantine`. Each handler is one
transaction and one action: `queue_worker_job`, `cancel_worker_job`,
`reconcile_worker_job`, `ClaimWorker`, `StartWorker`, `HeartbeatWorker`,
`ReportWorker`, `RestoreBackup`. Where the code recovers an expired lease before
it refuses a call, and keeps that write, the model has `recoverWorker(j)` as a
step of its own; the check publication takes the same step. The claim's
walk over all matching jobs (recover each, take the first that may be handed out)
is one action.

A call may be about any attempt ever made at any later time: that is loss, delay,
reordering and repetition of the workers' requests at once. What other components
evaluate during a call (credentials, configuration, check authority) is an
unconstrained input. A tick of the clock is an abstract unit; only the order of
lease ends and deadlines matters.

### WorkerSupervisor

`journal[o]` is the journal file of the job with owner nonce `o`. `updateJournal`
(lock, read, check, write) is one step, and every `docker` command is another, so
all interleavings of supervisor, watchdogs and operator between two of them are
explored. `pending` holds creates the daemon accepted and has not finished: their
caller may have given up or died. The supervisor may be killed at every step, and so may
each watchdog, which then stays dead (`KILLED`); `RunOne` is the next start of the supervisor, which recovers every
journal before it claims.

### CheckPublication

`checks[j]` is the check record of job `j` with its phase, intent, last observed
payload, count of observations and lease; `runs[j]` is the check run at the
provider and `wire` the requests on their way to it. `tickCheck` is split where
the code leaves the store: `TakeCheck` (Tick's claim), the transaction that
recovers the job, derives `desiredCheck` and saves an intent (`IntendCreate`,
`IntendFind`, `IntendUpdate`, `IntendRead`, `ObserveUnchanged`, `RefuseCheck`),
the call, and the transaction that records its outcome (`RecordOutcome`,
`PostIORefused`). A request whose caller gave up or died stays on the wire and is
processed at any later time. The worker protocol runs next to it unchanged except
that a claim waits for the registration (`checkInitialReady`).

A payload is its status, conclusion and result; whether configuration, branch and
identities still agree (`checkAuthority`) is an input of each transaction. `late`
is the set of jobs last written at or after their deadline, which is all that
`desiredCheck` takes from `UpdatedAt`. `ValidateWorkerChecks` is the store's
validator, and `StoredIsValid` says that no step would be refused by it. Jobs are
standalone ones: a managed delivery adds conditions to the authority only.

### OperationExecutor

A Tick is split where the code leaves the transaction: claim, look at the
provider, save or save of an intent, send, answer. `tick[s].copy` is the copy of
the operation the server works on, which may be stale at `save`; `save` checks
the owner of the lease and not its end, and so does the model. `wire` holds
requests sent; a request whose caller died or timed out stays there and may be
processed at any later time. `file.blob` names one state of the GitOps file and
writes are pinned to the blob they were planned against, as the contents API
does. `env` is the environment's epoch, hold and quarantine. `posted`, `planned`
and `shown` are history variables that only the properties read.

### NativeDelivery

`deliveries[d]` is the parent operation with the jobs it queued and the receipts it
froze (which attempt of the build, which digest), `artifacts` the digests recorded
as published and `registry` what the registry holds, which only grows.
Admission of a publication report leaves the store to read the registry, so it is
three steps (eligibility, the reading, the transaction that checks again and
records) and `ticking[s]` is a server's copy of the parent while it does the same.
Jobs are recovered, claimed, started and reported as in `WorkerExecution`; what is
added is that an uncertain publication may become SUCCEEDED by
`reconcilePublication`, after a reading, and that `Block` ends a delivery without
stopping its jobs: they are fenced and settle by recovery. Standalone publications
(`Requests`) share the admission and have no parent.

An artifact is asked for twice before it is deployed (`inspectNativeArtifact`):
`validatedExistingArtifact` refuses everything of a quarantined product and compares
the artifact with its job and attempt (`publicationEvidence`);
`historicalPublicationEligible` looks at the product, the job, and the build's job and
accepted report (`BuildProvenance`). A restore keeps the artifacts and their evidence
and quarantines the product for good, so that none of them is an input any more.

Whether configuration, sources and checks still agree is an input of every
transaction. `APPLY_UNCERTAIN` stands for all that follows the saved intent of the
GitOps write, which `OperationExecutor` models.

### DeviceAuth

Every handler is one update of the auth store, which first prunes what has expired.
The browser callback is two updates with the identity provider between them, and a
request under `Wrap` is two as well (authenticate, then the handler): `requests`
and `callbacks` hold what was read by the first, so approvals, denials and
revocations by two people interleave with logouts, restarts and expiry. The client
of `agentconnect` polls with its own interval and gives up at its own deadline;
`StrayPoll` is a late or foreign poll with a known code.

Times are ages in ticks of one polling interval (5 s). A token stands for the code
it was issued for and carries the products of its approval; permissions are
kept as products only, because the check of their kinds cannot fail for a stored
approval. The rate limiter refuses before anything is read, which is a request not
made; only the login command notices (`limited`): a refused poll is answered
`slow_down` as well and makes it wait longer. A restart with another configuration drops what memory held. `logins` and
`approvals` are history variables.

### CandidateDev

`layout` is the environment: the components a candidate replaces and the
repository of each, frozen by every operation. `hold`, `epoch`, `capture`,
`activation` and `child` are the operations of one reservation; `intents[k]` is what is stored about the proposal of leader `k`
(`<<0, g>>` for the activation of repository `g`, `<<n, g>>` for generation `n` of
the restoration): the head it was made for, whether sending began and whether its
pull request was recorded. `proposals`, `files` and `heads` are the provider's
side, where people merge, close, reopen and edit.

`ProposeGitOpsBatchGuarded` is `PostRef` and `PostPull`, each behind the guard and
each followed, now, later or never, by `Arrives`; the tree and commit that precede
the branch have no effect of their own. The Ticks that settle and plan, the
confirmation and the release are split where the code leaves the store
(`SettleEffects` and `prepareRestorationPlan`, `confirm_...` and
`AdmitConfirmation`, `release_...`, `ObserveRelease` and `CommitRelease`). Leases,
deadlines (the hour of write authority, the five minutes of a proof's freshness)
and the death of the server are the steps that end a call, a Tick or a release
early, which are always possible.

A file is the image it names and a version of everything else; a merge changes the
image and keeps the rest. Registry availability, configuration, the candidate's
proofs and the comparison with the runtime may refuse any step that makes them.

### CompositionFlow

`environment` holds the desired composition and operation and the selection
generation that every token names; `operations` are the compose operations with
their lease, phase, retained refs, intent and child. A command is one
transaction (`submitComposition` and its callers), guarded by the selection its
caller read: `checkSelection` compares the whole token. The scheduler reads in one
step (`ReadForRefresh`) and submits in another (`SubmitRefresh`).

Tick is split at every call: claim, prepare, `beginReservationMutation` (which
saves the intent and sends), look, save. Refs and generated branches are external:
a write that was sent may arrive at any later time or never, and a Tick that finds
an intent only looks. A refusal or an unresolved look ends the operation where a
retained ref is due; where the generated branch is due the Tick ends and the
operation is looked at again. `tick[s].copy` is the copy of the operation that the server
saves at the end; the transaction that admits it compares what the code compares
(`retentionLease`, `flowGuard`, the lease). Children and the runtime appear as the
outcomes the parent waits for. `posted` and `decided` are history variables.

### ReleaseFlow

`main[r]` is the sequence of commits of a repository's main, to which people push
(`pushed`) and which `AdvanceMain` moves in three requests (read, compare, update
without force), whose last may arrive after its caller gave up. Composing the
sources, which `CompositionFlow` takes apart, is one write here. A request for a
candidate from main reads the store, then main, then admits
(`executeMainCandidate`), so two clients with one key interleave. `verdict`,
`work` and `desired` are what the release is recorded under; `finishFlowRelease`
checks them in the transaction that records it.

### RegistryObservation

An object is a digest with what it names; every GET of the scan is one step, and
between any two of them people push and delete objects and move tags. The scan
keeps a stack of what is left to do, in the order of the code's depth-first
traversal: a frame stands for one loop of `visit`, over children, layers or
referrers, with those that are left. After the first pass it resolves the tags twice and reads the roots and
referrers again, and what differs blocks completeness. `journal` is the
observer's file: a process that dies begins the scan again under its old
start time, or sends the report it had stored. The server admits a report of
a job that runs (the leases are `WorkerExecution`'s), and `registryRetention`, `RegistryInventoryFreshness`
and `registrySummary` are the operators the retention report is made of. `fixed`
and `lastSeen` are history: what did not change since the second look began, and
when each object was last there.

### Retention

The report is a pure function of the records; its operators bear the names of
the collectors in `domain/retention.go`. What makes it hard is that the records
come from actors that fail and answer late, so the module has those: deliveries by
GitHub Actions (build, reuse, existing image, candidate, promotion), native
publications, holds of a candidate Dev with activation, restoration and their
receipts, observations and releases. Each is reduced to the records it leaves;
`OperationExecutor`, `NativeDelivery` and `CandidateDev` have their steps.
`replaced` is a history variable.

A hold is restored, or released after a restoration, once nothing that was proposed
for it can still be merged (`EffectsSettled`, the reconciliation of the restoration
worker): a proposal that is open, or was sent and is not known, blocks both.

## 3. Runs

| Run | States | Shows |
|---|---|---|
| `worker` | 30 K | one request in depth: at most one start, reports final, one live attempt, jobs settle; the protocol implements `JobLifecycle` |
| `supervisor` | 573 K | two jobs in sequence: done means gone, the second job is alone on the host, a watchdog that lives removes everything past the deadline |
| `executor` | 466 K | direct commits or pull requests, two servers: one dispatch, quiet hold, applied was seen, no change lost, deployments end |
| `check_publication` | 235 K | one job, two servers, a lost answer or lease: one run at the provider, its conclusion true, no update the validator refuses, every publication ends |
| `native_delivery` | 143 K | one delivery or one standalone build, two servers, a lost answer or lease: one artifact per publication that succeeded, which passes the checks of a deployment until a restore quarantines its product, every delivery ends |
| `auth_enrolment` | 666 K | one code, a client, a stray poller, two requests of people at once: one agent per code, within its approval, every code ends |
| `dev` | 1.25 M | activation and up to two generations of the restoration: the release leaves no request, proposal or candidate image behind; only merges after the confirmation count; proposals sent once; no foreign image overwritten |
| `composition_flow` | 1.42 M | two servers, a person, a token holder and the scheduler: no Git write repeated, a person's choice stands, progress is kept |
| `release_flow` | 2.32 M | a candidate over two repositories, its promotion, two clients: built from main, no push lost, one candidate per key, releases rest on what holds |
| `registry_observation` | 1.17 M | an image with an index and a signature, a tag, two observations: complete missed nothing, current was seen, closure kept |
| `retention` | 360 K | deliveries, publications, holds and releases in every order: the newest, the unsettled, the way back and the held baseline are protected |
| `retention_current` | violation | `docs/DELIVERY_CONTROLS.md:62` promises that `keep_current` protects the last applied image of each environment; the code sets the flag and reads it nowhere |

Deadlock is not checked where nothing may be left to do: `dev` after the release,
`composition_flow`, `release_flow`, `registry_observation` and the `retention`
runs when their bounds are used up.

The one disagreement between code and documentation is `retention_current`: an
image is deployed, a newer one is built and never deployed, and the image that the
environment's GitOps file still names is in no protected set (unless it is within
the newest images, was observed at runtime or was read again). `retention` shows what
the code does protect.

### Bounds

- `worker`: a lease of 2 ticks, deadlines up to 4 away and a clock to 5, so
  that a lease ends before, at and after a deadline, and the third attempt of a
  budget of 3 is reached. One key: jobs share nothing but the claim's walk, which
  the proofs cover for any number of them.
- `MaxFaults` in `WorkerSupervisor` bounds the docker commands that fail in a
  cleanup. Kills of processes and late creates are not bounded. `MaxStarted` = 1
  follows only one job past its start call: the second one is held, to see
  what the first left behind. A job has one container in the run; the model has
  the second one (the build after the check) as a value of `Names`.
- `CheckPublication`: 64 observations become 3, which is registration, one lost
  answer and the conclusion; the 15 minutes of finalization are one tick. One
  fault (a failed call, a death, a lease outlived) suffices for every kind of late
  request; a second adds repetitions only.
- `MaxMishaps` in `OperationExecutor` bounds failed calls, deaths of servers,
  leases outlived and commits by others together: one mishap at any point. One
  digest is built. `MaxEpoch` is the number of reservations. Age has three values:
  the code only compares it with 15 and 45 minutes.
- `NativeDelivery`: one delivery with both of its jobs or one standalone build
  (`OneOfThem`: they share no state but the registry, where their images
  differ), two servers, one mishap, a lease of 2 ticks, the hour of the delivery 3
  and a clock to 4, so that a lease ends before and after the hour.
- `DeviceAuth`: lifetimes of 1 to 3 ticks that keep the order of the real ones
  (interval and login flow, session, code), one code, two requests at once for
  the race of approve and deny, and two configurations, one product and all of
  them. The theorems hold for any number of each.
- `CandidateDev`: `Layouts` has two replaced files in two repositories, so that
  a plan writes to several in order, two in one, which share a proposal, and a
  kept file next to a replaced one. The
  second generation is what it takes for a late request of one to meet the
  next. `MaxMishaps` is 1 edit (of a component in `Edited`), reopened pull request
  or lost call; merges and closes are not bounded, nor are late requests.
- `CompositionFlow`: one integration with up to two revisions, two operations
  (one supersedes or refreshes the other), two servers that are interchangeable,
  and one event of what may go wrong.
- `ReleaseFlow`: two repositories, for a candidate that is half advanced; two
  operations, a candidate and its promotion or two candidates; one push and one
  event.
- `RegistryObservation`: a blob, a manifest, an index and a signature with its
  own blob, one tag, two observations, so that an older report meets a newer one.
  Two changes: an object or tag that changes and changes back, or a change and a
  crash. `Timeout` and `Window` are 0 ticks with a clock of 1: within the tick
  is in time, after it is late.
- `Retention`: two images, a floor of 1 for the code's 10 and `keep_last` below and
  above it. `MaxWork` weighs requests and events: two deliveries and one other
  thing, or four other things; what an operation does once admitted is free.
  `retention_current` finds its counterexample with less.

### Fairness

The runs that check a `~>` property run under a fair specification; fairness adds
no step, so the safety properties of those runs are those of the plain one.

- `worker`: time passes, and workers of each capability keep polling
  (the workers' loop in `cmd/worker`). A poll is only assumed to do what every
  claim does, recover due jobs; no worker is assumed to take, start or report
  anything.
- `supervisor`: the loop and the cleanup of a watchdog that was not killed go on,
  and the daemon finishes what it accepted. Nothing is assumed of the
  supervisor, and `DeadlineReaps` excepts a killed watchdog.
- `check_publication`: the service loops tick, leases end, time passes, and the
  provider processes the requests of callers that still wait. Workers need do
  nothing.
- `executor`: some server's loop ticks (`RunWorker`, every 2 s), leases
  end and operations age, and the provider processes requests whose caller is
  still waiting. It need not process the others.
- `native_delivery`: the service loops tick, leases end and time passes. Neither
  workers nor the registry need do anything.
- `auth_enrolment`: time passes, the server answers what a client sent, the client's
  loop goes on until its deadline, and somebody goes on using the store, since
  expired codes are pruned by the next update and not by a timer.
- The other runs check safety only. Whether a proposal is merged is up to people;
  a latched send that was never made holds the reservation for good, and a saved
  intent of ADVANCE_MAIN whose server died holds its operation (both are hazards
  without a property).

## 4. Proofs

Part 1 of `WorkerExecutionProofs` proves about `WorkerExecution`, for every set of keys, workers and capabilities,
every budget, lease length and clock bound, from `WorkerAssumption` alone: type
correctness, the safety invariants of the worker run, six properties that are
proved only (`CancellationSticks`, `QuarantineStrandsNothing`,
`ExpiredLeaseIsDead`, `OperationTellsTruth`, `AttemptsLeftInQueue`,
`SettledIsFinal`), and the refinement `Spec => Lifecycle!Spec`.

None of the safety invariants is inductive. `Inv` joins:

- `UniqueKeys`: one job per request key, without which the refinement mapping
  could change its mind about the job that stands for a key;
- `JobsOK`: the fence within the budget, and strictly below it in the queue; a
  cancelled job is not live; the operation is the exact mirror of its job;
- `AttemptsOK`: an attempt carries a fence the job has had; one with an older
  fence is EXPIRED and has no report; the one with the current fence agrees with
  the job's status. This is the heart of fencing: `StartedAtMostOnce` and
  `VerdictStands` need it to know that a late call is about a dead attempt;
- `UniqueFences` and `HeldByAttempt`: the current attempt exists and is unique;
- `StartsOK`: an accepted start carries the fence the job still has, and the job
  has not been in the queue since. A second start would need a second claim, a
  claim needs the queue, and no started job goes back there;
- `QuarantineStrandsNothing`, which is inductive with the rest.

Each action has a lemma that it preserves `Inv`. The actions that walk all jobs
(claim, restore) are handled by lemmas about one recovered job and one recovered
attempt, so that the walk is a pointwise argument. The action properties and the
refinement follow from `Inv` and the same per-action lemmas.

Part 2 shows `CheckSpec => Spec`: whatever the publication does
to a job is a step of the worker protocol (a recovery, which `Next` has) or no step
of it. It needs one invariant, that a Tick under way is about a job that exists.
The safety theorems above therefore hold of the composition;
`NoSecondStartWithChecks` states the first of them.

On top of `Inv` the module proves the three safety properties of the run,
`CreatedOnce`, `ConclusionIsTrue` and `StoredIsValid`, from `WorkerAssumption` and
`CheckAssumption`. `CheckInv` joins:

- `Honest`: what a payload says is true of the job, in a form no step of the
  protocol can undo (a terminal job is final, a cancellation sticks, no success is
  accepted at or after the deadline). It holds of what is stored, carried by a Tick,
  on the wire and shown, so a late request shows nothing untrue. `JobKept` is what
  the stability rests on, proved action by action from `Inv`; `DeadlineOK`, that
  `DEADLINE_EXCEEDED` is set at the deadline only, is needed with it;
- `OneCreation`: the permission to create a check is in the phase
  `CHECK_CREATE_READY`, with one Tick about to send, in one request on the wire, or
  used, and in one of these places only;
- `TickCarries` and `RequestOK`: a Tick that still holds the lease carries the stored
  intent, and a request with a sender is the one that sender waits for; without them
  an answer could confirm another intent than the one it was given for;
- `CheckOK`: what phase, intent, observation and status allow each other.

Part 3 proves `ArtifactStaysValid` of `NativeDelivery`, for any number of deliveries,
standalone requests, processes and mishaps, from `WorkerAssumption` and
`NativeAssumption`. The invariant of part 1 is not kept here: a reconciled
publication succeeds without a report. What the protocol's actions still leave
alone is `JobsStay`, proved action by action: a terminal job and its attempts never
change, a job keeps its key and capability, and no protocol step lets a
publication succeed. `NativeInv` joins:

- `LinksOK`: a delivery links jobs that exist, the publication one that publishes, and
  a job of a delivery was queued for one that exists;
- `CopiesOK`: a Tick works on a copy of its delivery while others change it. The copy
  it may still store links the same jobs, or saving it would unlink a publication
  whose artifact is admitted, and the artifact would cease to be valid;
- `CallsOK`: what an admission read outside the transaction is in the registry, which
  only grows;
- `AdmissionsOK`: a publication has one artifact if it SUCCEEDED and none otherwise,
  and each artifact has its evidence and its build's. An admission needs a status
  that is not terminal, so reports and reconciliations of one publication exclude
  each other. The build's evidence must be part of the invariant: it is checked at
  the admission and stays because the build's job is terminal by then.

The invariant speaks of the evidence, which a quarantined product keeps; the theorem
speaks of the code's two predicates, which refuse such a product.

`DeviceAuthProofs` proves for every set of people, products, codes, configurations
and every lifetime: type correctness, `OneAgentPerCode`, `AgentWithinApproval`
and, in no run, `RevokedTokenIsDead` and `FlowLogsInOnce`. The invariant
`AuthInv` joins the types, `Enrolment` and `FlowsUnused`. `Enrolment` is
the chain a token rests on: a code that lives was asked for, an approved code has
its approval on record with the same products, an agent was issued for a code that
is no longer there to be exchanged. Without the last part nothing excludes a second
exchange; without the middle one an agent's products could be anybody's.
`FlowsUnused` says that a flow that is pending or in a callback under way has not
logged anybody in, which the single deletion of the flow before the provider is
asked gives and the second update of the callback needs.

`OperationExecutorProofs` proves, for every number of operations, servers,
reservations, digests and mishaps, and from `ExecutorAssumption` alone, the four
safety properties of the executor run: `DispatchedOnce`, `HoldIsQuiet`,
`AppliedWasSeen` and the action property `NoChangeIsLost`. The difficulty is
that a Tick decides on a copy it took at its claim and that a request outlives its
caller. The invariant `Inv /\ OwnCopy` therefore speaks of three places at
once:

- of every operation (`OpOK`, `BuildOK`, `ProposalOK`): phases only go forward
  (`Rank`); what it records of the provider has happened there; a build that runs
  and a proposal that could still be merged are shown by the operation's phase
  and intent, which is what a reservation looks at;
- of every Tick (`GoodTick`): while its server owns the operation, its copy is
  the stored operation, and what it decided on that copy takes the operation
  forward (`DecisionOK`); a Tick that lost its lease may hold any old copy, and
  the lemma on save shows that it is refused;
- of every request on the wire (`RequestOK`): a dispatch is the only one of its
  operation (`DispatchAlone`) and its intent is still recorded; a write is pinned
  to the state the operation first planned against.

`OwnCopy` says that a Tick works on a copy its own server claimed, without which a
second server's save could not be told from the owner's. `HoldIsQuiet` needs that
save looks at the hold in the same transaction that stores the intent: the lemma
on save is where the two exclude each other.

`ReleaseFlowProofs` proves, for every set of servers, clients and repositories and
every number of operations, pushes and events, from `ReleaseAssumption` alone, all
four properties of the release run: `BuiltFromMain`, `NoPushIsLost`,
`OneCandidatePerKey` and the action property `ReleasedWasVerified`. `Inv` joins:

- `OperationOK`: a main that an operation says it has advanced contains its
  source; all of them are advanced before a child is queued, and stay so in
  `SUCCEEDED`; the composed source is a function of the base, so that composing it
  a second time changes nothing; nobody owns what is over;
- `PromotionOK` and `KeysOK`: a promotion has the source of a candidate that
  succeeded, one promotion per candidate, one candidate from main;
- `TickOK`: what a server has looked at outside of any transaction still holds
  when it acts on it. That is so because main only grows (`MainGrows`), however
  late an update arrives, and because what others rely on of an operation never
  changes (`Kept`); it is the reason why a read of main may be believed later;
- `RequestOK`, `ReleaseOK`, `PushesOK`: the same for a request that has observed
  main, for recorded releases and for what people pushed.

`ReleasedWasVerified` then follows from the one transaction that records a
release: its promotion is owned, hence not over, hence no earlier release is
of the same candidate.

`CompositionFlowProofs` proves, for every set of servers and integrations and every
number of operations and events, from `CompositionAssumption` alone, the three
properties of the composition run. `Inv` joins:

- `PostedOK`: a write that was sent, of a retained ref or of the generated branch,
  is `Settled` (its effect is recorded, or the operation is over), or it is the
  next target of its operation while the intent is open. The next target is a
  function of the plan and of what is retained, so no later Tick can mistake it:
  a Tick sends only under a closed intent, and then its target is neither. That
  gives `WrittenOnce`;
- `CopyOK`: as long as a server owns an operation its copy is the stored
  operation, and what it looks for or admits is the next target under an open
  intent. It gives `ProgressIsKept`, since a save is refused to anybody else, and
  it is why closing the intent settles exactly the write it was opened for;
- `SelectionOK` and `RefreshOK`: the environment's operation descends from the
  operation of the last choice and selects the same integrations. A refresh that
  `checkSelection` admits was read of the selection that is still there.

`WorkerSupervisorProofs` proves, for every number of jobs, attempts, crashes and
daemon events, from the assumptions of `WorkerSupervisor` alone, `DoneMeansGone`,
`AloneOnHost` and, in no run, `JournalIsTrue`: a journal that says a container was
removed, or never there, is right for good. The daemon executes a create long after
its caller died, so what a search finds must still hold when it is recorded. `Inv`
joins:

- `DaemonOK`: a container comes from the one create that was sent for it, and while
  that create is pending there is no container, nor was there one;
- `ResourceOK` and `JournalOK`: an id in a journal means that the container was made;
  `REMOVED` that it was made and is gone, `NONE` that it neither was made nor is
  pending. If an id did not mean "made", a late create could undo a `REMOVED`;
- `SupervisorOK`: the intent that is about to be acted on was not acted on before, and
  a recovery has finished each journal before the one it is at. `AloneOnHost` rests
  on the second part;
- `CleanupOK`: a cleanup that is past its search works on a container that was made,
  carries ids that are true and records as removed only what is gone.

`CandidateDevProofs` proves, for every set of components and layouts and any number
of captures, generations, verifications and mishaps, from `CandidateDevAssumption`
alone, all four properties of the candidate Dev run: `ProposedOnce`,
`AppliedWasApproved`, `ReleaseIsClean` and the action property `ForeignImageKept`.
`Inv` joins:

- `IntentOK` and `ProposalOK`: the saved intent precedes the call and the call its
  requests; of each leader at most one request is on the wire, and it is the next
  thing that can happen to its proposal. A second request for a branch would need
  an intent that is not there twice;
- `RestorationOK`: a plan starts from blobs that name the captured image or the
  candidate's (`PlanOK`); whatever was started in an earlier epoch is among the
  effects of a generation. The second part is why the reconciliation of the latest
  generation looks at everything that could still land;
- `EpochOK`, `TickOK`: an epoch belongs to one generation, so a fence that holds
  is the latest generation's; a settlement under way is of a plan not yet made;
- `BaselineOK`: the candidate's image was in no file when the baseline was captured
  and comes into one by a merge only;
- `ReleaseOK`: from the moment a release has observed the effects of the latest
  generation, everything stays `Clean`: each started leader is closed, merged or
  was reopened by people, and nothing is in flight. Between the observation and
  the commit no lease protects it; it holds because all sends of a generation that
  is applied are used up (`CleanStays` and the lemma on each action).

`ForeignImageKept` needs `PlanOK` and the same of the baseline: only then do the two
images of every proposal (`ProposedImages`) differ and are the captured one and the
candidate's.

`RetentionProofs` proves, for every set of images, every floor and limit and any
number of deliveries, publications, holds and events, from `RetentionAssumption`
alone, all four properties of the retention run: `NewestAreKept`,
`UnsettledIsKept`, `WayBackIsKept` and `OriginalIsKept`. What is in the report is
one matter, what may still happen outside another; `Inv` relates the two:

- `BaseOK`: a file never returns to the head that a write was made for. An operation
  that ended well because the image was already there, while its own write was
  unanswered, has a write that can no longer land; without it the report, to which
  that operation is settled, would miss an image;
- `WriteOK` and `ImageKnown`: which writes each phase and each outcome leave
  possible, and that an operation without an image has none;
- `HoldOK`: a hold is settled with its restoration only when nothing that was
  proposed for it can still be merged. The baseline and the restoration cease to be
  roots at that moment;
- `ReplacedOK`: what was replaced is the frozen read of some delivery.

`NewestAreKept` needs counting over finite histories (`HistoryIs`), and
`WayBackIsKept` that at most one release comes after the last but one.

Its part 2 proves, for every set of objects, tags and limits, every order in which
objects come and go while they are read, and any number of observations, failed
requests, deaths and changes, from `RegistryAssumption` alone, all three properties
of the registry run: `CompleteIsTrue`, `CurrentIsCurrent` and `ClosureIsKept`.
`RegistryInv` says what a scan knows before it has ended:

- `Thorough`: a scan that nothing blocks has visited every image it has read, and
  what a visited image lists, refers to or is referred to by was read, or is on the
  stack. Nothing is skipped because it was visited before: a visit that failed
  left a blocker, so what was visited was read;
- `AgainOK` and `RereadOK`: a tag that has not moved since the second look began is
  still to be resolved or leads to what was read; of an object that is no longer to
  be listed again, every referrer that was there all the time is in the list. At
  the end the stack and the list are empty, and the report is `Whole`;
- `SeenSince`: what a scan has was in the registry at the start in its journal or
  later. The start is kept across restarts, so it may only be too early;
- `GraphOK`: both are kept in the journal and in the inventories while everything
  else changes, because they speak of the past and of the roots of a job, which
  never change.

The properties speak of what is reachable. What is reachable is the least set
that holds the beginnings and is closed under the edges (`Reachable`), so that a
closed set of objects read bounds it (`ReachableIn`) without an induction over the
depth. `Within`, which counts the depth, is used only to refuse reports.

Model-checked only: all liveness properties, since fairness and ENABLED are outside
the prover's reach. Every safety invariant and every action property of the passing
runs is proved.

## 5. Assumptions and limits

- `Store.Update` is atomic and serialised. The persistence layer itself is not
  modelled.
- The GitOps file does not return byte for byte to an earlier state while a write
  pinned to that state is still on the wire. If it did, the provider would accept
  the late write.
- In `OperationExecutor` a closed pull request stays closed: `docs/DEV_RESERVATION.md` excludes externally
  reopened ones from what a reservation protects against. `CandidateDev` has them
  reopened, and its properties say where that is excepted.
- In `CandidateDev` proposals are merged by merge commits, nobody pushes to or
  deletes a proposal's branch, the main branch is not rewritten, no two components
  share a file, and the clocks of provider and server agree to the second. A file
  edited away from an image and back keeps a different version.
- A restore takes the last state of an instance that has stopped and puts it into
  an empty one. Its workers and the requests on the wire go on.
- Calls to the provider fail at most `MaxMishaps` times. A GitOps write that fails
  every time is retried past the 45 minute limit, because that path saves with
  `advance` and not `retry` (`worker.go:511`); `OperationsSettle` says nothing
  about it. It is listed as a hazard.
- An operation that recovered from an uncertain write keeps its phase
  `APPLY_UNCERTAIN` when it ends and goes on blocking reservations
  (`dev_reservation.go:182`). That is safe and not live; it is listed as a hazard.
- In `CompositionFlow` others may move a retained ref or a generated branch, which is
  an event; in `ReleaseFlow` nobody rewrites main. One product, one
  environment, one blocking scenario.
- In `Retention` FAILED stands for CANCELLED too, time is the order of
  publications, and a `PublishedAt` is unique. Artifact pins and compositions add
  roots of the same kind and are left out.
- In `RegistryObservation` a digest's content never changes and a GET answers for
  the instant it is processed; sizes, pages and media types only add reasons to
  be incomplete. An object is of the kind that what lists or refers to it expects:
  the scanner refuses any other with a blocker.
- Abstracted: recipes, credentials and token formats; what runs inside a
  container; how sources are fetched and images verified; rendering of YAML;
  formats of archives and API payloads.

Not modelled:

- Intelligence: its hazard, a paid call that must not be repeated, has the
  intent-then-lookup shape of `OperationExecutor`; the rest is prompts, parsing and
  patches, data that a bounded instance says nothing about.
- Persistence: `Store.Update` is the atomic step that all models are made of.
- Git scheduler and inventory but for the refresh of compositions: read-only
  inspections whose results are stored as seen.
- The publisher process and its spool (`publishrunner`, `artifactspool`): one
  external push in `NativeDelivery` and `Retention`.
- The candidate's own runtime verification (`dev_runtime.go`), conflict resolution
  by an agent, and most single-transaction commands of the work graph.
- Transport and the web UI, which are I/O over the service.

## 6. Plan

1. Liveness of compositions and candidates under fair servers, with the open
   intents excepted.
2. The publisher and its spool; the paid call of `intelligence_worker.go`.
3. `dev_runtime.go` next to `CandidateDev`.
