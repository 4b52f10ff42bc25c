------------------------------ MODULE Retention ------------------------------
(***************************************************************************)
(* The retention report (domain/retention.go, dev_baseline_retention.go    *)
(* and the retention part of dev_restoration.go): which images a product   *)
(* must keep, computed from the records that deliveries leave behind.      *)
(*                                                                         *)
(* The report is pure; what can go wrong is that the records it reads are  *)
(* written by actors that fail, race and answer late.  So the module has   *)
(* those actors, each reduced to the records it leaves: deliveries of a    *)
(* GitHub Actions product (built, reused, existing, candidate, promoted),  *)
(* publications of a native product that shares the physical repository,   *)
(* and the candidate Dev holds of that product.                            *)
(*                                                                         *)
(* Time is the order of publications: `clock' advances with each of them,  *)
(* which is all that the report's chronology compares.                     *)
(***************************************************************************)
EXTENDS Integers, Sequences, FiniteSets, FiniteSetsExt

CONSTANTS
    Images,       \* immutable images of the shared repository
    First,        \* the image every environment holds at the start
    None,         \* no image
    KeepFloor,    \* the least number of newest images kept: 10 in the code
    KeepLimits,   \* the values keep_last is configured to
    MaxWork       \* bound: requests and outside events, weighed by Work

ASSUME RetentionAssumption ==
    /\ First \in Images /\ None \notin Images
    /\ KeepFloor \in Nat \ {0} /\ {0} \subseteq KeepLimits /\ KeepLimits \subseteq Nat
    /\ MaxWork \in Nat

VARIABLES
    clock,      \* number of publications so far
    file,       \* environment -> image and head of its GitOps file
    ops,        \* the operations, in the order they were admitted
    runs,       \* the successful build runs the service has recorded
    rows,       \* DeliveryArtifacts of the GitHub Actions product
    jobs,       \* native publications, each with its build receipt
    observed,   \* operations with a healthy runtime observation
    snapshots,  \* <<product, image>> the runtime observer has seen
    releases,   \* recorded releases, oldest first
    policy,     \* configured keep_last
    desired,    \* operation the production environment selects, or 0
    holds,      \* candidate Dev reservations
    events,     \* budget used
    replaced    \* history: images that a delivery of the service replaced

vars == <<clock, file, ops, runs, rows, jobs, observed, snapshots, releases,
          policy, desired, holds, events, replaced>>

Products == {"actions", "native"}

Envs == {"DEV", "PROD", "CANDIDATE"}

EnvOf(kind) ==
    CASE kind \in {"BUILD", "EXISTING"} -> "DEV"
      [] kind \in {"RELEASE", "PROMOTION"} -> "PROD"
      [] kind \in {"ACTIVATION", "RESTORATION"} -> "CANDIDATE"

ProductOf(env) == IF env = "CANDIDATE" THEN "native" ELSE "actions"

Owner(i) == ProductOf(EnvOf(ops[i].kind))

OpsOf(p) == {i \in DOMAIN ops : Owner(i) = p}

Live(i) == ops[i].status \in {"PENDING", "RUNNING"}

NoBase == [image |-> None, head |-> 0]

\* What has been requested, and what people and others did on their own: with a
\* bound of 8, two deliveries and one other thing, or four other things.
DeliveryCost == 3

NativeCost == 2

EventCost == 2

Work == DeliveryCost * Cardinality(OpsOf("actions"))
            + NativeCost * (Cardinality(OpsOf("native")) + Len(jobs) + Len(holds))
            + EventCost * events

Event ==
    /\ Work + EventCost <= MaxWork
    /\ events' = events + 1

Init ==
    /\ clock = 0 /\ events = 0 /\ desired = 0
    /\ file = [e \in Envs |-> [image |-> First, head |-> 0]]
    /\ ops = <<>> /\ jobs = <<>> /\ holds = <<>> /\ releases = <<>>
    /\ runs = {} /\ rows = {} /\ observed = {} /\ snapshots = {} /\ replaced = {}
    /\ policy = 0

-----------------------------------------------------------------------------
(* The report.                                                             *)

\* chronology: when the build or publication that a row carries was first
\* reported by the provider.  A row without a run (a reused or missing image)
\* and a reconciled publication have none.
BuildTimes(a) ==
    {r.at : r \in {r \in runs : a.run /\ r.op = a.origin /\ r.image = a.image}}

\* A publication that was reported and admitted in one transaction.
Admitted(j) == jobs[j].status = "SUCCEEDED" /\ ~jobs[j].reconciled

PublicationTimes(p, x) ==
    IF p = "actions"
    THEN UNION {BuildTimes(a) : a \in {a \in rows : a.image = x}}
    ELSE {jobs[j].at : j \in {j \in DOMAIN jobs : Admitted(j) /\ jobs[j].image = x}}

Recorded(p) ==
    IF p = "actions"
    THEN {a.image : a \in rows}
    ELSE {jobs[j].image : j \in {j \in DOMAIN jobs : jobs[j].status = "SUCCEEDED"}}

Published(p) == {x \in Recorded(p) : PublicationTimes(p, x) # {}}

\* Mutant: the latest publication counts.
LatestPublication(p, x) == Max(PublicationTimes(p, x))

\* An image rebuilt or deployed again keeps the time of its first publication.
PublishedAt(p, x) == Min(PublicationTimes(p, x))

EffectiveKeepLast == IF policy > KeepFloor THEN policy ELSE KeepFloor

NewestImages(p) ==
    LET history == Published(p)
        at      == [x \in history |-> PublishedAt(p, x)]
    IN  {x \in history : Cardinality({y \in history : at[y] > at[x]}) < EffectiveKeepLast}

UnknownChronology(p) ==
    IF p = "actions"
    THEN {a.image : a \in {a \in rows : BuildTimes(a) = {}}}
    ELSE {jobs[j].image : j \in {j \in DOMAIN jobs : jobs[j].status = "SUCCEEDED" /\ jobs[j].reconciled}}

Reconciled(i) == i \in observed /\ ops[i].write = "landed"

\* Mutant: an operation that has ended owes nothing.
EndedIsSettled(i) == FALSE

\* FAILED stands for CANCELLED too: the report treats them alike.  Either was
\* claimed before it ended, so its external effect is always possible.
UncertainIntent(i) == ops[i].status = "FAILED" /\ ~Reconciled(i)

\* The image of a delivery is a root while it runs, when it ended with an
\* outcome nobody knows, when it left a pull request, and when it is a release
\* candidate's: candidates are never settled.
OperationRoots(p) ==
    {ops[i].image : i \in {i \in OpsOf(p) :
        ops[i].kind # "RESTORATION" /\ (Live(i) \/ UncertainIntent(i) \/ ops[i].pr \/ ops[i].kind = "RELEASE")}}

\* Mutant: the read counts while the operation runs.
ObservedWhileLive(p) ==
    {ops[i].base.image : i \in {i \in OpsOf(p) : ops[i].kind # "RESTORATION" /\ Live(i)}}

\* Every frozen GitOps read stays a root whatever became of its operation.
GitOpsObserved(p) ==
    {ops[i].base.image : i \in {i \in OpsOf(p) : ops[i].kind # "RESTORATION"}}

\* A receipt that was built or pushed and is not admitted history.
PublicationIntents(p) ==
    {jobs[j].image : j \in {j \in DOMAIN jobs : p = "native" /\ ~Admitted(j)}}

Activated(h) == \E i \in DOMAIN ops : ops[i].kind = "ACTIVATION" /\ ops[i].hold = h

\* Mutant: the receipt of any hold of the environment settles it.
SettledByAnyReceipt(h) == \E g \in DOMAIN holds : holds[g].state # "HELD"

\* Only the release receipt of this very hold settles its baseline: after a
\* verified restoration, or a plain release when nothing was activated.
baselineHoldSettled(h) ==
    \/ holds[h].state = "RESTORED"
    \/ holds[h].state = "RELEASED" /\ ~Activated(h)

baselineRoots(p) ==
    {holds[h].original : h \in {h \in DOMAIN holds : p = "native" /\ ~baselineHoldSettled(h)}}

restorationRoots(p) ==
    UNION {{ops[i].image, ops[i].base.image} : i \in {i \in OpsOf(p) :
               ops[i].kind = "RESTORATION" /\ holds[ops[i].hold].state # "RESTORED"}}

\* What the environment selects, and what the runtime was ever seen to run.
EnvironmentRoots(p) ==
    {ops[i].image : i \in {i \in OpsOf(p) : i = desired \/ i \in observed}}
        \union {x \in Images : <<p, x>> \in snapshots}

Proven(n) ==
    /\ releases[n].op # 0
    /\ ops[releases[n].op].status = "SUCCEEDED"
    /\ releases[n].op \in observed

\* Proven releases keep the current image and KeepPrevious = 1 before it.
ProvenReleases(p) ==
    {releases[n].image : n \in {n \in DOMAIN releases : p = "actions" /\ Proven(n)
        /\ Cardinality({k \in DOMAIN releases : k > n /\ Proven(k)}) <= 1}}

UnprovenReleases(p) ==
    {releases[n].image : n \in {n \in DOMAIN releases : p = "actions" /\ ~Proven(n)}}

ReleaseRoots(p) == ProvenReleases(p) \union UnprovenReleases(p)

OwnRoots(p) ==
    (NewestImages(p) \union UnknownChronology(p) \union OperationRoots(p)
        \union GitOpsObserved(p) \union PublicationIntents(p) \union baselineRoots(p)
        \union restorationRoots(p) \union EnvironmentRoots(p) \union ReleaseRoots(p)) \ {None}

\* EvaluateRetention: the products share the repository, so each report also
\* carries the roots of the other.
SharedRoots(p) == UNION {OwnRoots(q) : q \in Products \ {p}}

Protected(p) == OwnRoots(p) \union SharedRoots(p)

-----------------------------------------------------------------------------
(* Deliveries of the GitHub Actions product.                               *)

\* image: ExpectedDigest, ExistingArtifact and Artifact, which agree once set;
\* origin, run: the operation and run of the BuildRequest it carries; base:
\* GitOpsBase; made, at: what the provider built and when; write: its GitOps
\* write at the provider; hold: the reservation, or a promotion's candidate.
NewOp(kind, image, origin, run, hold) ==
    [kind |-> kind, status |-> "PENDING", phase |-> "PREFLIGHT", image |-> image,
     origin |-> origin, run |-> run, base |-> NoBase, made |-> None, at |-> 0,
     write |-> "none", pr |-> FALSE, hold |-> hold]

Admit(op) ==
    /\ Work + (IF ProductOf(EnvOf(op.kind)) = "native" THEN NativeCost ELSE DeliveryCost) <= MaxWork
    /\ ops' = Append(ops, op)

\* The report reads no phase, so an operation that has ended needs none.
End(i, status) ==
    ops' = [ops EXCEPT ![i].status = status, ![i].phase = "ENDED", ![i].made = None, ![i].at = 0]

Rest == <<jobs, observed, snapshots, releases, policy, desired, holds, events>>

\* One deployment at a time for an environment and component.
NoneActive == ~\E i \in DOMAIN ops : ops[i].kind \in {"BUILD", "EXISTING"} /\ Live(i)

deliver(kind) ==
    /\ kind = "BUILD" => NoneActive
    /\ Admit(NewOp(kind, None, Len(ops) + 1, FALSE, 0))
    /\ UNCHANGED <<clock, file, runs, rows, replaced, Rest>>

\* validatedExistingArtifact: only a row with its recorded successful run.
deployExisting(a) ==
    /\ NoneActive
    /\ BuildTimes(a) # {}
    /\ Admit(NewOp("EXISTING", a.image, a.origin, TRUE, 0))
    /\ UNCHANGED <<clock, file, runs, rows, replaced, Rest>>

\* A candidate is promoted once; the production environment then selects it.
promote(c) ==
    /\ ops[c].kind = "RELEASE" /\ ops[c].status = "SUCCEEDED"
    /\ \A i \in DOMAIN ops : ops[i].kind = "PROMOTION" => ops[i].hold # c
    /\ Admit(NewOp("PROMOTION", ops[c].image, c, TRUE, c))
    /\ desired' = Len(ops) + 1
    /\ UNCHANGED <<clock, file, runs, rows, jobs, observed, snapshots, releases, policy, holds, events, replaced>>

\* The GitOps file is read and frozen first.  A build may then expect the image
\* that an earlier run of the same source made; an existing image is inspected;
\* a promotion is inspected, or built again to refresh its registry proof.
preflight(i) ==
    LET read == [ops[i] EXCEPT !.status = "RUNNING", !.base = file[EnvOf(ops[i].kind)]] IN
    /\ Live(i) /\ ops[i].phase = "PREFLIGHT" /\ ops[i].kind \in {"BUILD", "RELEASE", "EXISTING", "PROMOTION"}
    /\ \/ /\ ops[i].kind \in {"BUILD", "RELEASE"}
          /\ \E x \in {None} \union {a.image : a \in {a \in rows : a.run}} :
                ops' = [ops EXCEPT ![i] = [read EXCEPT !.phase = "BUILD_LOOKUP", !.image = x]]
       \/ /\ ops[i].kind \in {"EXISTING", "PROMOTION"}
          /\ ops' = [ops EXCEPT ![i] = [read EXCEPT !.phase = "INSPECT"]]
       \/ /\ ops[i].kind = "PROMOTION"
          /\ ops' = [ops EXCEPT ![i] = [read EXCEPT !.phase = "BUILD_LOOKUP", !.origin = i, !.run = FALSE]]
    /\ UNCHANGED <<clock, file, runs, rows, replaced, Rest>>

\* An image of the same source with known provenance is used without a build;
\* the row that is recorded then carries no run.
reuse(i, a) ==
    /\ Live(i) /\ ops[i].phase = "PREFLIGHT" /\ ops[i].kind = "BUILD" /\ a.run
    /\ ops' = [ops EXCEPT ![i].status = "RUNNING", ![i].phase = "APPLY", ![i].image = a.image,
                          ![i].base = file["DEV"]]
    /\ rows' = rows \union {[image |-> a.image, origin |-> i, run |-> FALSE]}
    /\ UNCHANGED <<clock, file, runs, replaced, Rest>>

\* External: the workflow that was dispatched builds.  A build that ends after
\* its operation leaves no record, so it is left out.
Builds(i, x) ==
    /\ Live(i) /\ ops[i].phase = "BUILD_LOOKUP" /\ ops[i].made = None
    /\ clock' = clock + 1
    /\ ops' = [ops EXCEPT ![i].made = x, ![i].at = clock + 1]
    /\ UNCHANGED <<file, runs, rows, replaced, Rest>>

lookup(i) ==
    /\ Live(i) /\ ops[i].phase = "BUILD_LOOKUP" /\ ops[i].made # None
    /\ runs' = runs \union {[op |-> i, image |-> ops[i].made, at |-> ops[i].at]}
    /\ IF ops[i].image \in {None, ops[i].made}
       THEN ops' = [ops EXCEPT ![i].phase = "INSPECT", ![i].image = ops[i].made, ![i].run = TRUE,
                               ![i].made = None, ![i].at = 0]
       ELSE End(i, "FAILED")
    /\ UNCHANGED <<clock, file, rows, replaced, Rest>>

inspect(i) ==
    /\ Live(i) /\ ops[i].phase = "INSPECT" /\ Owner(i) = "actions"
    /\ ops' = [ops EXCEPT ![i].phase = "APPLY"]
    /\ rows' = rows \union {[image |-> ops[i].image, origin |-> ops[i].origin, run |-> ops[i].run]}
    /\ UNCHANGED <<clock, file, runs, replaced, Rest>>

\* recordArtifactObservation: the registry does not have the image (any more).
missing(i) ==
    /\ Live(i) /\ ops[i].phase = "INSPECT" /\ Owner(i) = "actions"
    /\ End(i, "FAILED")
    /\ rows' = rows \union {[image |-> ops[i].image, origin |-> i, run |-> FALSE]}
    /\ Event
    /\ UNCHANGED <<clock, file, runs, replaced, jobs, observed, snapshots, releases, policy, desired, holds>>

Applied(i) ==
    IF ops[i].kind = "PROMOTION" THEN ops' = [ops EXCEPT ![i].phase = "WAIT_RUNTIME"]
    ELSE End(i, "SUCCEEDED")

\* The file is read again: it may hold the image already; it may have changed
\* since the frozen read (a promotion compares only the blob); otherwise the
\* intent is saved and the write is sent.
apply(i) ==
    LET now == file[EnvOf(ops[i].kind)]
        moved == IF ops[i].kind = "PROMOTION" THEN now.image # ops[i].base.image
                                              ELSE now # ops[i].base
    IN
    /\ Live(i) /\ ops[i].phase \in {"APPLY", "APPLY_UNCERTAIN"}
    /\ \/ ops[i].kind = "RELEASE" /\ End(i, "SUCCEEDED")
       \/ ops[i].kind # "RELEASE" /\ now.image = ops[i].image /\ Applied(i)
       \/ ops[i].kind # "RELEASE" /\ now.image # ops[i].image /\ moved /\ End(i, "FAILED")
       \/ /\ ops[i].kind # "RELEASE" /\ now.image # ops[i].image /\ ~moved /\ ops[i].write = "none"
          /\ ops' = [ops EXCEPT ![i].phase = "APPLY_UNCERTAIN", ![i].write = "sent", ![i].base = now]
    /\ UNCHANGED <<clock, file, runs, rows, replaced, Rest>>

\* In PR mode the write opens a proposal.
propose(i) ==
    /\ Live(i) /\ ops[i].phase = "APPLY_UNCERTAIN" /\ ops[i].write = "sent"
    /\ ops' = [ops EXCEPT ![i].phase = "WAIT_GITOPS_PR", ![i].write = "open", ![i].pr = TRUE]
    /\ UNCHANGED <<clock, file, runs, rows, replaced, Rest>>

\* The answer to the write, or the proposal's fate, comes back.
answer(i) ==
    /\ Live(i) /\ ops[i].phase \in {"APPLY_UNCERTAIN", "WAIT_GITOPS_PR"}
    /\ \/ ops[i].write = "landed" /\ Applied(i)
       \/ ops[i].write = "closed" /\ End(i, "FAILED")
    /\ UNCHANGED <<clock, file, runs, rows, replaced, Rest>>

\* A deadline, a changed target, a superseded selection or a provider's error
\* ends a claimed operation wherever it stands.
fail(i) ==
    /\ ops[i].status = "RUNNING"
    /\ End(i, "FAILED")
    /\ UNCHANGED <<clock, file, runs, rows, replaced, Rest>>

\* External: a write lands only on the head it names; a proposal merges as long
\* as the file it changes is the one it was made for.
CanLand(i) ==
    LET now == file[EnvOf(ops[i].kind)] IN
    \/ ops[i].write = "sent" /\ now = ops[i].base
    \/ ops[i].write = "open" /\ now.image = ops[i].base.image

Lands(i) ==
    LET env == EnvOf(ops[i].kind) IN
    /\ CanLand(i)
    /\ file' = [file EXCEPT ![env] = [image |-> ops[i].image, head |-> @.head + 1]]
    /\ replaced' = IF ops[i].kind = "RESTORATION" THEN replaced ELSE replaced \union {file[env].image}
    /\ ops' = [ops EXCEPT ![i].write = "landed"]
    /\ UNCHANGED <<clock, runs, rows, Rest>>

Closes(i) ==
    /\ ops[i].write = "open"
    /\ ops' = [ops EXCEPT ![i].write = "closed"]
    /\ UNCHANGED <<clock, file, runs, rows, replaced, Rest>>

-----------------------------------------------------------------------------
(* Native publications, holds, evidence and people.                        *)

publish(x) ==
    /\ Work + NativeCost <= MaxWork
    /\ jobs' = Append(jobs, [image |-> x, pushed |-> FALSE, at |-> 0, reconciled |-> FALSE, status |-> "QUEUED"])
    /\ UNCHANGED <<clock, file, ops, runs, rows, observed, snapshots, releases, policy, desired, holds, events, replaced>>

\* External: the upload reaches the registry, perhaps after its lease ended.
Pushes(j) ==
    /\ ~jobs[j].pushed
    /\ jobs' = [jobs EXCEPT ![j].pushed = TRUE]
    /\ UNCHANGED <<clock, file, ops, runs, rows, observed, snapshots, releases, policy, desired, holds, events, replaced>>

\* Accepting the report and admitting the artifact is one transaction.
report(j) ==
    /\ jobs[j].status = "QUEUED" /\ jobs[j].pushed
    /\ clock' = clock + 1
    /\ jobs' = [jobs EXCEPT ![j].status = "SUCCEEDED", ![j].at = clock + 1]
    /\ UNCHANGED <<file, ops, runs, rows, observed, snapshots, releases, policy, desired, holds, events, replaced>>

\* The job is cancelled, or its lease expires and its outcome is unknown until
\* someone finds the image in the registry.
publicationEnds(j) ==
    /\ \/ /\ jobs[j].status = "QUEUED"
          /\ \E s \in {"CANCELLED", "RECONCILIATION_REQUIRED"} : jobs' = [jobs EXCEPT ![j].status = s]
       \/ /\ jobs[j].status = "RECONCILIATION_REQUIRED" /\ jobs[j].pushed
          /\ jobs' = [jobs EXCEPT ![j].status = "SUCCEEDED", ![j].reconciled = TRUE]
    /\ UNCHANGED <<clock, file, ops, runs, rows, observed, snapshots, releases, policy, desired, holds, events, replaced>>

\* A hold is taken when no earlier one stands; then its baseline is captured.
reserve ==
    /\ Work + NativeCost <= MaxWork
    /\ \A h \in DOMAIN holds : holds[h].state # "HELD"
    /\ holds' = Append(holds, [original |-> None, state |-> "HELD"])
    /\ UNCHANGED <<clock, file, ops, runs, rows, jobs, observed, snapshots, releases, policy, desired, events, replaced>>

capture(h) ==
    /\ holds[h].state = "HELD" /\ holds[h].original = None
    /\ holds' = [holds EXCEPT ![h].original = file["CANDIDATE"].image]
    /\ UNCHANGED <<clock, file, ops, runs, rows, jobs, observed, snapshots, releases, policy, desired, events, replaced>>

\* One activation per hold, of an admitted native image; restoring what was
\* there starts once nothing that was proposed for the hold can still be merged.
activate(h, j) ==
    /\ holds[h].state = "HELD" /\ holds[h].original # None /\ ~Activated(h)
    /\ jobs[j].status = "SUCCEEDED"
    /\ Admit(NewOp("ACTIVATION", jobs[j].image, 0, FALSE, h))
    /\ UNCHANGED <<clock, file, runs, rows, replaced, Rest>>

\* reconcileRestorationEffects: every proposal was merged or closed.
EffectsSettled(h) ==
    \A i \in DOMAIN ops : ops[i].hold = h /\ Owner(i) = "native"
                             => ~Live(i) /\ ops[i].write \notin {"sent", "open"}

restore(h) ==
    /\ holds[h].state = "HELD" /\ Activated(h)
    /\ EffectsSettled(h)
    /\ Admit(NewOp("RESTORATION", holds[h].original, 0, FALSE, h))
    /\ UNCHANGED <<clock, file, runs, rows, replaced, Rest>>

\* Both read the file first; an activation only starts from the baseline.
nativePreflight(i) ==
    LET now == file["CANDIDATE"] IN
    /\ Live(i) /\ ops[i].phase = "PREFLIGHT" /\ Owner(i) = "native"
    /\ IF ops[i].kind = "ACTIVATION" /\ now.image # holds[ops[i].hold].original
       THEN End(i, "FAILED")
       ELSE ops' = [ops EXCEPT ![i].status = "RUNNING", ![i].phase = "APPLY", ![i].base = now]
    /\ UNCHANGED <<clock, file, runs, rows, replaced, Rest>>

\* A hold with no activation is released plainly, one with an activation only
\* once a restoration has put the baseline back and nothing is left to merge.
releaseHold(h) ==
    /\ holds[h].state = "HELD"
    /\ \/ ~Activated(h) /\ holds' = [holds EXCEPT ![h].state = "RELEASED"]
       \/ /\ file["CANDIDATE"].image = holds[h].original
          /\ \E i \in DOMAIN ops : ops[i].kind = "RESTORATION" /\ ops[i].hold = h /\ ops[i].status = "SUCCEEDED"
          /\ EffectsSettled(h)
          /\ holds' = [holds EXCEPT ![h].state = "RESTORED"]
    /\ UNCHANGED <<clock, file, ops, runs, rows, jobs, observed, snapshots, releases, policy, desired, events, replaced>>

\* Runtime evidence: an attestation of an applied operation, or what the
\* observer reads of an environment.
recordRuntime(i) ==
    /\ Event
    /\ i \notin observed /\ Owner(i) = "actions"
    /\ ops[i].kind # "RELEASE"
    /\ \/ ops[i].status = "SUCCEEDED"
       \/ ops[i].phase = "WAIT_RUNTIME" /\ i = desired
    /\ observed' = observed \union {i}
    /\ UNCHANGED <<clock, file, ops, runs, rows, jobs, snapshots, releases, policy, desired, holds, replaced>>

observeRuntime(env) ==
    /\ Event
    /\ snapshots' = snapshots \union {<<ProductOf(env), file[env].image>>}
    /\ UNCHANGED <<clock, file, ops, runs, rows, jobs, observed, releases, policy, desired, holds, replaced>>

finishFlowRelease(i) ==
    /\ Live(i) /\ ops[i].phase = "WAIT_RUNTIME" /\ i \in observed
    /\ releases' = Append(releases, [op |-> i, image |-> ops[i].image])
    /\ End(i, "SUCCEEDED")
    /\ UNCHANGED <<clock, file, runs, rows, jobs, observed, snapshots, policy, desired, holds, events, replaced>>

\* record_release: a person reports a release made elsewhere.
recordRelease(x) ==
    /\ Event
    /\ releases' = Append(releases, [op |-> 0, image |-> x])
    /\ UNCHANGED <<clock, file, ops, runs, rows, jobs, observed, snapshots, policy, desired, holds, replaced>>

configureRetention(n) ==
    /\ Event
    /\ policy # n /\ policy' = n
    /\ UNCHANGED <<clock, file, ops, runs, rows, jobs, observed, snapshots, releases, desired, holds, replaced>>

\* External: someone else commits to an environment's file.
ForeignCommit(env, x) ==
    /\ Event
    /\ file' = [file EXCEPT ![env] = [image |-> x, head |-> @.head + 1]]
    /\ UNCHANGED <<clock, ops, runs, rows, jobs, observed, snapshots, releases, policy, desired, holds, replaced>>

Next ==
    \/ \E k \in {"BUILD", "RELEASE"} : deliver(k)
    \/ \E a \in rows : deployExisting(a)
    \/ \E x \in Images : publish(x) \/ recordRelease(x)
    \/ \E i \in DOMAIN ops :
          \/ promote(i) \/ preflight(i) \/ lookup(i) \/ inspect(i) \/ missing(i) \/ apply(i)
          \/ propose(i) \/ answer(i) \/ fail(i) \/ Lands(i) \/ Closes(i)
          \/ nativePreflight(i) \/ recordRuntime(i) \/ finishFlowRelease(i)
          \/ \E a \in rows : reuse(i, a)
          \/ \E x \in Images : Builds(i, x)
    \/ \E j \in DOMAIN jobs : Pushes(j) \/ report(j) \/ publicationEnds(j)
    \/ reserve
    \/ \E h \in DOMAIN holds :
          \/ capture(h) \/ restore(h) \/ releaseHold(h)
          \/ \E j \in DOMAIN jobs : activate(h, j)
    \/ \E env \in Envs : observeRuntime(env) \/ (\E x \in Images : ForeignCommit(env, x))
    \/ \E n \in KeepLimits : configureRetention(n)

Spec == Init /\ [][Next]_vars

-----------------------------------------------------------------------------
(* Properties.                                                             *)

\* An image of a product's history that its report does not protect has at
\* least KeepFloor images that were first published after it, however often
\* images were rebuilt, reused or deployed again, in whatever order the runs
\* were recorded, and whatever limit was configured.
NewestAreKept ==
    \A p \in Products :
        LET history == Published(p)
            first   == [x \in history |-> CHOOSE t \in PublicationTimes(p, x) :
                                             \A u \in PublicationTimes(p, x) : t <= u]
        IN  \A x \in history :
                \/ Cardinality({y \in history : first[y] > first[x]}) >= KeepFloor
                \/ x \in Protected(p)

\* Every report protects an image that a write may still put into an
\* environment, whatever became of the operation that sent the write, and an
\* image that reached the registry and was never admitted.
UnsettledIsKept ==
    LET writes  == {ops[i].image : i \in {i \in DOMAIN ops : CanLand(i)}}
        uploads == {jobs[j].image : j \in {j \in DOMAIN jobs : jobs[j].pushed /\ ~Admitted(j)}}
    IN  \A x \in writes \union uploads : \A p \in Products : x \in Protected(p)

\* Every report protects the way back: each image that a delivery of the
\* service replaced in an environment, whatever became of that delivery, and
\* the images of the two newest releases, proven or not.
WayBackIsKept ==
    LET newest == {releases[n].image : n \in {n \in DOMAIN releases : n + 1 >= Len(releases)}}
    IN  \A x \in replaced \union newest : \A p \in Products : x \in Protected(p)

\* Every report protects the baseline of the hold that stands, whatever
\* receipts earlier holds of the environment have left.
OriginalIsKept ==
    LET originals == {holds[h].original : h \in {h \in DOMAIN holds : holds[h].state = "HELD"}} \ {None}
    IN  \A x \in originals : \A p \in Products : x \in Protected(p)

\* The documented meaning of keep_current (docs/DELIVERY_CONTROLS.md:62): the
\* last image that a delivery applied to an environment is protected.
LastAppliedIsKept ==
    \A i \in DOMAIN ops :
        ops[i].status = "SUCCEEDED" /\ ops[i].write = "landed"
            /\ file[EnvOf(ops[i].kind)] = [image |-> ops[i].image, head |-> ops[i].base.head + 1]
        => ops[i].image \in Protected(Owner(i))

=============================================================================
