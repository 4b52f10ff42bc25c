----------------------------- MODULE CandidateDev -----------------------------
(***************************************************************************)
(* Candidate Dev (internal/application/dev_reservation.go, dev_baseline*,  *)
(* dev_activation*, dev_restoration*, with the grouped proposals of        *)
(* internal/providers/github/gitops_batch*.go).  One reservation of an     *)
(* environment: the shared baseline is captured, a candidate is put in its *)
(* place by one pull request per GitOps repository, and the baseline is    *)
(* restored the same way, as often as it takes, before the reservation     *)
(* ends.  People merge, close and reopen the pull requests and commit      *)
(* besides; the server only proposes, and looks.                           *)
(*                                                                         *)
(* A proposal is two requests, the branch and then its pull request, each  *)
(* behind a guard and each of which may arrive long after its caller gave  *)
(* up.  It is sent once: after that its operation only looks it up.  Its   *)
(* leader is <<0, g>> for the activation of group g and <<n, g>> for       *)
(* generation n of the restoration.                                        *)
(*                                                                         *)
(* A file is the image it names and the version of all the rest, so equal  *)
(* values are equal blobs.  A Tick that only reads and then saves under    *)
(* the fence it read is one step; settling and planning, sending, the      *)
(* confirmation and the release take several.  A lease is held for as long *)
(* as tick, confirming or calls says so, and may end at any time, which    *)
(* includes the death of the server and every deadline.  The comparisons   *)
(* with configuration, candidate, registry and runtime are inputs of the   *)
(* steps that make them: such a step may fail.                             *)
(***************************************************************************)
EXTENDS Naturals, Sequences, FiniteSets

CONSTANTS
    Components,        \* of the shared baseline
    Layouts,           \* [selected, groups]: the components a candidate replaces,
                       \* and the repository that holds each component's file
    Original, Candidate, Other,  \* images
    MaxCaptures, MaxGeneration, MaxVerifications,
    Edited,            \* components whose repository people commit to
    MaxMishaps         \* bound: commits, reopened pull requests and lost calls

ASSUME CandidateDevAssumption ==
    /\ Layouts \subseteq [selected : SUBSET Components \ {{}}, groups : [Components -> Nat \ {0}]]
    /\ Edited \subseteq Components
    /\ Cardinality({Original, Candidate, Other}) = 3
    /\ {MaxCaptures, MaxGeneration, MaxVerifications, MaxMishaps} \subseteq Nat

VARIABLES
    layout,        \* of the environment, frozen
    epoch,         \* the environment's ReservationEpoch
    hold,          \* the DEV_RESERVATION operation
    capture,       \* the latest DEV_BASELINE_CAPTURE, with the blobs and heads it saw
    activation,    \* the status of the DEV_ACTIVATION operation
    child,         \* the activation's DEPLOY operation of each selected component
    intents,       \* the batch of each leader: head (0: none), sending started, PR recorded
    restorations,  \* the DEV_RESTORATION operations
    tick,          \* the settlement of a restoration between its reading and its plan
    confirming,    \* the restoration whose confirmation saw all proposals open, else 0
    release,       \* the DEV_RESTORATION_RELEASE operation under way
    calls,         \* how far each leader's call to propose is
    wire,          \* requests that were sent and have not arrived
    sent,          \* how often a leader's branch was asked for
    proposals,     \* the pull request of each leader at the provider
    files, heads,  \* each component's file and each repository's head
    mishaps        \* commits, reopened pull requests and lost calls, against MaxMishaps

storeVars == <<epoch, hold, capture, activation, child, intents, restorations>>
workVars == <<tick, confirming, release, calls>>
sendVars == <<wire, sent>>
gitVars == <<proposals, files, heads, mishaps>>
vars == <<layout, storeVars, workVars, sendVars, gitVars>>

Selected == layout.selected
GroupOf == layout.groups
Groups == {GroupOf[c] : c \in Components}
Leaders == (0 .. MaxGeneration) \X Groups

HoldEpoch == 1
NoIntent == [head |-> 0, started |-> FALSE, recorded |-> FALSE]
NoRelease == [stage |-> "none"]
NoTick == [on |-> FALSE]
Over == {"SUCCEEDED", "FAILED", "CANCELLED"}

GroupFiles(g) == {c \in Components : GroupOf[c] = g}
Members(g) == GroupFiles(g) \intersect Selected
LeaderOf(g) == CHOOSE c \in Members(g) : TRUE
ActivationLeaders == {<<0, g>> : g \in {h \in Groups : Members(h) # {}}}
Latest == Len(restorations)
OriginalImage(c) == capture.blobs[c].image
BaselineBlob(c) == files[c] = capture.blobs[c]
Exists(k) == proposals[k].state \in {"open", "closed", "merged"}

Init ==
    /\ layout \in Layouts
    /\ epoch = 0 /\ hold = "none"
    /\ capture = [phase |-> "NONE", generation |-> 0, blobs |-> <<>>, heads |-> <<>>]
    /\ activation = "none" /\ child = [c \in Selected |-> "INSPECT"]
    /\ intents = [k \in Leaders |-> NoIntent]
    /\ restorations = <<>>
    /\ tick = NoTick /\ confirming = 0 /\ release = NoRelease
    /\ calls = [k \in Leaders |-> "none"]
    /\ wire = {} /\ sent = [k \in Leaders |-> 0]
    /\ proposals = [k \in Leaders |-> [state |-> "none", approved |-> FALSE, reopened |-> FALSE]]
    /\ files = [c \in Components |-> [image |-> Original, version |-> 0]]
    /\ heads = [g \in Groups |-> 1]
    /\ mishaps = 0

-----------------------------------------------------------------------------
(***************************************************************************)
(* The reservation and the baseline                                        *)
(***************************************************************************)
reserve_candidate_dev ==
    /\ hold = "none"
    /\ hold' = "reserved" /\ epoch' = epoch + 1
    /\ UNCHANGED <<capture, activation, child, intents, restorations, workVars, sendVars, gitVars>>

\* Before activation the reservation may simply be given up; the epoch stays.
release_candidate_dev ==
    /\ hold = "reserved" /\ epoch = HoldEpoch /\ activation = "none"
    /\ hold' = "released"
    /\ UNCHANGED <<epoch, capture, activation, child, intents, restorations,
                   workVars, sendVars, gitVars>>

baselineAllowed == hold = "reserved" /\ epoch = HoldEpoch /\ activation = "none"

capture_candidate_dev_baseline ==
    /\ baselineAllowed
    /\ capture.generation < MaxCaptures
    /\ capture' = [phase |-> "CAPTURE_GITOPS", generation |-> capture.generation + 1,
                   blobs |-> <<>>, heads |-> <<>>]
    /\ UNCHANGED <<epoch, hold, activation, child, intents, restorations,
                   workVars, sendVars, gitVars>>

\* capturePhysicalBaseline and stageBaseline: the images are protected in the
\* registry before their availability is asked for.
StageBaseline ==
    /\ capture.phase = "CAPTURE_GITOPS" /\ baselineAllowed
    /\ capture' = [capture EXCEPT !.phase = "WAIT_REGISTRY", !.blobs = files, !.heads = heads]

FinishBaseline ==
    /\ capture.phase = "WAIT_REGISTRY" /\ baselineAllowed
    /\ capture.blobs = files /\ capture.heads = heads
    /\ capture' = [capture EXCEPT !.phase = "BASELINE_CAPTURED"]

BaselineUnverified ==
    /\ capture.phase \in {"CAPTURE_GITOPS", "WAIT_REGISTRY"}
    /\ capture' = [capture EXCEPT !.phase = "BASELINE_UNVERIFIED"]

tickDevBaseline ==
    /\ StageBaseline \/ FinishBaseline \/ BaselineUnverified
    /\ UNCHANGED <<epoch, hold, activation, child, intents, restorations,
                   workVars, sendVars, gitVars>>

-----------------------------------------------------------------------------
(***************************************************************************)
(* The activation                                                          *)
(***************************************************************************)
deploy_candidate_dev ==
    /\ baselineAllowed /\ capture.phase = "BASELINE_CAPTURED"
    /\ activation' = "RUNNING"
    /\ UNCHANGED <<epoch, hold, capture, child, intents, restorations,
                   workVars, sendVars, gitVars>>

\* The fence of every read, write and save of the activation.
devActivationAllowed ==
    /\ hold = "reserved" /\ epoch = HoldEpoch
    /\ activation \in {"RUNNING", "SUCCEEDED"}
    /\ \A c \in Selected : child[c] \notin {"FAILED", "CANCELLED"}

\* finish with BLOCKED asks for the lease only, so any operation of the
\* activation may fail at any time; what it proposed stays recorded.
BlockChild(c) ==
    /\ activation # "none" /\ child[c] \notin Over
    /\ c = LeaderOf(GroupOf[c]) => calls[<<0, GroupOf[c]>>] = "none"
    /\ child' = [child EXCEPT ![c] = "FAILED"]
    /\ UNCHANGED <<epoch, hold, capture, activation, intents, restorations,
                   workVars, sendVars, gitVars>>

InspectChild(c) ==
    /\ devActivationAllowed /\ child[c] = "INSPECT" /\ BaselineBlob(c)
    /\ child' = [child EXCEPT ![c] = "APPLY"]
    /\ UNCHANGED <<epoch, hold, capture, activation, intents, restorations,
                   workVars, sendVars, gitVars>>

activationHasBaselineEffect == \E k \in ActivationLeaders : intents[k].head # 0

\* recheckActivationBaseline: until the first effect, the whole baseline.
recheckActivationBaseline ==
    activationHasBaselineEffect \/ \A c \in Components : BaselineBlob(c)

NotYetRecorded(g) == ~intents[<<0, g>>].recorded

\* The phase of a group's leader is still APPLY: no intent was saved.
NotYetApplied(g) == intents[<<0, g>>].head = 0

\* applyDevActivation up to the saved intent: from here on the group's
\* proposal is only looked up, whatever became of the call.
applyDevActivation(g) ==
    /\ devActivationAllowed
    /\ Members(g) # {} /\ \A c \in Members(g) : child[c] = "APPLY"
    /\ NotYetApplied(g) /\ calls[<<0, g>>] = "none"
    /\ recheckActivationBaseline
    /\ \A c \in Members(g) : BaselineBlob(c)
    /\ intents' = [intents EXCEPT ![<<0, g>>] =
                      [head |-> heads[g], started |-> TRUE, recorded |-> FALSE]]
    /\ calls' = [calls EXCEPT ![<<0, g>>] = "latched"]
    /\ UNCHANGED <<epoch, hold, capture, activation, child, restorations,
                   tick, confirming, release, sendVars, gitVars>>

\* LookupGitOpsBatchProposal in APPLY_UNCERTAIN, and at the end of the call.
LookupActivation(g) ==
    /\ devActivationAllowed
    /\ intents[<<0, g>>].head # 0 /\ ~intents[<<0, g>>].recorded
    /\ calls[<<0, g>>] \in {"none", "pr"} /\ Exists(<<0, g>>)
    /\ intents' = [intents EXCEPT ![<<0, g>>].recorded = TRUE]
    /\ calls' = [calls EXCEPT ![<<0, g>>] = "none"]
    /\ UNCHANGED <<epoch, hold, capture, activation, child, restorations,
                   tick, confirming, release, sendVars, gitVars>>

\* A closed proposal cancels its leader, a merged one whose images are all in
\* place ends the whole group.
waitDevActivationGroup(g) ==
    /\ devActivationAllowed
    /\ intents[<<0, g>>].recorded /\ child[LeaderOf(g)] = "APPLY"
    /\ \/ /\ proposals[<<0, g>>].state = "closed"
          /\ child' = [child EXCEPT ![LeaderOf(g)] = "CANCELLED"]
       \/ /\ proposals[<<0, g>>].state = "merged"
          /\ \A c \in Members(g) : files[c].image = Candidate
          /\ child' = [c \in Selected |-> IF c \in Members(g) THEN "SUCCEEDED" ELSE child[c]]
    /\ UNCHANGED <<epoch, hold, capture, activation, intents, restorations,
                   workVars, sendVars, gitVars>>

tickDevActivation ==
    /\ activation = "RUNNING"
    /\ \/ activation' = "FAILED"
       \/ /\ devActivationAllowed /\ \A c \in Selected : child[c] = "SUCCEEDED"
          /\ activation' = "SUCCEEDED"
    /\ UNCHANGED <<epoch, hold, capture, child, intents, restorations,
                   workVars, sendVars, gitVars>>

-----------------------------------------------------------------------------
(***************************************************************************)
(* Settling what was proposed                                              *)
(***************************************************************************)
\* Each generation of the restoration makes an epoch of its own.
SameEpoch(n) == HoldEpoch
EpochOf(n) == HoldEpoch + n

\* restorationAllowed: the latest generation, in the epoch it made.
restorationAllowed(n) ==
    /\ n \in 1 .. Latest
    /\ hold = "reserved" /\ n = Latest /\ epoch = EpochOf(n)
    /\ restorations[n].phase # "UNAPPROVED_EFFECT"

\* No Tick of restoration n is under way.
Idle(n) == ~tick.on /\ \A g \in Groups : calls[<<n, g>>] = "none"

\* restorationEffects: every leader that may have proposed.  A leader of the
\* activation without a batch has no effect, and must still have none later.
restorationEffects == {k \in Leaders : intents[k].started}

Started(n) == {k \in {n} \X Groups : intents[k].started}
EffectsOf(n, own) == restorations[n].effects \union IF own THEN Started(n) ELSE {}

\* reconcileRestorationEffects: a proposal that cannot be found is unknown, not absent.
Reconciled(n, own) ==
    /\ \A k \in ActivationLeaders \ restorations[n].effects : intents[k].head = 0
    /\ \A k \in EffectsOf(n, own) : proposals[k].state \in {"closed", "merged"}

Settlement(n, own) == [k \in EffectsOf(n, own) |-> proposals[k].state]

request_candidate_dev_restoration ==
    /\ hold = "reserved" /\ capture.phase = "BASELINE_CAPTURED"
    /\ epoch = EpochOf(Latest) /\ Latest < MaxGeneration
    /\ Latest > 0 => Idle(Latest) /\ Reconciled(Latest, TRUE)
    /\ epoch' = EpochOf(Latest + 1)
    /\ restorations' = Append(restorations,
          [phase |-> "RECONCILE_EFFECTS", effects |-> restorationEffects,
           current |-> <<>>, heads |-> <<>>, settlement |-> <<>>, confirmed |-> FALSE, results |-> <<>>,
           attempt |-> 0, proof |-> "none", proven |-> <<>>])
    /\ UNCHANGED <<hold, capture, activation, child, intents, workVars, sendVars, gitVars>>

-----------------------------------------------------------------------------
(***************************************************************************)
(* The plan                                                                *)
(***************************************************************************)
\* The blob a merged proposal of leader k left in the file of c.
To(k, c) == IF k[1] = 0 THEN Candidate ELSE OriginalImage(c)
From(k, c) == IF k[1] = 0 THEN capture.blobs[c] ELSE restorations[k[1]].current[c]
Changes(k) == IF k[1] = 0 THEN Members(k[2])
              ELSE {c \in GroupFiles(k[2]) : From(k, c).image # OriginalImage(c)}
ProposedBlob(k, c) == [From(k, c) EXCEPT !.image = To(k, c)]

AnyBlob(n, c) == TRUE

\* A file is restored only from what it was or from what a proposal made of it.
knownRestorationBlob(n, c) ==
    \/ BaselineBlob(c)
    \/ \E k \in restorations[n].effects :
          /\ k[2] = GroupOf[c] /\ c \in Changes(k)
          /\ proposals[k].state = "merged" /\ files[c] = ProposedBlob(k, c)

SettleEffects(n) ==
    /\ restorationAllowed(n) /\ Idle(n)
    /\ restorations[n].phase = "RECONCILE_EFFECTS"
    /\ Reconciled(n, FALSE)
    /\ tick' = [on |-> TRUE, settlement |-> Settlement(n, FALSE)]
    /\ UNCHANGED <<storeVars, confirming, release, calls, sendVars, gitVars>>

\* prepareRestorationPlan and saveRestoration: a group is written to when one of
\* its files has another image than it had.
prepareRestorationPlan(n) ==
    /\ tick.on /\ restorationAllowed(n)
    /\ \A c \in Components : knownRestorationBlob(n, c)
    /\ restorations' = [restorations EXCEPT ![n].phase = "PREPARE_PROPOSALS",
                           ![n].current = files, ![n].heads = heads,
                           ![n].settlement = tick.settlement]
    /\ intents' = [k \in Leaders |->
          IF k[1] = n /\ \E c \in GroupFiles(k[2]) : files[c].image # OriginalImage(c)
          THEN [NoIntent EXCEPT !.head = heads[k[2]]] ELSE intents[k]]
    /\ tick' = NoTick
    /\ UNCHANGED <<epoch, hold, capture, activation, child, confirming, release, calls,
                   sendVars, gitVars>>

\* validateRestorationIO fails, a read fails or the lease ends before the plan is saved.
SettlingEnds ==
    /\ tick.on
    /\ tick' = NoTick
    /\ UNCHANGED <<storeVars, confirming, release, calls, sendVars, gitVars>>

Writes(n) == {g \in Groups : intents[<<n, g>>].head # 0}
NextWrite(n, g) ==
    /\ g \in Writes(n) /\ ~intents[<<n, g>>].recorded
    /\ \A h \in Writes(n) : h < g => intents[<<n, h>>].recorded

latchRestorationSend(n, g) ==
    /\ restorationAllowed(n) /\ Idle(n)
    /\ restorations[n].phase = "PREPARE_PROPOSALS"
    /\ NextWrite(n, g) /\ ~intents[<<n, g>>].started
    /\ intents' = [intents EXCEPT ![<<n, g>>].started = TRUE]
    /\ calls' = [calls EXCEPT ![<<n, g>>] = "latched"]
    /\ UNCHANGED <<epoch, hold, capture, activation, child, restorations,
                   tick, confirming, release, sendVars, gitVars>>

LookupRestoration(n, g) ==
    /\ restorationAllowed(n) /\ restorations[n].phase = "PREPARE_PROPOSALS"
    /\ NextWrite(n, g) /\ intents[<<n, g>>].started
    /\ calls[<<n, g>>] \in {"none", "pr"} /\ Exists(<<n, g>>)
    /\ intents' = [intents EXCEPT ![<<n, g>>].recorded = TRUE]
    /\ calls' = [calls EXCEPT ![<<n, g>>] = "none"]
    /\ UNCHANGED <<epoch, hold, capture, activation, child, restorations,
                   tick, confirming, release, sendVars, gitVars>>

-----------------------------------------------------------------------------
(***************************************************************************)
(* Sending a proposal                                                      *)
(***************************************************************************)
\* The guard before each request of a call.
SendAllowed(k) ==
    IF k[1] = 0 THEN devActivationAllowed
    ELSE /\ restorationAllowed(k[1])
         /\ Reconciled(k[1], FALSE)
         /\ Settlement(k[1], FALSE) = restorations[k[1]].settlement

\* ProposeGitOpsBatchGuarded: only for a branch that is not there yet, from the
\* head the batch was made for.
PostRef(k) ==
    /\ calls[k] = "latched" /\ SendAllowed(k)
    /\ proposals[k].state = "none" /\ heads[k[2]] = intents[k].head
    /\ calls' = [calls EXCEPT ![k] = "ref"]
    /\ wire' = wire \union {<<k, "ref">>}
    /\ sent' = [sent EXCEPT ![k] = @ + 1]
    /\ UNCHANGED <<storeVars, tick, confirming, release, gitVars>>

PostPull(k) ==
    /\ calls[k] = "ref" /\ proposals[k].state = "ref" /\ SendAllowed(k)
    /\ calls' = [calls EXCEPT ![k] = "pr"]
    /\ wire' = wire \union {<<k, "pr">>}
    /\ UNCHANGED <<storeVars, tick, confirming, release, sent, gitVars>>

\* The guard refuses, a request fails or times out, the lease ends or the server dies.
CallEnds(k) ==
    /\ calls[k] # "none" /\ mishaps < MaxMishaps
    /\ mishaps' = mishaps + 1
    /\ calls' = [calls EXCEPT ![k] = "none"]
    /\ UNCHANGED <<storeVars, tick, confirming, release, sendVars, proposals, files, heads>>

\* The provider: a request arrives, or is lost with its connection.
Arrives(k, what) ==
    /\ <<k, what>> \in wire
    /\ wire' = wire \ {<<k, what>>}
    /\ \/ /\ proposals' = [proposals EXCEPT ![k].state = IF what = "ref" THEN "ref" ELSE "open"]
          /\ UNCHANGED mishaps
       \/ /\ mishaps < MaxMishaps /\ mishaps' = mishaps + 1
          /\ UNCHANGED proposals
    /\ UNCHANGED <<storeVars, workVars, sent, files, heads>>

-----------------------------------------------------------------------------
(***************************************************************************)
(* Confirmation and result                                                 *)
(***************************************************************************)
restorationConfirmation(n) == restorations[n].confirmed

AnyMerge(k) == proposals[k].state = "merged"

\* A merge counts when its time is after the confirmation.
ApprovedMerge(k) == proposals[k].state = "merged" /\ proposals[k].approved

\* observeRestorationPlan before the merges: all open, nothing moved.
PlanStands(n) ==
    /\ \A g \in Writes(n) : intents[<<n, g>>].recorded /\ proposals[<<n, g>>].state = "open"
    /\ files = restorations[n].current /\ heads = restorations[n].heads

\* The groups are looked at in order, and the first that disappoints decides.
FirstOther(n, k, Fine(_)) ==
    k[2] \in Writes(n) /\ ~Fine(k) /\ \A h \in Writes(n) : h < k[2] => Fine(<<n, h>>)
Open(k) == proposals[k].state = "open"
EarlyMerge(n) ==
    /\ \A g \in Writes(n) : intents[<<n, g>>].recorded
    /\ \E k \in {n} \X Groups : FirstOther(n, k, Open) /\ proposals[k].state = "merged"
UnapprovedMerge(n) ==
    \E k \in {n} \X Groups : FirstOther(n, k, ApprovedMerge) /\ proposals[k].state = "merged"

ProposalsStand(n) ==
    /\ restorationAllowed(n) /\ Idle(n)
    /\ restorations[n].phase = "PREPARE_PROPOSALS" /\ PlanStands(n)
    /\ restorations' = [restorations EXCEPT ![n].phase = "WAIT_EXTERNAL_MERGE"]
    /\ UNCHANGED <<epoch, hold, capture, activation, child, intents,
                   workVars, sendVars, gitVars>>

\* markRestorationUnapproved, from a Tick or from a confirmation that came too late.
markRestorationUnapproved(n) ==
    /\ restorationAllowed(n)
    /\ restorations[n].phase \in {"PREPARE_PROPOSALS", "WAIT_EXTERNAL_MERGE"}
    /\ IF restorationConfirmation(n) THEN UnapprovedMerge(n) ELSE EarlyMerge(n)
    /\ restorations' = [restorations EXCEPT ![n].phase = "UNAPPROVED_EFFECT"]
    /\ UNCHANGED <<epoch, hold, capture, activation, child, intents,
                   workVars, sendVars, gitVars>>

confirm_candidate_dev_restoration(n) ==
    /\ restorationAllowed(n) /\ confirming = 0
    /\ restorations[n].phase = "WAIT_EXTERNAL_MERGE" /\ ~restorationConfirmation(n)
    /\ PlanStands(n)
    /\ confirming' = n
    /\ UNCHANGED <<storeVars, tick, release, calls, sendVars, gitVars>>

\* The transaction of the confirmation: what it saw open may be merged by now.
AdmitConfirmation(n) ==
    /\ confirming = n /\ confirming' = 0
    /\ \/ /\ restorationAllowed(n) /\ restorations[n].phase = "WAIT_EXTERNAL_MERGE"
          /\ restorations' = [restorations EXCEPT ![n].confirmed = TRUE]
       \/ UNCHANGED restorations
    /\ UNCHANGED <<epoch, hold, capture, activation, child, intents,
                   tick, release, calls, sendVars, gitVars>>

\* collectRestorationResults: every file is the proposal's, or untouched.
ResultOf(n, c) == [restorations[n].current[c] EXCEPT !.image = OriginalImage(c)]
Collected(n) ==
    /\ \A g \in Writes(n) : ApprovedMerge(<<n, g>>)
    /\ \A c \in Components : files[c] = ResultOf(n, c)

GitOpsApplied(n) ==
    /\ restorationAllowed(n)
    /\ restorations[n].phase = "WAIT_EXTERNAL_MERGE" /\ restorationConfirmation(n)
    /\ Collected(n)
    /\ restorations' = [restorations EXCEPT ![n].phase = "GITOPS_APPLIED", ![n].results = heads]
    /\ UNCHANGED <<epoch, hold, capture, activation, child, intents,
                   workVars, sendVars, gitVars>>

-----------------------------------------------------------------------------
(***************************************************************************)
(* Verification and release                                                *)
(***************************************************************************)
verify_candidate_dev_restoration(n) ==
    /\ restorationAllowed(n)
    /\ restorations[n].phase = "GITOPS_APPLIED" /\ restorationConfirmation(n)
    /\ restorations[n].attempt < MaxVerifications
    /\ restorations' = [restorations EXCEPT ![n].attempt = @ + 1, ![n].proof = "pending",
                           ![n].proven = <<>>]
    /\ UNCHANGED <<epoch, hold, capture, activation, child, intents,
                   workVars, sendVars, gitVars>>

\* What the runtime runs follows the files.
readRuntimeProof == \A c \in Components : files[c].image = OriginalImage(c)

\* tickRestorationVerification: the runtime runs the original images, or not.
tickRestorationVerification(n) ==
    /\ n \in 1 .. Latest /\ restorations[n].proof = "pending"
    /\ \/ /\ restorationAllowed(n) /\ Reconciled(n, TRUE)
          /\ readRuntimeProof
          /\ restorations' = [restorations EXCEPT ![n].proof = "VERIFIED",
                                 ![n].proven = Settlement(n, TRUE)]
       \/ restorations' = [restorations EXCEPT ![n].proof = "UNVERIFIED"]
    /\ UNCHANGED <<epoch, hold, capture, activation, child, intents,
                   workVars, sendVars, gitVars>>

release_candidate_dev_after_restoration(n) ==
    /\ restorationAllowed(n) /\ release = NoRelease
    /\ restorations[n].proof = "VERIFIED"
    /\ release' = [stage |-> "started", generation |-> n, attempt |-> restorations[n].attempt]
    /\ UNCHANGED <<storeVars, tick, confirming, calls, sendVars, gitVars>>

\* Everything is read once more, and is as it was verified.
ObserveRelease ==
    /\ release.stage = "started"
    /\ LET n == release.generation IN
         /\ Reconciled(n, TRUE) /\ Settlement(n, TRUE) = restorations[n].proven
         /\ Collected(n) /\ heads = restorations[n].results
    /\ release' = [release EXCEPT !.stage = "observed"]
    /\ UNCHANGED <<storeVars, tick, confirming, calls, sendVars, gitVars>>

CommitRelease ==
    /\ release.stage = "observed"
    /\ restorationAllowed(release.generation)
    /\ restorations[release.generation].attempt = release.attempt
    /\ hold' = "released" /\ epoch' = epoch + 1
    /\ release' = NoRelease
    /\ UNCHANGED <<capture, activation, child, intents, restorations,
                   tick, confirming, calls, sendVars, gitVars>>

ReleaseFails ==
    /\ release # NoRelease
    /\ release' = NoRelease
    /\ UNCHANGED <<storeVars, tick, confirming, calls, sendVars, gitVars>>

-----------------------------------------------------------------------------
(***************************************************************************)
(* People                                                                  *)
(***************************************************************************)
\* A proposal can be merged while its files still have the image it replaces,
\* or already the one it brings; the rest of the file is kept.  A merge in the
\* second of the confirmation does not count as one after it.
Merge(k) ==
    /\ proposals[k].state = "open"
    /\ \A c \in Changes(k) : files[c].image \in {From(k, c).image, To(k, c)}
    /\ files' = [c \in Components |->
          IF c \in Changes(k) THEN [files[c] EXCEPT !.image = To(k, c)] ELSE files[c]]
    /\ heads' = [heads EXCEPT ![k[2]] = @ + 1]
    /\ \E after \in BOOLEAN :
          /\ after => k[1] > 0 /\ restorations[k[1]].confirmed
          /\ proposals' = [proposals EXCEPT ![k].state = "merged", ![k].approved = after]
    /\ UNCHANGED <<storeVars, workVars, sendVars, mishaps>>

Close(k) ==
    /\ proposals[k].state = "open"
    /\ proposals' = [proposals EXCEPT ![k].state = "closed"]
    /\ UNCHANGED <<storeVars, workVars, sendVars, files, heads, mishaps>>

Reopen(k) ==
    /\ proposals[k].state = "closed" /\ mishaps < MaxMishaps
    /\ \E c \in Edited : GroupOf[c] = k[2]
    /\ proposals' = [proposals EXCEPT ![k].state = "open", ![k].reopened = TRUE]
    /\ mishaps' = mishaps + 1
    /\ UNCHANGED <<storeVars, workVars, sendVars, files, heads>>

\* Someone edits a file: its image, or anything else in it.
Edit(c, image) ==
    /\ mishaps < MaxMishaps
    /\ files' = [files EXCEPT ![c] = [image |-> image, version |-> @.version + 1]]
    /\ heads' = [heads EXCEPT ![GroupOf[c]] = @ + 1]
    /\ mishaps' = mishaps + 1
    /\ UNCHANGED <<storeVars, workVars, sendVars, proposals>>

-----------------------------------------------------------------------------
Reservation ==
    \/ reserve_candidate_dev \/ release_candidate_dev
    \/ capture_candidate_dev_baseline \/ tickDevBaseline

Activation ==
    \/ deploy_candidate_dev \/ tickDevActivation
    \/ \E c \in Selected : InspectChild(c) \/ BlockChild(c)
    \/ \E g \in Groups : applyDevActivation(g) \/ LookupActivation(g) \/ waitDevActivationGroup(g)

Restoration ==
    \/ request_candidate_dev_restoration \/ SettlingEnds
    \/ \E n \in 1 .. Latest :
          \/ SettleEffects(n) \/ prepareRestorationPlan(n) \/ ProposalsStand(n)
          \/ markRestorationUnapproved(n) \/ GitOpsApplied(n)
          \/ confirm_candidate_dev_restoration(n) \/ AdmitConfirmation(n)
          \/ verify_candidate_dev_restoration(n) \/ tickRestorationVerification(n)
          \/ \E g \in Groups : latchRestorationSend(n, g) \/ LookupRestoration(n, g)

Release ==
    \/ \E n \in 1 .. Latest : release_candidate_dev_after_restoration(n)
    \/ ObserveRelease \/ CommitRelease \/ ReleaseFails

Sending ==
    \E k \in Leaders :
       \/ PostRef(k) \/ PostPull(k) \/ CallEnds(k)
       \/ \E what \in {"ref", "pr"} : Arrives(k, what)

People ==
    \/ \E k \in Leaders : Merge(k) \/ Close(k) \/ Reopen(k)
    \/ \E c \in Edited : \E image \in {files[c].image, Other} : Edit(c, image)

Next ==
    /\ Reservation \/ Activation \/ Restoration \/ Release \/ Sending \/ People
    /\ UNCHANGED layout

Spec == Init /\ [][Next]_vars

-----------------------------------------------------------------------------
NothingReopened == \A k \in Leaders : ~proposals[k].reopened
InFlight(k) == \E what \in {"ref", "pr"} : <<k, what>> \in wire
Live(k) == InFlight(k) \/ (Open(k) /\ ~proposals[k].reopened)

(***************************************************************************)
(* Properties                                                              *)
(***************************************************************************)
\* When the reservation ended, no request of the activation or of a
\* restoration can still arrive and none of their proposals is open, unless
\* people reopened it; as long as they reopened none, no file names the
\* candidate's image (releaseAfterRestoration, executeDevReservation).
ReleaseIsClean ==
    hold = "released" =>
       /\ \A k \in Leaders : ~Live(k)
       /\ NothingReopened => \A c \in Components : files[c].image # Candidate

\* A proposal's branch is asked for once, whatever became of the call: after
\* the saved intent it is only looked up (applyDevActivation, tickDevRestoration).
ProposedOnce == \A k \in Leaders : sent[k] <= 1

\* A merge only ever exchanges the captured image and the candidate's: an
\* image that someone else put into a file is never replaced
\* (knownRestorationBlob, recheckActivationBaseline).
ForeignImageKept ==
    [][\A c \in Components :
          files'[c].image # files[c].image /\ files'[c].version = files[c].version
          => {files[c].image, files'[c].image} = {OriginalImage(c), Candidate}]_vars

\* A restoration counts as applied only if each of its proposals was merged
\* after its confirmation, one merged between what the confirmation saw and
\* the transaction that admitted it included (observeRestorationPlan).
AppliedWasApproved ==
    \A n \in 1 .. Latest : restorations[n].phase = "GITOPS_APPLIED" =>
       \A k \in Started(n) : proposals[k].state = "merged" /\ proposals[k].approved
=============================================================================
