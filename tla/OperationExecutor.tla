--------------------------- MODULE OperationExecutor ---------------------------
(***************************************************************************)
(* The durable operation executor (internal/application/worker.go) running *)
(* ordinary DEPLOY operations of one component into one environment, the   *)
(* candidate Dev reservation that excludes them (dev_reservation.go), and  *)
(* the GitHub provider both act on.                                        *)
(*                                                                         *)
(* Several servers share the store.  Each runs one Tick at a time: it      *)
(* claims an operation under a 45 s lease, works on a copy of it, looks at *)
(* the provider and saves.  A mutating call is preceded by a save of its   *)
(* intent.  A request whose caller gave up stays on the wire and may still *)
(* take effect.                                                            *)
(*                                                                         *)
(* A blob number names one state of the GitOps file.  That the file comes  *)
(* back byte for byte to an earlier state while a write pinned to that     *)
(* state is still on the wire is assumed away.                             *)
(***************************************************************************)
EXTENDS Naturals

CONSTANTS
    Ops,          \* the operations that will be requested
    Servers,      \* the processes that run Tick against the shared store
    Digests,      \* the image digests that can be built or requested
    GitOpsModes,  \* policies an environment may have: "DIRECT" commits or "PR"
    None,
    MaxMishaps,   \* how often a call fails, a server dies or outlives its lease,
                  \* or others commit to the GitOps branch
    MaxEpoch      \* how many reservations are made

ASSUME ExecutorAssumption ==
    /\ GitOpsModes \subseteq {"DIRECT", "PR"} /\ GitOpsModes # {}
    /\ {MaxMishaps, MaxEpoch} \subseteq Nat
    /\ None \notin Ops \cup Servers \cup Digests
       \cup {"BUILD", "GITOPS", "running", "completed", "failed", "success",
             "open", "closed", "merged", "done", "rejected"}

VARIABLES
    op,         \* the operations in the store
    age,        \* 0: young, 1: requested over 15 min ago, 2: over 45 min ago
    retargeted, \* operations whose environment binding changed since the request
    known,      \* digests of recorded delivery artifacts that carry a build run
    env,        \* the environment's policy, reservation epoch and hold
    tick,       \* per server, the Tick in progress
    wire,       \* requests sent to the provider and not yet processed
    runs,       \* per operation, the provider's workflow run
    prs,        \* per operation, the provider's pull request
    file,       \* the mapped GitOps file on the target branch
    head,       \* the target branch's head
    mishaps,    \* those so far
    posted,     \* history: dispatch requests sent per operation
    planned,    \* history: the file state each operation first planned to change
    shown       \* history: digests the file had since the operation was requested

store == <<op, age, retargeted, known, env>>
provider == <<wire, runs, prs, file, head>>
history == <<posted, planned, shown>>
vars == <<store, tick, provider, mishaps, history>>

Phases == {"PREFLIGHT", "DISPATCH", "BUILD_LOOKUP", "INSPECT", "APPLY",
           "APPLY_UNCERTAIN", "WAIT_GITOPS_PR"}

Terminal == {"SUCCEEDED", "FAILED", "CANCELLED"}

Operation ==
    [status    : {"ABSENT", "PENDING", "RUNNING"} \cup Terminal,
     phase     : Phases,
     owner     : Servers \cup {None},
     leased    : BOOLEAN,
     intent    : {None, "BUILD", "GITOPS"},
     existing  : BOOLEAN,
     requested : Digests \cup {None},
     expected  : Digests \cup {None},
     artifact  : Digests \cup {None},
     base      : [blob : Nat, head : Nat],
     run       : {None, "running", "completed"},
     pr        : {None, "open", "closed", "merged"},
     result    : BOOLEAN,
     epoch     : Nat]

NoBase == [blob |-> 0, head |-> 0]

Absent ==
    [status |-> "ABSENT", phase |-> "PREFLIGHT", owner |-> None, leased |-> FALSE,
     intent |-> None, existing |-> FALSE, requested |-> None, expected |-> None,
     artifact |-> None, base |-> NoBase, run |-> None, pr |-> None,
     result |-> FALSE, epoch |-> 0]

Active(o) == op[o].status \in {"PENDING", "RUNNING"}

NoTick == [stage |-> "IDLE"]

Failing == {"FAILED", "BLOCKED", "CANCELLED"}

TickRecord ==
    [stage  : {"LOOK", "SAVE", "INTENT", "SEND", "CALL"},
     op     : Ops,
     copy   : Operation,
     phase  : Phases,
     status : {"RUNNING", "GITOPS_APPLIED"} \cup Failing,
     answer : {None, "done", "rejected"}]

Request ==
    [kind : {"DISPATCH", "PUT", "PROPOSE"}, op : Ops, from : Servers \cup {None},
     blob : Nat, digest : Digests \cup {None}]

TypeOK ==
    /\ op \in [Ops -> Operation]
    /\ age \in [Ops -> 0..2]
    /\ retargeted \subseteq Ops
    /\ known \subseteq Digests
    /\ env \in [mode : {"DIRECT", "PR"}, epoch : Nat, held : BOOLEAN, quarantined : BOOLEAN]
    /\ tick \in [Servers -> TickRecord \cup {NoTick}]
    /\ wire \subseteq Request
    /\ runs \in [Ops -> [state : {None, "running", "failed", "success"},
                         digest : Digests \cup {None}]]
    /\ prs \in [Ops -> [state : {None, "open", "closed", "merged"}, blob : Nat,
                        digest : Digests \cup {None}]]
    /\ file \in [blob : Nat, digest : Digests \cup {None}, writer : Ops \cup {None}]
    /\ head \in Nat
    /\ mishaps \in Nat
    /\ posted \in [Ops -> Nat]
    /\ planned \in [Ops -> Nat]
    /\ shown \in [Ops -> SUBSET (Digests \cup {None})]

Init ==
    /\ op = [o \in Ops |-> Absent]
    /\ age = [o \in Ops |-> 0]
    /\ retargeted = {}
    /\ known = {}
    /\ env \in [mode : GitOpsModes, epoch : {0}, held : {FALSE}, quarantined : {FALSE}]
    /\ tick = [s \in Servers |-> NoTick]
    /\ wire = {}
    /\ runs = [o \in Ops |-> [state |-> None, digest |-> None]]
    /\ prs = [o \in Ops |-> [state |-> None, blob |-> 0, digest |-> None]]
    /\ file = [blob |-> 1, digest |-> None, writer |-> None]
    /\ head = 1
    /\ mishaps = 0
    /\ posted = [o \in Ops |-> 0]
    /\ planned = [o \in Ops |-> 0]
    /\ shown = [o \in Ops |-> {}]

-------------------------------------------------------------------------------
(* Commands.                                                               *)

\* Only one deployment of a component into an environment is active at a time.
\* A new operation captures the environment's reservation epoch.
deploy_integration(o, d, known_artifact) ==
    /\ op[o].status = "ABSENT"
    /\ ~env.held
    /\ \A p \in Ops : ~Active(p)
    /\ known_artifact => d \in known
    /\ op' = [op EXCEPT ![o] =
                [@ EXCEPT !.status = "PENDING", !.requested = d, !.expected = d,
                          !.existing = known_artifact, !.epoch = env.epoch]]
    /\ shown' = [shown EXCEPT ![o] = {file.digest}]
    /\ UNCHANGED <<age, retargeted, known, env, tick, provider, mishaps, posted, planned>>

\* The environment binding is edited; running operations keep their snapshot of it.
configure_environment ==
    /\ ~env.held
    /\ \E o \in Ops : Active(o) /\ o \notin retargeted
    /\ retargeted' = retargeted \cup {o \in Ops : Active(o)}
    /\ UNCHANGED <<op, age, known, env, tick, provider, mishaps, history>>

Unresolved(o) ==
    \/ op[o].intent # None
    \/ op[o].phase = "APPLY_UNCERTAIN"
    \/ op[o].pr = "open"
    \/ op[o].phase = "BUILD_LOOKUP" /\ op[o].run # "completed"

unresolvedReservationEffects == \E o \in Ops : Unresolved(o)

\* Neither side of a reservation is available to a quarantined product.
reserve_candidate_dev ==
    /\ ~env.held /\ ~env.quarantined
    /\ ~unresolvedReservationEffects
    /\ env.epoch < MaxEpoch
    /\ env' = [env EXCEPT !.epoch = @ + 1, !.held = TRUE]
    /\ UNCHANGED <<op, age, retargeted, known, tick, provider, mishaps, history>>

release_candidate_dev ==
    /\ env.held /\ ~env.quarantined
    /\ ~unresolvedReservationEffects
    /\ env' = [env EXCEPT !.held = FALSE]
    /\ UNCHANGED <<op, age, retargeted, known, tick, provider, mishaps, history>>

\* The instance stops and its last state is restored into an empty one: what was
\* active is cancelled, its leases are forgotten and the product is quarantined.
RestoreBackup ==
    /\ op' = [o \in Ops |-> IF Active(o)
                THEN [op[o] EXCEPT !.status = "CANCELLED", !.owner = None, !.leased = FALSE]
                ELSE op[o]]
    /\ env' = [env EXCEPT !.quarantined = TRUE]
    /\ tick' = [s \in Servers |-> NoTick]
    /\ wire' = {[m EXCEPT !.from = None] : m \in wire}
    /\ UNCHANGED <<age, retargeted, known, runs, prs, file, head, mishaps, history>>

reservationOperationAllowed(o) == ~env.held /\ env.epoch = op[o].epoch

-------------------------------------------------------------------------------
(* Tick: claim, then look, save, call and save again.                      *)

\* An operation is claimed when no lease on it is live.
Tick(s) ==
    /\ tick[s] = NoTick
    /\ \E o \in Ops :
        /\ Active(o)
        /\ ~op[o].leased
        /\ op' = [op EXCEPT ![o] = [@ EXCEPT !.owner = s, !.leased = TRUE, !.status = "RUNNING"]]
        /\ tick' = [tick EXCEPT ![s] =
                      [stage |-> "LOOK", op |-> o, copy |-> op'[o],
                       phase |-> op[o].phase, status |-> "RUNNING", answer |-> None]]
    /\ UNCHANGED <<age, retargeted, known, env, provider, mishaps, history>>

\* The save a Tick has decided on, made in its next step.
Decide(s, stage, c, phase, status) ==
    tick' = [tick EXCEPT ![s] = [@ EXCEPT !.stage = stage, !.copy = c,
                                          !.phase = phase, !.status = status]]

finish(s, c, status) == Decide(s, "SAVE", c, c.phase, status)

advance(s, c, phase) == Decide(s, "SAVE", c, phase, "RUNNING")

\* Save the intent under the lease, then make the call.
commit_intent(s, c, phase) == Decide(s, "INTENT", c, phase, "RUNNING")

\* A mutant of retry: nothing ends the retries.
retry_forever(s, c) == advance(s, c, c.phase)

\* Retries end 45 minutes after the request.
retry(s, c) ==
    IF age[tick[s].op] = 2 THEN finish(s, c, "BLOCKED") ELSE advance(s, c, c.phase)

\* A provider call fails, a server dies or outlives its lease, or somebody else
\* commits.
Mishap == mishaps < MaxMishaps /\ mishaps' = mishaps + 1

Looking(s, phases) ==
    /\ tick[s].stage = "LOOK"
    /\ reservationOperationAllowed(tick[s].op)
    /\ tick[s].copy.phase \in phases

LookOnly == UNCHANGED <<store, provider, history>>

\* The guard that every phase starts with: a held environment, or one that was
\* held since the request, ends the operation.
RefusedByReservation(s) ==
    /\ tick[s].stage = "LOOK"
    /\ ~reservationOperationAllowed(tick[s].op)
    /\ finish(s, tick[s].copy, "BLOCKED")
    /\ LookOnly /\ UNCHANGED mishaps

\* Pin the GitOps file, then go on with the selected artifact, with one found
\* for this source, or with a build.
Preflight(s) ==
    LET c == [tick[s].copy EXCEPT !.base = [blob |-> file.blob, head |-> head]]
    IN /\ Looking(s, {"PREFLIGHT"})
       /\ LookOnly
       /\ \/ Mishap /\ finish(s, tick[s].copy, "FAILED")
          \/ /\ UNCHANGED mishaps
             /\ \/ finish(s, c, "BLOCKED")
                \/ c.existing /\ advance(s, c, "INSPECT")
                \/ /\ ~c.existing
                   /\ \E e \in IF c.expected = None /\ known # {} THEN known ELSE {c.expected} :
                        \/ advance(s, [c EXCEPT !.expected = e], "DISPATCH")
                        \/ \E d \in known :
                             /\ e \in {None, d}
                             /\ advance(s, [c EXCEPT !.expected = e, !.artifact = d], "APPLY")

\* A mutant of Dispatch: the call comes first, the transition is saved after it.
DispatchBeforeIntent(s) ==
    /\ Looking(s, {"DISPATCH"})
    /\ posted' = [posted EXCEPT ![tick[s].op] = @ + 1]
    /\ advance(s, tick[s].copy, "BUILD_LOOKUP")
    /\ UNCHANGED <<store, provider, mishaps, planned, shown>>

\* The dispatch intent is committed before the call.
Dispatch(s) ==
    /\ Looking(s, {"DISPATCH"})
    /\ commit_intent(s, tick[s].copy, "BUILD_LOOKUP")
    /\ LookOnly /\ UNCHANGED mishaps

\* Look for the one correlated run; a missing run is never dispatched again.
BuildLookup(s) ==
    LET o == tick[s].op
        c == tick[s].copy
        r == runs[o]
    IN /\ Looking(s, {"BUILD_LOOKUP"})
       /\ LookOnly
       /\ \/ Mishap /\ retry(s, c)
          \/ /\ UNCHANGED mishaps
             /\ \/ /\ r.state = None
                   /\ IF age[o] > 0 THEN finish(s, c, "BLOCKED") ELSE retry(s, c)
                \/ r.state = "running" /\ retry(s, [c EXCEPT !.run = "running"])
                \/ r.state = "failed" /\ finish(s, [c EXCEPT !.run = "completed"], "FAILED")
                \/ /\ r.state = "success"
                   /\ IF c.expected \in {None, r.digest}
                      THEN advance(s, [c EXCEPT !.run = "completed", !.expected = r.digest], "INSPECT")
                      ELSE finish(s, [c EXCEPT !.run = "completed"], "BLOCKED")

\* The registry must show the expected digest.
Inspect(s) ==
    LET c == tick[s].copy
    IN /\ Looking(s, {"INSPECT"})
       /\ LookOnly
       /\ \/ Mishap /\ IF c.existing THEN finish(s, c, "BLOCKED") ELSE retry(s, c)
          \/ /\ UNCHANGED mishaps
             /\ \/ finish(s, c, "BLOCKED")
                \/ advance(s, [c EXCEPT !.artifact = c.expected], "APPLY")

\* A mutant of Apply: the plan is rebased onto whatever the file is now.
ApplyRebases(s) ==
    LET c == [tick[s].copy EXCEPT !.base = [blob |-> file.blob, head |-> head]]
    IN /\ Looking(s, {"APPLY", "APPLY_UNCERTAIN"})
       /\ LookOnly /\ UNCHANGED mishaps
       /\ \/ /\ file.digest = c.artifact
             /\ finish(s, [c EXCEPT !.result = TRUE], "GITOPS_APPLIED")
          \/ /\ file.digest # c.artifact
             /\ commit_intent(s, c, "APPLY_UNCERTAIN")

\* Reread the GitOps file.  The desired digest found there is success, any other
\* change since planning ends the operation, otherwise the write is intended.
Apply(s) ==
    LET c == tick[s].copy
    IN /\ Looking(s, {"APPLY", "APPLY_UNCERTAIN"})
       /\ LookOnly
       /\ \/ tick[s].op \in retargeted /\ finish(s, c, "BLOCKED") /\ UNCHANGED mishaps
          \/ /\ tick[s].op \notin retargeted
             /\ \/ Mishap /\ retry(s, c)
                \/ /\ UNCHANGED mishaps
                   /\ \/ /\ file.digest = c.artifact
                         /\ finish(s, [c EXCEPT !.result = TRUE], "GITOPS_APPLIED")
                      \/ /\ file.digest # c.artifact
                         /\ IF c.base = [blob |-> file.blob, head |-> head]
                            THEN commit_intent(s, c, "APPLY_UNCERTAIN")
                            ELSE finish(s, c, "BLOCKED")

\* An open pull request is waited for; a merged one must have left the exact
\* image on the target branch.
WaitGitOpsPR(s) ==
    LET c == tick[s].copy
        seen == [c EXCEPT !.pr = prs[tick[s].op].state]
    IN /\ Looking(s, {"WAIT_GITOPS_PR"})
       /\ LookOnly
       /\ \/ tick[s].op \in retargeted /\ finish(s, c, "BLOCKED") /\ UNCHANGED mishaps
          \/ /\ tick[s].op \notin retargeted
             /\ \/ Mishap /\ \E r \in {c} \cup {q \in {seen} : q.pr = "merged"} : retry(s, r)
                \/ /\ UNCHANGED mishaps
                   /\ \/ seen.pr = "open" /\ advance(s, seen, "WAIT_GITOPS_PR")
                      \/ seen.pr = "closed" /\ finish(s, seen, "CANCELLED")
                      \/ /\ seen.pr = "merged"
                         /\ IF file.digest = c.artifact
                            THEN finish(s, [seen EXCEPT !.result = TRUE], "GITOPS_APPLIED")
                            ELSE finish(s, seen, "BLOCKED")

-------------------------------------------------------------------------------
(* save: one transaction, refused to a Tick that lost the lease and, unless *)
(* it ends the operation, to one that the reservation excludes.             *)

\* A mutant of IntentAfter: an intent is over when its call is.
IntentOfCallOnly(cur, t) ==
    IF t.stage = "INTENT"
    THEN IF t.phase = "APPLY_UNCERTAIN" THEN "GITOPS" ELSE "BUILD"
    ELSE None

\* What save records of a mutation whose outcome is unknown, and when it is known.
IntentAfter(cur, t) ==
    LET intent == IF t.phase = "APPLY_UNCERTAIN" THEN "GITOPS"
                  ELSE IF t.phase = "BUILD_LOOKUP" /\ t.stage = "INTENT" THEN "BUILD"
                  ELSE IF cur.intent # None THEN cur.intent
                  ELSE t.copy.intent
        resolved ==
            \/ /\ intent = "GITOPS"
               /\ \/ t.copy.result
                  \/ t.copy.pr # None /\ (t.phase = "WAIT_GITOPS_PR" \/ t.copy.pr = "closed")
            \/ intent = "BUILD" /\ t.copy.run = "completed"
    IN IF resolved THEN None ELSE intent

StatusAfter(status) ==
    CASE status = "GITOPS_APPLIED" -> "SUCCEEDED"
      [] status \in {"FAILED", "BLOCKED"} -> "FAILED"
      [] OTHER -> status

Saved(cur, t) ==
    [t.copy EXCEPT !.phase = t.phase,
                   !.status = StatusAfter(t.status),
                   !.intent = IntentAfter(cur, t),
                   !.owner = IF t.stage = "INTENT" THEN @ ELSE None,
                   !.leased = t.stage = "INTENT" /\ cur.leased]

\* A mutant of OwnsLease: a lease that ran out is not checked again.
OwnsLease(s) == op[tick[s].op].owner = s

MaySave(s) == tick[s].status \in Failing \/ reservationOperationAllowed(tick[s].op)

save(s) ==
    LET t == tick[s]
        o == t.op
    IN /\ t.stage \in {"SAVE", "INTENT"}
       /\ OwnsLease(s) /\ MaySave(s)
       /\ op' = [op EXCEPT ![o] = Saved(@, t)]
       /\ known' = IF t.copy.artifact # None /\ (t.copy.run # None \/ t.copy.existing)
                   THEN known \cup {t.copy.artifact} ELSE known
       /\ planned' = [planned EXCEPT ![o] = IF @ = 0 THEN t.copy.base.blob ELSE @]
       /\ tick' = [tick EXCEPT ![s] = IF t.stage = "INTENT" THEN [t EXCEPT !.stage = "SEND"]
                                      ELSE NoTick]
       /\ UNCHANGED <<age, retargeted, env, provider, mishaps, posted, shown>>

\* A refused save leaves the operation to the next lease.  A GitOps intent that
\* the reservation refuses cancels the operation instead.
SaveRefused(s) ==
    /\ tick[s].stage \in {"SAVE", "INTENT"}
    /\ ~(OwnsLease(s) /\ MaySave(s))
    /\ IF OwnsLease(s) /\ tick[s].stage = "INTENT" /\ tick[s].phase = "APPLY_UNCERTAIN"
       THEN finish(s, tick[s].copy, "CANCELLED")
       ELSE tick' = [tick EXCEPT ![s] = NoTick]
    /\ UNCHANGED <<store, provider, mishaps, history>>

-------------------------------------------------------------------------------
(* The mutating calls.                                                     *)

\* A mutant of CallFailed: a GitOps write that failed is taken for done.
FailureTakenForSuccess(s) ==
    IF tick[s].phase = "APPLY_UNCERTAIN"
    THEN finish(s, [tick[s].copy EXCEPT !.result = TRUE], "GITOPS_APPLIED")
    ELSE advance(s, tick[s].copy, tick[s].phase)

\* What a Tick makes of a call that failed: the outcome is unknown.
CallFailed(s) ==
    IF tick[s].phase = "APPLY_UNCERTAIN" /\ env.mode = "PR"
    THEN retry(s, tick[s].copy)
    ELSE advance(s, tick[s].copy, tick[s].phase)

RequestOf(s) ==
    [kind   |-> IF tick[s].phase = "BUILD_LOOKUP" THEN "DISPATCH"
                ELSE IF env.mode = "PR" THEN "PROPOSE" ELSE "PUT",
     op     |-> tick[s].op,
     from   |-> s,
     blob   |-> tick[s].copy.base.blob,
     digest |-> tick[s].copy.artifact]

\* ApplyGitOps reads the pinned head and blob again before it writes.
Conflict(s) ==
    /\ RequestOf(s).kind = "PUT"
    /\ tick[s].copy.base # [blob |-> file.blob, head |-> head]

Send(s) ==
    /\ tick[s].stage = "SEND"
    /\ ~Conflict(s)
    /\ wire' = wire \cup {RequestOf(s)}
    /\ posted' = [posted EXCEPT ![tick[s].op] = @ + IF RequestOf(s).kind = "DISPATCH" THEN 1 ELSE 0]
    /\ tick' = [tick EXCEPT ![s].stage = "CALL"]
    /\ UNCHANGED <<store, runs, prs, file, head, mishaps, planned, shown>>

\* The call fails before its request is sent.
NotSent(s) ==
    /\ tick[s].stage = "SEND"
    /\ (Conflict(s) /\ UNCHANGED mishaps) \/ Mishap
    /\ CallFailed(s)
    /\ UNCHANGED <<store, provider, history>>

\* A caller that gives up leaves its request on the wire.
Orphaned(s) == {IF m.from = s THEN [m EXCEPT !.from = None] ELSE m : m \in wire}

NoAnswer(s) ==
    /\ tick[s].stage = "CALL"
    /\ (tick[s].answer = "rejected" /\ UNCHANGED mishaps) \/ Mishap
    /\ wire' = Orphaned(s)
    /\ CallFailed(s)
    /\ UNCHANGED <<store, runs, prs, file, head, history>>

\* A dispatch answers with the run's ID or without it.
Answered(s) ==
    LET c == tick[s].copy
    IN /\ tick[s].stage = "CALL"
       /\ tick[s].answer = "done"
       /\ CASE RequestOf(s).kind = "DISPATCH" ->
                 \E r \in {c.run, "running"} : advance(s, [c EXCEPT !.run = r], "BUILD_LOOKUP")
            [] RequestOf(s).kind = "PUT" -> finish(s, [c EXCEPT !.result = TRUE], "GITOPS_APPLIED")
            [] RequestOf(s).kind = "PROPOSE" ->
                 advance(s, [c EXCEPT !.pr = prs[tick[s].op].state], "WAIT_GITOPS_PR")
       /\ UNCHANGED <<store, provider, mishaps, history>>

-------------------------------------------------------------------------------
(* The provider.                                                           *)

\* The file gets a new state: what the operation's image fields ask for, or a
\* state of someone else's.
Commit(writer, digest) ==
    /\ head' = head + 1
    /\ file' = [blob |-> head + 1, digest |-> digest, writer |-> writer]
    /\ shown' = [o \in Ops |-> IF Active(o) THEN shown[o] \cup {digest} ELSE shown[o]]

NoCommit == UNCHANGED <<file, head, shown>>

\* A request is processed, maybe long after its caller gave up.  A write takes
\* effect on the pinned blob only; a second proposal finds the first one.
Process(m) ==
    LET accepted == m.kind # "PUT" \/ m.blob = file.blob
        verdict == IF accepted THEN "done" ELSE "rejected"
    IN /\ m \in wire
       /\ wire' = wire \ {m}
       /\ tick' = IF m.from = None THEN tick ELSE [tick EXCEPT ![m.from].answer = verdict]
       /\ IF m.kind = "PUT" /\ accepted THEN Commit(m.op, m.digest) ELSE NoCommit
       /\ runs' = IF m.kind = "DISPATCH" THEN [runs EXCEPT ![m.op].state = "running"] ELSE runs
       /\ prs' = IF m.kind = "PROPOSE" /\ prs[m.op].state = None
                 THEN [prs EXCEPT ![m.op] = [state |-> "open", blob |-> m.blob, digest |-> m.digest]]
                 ELSE prs
       /\ UNCHANGED <<store, mishaps, posted, planned>>

\* A run fails, or succeeds and reports the digest it built.
RunEnds(o) ==
    /\ runs[o].state = "running"
    /\ \/ runs' = [runs EXCEPT ![o].state = "failed"]
       \/ \E d \in Digests : runs' = [runs EXCEPT ![o] = [state |-> "success", digest |-> d]]
    /\ UNCHANGED <<store, tick, wire, prs, file, head, mishaps, history>>

\* People merge a pull request that has no conflict, or close it for good.
PullRequestEnds(o) ==
    /\ prs[o].state = "open"
    /\ \/ /\ prs[o].blob = file.blob
          /\ prs' = [prs EXCEPT ![o].state = "merged"]
          /\ Commit(o, prs[o].digest)
       \/ prs' = [prs EXCEPT ![o].state = "closed"] /\ NoCommit
    /\ UNCHANGED <<store, tick, wire, runs, mishaps, posted, planned>>

\* Others commit to the GitOps branch, to the mapped file or beside it.
ForeignCommit ==
    /\ Mishap
    /\ \/ \E d \in Digests \cup {None} : Commit(None, d)
       \/ head' = head + 1 /\ UNCHANGED <<file, shown>>
    /\ UNCHANGED <<store, tick, wire, runs, prs, posted, planned>>

-------------------------------------------------------------------------------
(* Time and failures.                                                      *)

\* The lease runs out.  Its Tick is over or, a fault, still going on.
LeaseExpires(o) ==
    /\ op[o].leased
    /\ IF \E s \in Servers : tick[s] # NoTick /\ tick[s].op = o /\ op[o].owner = s
       THEN Mishap ELSE UNCHANGED mishaps
    /\ op' = [op EXCEPT ![o].leased = FALSE]
    /\ UNCHANGED <<age, retargeted, known, env, tick, provider, history>>

Age(o) ==
    /\ Active(o)
    /\ age[o] < 2
    /\ age' = [age EXCEPT ![o] = @ + 1]
    /\ UNCHANGED <<op, retargeted, known, env, tick, provider, mishaps, history>>

Crash(s) ==
    /\ tick[s] # NoTick
    /\ Mishap
    /\ tick' = [tick EXCEPT ![s] = NoTick]
    /\ wire' = Orphaned(s)
    /\ UNCHANGED <<store, runs, prs, file, head, history>>

-------------------------------------------------------------------------------

TickStep(s) ==
    \/ Tick(s) \/ RefusedByReservation(s)
    \/ Preflight(s) \/ Dispatch(s) \/ BuildLookup(s) \/ Inspect(s) \/ Apply(s) \/ WaitGitOpsPR(s)
    \/ save(s) \/ SaveRefused(s)
    \/ Send(s) \/ NotSent(s) \/ NoAnswer(s) \/ Answered(s)

Environment ==
    \/ \E o \in Ops, d \in Digests \cup {None}, known_artifact \in BOOLEAN :
            deploy_integration(o, d, known_artifact)
    \/ configure_environment
    \/ reserve_candidate_dev \/ release_candidate_dev \/ RestoreBackup
    \/ \E m \in wire : Process(m)
    \/ \E o \in Ops : RunEnds(o) \/ PullRequestEnds(o)
    \/ ForeignCommit
    \/ \E s \in Servers : Crash(s)

Time == \E o \in Ops : LeaseExpires(o) \/ Age(o)

Next == (\E s \in Servers : TickStep(s)) \/ Environment \/ Time

Spec == Init /\ [][Next]_vars

\* The service loop of some server ticks every two seconds, time passes, and the provider
\* processes the requests of callers that still wait for it.
FairSpec ==
    /\ Spec
    /\ WF_vars(\E s \in Servers : TickStep(s))
    /\ WF_vars(Time)
    /\ WF_vars(\E m \in wire : m.from # None /\ Process(m))

-------------------------------------------------------------------------------
(* Properties.                                                             *)

\* A build is dispatched at most once per operation, whatever crashes, lost
\* leases and lost answers come between the intent and the answer.
DispatchedOnce == \A o \in Ops : posted[o] <= 1

\* While the environment is held for a candidate, nothing an ordinary deployment
\* started can still change the target: no write or build is under way, and no
\* pull request of one would merge.
HoldIsQuiet ==
    env.held =>
        /\ \A m \in wire : m.kind # "DISPATCH" /\ (m.kind = "PUT" => m.blob # file.blob)
        /\ \A o \in Ops : runs[o].state # "running"
        /\ \A o \in Ops : prs[o].state = "open" => prs[o].blob # file.blob

\* A deployment changes the GitOps file only from the state it first planned
\* against, so no change made by others meanwhile is lost.
NoChangeIsLost ==
    [][file'.blob # file.blob /\ file'.writer # None
          => file.blob = planned[file'.writer]]_vars

\* A deployment reported as applied had its exact digest in the GitOps file
\* at some time since it was requested.
AppliedWasSeen ==
    \A o \in Ops : op[o].status = "SUCCEEDED" => op[o].artifact \in shown[o] \ {None}

\* Every requested deployment ends or waits for people to decide about its
\* pull request.
OperationsSettle ==
    \A o \in Ops : Active(o) ~> ~Active(o) \/ op[o].phase = "WAIT_GITOPS_PR"

===============================================================================
