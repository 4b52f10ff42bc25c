--------------------------- MODULE CompositionFlow ---------------------------
(***************************************************************************)
(* The composition of one environment from selected integrations of one    *)
(* source repository: what the environment is set to (its selection), the  *)
(* COMPOSE operations that carry a selection out, the refs that retain the *)
(* selected revisions, the generated branch, merge conflicts and their     *)
(* resolution, the scheduler that refreshes a selection by itself, and the *)
(* servers that tick operations with copies read earlier.                  *)
(***************************************************************************)
EXTENDS Integers, Sequences, FiniteSets

CONSTANTS Servers,       \* service processes, each running one Tick at a time
          Integrations,  \* pieces of work that can be selected
          None,          \* no value
          MaxOps,        \* bound on COMPOSE operations
          MaxEvents      \* bound on revisions captured after the first ones and on what
                         \* goes wrong: deaths of servers, leases outlived, failed checks,
                         \* refs moved by others, new configurations, restores

ASSUME CompositionAssumption ==
    /\ MaxOps \in Nat /\ MaxEvents \in Nat
    /\ None \notin Servers \union Integrations

VARIABLES
    operations,   \* the COMPOSE operations, in order of creation
    compositions, \* immutable plans: revision per selected integration, auto_refresh
    environment,  \* desired composition and operation, selection generation
    revisions,    \* latest captured revision of each integration
    conflicts,    \* operation -> its conflict record
    refs,         \* provider: state of rcp/revisions/<id>
    generated,    \* provider: state of the generated branch of an operation
    wire,         \* writes sent and not arrived
    tick,         \* what each server is doing
    refresh,      \* what the scheduler read and is about to submit
    receipt,      \* the operation that a feature update's key is bound to
    events,
    posted,       \* history: how often each write was sent
    decided       \* history: the operation of the last choice made by a person

vars == <<operations, compositions, environment, revisions, conflicts, refs, generated,
          wire, tick, refresh, receipt, events, posted, decided>>

Ops == 1..Len(operations)
OpIds == 1..MaxOps
RevisionIds == Integrations \X (1..(1 + MaxEvents))

Event == events < MaxEvents /\ events' = events + 1

(* A target of a write: a retained ref, or the generated branch.            *)
Targets == RevisionIds \union {None}

terminalOperation(o) == operations[o].status \in {"SUCCEEDED", "FAILED", "CANCELLED"}

(* The ExternalOperation of kind COMPOSE, freshly queued.                    *)
NewOperation(c, resolution, parent, origin) ==
    [status |-> "PENDING", phase |-> "COMPOSE_SOURCE", composition |-> c,
     resolution |-> resolution, parent |-> parent, origin |-> origin,
     retained |-> {}, result |-> "none", intent |-> FALSE,
     owner |-> None, live |-> FALSE,
     current |-> TRUE,   \* created after the last restore, by a scoped event
     frozen |-> TRUE,    \* its frozen configuration is still the configured one
     child |-> "none"]

selectionToken == environment

(* The integrations a composition selects, and the revisions to retain.      *)
selectedIntegrations(c) == {i \in Integrations : compositions[c].revision[i] # 0}
Retention(o) ==
    LET c == operations[o].composition
    IN  {<<i, compositions[c].revision[i]>> : i \in selectedIntegrations(c)}

-----------------------------------------------------------------------------
(* Guards                                                                   *)

(* Check results are current only while the latest one passed on the exact
   resolution commit.                                                        *)
validateConflictResolutionEvidence(k) == conflicts[k].passed

attachable(k, c) ==
    /\ conflicts[k].status = "resolved"
    /\ operations[k].composition = c
    /\ validateConflictResolutionEvidence(k)

validateFlowConflictResolutions(o) ==
    operations[o].resolution # 0 =>
        attachable(operations[o].resolution, operations[o].composition)

flowGuard(o) ==
    /\ validateFlowConflictResolutions(o)
    /\ environment.operation = o
    /\ environment.composition = operations[o].composition
    /\ operations[o].frozen

(* Every ancestor up to the explicit root was created after the last restore
   and was not cancelled.  Parents are earlier operations.                   *)
Lineage(o) ==
    LET up[n \in Nat] == IF n = 0 THEN {o}
                         ELSE up[n - 1] \union {operations[p].parent : p \in up[n - 1] \ {0}}
    IN  up[MaxOps] \ {0}

sourceRetentionProvenance(o) ==
    /\ \A p \in Lineage(o) : operations[p].current /\ operations[p].status # "CANCELLED"
                               /\ operations[p].origin = operations[o].origin
    /\ \E p \in Lineage(o) : operations[p].parent = 0 /\ p = operations[o].origin

(* Nothing about the sources changed since the copy was read.                *)
sameSources(o, copy) ==
    /\ operations[o].retained = copy.retained
    /\ operations[o].result = copy.result
    /\ operations[o].phase = copy.phase

retentionLease(s, o, copy) ==
    /\ operations[o].owner = s /\ operations[o].live
    /\ sourceRetentionProvenance(o)
    /\ flowGuard(o)
    /\ sameSources(o, copy)

(* No child's GitOps write is under way under a live lease.                                      *)
selectionAllowed == \A o \in Ops : operations[o].child # "APPLYING"

-----------------------------------------------------------------------------
(* Commands                                                                 *)

(* plan_composition appends an immutable plan.  Compositions are made with
   the operation that uses them.                                             *)
planned(revision, auto) == [revision |-> revision, auto |-> auto]

Latest(scope) == [i \in Integrations |-> IF i \in scope THEN revisions[i] ELSE 0]

(* applyFlow: the new operation becomes what the environment wants.          *)
Selected(op, c) ==
    /\ operations' = Append(operations, op)
    /\ environment' = [composition |-> c, operation |-> Len(operations) + 1,
                       generation |-> environment.generation + 1]

Admits == Len(operations) < MaxOps /\ selectionAllowed

(* A person assembles the latest revisions of some integrations.             *)
assemble_environment(scope) ==
    /\ Admits /\ scope # {}
    /\ LET o == Len(operations) + 1
           c == Len(compositions) + 1
       IN  /\ compositions' = Append(compositions, planned(Latest(scope), TRUE))
           /\ Selected(NewOperation(c, 0, 0, o), c)
           /\ decided' = o
    /\ UNCHANGED <<revisions, conflicts, refs, generated, wire, tick, refresh, receipt,
                   events, posted>>

(* A person runs an existing plan again, with or without a resolution.       *)
reconcile_composition(c, k) ==
    /\ Admits
    /\ c \in 1..Len(compositions)
    /\ k # 0 => attachable(k, c)
    /\ LET o == Len(operations) + 1
       IN  Selected(NewOperation(c, k, 0, o), c) /\ decided' = o
    /\ UNCHANGED <<compositions, revisions, conflicts, refs, generated, wire, tick, refresh,
                   receipt, events, posted>>

(* A person selects a plan without running it.                               *)
select_composition(c) ==
    /\ selectionAllowed
    /\ c \in 1..Len(compositions)
    /\ environment.operation # 0   \* a bound: no selection follows another
    /\ environment' = [composition |-> c, operation |-> 0,
                       generation |-> environment.generation + 1]
    /\ decided' = 0
    /\ UNCHANGED <<operations, compositions, revisions, conflicts, refs, generated, wire, tick,
                   refresh, receipt, events, posted>>

(* A client replaces or adds one captured revision in the selection it read:
   the token it carries is the current one, or the request is refused.  The
   request may be sent again: a known key only reads its receipt.            *)
replayFeatureUpdate == receipt # 0

planFeatureUpdate(i, r) ==
    [compositions[environment.composition].revision EXCEPT ![i] = r]

update_environment_feature(i, r) ==
    /\ ~replayFeatureUpdate
    /\ Admits
    /\ environment.composition # 0
    /\ r \in 1..revisions[i]
    /\ LET o == Len(operations) + 1
           c == Len(compositions) + 1
       IN  /\ compositions[environment.composition].revision[i] # r
           /\ compositions' = Append(compositions, planned(planFeatureUpdate(i, r), FALSE))
           /\ Selected(NewOperation(c, 0, 0, o), c)
           /\ receipt' = o
           /\ decided' = o
    /\ UNCHANGED <<revisions, conflicts, refs, generated, wire, tick, refresh, events,
                   posted>>

(* record_integration_revision, by a person or by the Git observation.       *)
record_integration_revision(i) ==
    /\ Event
    /\ revisions' = [revisions EXCEPT ![i] = @ + 1]
    /\ UNCHANGED <<operations, compositions, environment, conflicts, refs, generated, wire, tick,
                   refresh, receipt, posted, decided>>

-----------------------------------------------------------------------------
(* The scheduler                                                            *)

(* ScheduleCompositionRefresh reads the state, without a lock, ...           *)
ReadForRefresh ==
    /\ refresh = None
    /\ environment.operation # 0
    /\ LET o == environment.operation
           c == environment.composition
       IN  /\ compositions[c].auto
           /\ sourceRetentionProvenance(o)
           /\ \E i \in selectedIntegrations(c) : revisions[i] # compositions[c].revision[i]
           /\ \A p \in Ops : terminalOperation(p)
           /\ refresh' = [token |-> selectionToken, scope |-> selectedIntegrations(c)]
    /\ UNCHANGED <<operations, compositions, environment, revisions, conflicts, refs, generated,
                   wire, tick, receipt, events, posted, decided>>

(* Mutant: the same plan selected again counts as the same selection.        *)
checkComposition(expected) == environment.composition = expected.composition

(* ... and submits an assembly with what it read.  checkSelection refuses it
   when the selection has changed; freezeSourceRetention refuses it when the
   parent has lost its provenance or selects other integrations.             *)
checkSelection(expected) == selectionToken = expected

SubmitRefresh ==
    /\ refresh # None
    /\ refresh' = None
    /\ \/ /\ Admits
          /\ checkSelection(refresh.token)
          /\ LET parent == refresh.token.operation
                 c == Len(compositions) + 1
             IN  /\ sourceRetentionProvenance(parent)
                 /\ selectedIntegrations(operations[parent].composition) = refresh.scope
                 /\ compositions' = Append(compositions, planned(Latest(refresh.scope), TRUE))
                 /\ Selected(NewOperation(c, 0, parent, operations[parent].origin), c)
       \/ \* refused, or the server died before it submitted
          UNCHANGED <<operations, compositions, environment>>
    /\ UNCHANGED <<revisions, conflicts, refs, generated, wire, tick, receipt, events,
                   posted, decided>>

-----------------------------------------------------------------------------
(* Conflicts                                                                *)

Advance(k, from, to) ==
    /\ conflicts[k].status = from
    /\ conflicts' = [conflicts EXCEPT ![k].status = to]
    /\ UNCHANGED <<operations, compositions, environment, revisions, refs, generated, wire, tick,
                   refresh, receipt, events, posted, decided>>

claim_composition_conflict(k) == Advance(k, "requires_resolution", "claimed")
record_conflict_resolution(k) == Advance(k, "claimed", "verification_required")

verify_conflict_resolution(k) ==
    /\ validateConflictResolutionEvidence(k)
    /\ Advance(k, "verification_required", "resolved")

(* A check of the resolution commit is run, or run again.                    *)
RecordResult(k, passed) ==
    /\ conflicts[k].status \in {"verification_required", "resolved"}
    /\ conflicts[k].passed # passed
    /\ ~passed => events < MaxEvents
    /\ events' = IF passed THEN events ELSE events + 1
    /\ conflicts' = [conflicts EXCEPT ![k].passed = passed]
    /\ UNCHANGED <<operations, compositions, environment, revisions, refs, generated, wire, tick,
                   refresh, receipt, posted, decided>>

-----------------------------------------------------------------------------
(* Tick on a COMPOSE operation                                              *)

Idle == [step |-> "IDLE", op |-> 0, copy |-> None, target |-> None]

Goes(s, step) == tick' = [tick EXCEPT ![s].step = step]
Ends(s) == tick' = [tick EXCEPT ![s] = Idle]

StoreOnly == UNCHANGED <<compositions, environment, revisions, conflicts, refs, generated, wire,
                         refresh, receipt, events, posted, decided>>
TickOnly == UNCHANGED operations /\ StoreOnly

(* tickFlow checks the guard before everything else.                         *)
StepOfPhase(phase) ==
    CASE phase = "COMPOSE_SOURCE" -> "SOURCE"
      [] phase = "QUEUE_BUILDS" -> "VERIFY"
      [] phase = "WAIT_CHILDREN" -> "CHILDREN"
      [] phase = "WAIT_RUNTIME" -> "RUNTIME"

(* What a Tick acts on: the part of an operation that it read and may save
   again, and what it read of the child.                     *)
Copied(op) == [retained |-> op.retained, result |-> op.result, phase |-> op.phase,
               child |-> IF op.phase = "WAIT_CHILDREN" THEN op.child ELSE "none"]

(* A bound: servers at work at the same time are at work on one operation.
   Operations share only what commands change, and commands run at any step. *)
Overlap(o) == \A s \in Servers : tick[s].op \in {0, o}

(* Tick leases an operation nobody holds, and reads the state.               *)
Claim(s, o) ==
    /\ tick[s].step = "IDLE" /\ Overlap(o)
    /\ ~terminalOperation(o) /\ ~operations[o].live
    /\ operations' = [operations EXCEPT ![o].status = "RUNNING", ![o].owner = s, ![o].live = TRUE]
    /\ tick' = [tick EXCEPT ![s] =
            [step |-> IF flowGuard(o) THEN StepOfPhase(operations[o].phase) ELSE "BLOCK",
             op |-> o, copy |-> Copied(operations[o]), target |-> None]]
    /\ StoreOnly

(* Mutant: the copy's intent is saved over the stored one.                   *)
KeptWithoutIntent(s) ==
    [operations[tick[s].op] EXCEPT !.status = "RUNNING", !.phase = tick[s].copy.phase,
                                   !.retained = tick[s].copy.retained, !.intent = FALSE,
                                   !.result = tick[s].copy.result, !.owner = None, !.live = FALSE]

(* What save writes: the copy, with the lease given up.  The stored intent is
   kept unless the step it belongs to is confirmed.                          *)
Kept(s) == [operations[tick[s].op] EXCEPT !.status = "RUNNING", !.phase = tick[s].copy.phase,
                                          !.retained = tick[s].copy.retained,
                                          !.result = tick[s].copy.result,
                                          !.owner = None, !.live = FALSE]

(* Mutant: whoever saves is believed.                                        *)
FailedByAnyone(s) ==
    operations' = [operations EXCEPT ![tick[s].op] = [Kept(s) EXCEPT !.status = "FAILED"]]

(* save when it ends the operation badly: only the owner of the lease is
   checked.                                                                  *)
Failed(s) ==
    LET o == tick[s].op
    IN  IF operations[o].owner = s
        THEN operations' = [operations EXCEPT ![o] = [Kept(s) EXCEPT !.status = "FAILED"]]
        ELSE UNCHANGED operations

finish(s) ==
    /\ tick[s].step = "BLOCK"
    /\ Failed(s)
    /\ Ends(s) /\ StoreOnly

(* save when it goes on: refused without a live lease and an unchanged
   selection, which leaves the lease to end by itself.                       *)
Saved(s, after) ==
    LET o == tick[s].op
    IN  IF retentionLease(s, o, tick[s].copy)
        THEN operations' = [operations EXCEPT ![o] = after]
        ELSE UNCHANGED operations

(* retry, until more than 45 minutes after the operation was created.        *)
Retried(s) == Saved(s, Kept(s)) \/ Failed(s)

retry(s) ==
    /\ tick[s].step = "RETRY"
    /\ Retried(s)
    /\ Ends(s) /\ StoreOnly

(* Reading retained refs and the generated branch.                           *)
RefsExact(some) == \A r \in some : refs[r] = "exact"
verifyRetainedSource(o) ==
    /\ operations[o].retained = Retention(o)
    /\ RefsExact(Retention(o))
    /\ generated[o] = "done"

(* The next thing an operation has to write: a ref that is not retained yet,
   in order, or the generated branch.                                        *)
NextTarget(copy, o) ==
    LET left == Retention(o) \ copy.retained
    IN  IF left = {} THEN None ELSE CHOOSE r \in left : TRUE

(* COMPOSE_SOURCE: admitted refs are read and never healed, and
   validateFlowSource compares the declared history with the provider's.     *)
Prepared(s) ==
    /\ tick[s].step = "SOURCE" /\ tick[s].copy.result = "none"
    /\ RefsExact(tick[s].copy.retained)

Unprepared(s) ==
    /\ tick[s].step = "SOURCE" /\ tick[s].copy.result = "none"
    /\ ~RefsExact(tick[s].copy.retained) \/ NextTarget(tick[s].copy, tick[s].op) = None
    /\ Goes(s, "BLOCK")
    /\ TickOnly

(* A Tick that may not write: before a retained ref it blocks the operation,
   before the generated branch it only ends.                                 *)
Refused(s, t) == IF t = None THEN Ends(s) ELSE Goes(s, "BLOCK")

(* beginReservationMutation saves the intent, and ensureSourceRef or
   ComposeSource sends what is absent.  A write on the wire need not arrive:
   the server may have died before it sent anything.                         *)
beginReservationMutation(s) ==
    LET o == tick[s].op
        t == NextTarget(tick[s].copy, o)
        absent == IF t = None THEN generated[o] = "none" ELSE refs[t] = "none"
    IN  /\ Prepared(s) /\ ~operations[o].intent
        /\ IF retentionLease(s, o, tick[s].copy)
           THEN /\ operations' = [operations EXCEPT ![o].intent = TRUE]
                /\ tick' = [tick EXCEPT ![s].step = "LOOK", ![s].target = t]
                /\ wire' = IF absent THEN wire \union {<<o, t>>} ELSE wire
                /\ posted' = IF absent THEN [posted EXCEPT ![<<o, t>>] = @ + 1] ELSE posted
           ELSE Refused(s, t) /\ UNCHANGED <<operations, wire, posted>>
        /\ UNCHANGED <<compositions, environment, revisions, conflicts, refs, generated, refresh,
                       receipt, events, decided>>

(* A write already intended is only looked for.  A ref that is not there, or a
   generated branch whose retained refs are not, blocks the operation; a branch
   that is missing or does not verify leaves it RUNNING, to be looked at again. *)
reservationMutationRecovery(s) ==
    LET o == tick[s].op
        t == NextTarget(tick[s].copy, o)
        found == IF t = None THEN verifyRetainedSource(o) ELSE refs[t] = "exact"
    IN  /\ Prepared(s) /\ operations[o].intent
        /\ IF ~retentionLease(s, o, tick[s].copy) THEN Refused(s, t)
           ELSE IF t = None /\ generated[o] # "done" THEN Ends(s)
           ELSE tick' = [tick EXCEPT ![s].step = IF found THEN "ADMIT" ELSE "BLOCK", ![s].target = t]
        /\ TickOnly

(* A write reaches the provider, with its caller waiting or long gone; a
   create of what exists by then is refused.                                 *)
Arrives(w) ==
    /\ w \in wire
    /\ wire' = wire \ {w}
    /\ IF w[2] = None
       THEN /\ ~terminalOperation(w[1])   \* a bound: nobody reads it later
            /\ generated' = [generated EXCEPT ![w[1]] = IF @ = "none" THEN "done" ELSE @]
            /\ UNCHANGED refs
       ELSE /\ refs' = [refs EXCEPT ![w[2]] = IF @ = "none" THEN "exact" ELSE @]
            /\ UNCHANGED generated
    /\ UNCHANGED <<operations, compositions, environment, revisions, conflicts, tick, refresh,
                   receipt, events, posted, decided>>

(* The readback after a write of this Tick.  A ref that cannot be seen is
   retried, one that points elsewhere blocks; a generated branch that is not
   there is a failure, or a conflict when nothing was merged.                *)
Look(s) ==
    LET o == tick[s].op
        t == tick[s].target
    IN  /\ tick[s].step = "LOOK"
        /\ \/ /\ t # None
              /\ Goes(s, CASE refs[t] = "exact" -> "ADMIT" [] refs[t] = "none" -> "RETRY"
                           [] OTHER -> "BLOCK")
              /\ UNCHANGED wire
           \/ /\ t = None
              /\ Goes(s, IF verifyRetainedSource(o) THEN "ADMIT" ELSE "BLOCK")
              /\ UNCHANGED wire
           \/ /\ t = None /\ generated[o] = "none" /\ operations[o].resolution = 0
              /\ <<o, t>> \in wire
              /\ Goes(s, "CONFLICT")
              /\ wire' = wire \ {<<o, t>>}
        /\ UNCHANGED <<operations, compositions, environment, revisions, conflicts, refs,
                       generated, refresh, receipt, events, posted, decided>>

(* The outcome is admitted against the untouched input and settles the intent. *)
admitSourceProgress(s) ==
    LET t == tick[s].target
        after == [Kept(s) EXCEPT !.intent = FALSE,
                                 !.retained = IF t = None THEN @ ELSE @ \union {t},
                                 !.result = IF t = None THEN "done" ELSE @]
    IN  /\ tick[s].step = "ADMIT"
        /\ Saved(s, after)
        /\ Ends(s) /\ StoreOnly

admitSourceConflict(s) ==
    LET o == tick[s].op
    IN  /\ tick[s].step = "CONFLICT"
        /\ IF retentionLease(s, o, tick[s].copy)
           THEN /\ operations' = [operations EXCEPT ![o] =
                        [Kept(s) EXCEPT !.intent = FALSE, !.result = "conflict", !.status = "FAILED"]]
                /\ conflicts' = [conflicts EXCEPT ![o].status = "requires_resolution"]
           ELSE UNCHANGED <<operations, conflicts>>
        /\ Ends(s)
        /\ UNCHANGED <<compositions, environment, revisions, refs, generated, wire, refresh, receipt,
                       events, posted, decided>>

(* All sources are composed: they are read again and the builds are due.     *)
SourceReady(s) ==
    LET o == tick[s].op
    IN  /\ tick[s].step = "SOURCE" /\ operations[o].result # "none"
        /\ IF verifyRetainedSource(o)
           THEN Saved(s, [Kept(s) EXCEPT !.phase = "QUEUE_BUILDS"])
           ELSE Failed(s)
        /\ Ends(s) /\ StoreOnly

(* Everything is read again before children are made, ...                    *)
VerifyForChildren(s) ==
    /\ tick[s].step = "VERIFY"
    /\ IF retentionLease(s, tick[s].op, tick[s].copy)
       THEN Goes(s, IF verifyRetainedSource(tick[s].op) THEN "QUEUE" ELSE "BLOCK")
       ELSE Ends(s)
    /\ TickOnly

(* ... which is a transaction of its own.                                    *)
queueFlowChildren(s) ==
    /\ tick[s].step = "QUEUE"
    /\ operations[tick[s].op].child = "none" \/ ~retentionLease(s, tick[s].op, tick[s].copy)
    /\ Saved(s, [Kept(s) EXCEPT !.phase = "WAIT_CHILDREN", !.child = "PENDING"])
    /\ Ends(s) /\ StoreOnly

(* The children are judged as the Tick read them, ...                        *)
WaitChildren(s) ==
    LET child == tick[s].copy.child
    IN  /\ tick[s].step = "CHILDREN"
        /\ CASE child = "FAILED" -> Failed(s)
             [] child = "SUCCEEDED" -> Saved(s, [Kept(s) EXCEPT !.phase = "WAIT_RUNTIME"])
             [] OTHER -> Retried(s)
        /\ Ends(s) /\ StoreOnly

(* ... and so is the latest observation of each child's runtime: all healthy,
   one unhealthy, or one missing.                                            *)
WaitRuntime(s) ==
    /\ tick[s].step = "RUNTIME"
    /\ Saved(s, [Kept(s) EXCEPT !.status = "SUCCEEDED"]) \/ Failed(s) \/ Retried(s)
    /\ Ends(s) /\ StoreOnly

-----------------------------------------------------------------------------
(* The child deployment, modelled by OperationExecutor                      *)

flowChildAllowed(o) ==
    /\ operations[o].status \notin {"FAILED", "CANCELLED"}
    /\ flowGuard(o)

Child(o, from, to) ==
    /\ operations[o].child = from
    /\ operations' = [operations EXCEPT ![o].child = to]
    /\ UNCHANGED tick /\ StoreOnly

(* A Tick's write is under way, is to be tried again, or ends.               *)
ChildApplies(o) == flowChildAllowed(o) /\ Child(o, "PENDING", "APPLYING")
ChildWaits(o) == Child(o, "APPLYING", "PENDING")
ChildEnds(o, to) == Child(o, "APPLYING", to)
ChildRefused(o) == Child(o, "PENDING", "FAILED")

-----------------------------------------------------------------------------
(* Time, faults and others                                                  *)

(* A Tick outlives its lease; or the server dies and its lease ends.         *)
LeaseEnds(o) ==
    LET held == operations[o].owner # None /\ tick[operations[o].owner].op = o
    IN  /\ operations[o].live
        /\ held => events < MaxEvents
        /\ events' = IF held THEN events + 1 ELSE events
        /\ operations' = [operations EXCEPT ![o].live = FALSE]
        /\ UNCHANGED <<compositions, environment, revisions, conflicts, refs, generated, wire,
                       tick, refresh, receipt, posted, decided>>

Crash(s) ==
    /\ tick[s].step # "IDLE"
    /\ Event
    /\ Ends(s)
    /\ UNCHANGED <<operations, compositions, environment, revisions, conflicts, refs, generated,
                   wire, refresh, receipt, posted, decided>>

(* Somebody else moves a retained ref or a generated branch.                 *)
Tamper(r) ==
    /\ Event
    /\ \/ refs[r] # "moved" /\ refs' = [refs EXCEPT ![r] = "moved"] /\ UNCHANGED generated
       \/ \E o \in Ops : generated[o] = "done" /\ generated' = [generated EXCEPT ![o] = "moved"]
                           /\ UNCHANGED refs
    /\ UNCHANGED <<operations, compositions, environment, revisions, conflicts, wire, tick,
                   refresh, receipt, posted, decided>>

(* A binding, connection or build configuration is changed.                  *)
Reconfigure ==
    /\ Event
    /\ operations # <<>>
    /\ operations' = [o \in Ops |-> [operations[o] EXCEPT !.frozen = FALSE]]
    /\ UNCHANGED <<compositions, environment, revisions, conflicts, refs, generated, wire, tick,
                   refresh, receipt, posted, decided>>

(* RestoreBackup cancels what is under way; lineages older than it are void. *)
RestoreBackup ==
    /\ Event
    /\ operations # <<>>
    /\ operations' = [o \in Ops |->
            LET op == [operations[o] EXCEPT !.current = FALSE,
                                            !.child = IF @ \in {"PENDING", "APPLYING"} THEN "FAILED" ELSE @]
            IN  IF terminalOperation(o) THEN op
                ELSE [op EXCEPT !.status = "CANCELLED", !.owner = None, !.live = FALSE]]
    /\ UNCHANGED <<compositions, environment, revisions, conflicts, refs, generated, wire, tick,
                   refresh, receipt, posted, decided>>

-----------------------------------------------------------------------------
Phases == {"COMPOSE_SOURCE", "QUEUE_BUILDS", "WAIT_CHILDREN", "WAIT_RUNTIME"}
Steps == {"IDLE", "BLOCK", "RETRY", "SOURCE", "VERIFY", "QUEUE", "CHILDREN", "RUNTIME", "LOOK",
          "ADMIT", "CONFLICT"}
Children == {"none", "PENDING", "APPLYING", "SUCCEEDED", "FAILED"}
Results == {"none", "done", "conflict"}
Revisions == Integrations \X Nat

OperationRecord ==
    [status : {"PENDING", "RUNNING", "SUCCEEDED", "FAILED", "CANCELLED"}, phase : Phases,
     composition : Nat, resolution : Nat, parent : Nat, origin : Nat,
     retained : SUBSET Revisions, result : Results, intent : BOOLEAN,
     owner : Servers \union {None}, live : BOOLEAN, current : BOOLEAN, frozen : BOOLEAN,
     child : Children]

Plans == [revision : [Integrations -> Nat], auto : BOOLEAN]
Selections == [composition : Nat, operation : Nat, generation : Nat]
Copies == [retained : SUBSET Revisions, result : Results, phase : Phases, child : Children]

TickRecord ==
    [step : Steps, op : Nat, copy : Copies \union {None}, target : Revisions \union {None}]

TypeOK ==
    /\ operations \in Seq(OperationRecord)
    /\ compositions \in Seq(Plans)
    /\ environment \in Selections
    /\ revisions \in [Integrations -> Nat \ {0}]
    /\ conflicts \in [OpIds -> [status : {"none", "requires_resolution", "claimed",
                                          "verification_required", "resolved"},
                                passed : BOOLEAN]]
    /\ refs \in [RevisionIds -> {"none", "exact", "moved"}]
    /\ generated \in [OpIds -> {"none", "done", "moved"}]
    /\ wire \subseteq Ops \X (Revisions \union {None})
    /\ tick \in [Servers -> TickRecord]
    /\ refresh \in [token : Selections, scope : SUBSET Integrations] \union {None}
    /\ receipt \in Nat /\ decided \in Nat /\ events \in Nat
    /\ posted \in [OpIds \X Targets -> Nat]

Init ==
    /\ operations = <<>> /\ compositions = <<>>
    /\ environment = [composition |-> 0, operation |-> 0, generation |-> 0]
    /\ revisions = [i \in Integrations |-> 1]
    /\ conflicts = [o \in OpIds |-> [status |-> "none", passed |-> FALSE]]
    /\ refs = [r \in RevisionIds |-> "none"]
    /\ generated = [o \in OpIds |-> "none"]
    /\ wire = {}
    /\ tick = [s \in Servers |-> Idle]
    /\ refresh = None
    /\ receipt = 0
    /\ events = 0
    /\ posted = [w \in OpIds \X Targets |-> 0]
    /\ decided = 0

People ==
    \/ \E scope \in SUBSET Integrations : assemble_environment(scope)
    \/ \E c \in 1..Len(compositions), k \in Ops \union {0} : reconcile_composition(c, k)
    \/ \E c \in 1..Len(compositions) : select_composition(c)
    \/ \E i \in Integrations : record_integration_revision(i)
                              \/ \E r \in 1..revisions[i] : update_environment_feature(i, r)
    \/ \E o \in Ops : \/ claim_composition_conflict(o) \/ record_conflict_resolution(o)
                      \/ verify_conflict_resolution(o)
                      \/ \E passed \in BOOLEAN : RecordResult(o, passed)

Server(s) ==
    \/ \E o \in Ops : Claim(s, o)
    \/ finish(s) \/ retry(s) \/ Unprepared(s) \/ beginReservationMutation(s)
    \/ Look(s) \/ reservationMutationRecovery(s) \/ admitSourceProgress(s)
    \/ admitSourceConflict(s) \/ SourceReady(s) \/ VerifyForChildren(s) \/ queueFlowChildren(s)
    \/ WaitChildren(s) \/ WaitRuntime(s)

Others ==
    \/ ReadForRefresh \/ SubmitRefresh
    \/ \E w \in wire : Arrives(w)
    \/ \E o \in Ops : \/ ChildApplies(o) \/ ChildWaits(o) \/ ChildRefused(o)
                      \/ \E to \in {"SUCCEEDED", "FAILED"} : ChildEnds(o, to)
                      \/ LeaseEnds(o)
    \/ \E s \in Servers : Crash(s)
    \/ \E r \in RevisionIds : Tamper(r)
    \/ Reconfigure \/ RestoreBackup

Next == People \/ (\E s \in Servers : Server(s)) \/ Others

Spec == Init /\ [][Next]_vars

-----------------------------------------------------------------------------
(* Properties                                                               *)

(* No write is sent twice: whichever server dies, outlives its lease or loses
   an answer, the intent saved before a retained ref or a generated branch is
   created lets later Ticks only look for it.                                *)
WrittenOnce == \A w \in OpIds \X Targets : posted[w] <= 1

(* What the environment wants is what a person chose last: the scheduler's
   refresh, submitted with a selection it read earlier, follows the operation
   of that choice and keeps its integrations, and never displaces it.        *)
PersonDecides ==
    IF environment.operation = 0 THEN decided = 0
    ELSE /\ operations[environment.operation].origin = decided
         /\ selectedIntegrations(environment.composition) =
                selectedIntegrations(operations[decided].composition)

(* A server that saves an old copy takes nothing back: retained refs, the
   composed result, queued children and the end of an operation stay.        *)
ProgressIsKept ==
    [][\A o \in Ops :
          /\ operations[o].retained \subseteq operations'[o].retained
          /\ operations[o].result # "none" => operations'[o].result = operations[o].result
          /\ operations[o].child # "none" => operations'[o].child # "none"
          /\ terminalOperation(o) => operations'[o].status = operations[o].status]_vars
=============================================================================
