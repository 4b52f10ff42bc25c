----------------------------- MODULE ReleaseFlow -----------------------------
(***************************************************************************)
(* The way of a product to production: release candidates that compose     *)
(* selected work and advance main, candidates derived from what is on main *)
(* already, the scenarios run on them, promotions that deploy a verified   *)
(* candidate, and the releases these record.  One product, one production  *)
(* environment and one blocking scenario that covers all the work.         *)
(***************************************************************************)
EXTENDS Integers, Sequences, FiniteSets, SequencesExt

CONSTANTS Servers,       \* service processes, each running one Tick at a time
          Clients,       \* senders of one and the same main candidate request
          Repositories,
          None,          \* no value
          MaxOps,        \* bound on candidates and promotions
          MaxPushes,     \* bound on commits people push to a main
          MaxEvents      \* bound on deaths, leases outlived, changed verdicts and
                         \* readiness, other selections, configurations, restores

ASSUME ReleaseAssumption ==
    /\ MaxOps \in Nat /\ MaxPushes \in Nat /\ MaxEvents \in Nat
    /\ None \notin Servers \union Clients \union Repositories

VARIABLES
    operations,  \* RELEASE_CANDIDATE and RELEASE_PROMOTION, in order of creation
    desired,     \* the operation the environment wants, 0: something else
    work,        \* the selected integrations: ready or not, version of the evidence
    verdict,     \* candidate -> latest run of the latest version of the scenario
    main,        \* provider: repository -> the commits of its main, oldest first
    generated,   \* provider: the operations whose generated branches exist
    wire,        \* updates of main sent and not arrived
    tick,        \* what each server is doing
    request,     \* what each client's request has read
    releases,    \* the recorded releases
    pushed,      \* history: what people pushed
    events

vars == <<operations, desired, work, verdict, main, generated, wire, tick, request, releases,
          pushed, events>>

Ops == 1..Len(operations)
OpIds == 1..MaxOps
Event == events < MaxEvents /\ events' = events + 1

terminalOperation(o) == operations[o].status \in {"SUCCEEDED", "FAILED", "CANCELLED"}

(* A commit is the sequence of commits that leads to it.  Operation o adds o. *)
Operation(kind, phase, candidate, base) ==
    [kind |-> kind, status |-> "PENDING", phase |-> phase, candidate |-> candidate,
     base |-> base, source |-> base, composed |-> FALSE, advanced |-> {}, intent |-> FALSE,
     evidence |-> work.evidence, owner |-> None, live |-> FALSE, frozen |-> TRUE,
     child |-> "none", health |-> "none"]

-----------------------------------------------------------------------------
(* Guards                                                                   *)

(* All selected work is ready; what was ready before may not be any more.    *)
releaseWorkReady == work.ready

(* The latest run of the blocking scenario passed on this very candidate.    *)
scenarioCandidateReady(c) == operations[c].status = "SUCCEEDED" /\ verdict[c] = "passed"

(* A candidate from main holds on to the evidence it was requested with.     *)
mainCandidateGuard(o) ==
    /\ operations[o].status \notin {"FAILED", "CANCELLED"}
    /\ operations[o].evidence = work.evidence
    /\ releaseWorkReady

flowGuard(o) ==
    /\ operations[o].frozen
    /\ CASE operations[o].kind = "MAIN" -> mainCandidateGuard(o)
         [] operations[o].kind = "COMPOSED" -> releaseWorkReady
         [] operations[o].kind = "PROMOTION" ->
              /\ desired = o
              /\ releaseWorkReady
              /\ scenarioCandidateReady(operations[o].candidate)

(* No deployment is being written under a live lease.                        *)
selectionAllowed == \A o \in Ops : operations[o].child # "APPLYING"

-----------------------------------------------------------------------------
(* Commands                                                                 *)

(* A person approves that selected work is composed and advances main.  Only
   one such candidate is under way.                                          *)
prepare_release_candidate ==
    /\ Len(operations) < MaxOps
    /\ releaseWorkReady
    /\ \A o \in Ops : operations[o].kind \in {"COMPOSED", "MAIN"} => terminalOperation(o)
    /\ operations' = Append(operations, Operation("COMPOSED", "COMPOSE_SOURCE", 0, main))
    /\ UNCHANGED <<desired, work, verdict, main, generated, wire, tick, request, releases, pushed,
                   events>>

(* The request for a candidate from main looks for its key, prepares the
   candidate from the state it read and observes main, without a lock, ...   *)
candidateReplay == \E o \in Ops : operations[o].kind = "MAIN"

observeRequest(c) ==
    /\ request[c] = None /\ Len(operations) < MaxOps
    /\ ~candidateReplay
    /\ releaseWorkReady
    /\ request' = [request EXCEPT ![c] = Operation("MAIN", "QUEUE_BUILDS", 0, main)]
    /\ UNCHANGED <<operations, desired, work, verdict, main, generated, wire, tick, releases, pushed,
                   events>>

(* Mutant: the key is not looked for again.                                  *)
executeWithoutReplay(c) ==
    /\ request[c] # None
    /\ Len(operations) < MaxOps
    /\ request' = [request EXCEPT ![c] = None]
    /\ IF request[c].evidence = work.evidence /\ releaseWorkReady
       THEN operations' = Append(operations, request[c])
       ELSE UNCHANGED operations
    /\ UNCHANGED <<desired, work, verdict, main, generated, wire, tick, releases, pushed, events>>

(* ... and is admitted if it still stands; a known key only reads.           *)
executeMainCandidate(c) ==
    /\ request[c] # None
    /\ Len(operations) < MaxOps
    /\ request' = [request EXCEPT ![c] = None]
    /\ IF ~candidateReplay /\ request[c].evidence = work.evidence /\ releaseWorkReady
       THEN operations' = Append(operations, request[c])
       ELSE UNCHANGED operations
    /\ UNCHANGED <<desired, work, verdict, main, generated, wire, tick, releases, pushed, events>>

(* A person promotes a verified candidate, at most once.  Native components,
   of which a candidate from main consists, have no promotion.               *)
promote_release_candidate(c) ==
    /\ Len(operations) < MaxOps
    /\ operations[c].kind = "COMPOSED" /\ operations[c].status = "SUCCEEDED"
    /\ releaseWorkReady /\ scenarioCandidateReady(c)
    /\ \A o \in Ops : operations[o].candidate # c
    /\ selectionAllowed
    /\ operations' = Append(operations,
                        [Operation("PROMOTION", "QUEUE_DEPLOYMENTS", c, main) EXCEPT
                            !.base = operations[c].base, !.source = operations[c].source])
    /\ desired' = Len(operations) + 1
    /\ UNCHANGED <<work, verdict, main, generated, wire, tick, request, releases, pushed, events>>

(* A person selects something else for the environment.                      *)
SelectOther ==
    /\ Event
    /\ desired # 0 /\ selectionAllowed
    /\ desired' = 0
    /\ UNCHANGED <<operations, work, verdict, main, generated, wire, tick, request, releases, pushed>>

(* The scenario is run on a finished candidate, or run again.                *)
record_scenario_run(c, result) ==
    /\ operations[c].kind # "PROMOTION" /\ operations[c].status = "SUCCEEDED"
    /\ verdict[c] # result
    /\ IF verdict[c] = "none" THEN UNCHANGED events ELSE Event
    /\ verdict' = [verdict EXCEPT ![c] = result]
    /\ UNCHANGED <<operations, desired, work, main, generated, wire, tick, request, releases, pushed>>

(* A new version of the scenario has no runs.                                *)
revise_test_scenario ==
    /\ Event
    /\ \E c \in OpIds : verdict[c] # "none"
    /\ verdict' = [c \in OpIds |-> "none"]
    /\ UNCHANGED <<operations, desired, work, main, generated, wire, tick, request, releases, pushed>>

(* A check of the selected work is recorded again.                           *)
RecordResult(passed) ==
    /\ Event
    /\ work' = [ready |-> passed, evidence |-> work.evidence + 1]
    /\ UNCHANGED <<operations, desired, verdict, main, generated, wire, tick, request, releases,
                   pushed>>

(* Evidence about a deployment that is wanted; the latest counts.            *)
record_runtime_observation(o, health) ==
    /\ operations[o].kind = "PROMOTION" /\ operations[o].child = "SUCCEEDED"
    /\ desired = o /\ ~terminalOperation(o)
    /\ operations[o].health # health
    /\ IF operations[o].health = "none" THEN UNCHANGED events ELSE Event
    /\ operations' = [operations EXCEPT ![o].health = health]
    /\ UNCHANGED <<desired, work, verdict, main, generated, wire, tick, request, releases, pushed>>

-----------------------------------------------------------------------------
(* Tick on a candidate or a promotion                                       *)

Idle == [step |-> "IDLE", op |-> 0, repository |-> None, child |-> "none", health |-> "none"]

Goes(s, step) == tick' = [tick EXCEPT ![s].step = step]
Ends(s) == tick' = [tick EXCEPT ![s] = Idle]

StoreOnly == UNCHANGED <<desired, work, verdict, main, generated, wire, request, releases, pushed,
                         events>>

StepOf(o) ==
    CASE ~flowGuard(o) -> "BLOCK"
      [] flowGuard(o) /\ operations[o].kind = "MAIN" -> "OBSERVE"
      [] OTHER -> operations[o].phase

(* A bound: servers at work at the same time are at work on one operation.   *)
Overlap(o) == \A s \in Servers : tick[s].op \in {0, o}

(* Tick leases an operation nobody holds; tickFlow reads the state and checks
   the guard.                                                                *)
Claim(s, o) ==
    /\ tick[s].step = "IDLE" /\ Overlap(o)
    /\ ~terminalOperation(o) /\ ~operations[o].live
    /\ tick' = [tick EXCEPT ![s] = [step |-> StepOf(o), op |-> o, repository |-> None,
                                    child |-> operations[o].child, health |-> operations[o].health]]
    /\ operations' = [operations EXCEPT ![o].status = "RUNNING", ![o].owner = s, ![o].live = TRUE]
    /\ StoreOnly

Released(op) == [op EXCEPT !.owner = None, !.live = FALSE]

(* save: only the owner of the lease is believed; what would go on without
   the guard ends instead.                                                   *)
Failed(s) ==
    LET o == tick[s].op
    IN  operations' = IF operations[o].owner = s
                      THEN [operations EXCEPT ![o] = [Released(@) EXCEPT !.status = "FAILED"]]
                      ELSE operations

Saved(s, after) ==
    LET o == tick[s].op
    IN  IF operations[o].owner = s /\ flowGuard(o)
        THEN operations' = [operations EXCEPT ![o] = Released(after)]
        ELSE Failed(s)

(* retry, until more than 45 minutes after the operation was created.        *)
Retried(s) == Saved(s, operations[tick[s].op]) \/ Failed(s)

finish(s) ==
    /\ tick[s].step = "BLOCK"
    /\ Failed(s) /\ Ends(s) /\ StoreOnly

(* Main and the merged pull requests of a candidate from main are observed
   before every step; an answer that differs, or none, blocks it.            *)
observeMainCandidate(s) ==
    LET o == tick[s].op
    IN  /\ tick[s].step = "OBSERVE"
        /\ \/ /\ \A r \in Repositories : IsPrefix(operations[o].source[r], main[r])
              /\ Goes(s, operations[o].phase)
           \/ Goes(s, "BLOCK")
        /\ UNCHANGED operations /\ StoreOnly

(* The repositories are taken one by one.                                    *)
NextOf(left) == CHOOSE r \in left : TRUE

(* beginReservationMutation: a saved intent lets nobody write again.         *)
MayBegin(s, o) ==
    /\ operations[o].owner = s /\ operations[o].live /\ ~terminalOperation(o)
    /\ flowGuard(o)
    /\ ~operations[o].intent

Begins(s, o, r, step) ==
    IF MayBegin(s, o)
    THEN /\ operations' = [operations EXCEPT ![o].intent = TRUE]
         /\ tick' = [tick EXCEPT ![s].step = step, ![s].repository = r]
    ELSE Ends(s) /\ UNCHANGED operations

(* COMPOSE_SOURCE, which CompositionFlow takes apart, is one write here: the
   sources are composed, or the call fails or finds a conflict.              *)
ComposeSource(s) ==
    LET o == tick[s].op
    IN  /\ tick[s].step = "COMPOSE_SOURCE" /\ ~operations[o].composed /\ ~operations[o].intent
        /\ Begins(s, o, None, "COMPOSED")
        /\ \/ UNCHANGED generated
           \/ MayBegin(s, o) /\ generated' = generated \union {o}
        /\ UNCHANGED <<desired, work, verdict, main, wire, request, releases, pushed, events>>

(* An intent without an outcome: the generated branch is looked for.  If it
   cannot be seen the Tick ends, and so does every later one.                *)
RecoverSource(s) ==
    LET o == tick[s].op
    IN  /\ tick[s].step = "COMPOSE_SOURCE" /\ ~operations[o].composed /\ operations[o].intent
        /\ IF o \in generated THEN Goes(s, "COMPOSED") ELSE Ends(s)
        /\ UNCHANGED operations /\ StoreOnly

Composed(o) ==
    [operations[o] EXCEPT !.composed = TRUE, !.intent = FALSE,
                          !.source = [r \in Repositories |-> Append(operations[o].base[r], o)]]

SaveSource(s) ==
    /\ tick[s].step = "COMPOSED"
    /\ IF tick[s].op \in generated THEN Saved(s, Composed(tick[s].op)) ELSE Failed(s)
    /\ Ends(s) /\ StoreOnly

SourceReady(s) ==
    LET o == tick[s].op
    IN  /\ tick[s].step = "COMPOSE_SOURCE" /\ operations[o].composed
        /\ Saved(s, [operations[o] EXCEPT !.phase = "ADVANCE_MAIN"])
        /\ Ends(s) /\ StoreOnly

(* ADVANCE_MAIN has no recovery: with an intent left by a dead server every
   Tick ends here.                                                           *)
BeginAdvance(s) ==
    LET o == tick[s].op
        left == Repositories \ operations[o].advanced
    IN  /\ tick[s].step = "ADVANCE_MAIN" /\ left # {}
        /\ Begins(s, o, NextOf(left), "READ_MAIN")
        /\ StoreOnly

(* AdvanceMain reads main, ...                                               *)
AdvanceMain(s) ==
    LET o == tick[s].op
        r == tick[s].repository
    IN  /\ tick[s].step = "READ_MAIN"
        /\ IF main[r] = operations[o].base[r]
           THEN Goes(s, "READ_BACK") /\ wire' = wire \union {<<o, r>>}
           ELSE /\ Goes(s, IF main[r] = operations[o].source[r] THEN "ADVANCED" ELSE "BLOCK")
                /\ UNCHANGED wire
        /\ UNCHANGED <<operations, desired, work, verdict, main, generated, request, releases, pushed,
                       events>>

(* Mutant: the update is forced.                                             *)
ForcedUpdate(w) ==
    /\ w \in wire
    /\ wire' = wire \ {w}
    /\ main' = [main EXCEPT ![w[2]] = operations[w[1]].source[w[2]]]
    /\ UNCHANGED <<operations, desired, work, verdict, generated, tick, request, releases, pushed,
                   events>>

(* ... sends an update that is not forced, which arrives now or later, ...   *)
UpdateRef(w) ==
    /\ w \in wire
    /\ wire' = wire \ {w}
    /\ main' = [main EXCEPT ![w[2]] =
                    IF IsPrefix(@, operations[w[1]].source[w[2]]) THEN operations[w[1]].source[w[2]] ELSE @]
    /\ UNCHANGED <<operations, desired, work, verdict, generated, tick, request, releases, pushed,
                   events>>

(* Mutant: the answer to the update is taken for its outcome.                *)
TrustUpdate(s) ==
    /\ tick[s].step = "READ_BACK"
    /\ Goes(s, "ADVANCED")
    /\ UNCHANGED operations /\ StoreOnly

(* ... and reads main again.                                                 *)
ReadBack(s) ==
    /\ tick[s].step = "READ_BACK"
    /\ Goes(s, IF main[tick[s].repository] = operations[tick[s].op].source[tick[s].repository]
               THEN "ADVANCED" ELSE "BLOCK")
    /\ UNCHANGED operations /\ StoreOnly

SaveAdvance(s) ==
    LET o == tick[s].op
    IN  /\ tick[s].step = "ADVANCED"
        /\ Saved(s, [operations[o] EXCEPT !.advanced = @ \union {tick[s].repository}, !.intent = FALSE])
        /\ Ends(s) /\ StoreOnly

MainReady(s) ==
    LET o == tick[s].op
    IN  /\ tick[s].step = "ADVANCE_MAIN" /\ operations[o].advanced = Repositories
        /\ Saved(s, [operations[o] EXCEPT !.phase = "QUEUE_BUILDS"])
        /\ Ends(s) /\ StoreOnly

(* queueFlowChildren: builds for a candidate, deployments of the candidate's
   artifacts for a promotion, once.                                          *)
queueFlowChildren(s) ==
    LET o == tick[s].op
    IN  /\ tick[s].step \in {"QUEUE_BUILDS", "QUEUE_DEPLOYMENTS"}
        /\ operations' = IF operations[o].owner = s /\ flowGuard(o) /\ operations[o].child = "none"
                         THEN [operations EXCEPT ![o] = [Released(@) EXCEPT !.phase = "WAIT_CHILDREN",
                                                                            !.child = "PENDING"]]
                         ELSE operations
        /\ Ends(s) /\ StoreOnly

(* The children are judged as this Tick read them.                           *)
WaitChildren(s) ==
    LET o == tick[s].op
    IN  /\ tick[s].step = "WAIT_CHILDREN"
        /\ CASE tick[s].child = "FAILED" -> Failed(s)
             [] tick[s].child = "SUCCEEDED" ->
                  Saved(s, IF operations[o].kind = "PROMOTION"
                           THEN [operations[o] EXCEPT !.phase = "WAIT_RUNTIME"]
                           ELSE [operations[o] EXCEPT !.status = "SUCCEEDED"])
             [] OTHER -> Retried(s)
        /\ Ends(s) /\ StoreOnly

WaitRuntime(s) ==
    /\ tick[s].step = "WAIT_RUNTIME"
    /\ CASE tick[s].health = "unhealthy" -> Failed(s) /\ Ends(s)
         [] tick[s].health = "none" -> Retried(s) /\ Ends(s)
         [] OTHER -> Goes(s, "RELEASE") /\ UNCHANGED operations
    /\ StoreOnly

ReleaseOf(o) == [promotion |-> o, candidate |-> operations[o].candidate, source |-> operations[o].source]

Recorded(s) ==
    LET o == tick[s].op
    IN  /\ operations' = [operations EXCEPT ![o] = [Released(@) EXCEPT !.status = "SUCCEEDED"]]
        /\ releases' = releases \union {ReleaseOf(o)}
        /\ work' = [work EXCEPT !.evidence = @ + 1]

(* Mutant: what this Tick read of the runtime is enough.                     *)
finishUnchecked(s) ==
    LET o == tick[s].op
    IN  /\ tick[s].step = "RELEASE"
        /\ IF operations[o].owner = s /\ flowGuard(o)
           THEN Recorded(s)
           ELSE UNCHANGED <<operations, releases, work>>
        /\ Ends(s)
        /\ UNCHANGED <<desired, verdict, main, generated, wire, request, pushed, events>>

(* The release is recorded and the work released in one transaction that
   looks at the guard and the runtime again; refused, it is tried again.     *)
finishFlowRelease(s) ==
    LET o == tick[s].op
    IN  /\ tick[s].step = "RELEASE"
        /\ IF operations[o].owner = s /\ flowGuard(o) /\ operations[o].health = "healthy"
           THEN Recorded(s)
           ELSE UNCHANGED <<operations, releases, work>>
        /\ Ends(s)
        /\ UNCHANGED <<desired, verdict, main, generated, wire, request, pushed, events>>

-----------------------------------------------------------------------------
(* The children, modelled by OperationExecutor and NativeDelivery           *)

flowChildAllowed(o) ==
    /\ operations[o].status \notin {"FAILED", "CANCELLED"}
    /\ flowGuard(o)

Child(o, from, to) ==
    /\ operations[o].child = from
    /\ operations' = [operations EXCEPT ![o].child = to]
    /\ UNCHANGED tick /\ StoreOnly

ChildBuilds(o) ==
    /\ operations[o].kind # "PROMOTION" /\ flowChildAllowed(o)
    /\ Child(o, "PENDING", "SUCCEEDED")

(* A deployment of a promotion begins while main is still the candidate.     *)
verifyPromotionSource(o) ==
    /\ operations[o].kind = "PROMOTION"
    /\ main = operations[o].source
    /\ flowChildAllowed(o)
    /\ Child(o, "PENDING", "APPLYING")

ChildApplied(o, to) == Child(o, "APPLYING", to)
ChildFails(o) == Child(o, "PENDING", "FAILED")

-----------------------------------------------------------------------------
(* Time, faults and others                                                  *)

LeaseEnds(o) ==
    LET held == operations[o].owner # None /\ tick[operations[o].owner].op = o
    IN  /\ operations[o].live
        /\ IF held THEN Event ELSE UNCHANGED events
        /\ operations' = [operations EXCEPT ![o].live = FALSE]
        /\ UNCHANGED <<desired, work, verdict, main, generated, wire, tick, request, releases, pushed>>

Crash(s) ==
    /\ tick[s].step # "IDLE"
    /\ Event /\ Ends(s)
    /\ UNCHANGED <<operations, desired, work, verdict, main, generated, wire, request, releases,
                   pushed>>

Push(r) ==
    /\ Cardinality(pushed) < MaxPushes
    /\ LET n == -(Cardinality(pushed) + 1)
       IN  /\ main' = [main EXCEPT ![r] = Append(@, n)]
           /\ pushed' = pushed \union {<<r, n>>}
    /\ UNCHANGED <<operations, desired, work, verdict, generated, wire, tick, request, releases,
                   events>>

Reconfigure ==
    /\ Event /\ operations # <<>>
    /\ operations' = [o \in Ops |-> [operations[o] EXCEPT !.frozen = FALSE]]
    /\ UNCHANGED <<desired, work, verdict, main, generated, wire, tick, request, releases, pushed>>

(* RestoreBackup cancels what is under way.                                  *)
RestoreBackup ==
    /\ Event /\ operations # <<>>
    /\ operations' = [o \in Ops |->
            LET op == [operations[o] EXCEPT !.child = IF @ \in {"PENDING", "APPLYING"} THEN "FAILED" ELSE @]
            IN  IF terminalOperation(o) THEN op ELSE [Released(op) EXCEPT !.status = "CANCELLED"]]
    /\ UNCHANGED <<desired, work, verdict, main, generated, wire, tick, request, releases, pushed>>

-----------------------------------------------------------------------------
Phases == {"COMPOSE_SOURCE", "ADVANCE_MAIN", "QUEUE_BUILDS", "QUEUE_DEPLOYMENTS",
           "WAIT_CHILDREN", "WAIT_RUNTIME"}
Steps == {"IDLE", "BLOCK", "OBSERVE", "COMPOSED", "READ_MAIN", "READ_BACK", "ADVANCED", "RELEASE"}
         \union Phases
Children == {"none", "PENDING", "APPLYING", "SUCCEEDED", "FAILED"}
Health == {"none", "healthy", "unhealthy"}
Sources == [Repositories -> Seq(Int)]

OperationRecord ==
    [kind : {"COMPOSED", "MAIN", "PROMOTION"},
     status : {"PENDING", "RUNNING", "SUCCEEDED", "FAILED", "CANCELLED"},
     phase : Phases, candidate : Nat, base : Sources, source : Sources,
     composed : BOOLEAN, advanced : SUBSET Repositories, intent : BOOLEAN, evidence : Nat,
     owner : Servers \union {None}, live : BOOLEAN, frozen : BOOLEAN,
     child : Children, health : Health]

TickRecord ==
    [step : Steps, op : Nat, repository : Repositories \union {None}, child : Children,
     health : Health]

TypeOK ==
    /\ operations \in Seq(OperationRecord)
    /\ desired \in Nat
    /\ work \in [ready : BOOLEAN, evidence : Nat]
    /\ verdict \in [OpIds -> {"none", "passed", "failed"}]
    /\ main \in Sources
    /\ generated \subseteq Ops
    /\ wire \subseteq Ops \X Repositories
    /\ tick \in [Servers -> TickRecord]
    /\ request \in [Clients -> OperationRecord \union {None}]
    /\ releases \subseteq [promotion : Nat, candidate : Nat, source : Sources]
    /\ pushed \subseteq Repositories \X Int
    /\ events \in Nat

Init ==
    /\ operations = <<>> /\ desired = 0
    /\ work = [ready |-> TRUE, evidence |-> 0]
    /\ verdict = [c \in OpIds |-> "none"]
    /\ main = [r \in Repositories |-> <<0>>]
    /\ generated = {}
    /\ wire = {} /\ tick = [s \in Servers |-> Idle]
    /\ request = [c \in Clients |-> None]
    /\ releases = {} /\ pushed = {} /\ events = 0

People ==
    \/ prepare_release_candidate \/ SelectOther \/ revise_test_scenario
    \/ \E passed \in BOOLEAN : RecordResult(passed)
    \/ \E c \in Clients : observeRequest(c) \/ executeMainCandidate(c)
    \/ \E o \in Ops : \/ promote_release_candidate(o)
                      \/ \E result \in {"passed", "failed"} : record_scenario_run(o, result)
                      \/ \E h \in {"healthy", "unhealthy"} : record_runtime_observation(o, h)
    \/ \E r \in Repositories : Push(r)

Server(s) ==
    \/ \E o \in Ops : Claim(s, o)
    \/ finish(s) \/ observeMainCandidate(s) \/ ComposeSource(s) \/ RecoverSource(s) \/ SaveSource(s)
    \/ SourceReady(s) \/ BeginAdvance(s) \/ AdvanceMain(s) \/ ReadBack(s) \/ SaveAdvance(s)
    \/ MainReady(s) \/ queueFlowChildren(s) \/ WaitChildren(s) \/ WaitRuntime(s)
    \/ finishFlowRelease(s)

Others ==
    \/ \E w \in wire : UpdateRef(w)
    \/ \E o \in Ops : \/ ChildBuilds(o) \/ verifyPromotionSource(o) \/ ChildFails(o) \/ LeaseEnds(o)
                      \/ \E to \in {"PENDING", "SUCCEEDED", "FAILED"} : ChildApplied(o, to)
    \/ \E s \in Servers : Crash(s)
    \/ Reconfigure \/ RestoreBackup

Next == People \/ (\E s \in Servers : Server(s)) \/ Others

Spec == Init /\ [][Next]_vars

-----------------------------------------------------------------------------
(* Properties                                                               *)

(* Components are built and deployed only from commits that main contains,
   whichever server advanced main, however late its update arrived and
   whatever was pushed meanwhile.                                            *)
BuiltFromMain ==
    \A o \in Ops : operations[o].child # "none" =>
        \A r \in Repositories : IsPrefix(operations[o].source[r], main[r])

(* No candidate takes a commit off main that somebody pushed between the
   server's look at main and the arrival of its update.                      *)
NoPushIsLost == \A p \in pushed : p[2] \in Range(main[p[1]])

(* A release is recorded once per candidate, for what was promoted, while the
   scenario passes on the candidate, the work is ready, the promotion is what
   the environment wants and the latest look at its runtime is healthy.      *)
ReleasedWasVerified ==
    [][\A r \in releases' \ releases :
          /\ verdict[r.candidate] = "passed" /\ work.ready
          /\ desired = r.promotion /\ operations[r.promotion].health = "healthy"
          /\ r.source = operations[r.candidate].source
          /\ \A q \in releases : q.candidate # r.candidate]_vars

(* Requests for a candidate from main with one key make one candidate.       *)
OneCandidatePerKey == Cardinality({o \in Ops : operations[o].kind = "MAIN"}) <= 1
=============================================================================
