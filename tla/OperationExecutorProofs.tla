----------------------- MODULE OperationExecutorProofs ------------------------
(***************************************************************************)
(* Proofs about OperationExecutor, for every set of operations, servers    *)
(* and digests and every number of mishaps and reservations.               *)
(***************************************************************************)
EXTENDS OperationExecutor, TLAPS

-----------------------------------------------------------------------------
(***************************************************************************)
(* The inductive invariant                                                 *)
(***************************************************************************)

GitOpsPhases == {"APPLY", "APPLY_UNCERTAIN", "WAIT_GITOPS_PR"}

\* An operation never returns to an earlier rank.
Rank(phase) ==
    CASE phase = "PREFLIGHT" -> 0
      [] phase = "DISPATCH" -> 1
      [] phase = "BUILD_LOOKUP" -> 2
      [] phase = "INSPECT" -> 3
      [] phase \in {"APPLY", "APPLY_UNCERTAIN"} -> 4
      [] OTHER -> 5

Final == {"failed", "success"}

\* A write pinned to state blob would change what the file shows.
WouldChange(blob, digest) == blob = file.blob => digest # file.digest

\* What an operation records of the provider has happened there, and a phase is
\* reached with the digest it works on.  It holds of a Tick's copy too.
RecordOK(o, c, phase) ==
    /\ c.existing => c.expected \in Digests
    /\ phase = "INSPECT" => c.expected \in Digests
    /\ phase \in GitOpsPhases => c.artifact \in Digests
    /\ c.run = "completed" => runs[o].state \in Final
    /\ c.pr # None => prs[o].state # None
    /\ c.pr \in {"closed", "merged"} => prs[o].state = c.pr
    /\ phase = "WAIT_GITOPS_PR" => c.pr # None

OpOK(o) ==
    /\ RecordOK(o, op[o], op[o].phase)
    /\ op[o].status = "ABSENT" => op[o].phase = "PREFLIGHT" /\ op[o].owner = None
    /\ op[o].base.blob = planned[o]
    /\ planned[o] <= head
    /\ op[o].phase = "PREFLIGHT" /\ op[o].status \notin Terminal => planned[o] = 0
    /\ op[o].phase # "PREFLIGHT" => planned[o] # 0
    /\ op[o].result => op[o].status = "SUCCEEDED"
    /\ Active(o) => file.digest \in shown[o]
    /\ op[o].status = "SUCCEEDED" => op[o].artifact \in shown[o] \ {None}

\* One build request per operation, recorded as the intent until its run is over.
BuildOK(o) ==
    /\ posted[o] <= 1
    /\ posted[o] = 1 => Rank(op[o].phase) >= 2
    /\ runs[o].state # None => posted[o] = 1
    /\ runs[o].state = "success" => runs[o].digest \in Digests
    /\ runs[o].state = "running" => op[o].phase = "BUILD_LOOKUP" /\ op[o].intent = "BUILD"
    /\ runs[o].state = "running" => ~env.held

\* The record shows that a write to the file is under way.
WriteShown(o) ==
    \/ op[o].phase \in {"APPLY", "APPLY_UNCERTAIN"} /\ op[o].intent = "GITOPS"
    \/ op[o].phase = "WAIT_GITOPS_PR" /\ op[o].pr = "open"

ProposalOK(o) ==
    /\ prs[o].state # None =>
         /\ env.mode = "PR"
         /\ op[o].phase \in GitOpsPhases
         /\ prs[o].blob = planned[o]
         /\ prs[o].digest = op[o].artifact
    /\ prs[o].state = "open" /\ prs[o].blob = file.blob =>
         WouldChange(prs[o].blob, prs[o].digest) /\ WriteShown(o) /\ ~env.held
    /\ prs[o].state = "merged" => file.blob # planned[o]

\* A Tick that has the lease works on what the operation is.
LookOK(s, t) ==
    op[t.op].owner = s => t.copy = [op[t.op] EXCEPT !.leased = TRUE]

\* Saving copy c with phase and status takes the operation forward.
SaveOK(o, c, phase, status) ==
    /\ Rank(phase) >= Rank(op[o].phase)
    /\ op[o].phase = "BUILD_LOOKUP" /\ phase # "BUILD_LOOKUP" => runs[o].state \in Final
    /\ RecordOK(o, c, phase)
    /\ c.base.blob <= head
    /\ op[o].phase # "PREFLIGHT" => c.base.blob = planned[o]
    /\ phase # "PREFLIGHT" => c.base.blob # 0
    /\ phase = "PREFLIGHT" => status \in Failing
    /\ op[o].phase \in GitOpsPhases => c.artifact = op[o].artifact

\* What is saved as a success was seen in the file, and is no write of the
\* operation's own that is still to come.
ResultOK(o, c, phase, status) ==
    /\ c.result <=> status = "GITOPS_APPLIED"
    /\ c.result =>
         /\ c.artifact \in shown[o] \ {None}
         /\ file.blob # c.base.blob \/ file.digest = c.artifact
         /\ phase \in GitOpsPhases /\ op[o].phase \in GitOpsPhases

IntentOK(o, c, phase, status) ==
    /\ phase \in {"BUILD_LOOKUP", "APPLY_UNCERTAIN"} /\ status = "RUNNING"
    /\ phase = "BUILD_LOOKUP" => op[o].phase = "DISPATCH"
    /\ phase = "APPLY_UNCERTAIN" =>
         /\ op[o].phase \in {"APPLY", "APPLY_UNCERTAIN"}
         /\ c.phase = op[o].phase
         /\ WouldChange(c.base.blob, c.artifact)

DecisionOK(o, stage, c, phase, status) ==
    /\ SaveOK(o, c, phase, status)
    /\ ResultOK(o, c, phase, status)
    /\ stage = "INTENT" => IntentOK(o, c, phase, status)

\* After its intent is saved a Tick may go on without the lease.
MutationOK(s, t) ==
    LET o == t.op
    IN /\ t.phase \in {"BUILD_LOOKUP", "APPLY_UNCERTAIN"} /\ t.status = "RUNNING"
       /\ t.copy.base.blob = planned[o] /\ planned[o] # 0
       /\ ~t.copy.result
       /\ Rank(op[o].phase) >= Rank(t.phase)
       /\ op[o].owner = s => op[o].phase = t.phase
       /\ RecordOK(o, t.copy, t.phase)
       /\ t.phase = "APPLY_UNCERTAIN" =>
            /\ t.copy.phase \in {"APPLY", "APPLY_UNCERTAIN"}
            /\ t.copy.artifact = op[o].artifact
            /\ WouldChange(t.copy.base.blob, t.copy.artifact)

SendOK(t) ==
    LET o == t.op
    IN /\ t.phase = "BUILD_LOOKUP" =>
            /\ posted[o] = 0 /\ ~env.held
            /\ op[o].phase = "BUILD_LOOKUP" /\ op[o].intent = "BUILD"
       /\ t.phase = "APPLY_UNCERTAIN" /\ prs[o].state = None /\ planned[o] = file.blob =>
            WriteShown(o) /\ ~env.held

CallOK(s, t) ==
    LET o == t.op
    IN t.answer = "done" /\ t.phase = "APPLY_UNCERTAIN" =>
         IF env.mode = "PR" THEN prs[o].state # None
         ELSE /\ file.blob # planned[o]
              /\ op[o].owner = s => t.copy.artifact \in shown[o] \ {None}

GoodTick(s, t) ==
    t.stage # "IDLE" =>
        /\ op[t.op].status # "ABSENT"
        /\ op[t.op].owner = s => op[t.op].status = "RUNNING"
        /\ t.stage \in {"LOOK", "INTENT", "SEND"} => t.answer = None
        /\ t.stage = "LOOK" => LookOK(s, t)
        /\ t.stage \in {"SAVE", "INTENT"} /\ op[t.op].owner = s =>
             DecisionOK(t.op, t.stage, t.copy, t.phase, t.status)
        /\ t.stage \in {"SEND", "CALL"} => MutationOK(s, t)
        /\ t.stage = "SEND" => SendOK(t)
        /\ t.stage = "CALL" => CallOK(s, t)

\* A request on the wire.
RequestOK(m) ==
    /\ m.from # None => /\ tick[m.from].stage = "CALL" /\ tick[m.from].answer = None
                        /\ m = RequestOf(m.from)
    /\ m.kind = "DISPATCH" =>
         /\ posted[m.op] = 1 /\ runs[m.op].state = None /\ ~env.held
         /\ op[m.op].phase = "BUILD_LOOKUP" /\ op[m.op].intent = "BUILD"
    /\ m.kind # "DISPATCH" =>
         /\ m.kind = (IF env.mode = "PR" THEN "PROPOSE" ELSE "PUT")
         /\ m.blob = planned[m.op] /\ m.blob # 0
         /\ op[m.op].phase \in GitOpsPhases /\ m.digest = op[m.op].artifact
         /\ WouldChange(m.blob, m.digest)
         /\ prs[m.op].state = None /\ m.blob = file.blob => WriteShown(m.op) /\ ~env.held

Dispatcher(s) == tick[s].stage = "SEND" /\ tick[s].phase = "BUILD_LOOKUP"

\* A build request is sent once.
DispatchAlone ==
    /\ \A s, r \in Servers : Dispatcher(s) /\ Dispatcher(r) /\ tick[s].op = tick[r].op => s = r
    /\ \A m, n \in wire : m.kind = "DISPATCH" /\ n.kind = "DISPATCH" /\ m.op = n.op => m = n

FileOK == file.blob \in 1..head

Inv ==
    /\ TypeOK
    /\ FileOK
    /\ \A o \in Ops : OpOK(o) /\ BuildOK(o) /\ ProposalOK(o)
    /\ \A s \in Servers : GoodTick(s, tick[s])
    /\ \A m \in wire : RequestOK(m)
    /\ DispatchAlone

-----------------------------------------------------------------------------
(***************************************************************************)
(* Ticks                                                                   *)
(***************************************************************************)

LEMMA RankValues ==
    /\ Rank("PREFLIGHT") = 0 /\ Rank("DISPATCH") = 1 /\ Rank("BUILD_LOOKUP") = 2
    /\ Rank("INSPECT") = 3 /\ Rank("APPLY") = 4 /\ Rank("APPLY_UNCERTAIN") = 4
    /\ Rank("WAIT_GITOPS_PR") = 5
  BY DEF Rank

LEMMA TickIsRecord ==
    ASSUME TypeOK, NEW s \in Servers, tick[s].stage # "IDLE"
    PROVE  tick[s] \in TickRecord
  BY DEF TypeOK, NoTick

\* Whoever a request on the wire is from waits for it.
LEMMA NobodyElseWaits ==
    ASSUME Inv, NEW s \in Servers, tick[s].stage # "CALL" \/ tick[s].answer # None
    PROVE  \A m \in wire : m.from # s
  BY ExecutorAssumption DEF Inv, RequestOK, ExecutorAssumption

\* A caller that gives up leaves the requests on the wire what they are.
LEMMA OrphanedRequests ==
    ASSUME Inv, NEW s \in Servers
    PROVE  /\ Orphaned(s) \subseteq Request
           /\ \A m \in Orphaned(s) : \E n \in wire :
                 /\ m.kind = n.kind /\ m.op = n.op /\ m.blob = n.blob /\ m.digest = n.digest
                 /\ m.from # None => m = n /\ m.from # s
           /\ \A m, n \in Orphaned(s) : m.kind = "DISPATCH" /\ n.kind = "DISPATCH" /\ m.op = n.op
                                         => m = n
  <1>1. wire \subseteq Request
    BY DEF Inv, TypeOK
  <1>2. ASSUME NEW n \in wire
        PROVE  [n EXCEPT !.from = None] \in Request
    BY <1>1 DEF Request
  <1> QED
    BY <1>1, <1>2 DEF Orphaned, Request, Inv, DispatchAlone

\* A step that changes no more than the Tick of s, to one that is not about to
\* send or waiting, and leaves the requests of s on the wire if it waited.
LEMMA TickOnly ==
    ASSUME Inv, NEW s \in Servers, NEW t \in TickRecord \cup {NoTick},
           tick' = [tick EXCEPT ![s] = t],
           t.stage \notin {"SEND", "CALL"},
           GoodTick(s, t),
           \/ wire' = wire /\ (tick[s].stage # "CALL" \/ tick[s].answer # None)
           \/ wire' = Orphaned(s),
           UNCHANGED <<store, runs, prs, file, head, history>>, mishaps' \in Nat
    PROVE  Inv'
  <1> USE DEF store, history
  <1>1. /\ wire' \subseteq Request
        /\ \A m \in wire' : \E n \in wire :
              /\ m.kind = n.kind /\ m.op = n.op /\ m.blob = n.blob /\ m.digest = n.digest
              /\ m.from # None => m = n /\ m.from # s
        /\ \A m, n \in wire' : m.kind = "DISPATCH" /\ n.kind = "DISPATCH" /\ m.op = n.op => m = n
    BY OrphanedRequests, NobodyElseWaits DEF Inv, TypeOK, DispatchAlone
  <1>2. TypeOK'
    BY <1>1 DEF Inv, TypeOK
  <1>3. FileOK' /\ \A o \in Ops : OpOK(o)' /\ BuildOK(o)' /\ ProposalOK(o)'
    BY DEF Inv, FileOK, OpOK, BuildOK, ProposalOK, RecordOK, Active, WriteShown, WouldChange
  <1>4. ASSUME NEW r \in Servers
        PROVE  GoodTick(r, tick[r])'
    <2>1. GoodTick(r, tick'[r])
      BY DEF Inv, TypeOK
    <2> QED
      BY <2>1 DEF GoodTick, LookOK, DecisionOK, SaveOK, ResultOK, IntentOK, MutationOK, SendOK, CallOK,
                  RecordOK, WouldChange, WriteShown
  <1>5. ASSUME NEW m \in wire'
        PROVE  RequestOK(m)'
    <2>1. PICK n \in wire :
              /\ m.kind = n.kind /\ m.op = n.op /\ m.blob = n.blob /\ m.digest = n.digest
              /\ m.from # None => m = n /\ m.from # s
      BY <1>1
    <2>2. RequestOK(n)
      BY DEF Inv
    <2>3. m.from # None => tick'[m.from] = tick[m.from] /\ RequestOf(m.from)' = RequestOf(m.from)
      BY <2>1, <1>1 DEF Inv, TypeOK, Request, RequestOf
    <2> QED
      BY <2>1, <2>2, <2>3 DEF RequestOK, WouldChange, WriteShown
  <1>6. DispatchAlone'
    BY <1>1 DEF Inv, TypeOK, DispatchAlone, Dispatcher
  <1> QED
    BY <1>2, <1>3, <1>4, <1>5, <1>6 DEF Inv

\* What a Tick with the lease looks at is what the store has.
LEMMA LookedAt ==
    ASSUME Inv, NEW s \in Servers, tick[s].stage = "LOOK", op[tick[s].op].owner = s
    PROVE  LET o == tick[s].op
               c == tick[s].copy
           IN /\ c.phase = op[o].phase /\ c.artifact = op[o].artifact
              /\ c.base.blob = planned[o]
              /\ op[o].status = "RUNNING" /\ ~c.result
              /\ RecordOK(o, c, c.phase)
              /\ c.phase = "PREFLIGHT" => planned[o] = 0
              /\ c.phase # "PREFLIGHT" => planned[o] # 0
              /\ planned[o] <= head /\ file.digest \in shown[o]
  <1> DEFINE o == tick[s].op
             c == tick[s].copy
  <1>1. tick[s] \in TickRecord /\ o \in Ops /\ op[o] \in Operation
    BY TickIsRecord DEF Inv, TypeOK, TickRecord
  <1>2. GoodTick(s, tick[s]) /\ OpOK(o)
    BY <1>1 DEF Inv
  <1>3. c = [op[o] EXCEPT !.leased = TRUE] /\ op[o].status = "RUNNING"
    BY <1>2 DEF GoodTick, LookOK
  <1>4. /\ c.phase = op[o].phase /\ c.artifact = op[o].artifact /\ c.base = op[o].base
        /\ c.result = op[o].result /\ c.existing = op[o].existing /\ c.run = op[o].run
        /\ c.expected = op[o].expected /\ c.pr = op[o].pr
    BY <1>1, <1>3 DEF Operation
  <1> QED
    BY <1>1, <1>2, <1>3, <1>4 DEF OpOK, RecordOK, Terminal, Active

\* The Tick after a decision.
LEMMA DecidedTick ==
    ASSUME TypeOK, NEW s \in Servers, tick[s].stage # "IDLE",
           NEW stage \in {"SAVE", "INTENT"}, NEW c \in Operation, NEW phase \in Phases,
           NEW status \in {"RUNNING", "GITOPS_APPLIED"} \cup Failing,
           Decide(s, stage, c, phase, status)
    PROVE  \E t \in TickRecord :
              /\ tick' = [tick EXCEPT ![s] = t]
              /\ t.op = tick[s].op /\ t.answer = tick[s].answer /\ t.stage = stage
              /\ t.copy = c /\ t.phase = phase /\ t.status = status
  <1> DEFINE t == [tick[s] EXCEPT !.stage = stage, !.copy = c, !.phase = phase,
                                  !.status = status]
  <1>1. tick[s] \in TickRecord
    BY TickIsRecord
  <1>2. /\ t \in TickRecord /\ t.op = tick[s].op /\ t.answer = tick[s].answer
        /\ t.stage = stage /\ t.copy = c /\ t.phase = phase /\ t.status = status
    BY <1>1 DEF TickRecord
  <1>3. tick' = [tick EXCEPT ![s] = t]
    BY DEF Decide
  <1> QED
    BY <1>2, <1>3

\* A Tick that decides what to save: if it has the lease, the save it decides on
\* is right; otherwise it is refused.
LEMMA DecideStep ==
    ASSUME Inv, NEW s \in Servers, tick[s].stage # "IDLE",
           NEW stage \in {"SAVE", "INTENT"}, NEW c \in Operation, NEW phase \in Phases,
           NEW status \in {"RUNNING", "GITOPS_APPLIED"} \cup Failing,
           Decide(s, stage, c, phase, status),
           op[tick[s].op].owner = s => DecisionOK(tick[s].op, stage, c, phase, status),
           stage = "SAVE" \/ tick[s].stage = "LOOK",
           \/ wire' = wire /\ (tick[s].stage # "CALL" \/ tick[s].answer # None)
           \/ wire' = Orphaned(s),
           UNCHANGED <<store, runs, prs, file, head, history>>, mishaps' \in Nat
    PROVE  Inv'
  <1>1. tick[s] \in TickRecord /\ GoodTick(s, tick[s]) /\ TypeOK
    BY TickIsRecord DEF Inv
  <1>2. PICK t \in TickRecord :
              /\ tick' = [tick EXCEPT ![s] = t]
              /\ t.op = tick[s].op /\ t.answer = tick[s].answer /\ t.stage = stage
              /\ t.copy = c /\ t.phase = phase /\ t.status = status
    BY <1>1, DecidedTick
  <1>3. GoodTick(s, t)
    BY <1>1, <1>2 DEF GoodTick
  <1> QED
    BY <1>2, <1>3, TickOnly

LEMMA TickEnds ==
    ASSUME Inv, NEW s \in Servers, tick' = [tick EXCEPT ![s] = NoTick],
           \/ wire' = wire /\ (tick[s].stage # "CALL" \/ tick[s].answer # None)
           \/ wire' = Orphaned(s),
           UNCHANGED <<store, runs, prs, file, head, history>>, mishaps' \in Nat
    PROVE  Inv'
  BY TickOnly DEF NoTick, GoodTick

LEMMA MishapCounts ==
    ASSUME Inv, Mishap \/ UNCHANGED mishaps
    PROVE  mishaps' \in Nat
  BY DEF Inv, TypeOK, Mishap

LEMMA LookStep ==
    ASSUME Inv, NEW s \in Servers, tick[s].stage = "LOOK", LookOnly,
           Mishap \/ UNCHANGED mishaps,
           NEW stage \in {"SAVE", "INTENT"}, NEW c \in Operation, NEW phase \in Phases,
           NEW status \in {"RUNNING", "GITOPS_APPLIED"} \cup Failing,
           Decide(s, stage, c, phase, status),
           op[tick[s].op].owner = s => DecisionOK(tick[s].op, stage, c, phase, status)
    PROVE  Inv'
  <1>1. wire' = wire /\ UNCHANGED <<store, runs, prs, file, head, history>>
    BY DEF LookOnly, provider
  <1> QED
    BY <1>1, DecideStep, MishapCounts

\* The operation ends or goes on as it is.
LEMMA RefusedStep ==
    ASSUME Inv, NEW s \in Servers, RefusedByReservation(s)
    PROVE  Inv'
  <1> DEFINE o == tick[s].op
             c == tick[s].copy
  <1>1. /\ tick[s].stage = "LOOK" /\ LookOnly /\ UNCHANGED mishaps
        /\ Decide(s, "SAVE", c, c.phase, "BLOCKED")
    BY DEF RefusedByReservation, finish
  <1>2. c \in Operation /\ c.phase \in Phases /\ o \in Ops
    BY <1>1, TickIsRecord DEF Inv, TickRecord, Operation
  <1>3. ASSUME op[o].owner = s
        PROVE  DecisionOK(o, "SAVE", c, c.phase, "BLOCKED")
    <2>1. RecordOK(o, c, c.phase) /\ c.phase = op[o].phase /\ c.artifact = op[o].artifact
          /\ c.base.blob = planned[o] /\ ~c.result /\ planned[o] <= head
          /\ (c.phase # "PREFLIGHT" => planned[o] # 0)
      BY <1>1, <1>3, LookedAt
    <2>2. Rank(c.phase) >= Rank(op[o].phase)
      BY <1>2, <2>1, RankValues DEF Phases
    <2> QED
      BY <2>1, <2>2 DEF DecisionOK, SaveOK, ResultOK, Failing
  <1> QED
    BY <1>1, <1>2, <1>3, LookStep DEF Failing

LEMMA PreflightStep ==
    ASSUME Inv, NEW s \in Servers, Preflight(s)
    PROVE  Inv'
  <1> DEFINE o == tick[s].op
             k == tick[s].copy
             b == [blob |-> file.blob, head |-> head]
  <1>1. tick[s].stage = "LOOK" /\ LookOnly /\ (Mishap \/ UNCHANGED mishaps) /\ k.phase = "PREFLIGHT"
    BY DEF Preflight, Looking
  <1>2. TypeOK /\ FileOK /\ k \in Operation /\ o \in Ops /\ b \in [blob : Nat, head : Nat]
    BY <1>1, TickIsRecord DEF Inv, TypeOK, TickRecord
  <1>3. \E c \in Operation, phase \in {"PREFLIGHT", "DISPATCH", "INSPECT", "APPLY"},
           status \in {"RUNNING"} \cup Failing :
           /\ Decide(s, "SAVE", c, phase, status)
           /\ c.result = k.result /\ c.existing = k.existing /\ c.run = k.run /\ c.pr = k.pr
           /\ c.existing => c.expected = k.expected
           /\ c.base \in {k.base, b}
           /\ phase = "PREFLIGHT" => status \in Failing
           /\ phase # "PREFLIGHT" => c.base = b
           /\ phase = "INSPECT" => c.existing
           /\ phase = "APPLY" => c.artifact \in known
    <2> DEFINE c1 == [k EXCEPT !.base = b]
    <2>1. /\ c1 \in Operation /\ c1.phase = "PREFLIGHT"
          /\ c1.result = k.result /\ c1.existing = k.existing /\ c1.run = k.run /\ c1.pr = k.pr
          /\ c1.expected = k.expected /\ c1.base = b
      BY <1>1, <1>2 DEF Operation
    <2>2. CASE finish(s, k, "FAILED")
      BY <1>1, <1>2, <2>2 DEF finish, Failing
    <2>3. CASE finish(s, c1, "BLOCKED")
      BY <1>1, <2>1, <2>3 DEF finish, Failing
    <2>4. CASE c1.existing /\ advance(s, c1, "INSPECT")
      BY <2>1, <2>4 DEF advance, Failing
    <2>5. ASSUME ~c1.existing,
                 NEW e \in IF c1.expected = None /\ known # {} THEN known ELSE {c1.expected},
                 advance(s, [c1 EXCEPT !.expected = e], "DISPATCH")
          PROVE  \E c \in Operation :
                   /\ Decide(s, "SAVE", c, "DISPATCH", "RUNNING")
                   /\ c.result = k.result /\ c.existing = k.existing /\ c.run = k.run
                   /\ c.pr = k.pr /\ ~c.existing /\ c.base = b
      <3> DEFINE c2 == [c1 EXCEPT !.expected = e]
      <3>1. e \in Digests \cup {None}
        BY <1>2, <2>1 DEF TypeOK, Operation
      <3>2. /\ c2 \in Operation /\ c2.result = c1.result /\ c2.existing = c1.existing
            /\ c2.run = c1.run /\ c2.pr = c1.pr /\ c2.base = c1.base
        BY <2>1, <3>1 DEF Operation
      <3> QED
        BY <2>1, <2>5, <3>2 DEF advance
    <2>6. ASSUME ~c1.existing,
                 NEW e \in IF c1.expected = None /\ known # {} THEN known ELSE {c1.expected},
                 NEW d \in known,
                 advance(s, [c1 EXCEPT !.expected = e, !.artifact = d], "APPLY")
          PROVE  \E c \in Operation :
                   /\ Decide(s, "SAVE", c, "APPLY", "RUNNING")
                   /\ c.result = k.result /\ c.existing = k.existing /\ c.run = k.run
                   /\ c.pr = k.pr /\ ~c.existing /\ c.base = b /\ c.artifact \in known
      <3> DEFINE c2 == [c1 EXCEPT !.expected = e, !.artifact = d]
      <3>1. e \in Digests \cup {None} /\ d \in Digests
        BY <1>2, <2>1 DEF TypeOK, Operation
      <3>2. /\ c2 \in Operation /\ c2.result = c1.result /\ c2.existing = c1.existing
            /\ c2.run = c1.run /\ c2.pr = c1.pr /\ c2.base = c1.base /\ c2.artifact = d
        BY <2>1, <3>1 DEF Operation
      <3> QED
        BY <2>1, <2>6, <3>2 DEF advance
    <2> QED
      BY <2>2, <2>3, <2>4, <2>5, <2>6 DEF Preflight
  <1>4. PICK c \in Operation, phase \in {"PREFLIGHT", "DISPATCH", "INSPECT", "APPLY"},
             status \in {"RUNNING"} \cup Failing :
           /\ Decide(s, "SAVE", c, phase, status)
           /\ c.result = k.result /\ c.existing = k.existing /\ c.run = k.run /\ c.pr = k.pr
           /\ c.existing => c.expected = k.expected
           /\ c.base \in {k.base, b}
           /\ phase = "PREFLIGHT" => status \in Failing
           /\ phase # "PREFLIGHT" => c.base = b
           /\ phase = "INSPECT" => c.existing
           /\ phase = "APPLY" => c.artifact \in known
    BY <1>3
  <1>5. ASSUME op[o].owner = s
        PROVE  DecisionOK(o, "SAVE", c, phase, status)
    <2>1. RecordOK(o, k, "PREFLIGHT") /\ op[o].phase = "PREFLIGHT"
          /\ k.base.blob <= head /\ ~k.result
      BY <1>1, <1>5, LookedAt
    <2>2. Rank(phase) >= Rank(op[o].phase)
      BY <1>4, <2>1, RankValues
    <2>3. c.base.blob <= head /\ (phase # "PREFLIGHT" => c.base.blob # 0)
      BY <1>2, <1>4, <2>1 DEF FileOK, TypeOK, Operation
    <2>4. RecordOK(o, c, phase)
      BY <1>2, <1>4, <2>1 DEF RecordOK, GitOpsPhases, TypeOK
    <2> QED
      BY <1>4, <2>1, <2>2, <2>3, <2>4 DEF DecisionOK, SaveOK, ResultOK, GitOpsPhases, Failing
  <1>6. phase \in Phases
    BY DEF Phases
  <1> QED
    BY <1>1, <1>4, <1>5, <1>6, LookStep

LEMMA DispatchStep ==
    ASSUME Inv, NEW s \in Servers, Dispatch(s)
    PROVE  Inv'
  <1> DEFINE o == tick[s].op
             k == tick[s].copy
  <1>1. /\ tick[s].stage = "LOOK" /\ LookOnly /\ UNCHANGED mishaps /\ k.phase = "DISPATCH"
        /\ Decide(s, "INTENT", k, "BUILD_LOOKUP", "RUNNING")
    BY DEF Dispatch, Looking, commit_intent
  <1>2. k \in Operation
    BY <1>1, TickIsRecord DEF Inv, TickRecord
  <1>3. ASSUME op[o].owner = s
        PROVE  DecisionOK(o, "INTENT", k, "BUILD_LOOKUP", "RUNNING")
    <2>1. RecordOK(o, k, "DISPATCH") /\ op[o].phase = "DISPATCH" /\ ~k.result
          /\ k.base.blob = planned[o] /\ planned[o] <= head /\ planned[o] # 0
      BY <1>1, <1>3, LookedAt
    <2>2. RecordOK(o, k, "BUILD_LOOKUP")
      BY <2>1 DEF RecordOK, GitOpsPhases
    <2> QED
      BY <2>1, <2>2, RankValues DEF DecisionOK, SaveOK, ResultOK, IntentOK, GitOpsPhases
  <1>4. "BUILD_LOOKUP" \in Phases
    BY DEF Phases
  <1> QED
    BY <1>1, <1>2, <1>3, <1>4, LookStep

\* An observation of the provider that leaves the pinned file state and, once
\* it is chosen, the artifact alone.
LEMMA ObservationStep ==
    ASSUME Inv, NEW s \in Servers, tick[s].stage = "LOOK", LookOnly,
           Mishap \/ UNCHANGED mishaps, tick[s].copy.phase # "PREFLIGHT",
           NEW c \in Operation, NEW phase \in Phases \ {"PREFLIGHT"},
           NEW status \in {"RUNNING"} \cup Failing,
           Decide(s, "SAVE", c, phase, status),
           c.base = tick[s].copy.base, c.result = tick[s].copy.result,
           tick[s].copy.phase \in GitOpsPhases => c.artifact = tick[s].copy.artifact,
           Rank(phase) >= Rank(tick[s].copy.phase),
           tick[s].copy.phase = "BUILD_LOOKUP" /\ phase # "BUILD_LOOKUP" =>
              runs[tick[s].op].state \in Final,
           RecordOK(tick[s].op, tick[s].copy, tick[s].copy.phase)
             => RecordOK(tick[s].op, c, phase)
    PROVE  Inv'
  <1> DEFINE o == tick[s].op
             k == tick[s].copy
  <1>1. ASSUME op[o].owner = s
        PROVE  DecisionOK(o, "SAVE", c, phase, status)
    <2>1. RecordOK(o, k, k.phase) /\ op[o].phase = k.phase /\ ~k.result
          /\ k.base.blob = planned[o] /\ planned[o] <= head /\ planned[o] # 0
          /\ k.artifact = op[o].artifact
      BY <1>1, LookedAt
    <2> QED
      BY <2>1 DEF DecisionOK, SaveOK, ResultOK, Failing
  <1> QED
    BY <1>1, LookStep

\* What the observations decide, other than to report success or to write.
LEMMA RetryDecides ==
    ASSUME NEW s, NEW c, retry(s, c)
    PROVE  \E status \in {"RUNNING"} \cup Failing : Decide(s, "SAVE", c, c.phase, status)
  BY DEF retry, finish, advance, Failing

LEMMA BuildLookupStep ==
    ASSUME Inv, NEW s \in Servers, BuildLookup(s)
    PROVE  Inv'
  <1> DEFINE o == tick[s].op
             k == tick[s].copy
             r == runs[o]
  <1>1. /\ tick[s].stage = "LOOK" /\ LookOnly /\ (Mishap \/ UNCHANGED mishaps)
        /\ k.phase = "BUILD_LOOKUP"
    BY DEF BuildLookup, Looking
  <1>2. TypeOK /\ k \in Operation /\ o \in Ops /\ BuildOK(o)
    BY <1>1, TickIsRecord DEF Inv, TickRecord
  <1>3. /\ k.expected \in Digests \cup {None}
        /\ r.digest \in Digests \cup {None}
        /\ r.state = "success" => r.digest \in Digests
    BY <1>2 DEF TypeOK, Operation, BuildOK
  <1>4. \E c \in Operation, phase \in {"BUILD_LOOKUP", "INSPECT"}, status \in {"RUNNING"} \cup Failing :
           /\ Decide(s, "SAVE", c, phase, status)
           /\ c.base = k.base /\ c.result = k.result /\ c.existing = k.existing /\ c.pr = k.pr
           /\ c.expected = k.expected \/ c.expected \in Digests
           /\ c.run = "completed" => r.state \in Final \/ k.run = "completed"
           /\ phase = "INSPECT" => c.expected \in Digests /\ r.state = "success"
    <2> DEFINE c1 == [k EXCEPT !.run = "running"]
               c2 == [k EXCEPT !.run = "completed"]
               c3 == [k EXCEPT !.run = "completed", !.expected = r.digest]
    <2>1. /\ c1 \in Operation /\ c1.phase = "BUILD_LOOKUP" /\ c1.run = "running"
          /\ c1.base = k.base /\ c1.result = k.result /\ c1.existing = k.existing
          /\ c1.pr = k.pr /\ c1.expected = k.expected
      BY <1>1, <1>2 DEF Operation
    <2>2. /\ c2 \in Operation /\ c2.phase = "BUILD_LOOKUP" /\ c2.run = "completed"
          /\ c2.base = k.base /\ c2.result = k.result /\ c2.existing = k.existing
          /\ c2.pr = k.pr /\ c2.expected = k.expected
      BY <1>1, <1>2 DEF Operation
    <2>3. /\ c3 \in Operation /\ c3.run = "completed"
          /\ c3.base = k.base /\ c3.result = k.result /\ c3.existing = k.existing
          /\ c3.pr = k.pr /\ c3.expected = r.digest
      BY <1>2, <1>3 DEF Operation
    <2>4. CASE retry(s, k) \/ finish(s, k, "BLOCKED")
      BY <1>1, <1>2, <2>4, RetryDecides DEF finish, Failing
    <2>5. CASE retry(s, c1)
      BY <2>1, <2>5, RetryDecides
    <2>6. CASE r.state \in Final /\ (finish(s, c2, "FAILED") \/ finish(s, c2, "BLOCKED"))
      BY <2>2, <2>6 DEF finish, Failing
    <2>7. CASE r.state = "success" /\ advance(s, c3, "INSPECT")
      BY <1>3, <2>3, <2>7 DEF advance, Final
    <2> QED
      BY <2>4, <2>5, <2>6, <2>7 DEF BuildLookup, Final
  <1>5. PICK c \in Operation, phase \in {"BUILD_LOOKUP", "INSPECT"}, status \in {"RUNNING"} \cup Failing :
           /\ Decide(s, "SAVE", c, phase, status)
           /\ c.base = k.base /\ c.result = k.result /\ c.existing = k.existing /\ c.pr = k.pr
           /\ c.expected = k.expected \/ c.expected \in Digests
           /\ c.run = "completed" => r.state \in Final \/ k.run = "completed"
           /\ phase = "INSPECT" => c.expected \in Digests /\ r.state = "success"
    BY <1>4
  <1>6. RecordOK(o, k, k.phase) => RecordOK(o, c, phase)
    BY <1>1, <1>5 DEF RecordOK, GitOpsPhases
  <1>7. /\ phase \in Phases \ {"PREFLIGHT"} /\ Rank(phase) >= Rank(k.phase)
        /\ k.phase \notin GitOpsPhases
        /\ k.phase = "BUILD_LOOKUP" /\ phase # "BUILD_LOOKUP" => runs[o].state \in Final
    BY <1>1, <1>5, RankValues DEF Phases, GitOpsPhases, Final
  <1> QED
    BY <1>1, <1>5, <1>6, <1>7, ObservationStep

LEMMA InspectStep ==
    ASSUME Inv, NEW s \in Servers, Inspect(s)
    PROVE  Inv'
  <1> DEFINE o == tick[s].op
             k == tick[s].copy
             c1 == [k EXCEPT !.artifact = k.expected]
  <1>1. /\ tick[s].stage = "LOOK" /\ LookOnly /\ (Mishap \/ UNCHANGED mishaps)
        /\ k.phase = "INSPECT"
    BY DEF Inspect, Looking
  <1>2. k \in Operation
    BY <1>1, TickIsRecord DEF Inv, TickRecord
  <1>3. /\ c1 \in Operation /\ c1.artifact = k.expected /\ c1.base = k.base
        /\ c1.result = k.result /\ c1.existing = k.existing /\ c1.pr = k.pr
        /\ c1.expected = k.expected /\ c1.run = k.run
    BY <1>2 DEF Operation
  <1>4. /\ {"INSPECT", "APPLY"} \subseteq Phases \ {"PREFLIGHT"} /\ "INSPECT" \notin GitOpsPhases
        /\ Rank("APPLY") >= Rank("INSPECT") /\ Rank("INSPECT") >= Rank("INSPECT")
    BY RankValues DEF Phases, GitOpsPhases
  <1>5. CASE \E status \in {"RUNNING"} \cup Failing : Decide(s, "SAVE", k, "INSPECT", status)
    BY <1>1, <1>2, <1>4, <1>5, ObservationStep
  <1>6. CASE Decide(s, "SAVE", c1, "APPLY", "RUNNING")
    <2>1. RecordOK(o, k, k.phase) => RecordOK(o, c1, "APPLY")
      BY <1>1, <1>3 DEF RecordOK, GitOpsPhases
    <2> QED
      BY <1>1, <1>3, <1>4, <1>6, <2>1, ObservationStep
  <1>7. CASE retry(s, k) \/ finish(s, k, "BLOCKED")
    BY <1>1, <1>5, <1>7, RetryDecides DEF finish, Failing
  <1> QED
    BY <1>6, <1>7 DEF Inspect, advance

\* A look that ends the operation, or leaves it for a later one, as it is.
LEMMA GiveUpStep ==
    ASSUME Inv, NEW s \in Servers, tick[s].stage = "LOOK", LookOnly,
           Mishap \/ UNCHANGED mishaps, tick[s].copy.phase # "PREFLIGHT",
           NEW c \in Operation, c.phase = tick[s].copy.phase,
           c.base = tick[s].copy.base, c.result = tick[s].copy.result,
           c.artifact = tick[s].copy.artifact,
           retry(s, c) \/ finish(s, c, "BLOCKED") \/ finish(s, c, "CANCELLED")
             \/ advance(s, c, c.phase),
           tick[s].copy.phase = "BUILD_LOOKUP" => c.phase = "BUILD_LOOKUP",
           RecordOK(tick[s].op, tick[s].copy, tick[s].copy.phase)
             => RecordOK(tick[s].op, c, c.phase)
    PROVE  Inv'
  <1>1. PICK status \in {"RUNNING"} \cup Failing : Decide(s, "SAVE", c, c.phase, status)
    BY RetryDecides DEF finish, advance, Failing
  <1>2. c.phase \in Phases \ {"PREFLIGHT"}
    BY DEF Operation
  <1>3. Rank(c.phase) >= Rank(tick[s].copy.phase)
    BY <1>2, RankValues DEF Phases
  <1> QED
    BY <1>1, <1>2, <1>3, ObservationStep

LEMMA ApplyStep ==
    ASSUME Inv, NEW s \in Servers, Apply(s)
    PROVE  Inv'
  <1> DEFINE o == tick[s].op
             k == tick[s].copy
             c1 == [k EXCEPT !.result = TRUE]
             b == [blob |-> file.blob, head |-> head]
  <1>1. /\ tick[s].stage = "LOOK" /\ LookOnly /\ (Mishap \/ UNCHANGED mishaps)
        /\ k.phase \in {"APPLY", "APPLY_UNCERTAIN"}
    BY DEF Apply, Looking
  <1>2. k \in Operation
    BY <1>1, TickIsRecord DEF Inv, TickRecord
  <1>3. CASE retry(s, k) \/ finish(s, k, "BLOCKED")
    BY <1>1, <1>2, <1>3, GiveUpStep
  <1>4. CASE file.digest = k.artifact /\ finish(s, c1, "GITOPS_APPLIED")
    <2>1. /\ c1 \in Operation /\ c1.result /\ c1.phase = k.phase /\ c1.artifact = k.artifact
          /\ c1.base = k.base /\ c1.existing = k.existing /\ c1.pr = k.pr
          /\ c1.expected = k.expected /\ c1.run = k.run
      BY <1>2 DEF Operation
    <2>2. ASSUME op[o].owner = s
          PROVE  DecisionOK(o, "SAVE", c1, c1.phase, "GITOPS_APPLIED")
      <3>1. RecordOK(o, k, k.phase) /\ op[o].phase = k.phase
            /\ k.base.blob = planned[o] /\ planned[o] <= head /\ planned[o] # 0
            /\ k.artifact = op[o].artifact /\ file.digest \in shown[o]
        BY <1>1, <2>2, LookedAt
      <3>2. RecordOK(o, c1, c1.phase) /\ c1.phase \in GitOpsPhases /\ k.artifact \in Digests
        BY <1>1, <2>1, <3>1 DEF RecordOK, GitOpsPhases
      <3>3. None \notin Digests
        BY ExecutorAssumption DEF ExecutorAssumption
      <3>4. Rank(c1.phase) >= Rank(op[o].phase)
        BY <1>1, <2>1, <3>1, RankValues
      <3> QED
        BY <1>1, <1>4, <2>1, <3>1, <3>2, <3>3, <3>4 DEF DecisionOK, SaveOK, ResultOK, GitOpsPhases
    <2> HIDE DEF c1
    <2> QED
      BY <1>1, <1>4, <2>1, <2>2, LookStep DEF finish, Operation
  <1>5. CASE file.digest # k.artifact /\ commit_intent(s, k, "APPLY_UNCERTAIN")
    <2>1. ASSUME op[o].owner = s
          PROVE  DecisionOK(o, "INTENT", k, "APPLY_UNCERTAIN", "RUNNING")
      <3>1. RecordOK(o, k, k.phase) /\ op[o].phase = k.phase /\ ~k.result
            /\ k.base.blob = planned[o] /\ planned[o] <= head /\ planned[o] # 0
            /\ k.artifact = op[o].artifact
        BY <1>1, <2>1, LookedAt
      <3>2. RecordOK(o, k, "APPLY_UNCERTAIN")
        BY <1>1, <3>1 DEF RecordOK, GitOpsPhases
      <3>3. Rank("APPLY_UNCERTAIN") >= Rank(op[o].phase)
        BY <1>1, <3>1, RankValues
      <3> QED
        BY <1>1, <1>5, <3>1, <3>2, <3>3
           DEF DecisionOK, SaveOK, ResultOK, IntentOK, WouldChange, GitOpsPhases
    <2> QED
      BY <1>1, <1>2, <1>5, <2>1, LookStep DEF commit_intent, Phases
  <1> QED
    BY <1>3, <1>4, <1>5 DEF Apply

LEMMA WaitGitOpsPRStep ==
    ASSUME Inv, NEW s \in Servers, WaitGitOpsPR(s)
    PROVE  Inv'
  <1> DEFINE o == tick[s].op
             k == tick[s].copy
             c1 == [k EXCEPT !.pr = prs[o].state]
             c2 == [c1 EXCEPT !.result = TRUE]
  <1>1. /\ tick[s].stage = "LOOK" /\ LookOnly /\ (Mishap \/ UNCHANGED mishaps)
        /\ k.phase = "WAIT_GITOPS_PR"
    BY DEF WaitGitOpsPR, Looking
  <1>2. k \in Operation /\ o \in Ops /\ prs[o].state \in {None, "open", "closed", "merged"}
    BY <1>1, TickIsRecord DEF Inv, TypeOK, TickRecord
  <1>3. /\ c1 \in Operation /\ c1.pr = prs[o].state /\ c1.phase = k.phase
        /\ c1.artifact = k.artifact /\ c1.result = k.result /\ c1.run = k.run
        /\ c1.base = k.base /\ c1.existing = k.existing /\ c1.expected = k.expected
    BY <1>2 DEF Operation
  <1>4. /\ c2 \in Operation /\ c2.pr = prs[o].state /\ c2.phase = k.phase
        /\ c2.artifact = k.artifact /\ c2.result /\ c2.run = k.run
        /\ c2.base = k.base /\ c2.existing = k.existing /\ c2.expected = k.expected
    BY <1>3 DEF Operation
  <1>5. CASE retry(s, k) \/ finish(s, k, "BLOCKED")
    BY <1>1, <1>2, <1>5, GiveUpStep
  <1>6. CASE retry(s, c1) \/ finish(s, c1, "BLOCKED") \/ finish(s, c1, "CANCELLED")
             \/ advance(s, c1, "WAIT_GITOPS_PR")
    <2>1. RecordOK(o, k, k.phase) => RecordOK(o, c1, c1.phase)
      BY <1>1, <1>3 DEF RecordOK
    <2> HIDE DEF c1
    <2> QED
      BY <1>1, <1>2, <1>3, <1>6, <2>1, GiveUpStep
  <1>7. CASE file.digest = k.artifact /\ finish(s, c2, "GITOPS_APPLIED")
    <2>1. ASSUME op[o].owner = s
          PROVE  DecisionOK(o, "SAVE", c2, c2.phase, "GITOPS_APPLIED")
      <3>1. RecordOK(o, k, k.phase) /\ op[o].phase = k.phase
            /\ k.base.blob = planned[o] /\ planned[o] <= head /\ planned[o] # 0
            /\ k.artifact = op[o].artifact /\ file.digest \in shown[o]
        BY <1>1, <2>1, LookedAt
      <3>2. RecordOK(o, c2, c2.phase) /\ c2.phase \in GitOpsPhases /\ k.artifact \in Digests
        BY <1>1, <1>4, <3>1 DEF RecordOK, GitOpsPhases
      <3>3. None \notin Digests
        BY ExecutorAssumption DEF ExecutorAssumption
      <3>4. Rank(c2.phase) >= Rank(op[o].phase)
        BY <1>1, <1>4, <3>1, RankValues
      <3> QED
        BY <1>1, <1>4, <1>7, <3>1, <3>2, <3>3, <3>4 DEF DecisionOK, SaveOK, ResultOK, GitOpsPhases
    <2> HIDE DEF c2
    <2> QED
      BY <1>1, <1>4, <1>7, <2>1, LookStep DEF finish, Operation
  <1> QED
    BY <1>1, <1>3, <1>5, <1>6, <1>7 DEF WaitGitOpsPR

LEMMA SaveRefusedStep ==
    ASSUME Inv, NEW s \in Servers, SaveRefused(s)
    PROVE  Inv'
  <1> DEFINE o == tick[s].op
             k == tick[s].copy
  <1>1. /\ tick[s].stage \in {"SAVE", "INTENT"} /\ wire' = wire
        /\ UNCHANGED <<store, runs, prs, file, head, history>> /\ mishaps' \in Nat
    BY MishapCounts DEF SaveRefused, provider
  <1>2. CASE tick' = [tick EXCEPT ![s] = NoTick]
    BY <1>1, <1>2, TickEnds
  <1>3. CASE /\ op[o].owner = s /\ tick[s].stage = "INTENT" /\ tick[s].phase = "APPLY_UNCERTAIN"
             /\ finish(s, k, "CANCELLED")
    <2>1. tick[s] \in TickRecord /\ k \in Operation /\ k.phase \in Phases /\ GoodTick(s, tick[s])
      BY <1>1, TickIsRecord DEF Inv, TickRecord, Operation
    <2>2. DecisionOK(o, "INTENT", k, "APPLY_UNCERTAIN", tick[s].status)
      BY <1>3, <2>1 DEF GoodTick
    <2>3. /\ k.phase = op[o].phase /\ k.phase \in {"APPLY", "APPLY_UNCERTAIN"} /\ ~k.result
          /\ SaveOK(o, k, "APPLY_UNCERTAIN", tick[s].status)
      BY <2>2 DEF DecisionOK, IntentOK, ResultOK
    <2>4. SaveOK(o, k, k.phase, "CANCELLED")
      BY <2>3, RankValues DEF SaveOK, RecordOK, GitOpsPhases
    <2>5. DecisionOK(o, "SAVE", k, k.phase, "CANCELLED")
      BY <2>3, <2>4 DEF DecisionOK, ResultOK
    <2> QED
      BY <1>1, <1>3, <2>1, <2>5, DecideStep DEF finish, Failing
  <1> QED
    BY <1>2, <1>3 DEF SaveRefused, OwnsLease

\* What a Tick that has sent a request, or was about to, may save if it still
\* has the lease.
LEMMA MutationSave ==
    ASSUME Inv, NEW s \in Servers, tick[s].stage \in {"SEND", "CALL"},
           op[tick[s].op].owner = s, NEW status \in {"RUNNING"} \cup Failing
    PROVE  /\ DecisionOK(tick[s].op, "SAVE", tick[s].copy, tick[s].phase, status)
           /\ tick[s].phase = "APPLY_UNCERTAIN" =>
                DecisionOK(tick[s].op, "SAVE", tick[s].copy, tick[s].copy.phase, status)
  <1> DEFINE o == tick[s].op
             k == tick[s].copy
  <1>1. tick[s] \in TickRecord /\ o \in Ops
    BY TickIsRecord DEF Inv, TickRecord
  <1>2. GoodTick(s, tick[s]) /\ OpOK(o)
    BY <1>1 DEF Inv
  <1>3. MutationOK(s, tick[s]) /\ planned[o] <= head
    BY <1>2 DEF GoodTick, OpOK
  <1>4. ASSUME NEW phase,
               \/ phase = tick[s].phase
               \/ phase = k.phase /\ tick[s].phase = "APPLY_UNCERTAIN"
        PROVE  DecisionOK(o, "SAVE", k, phase, status)
    <2>1. RecordOK(o, k, phase)
      BY <1>3, <1>4 DEF MutationOK, RecordOK, GitOpsPhases
    <2>2. Rank(phase) >= Rank(op[o].phase) /\ phase # "PREFLIGHT"
      BY <1>3, <1>4, RankValues DEF MutationOK
    <2>3. SaveOK(o, k, phase, status)
      BY <1>3, <1>4, <2>1, <2>2 DEF MutationOK, SaveOK, GitOpsPhases
    <2>4. ResultOK(o, k, phase, status)
      BY <1>3 DEF MutationOK, ResultOK, Failing
    <2> QED
      BY <2>3, <2>4 DEF DecisionOK
  <1>5. DecisionOK(o, "SAVE", k, tick[s].phase, status)
    BY <1>4
  <1>6. tick[s].phase = "APPLY_UNCERTAIN" => DecisionOK(o, "SAVE", k, k.phase, status)
    BY <1>4
  <1> QED
    BY <1>5, <1>6

LEMMA CallFailedDecides ==
    ASSUME Inv, NEW s \in Servers, tick[s].stage \in {"SEND", "CALL"}, CallFailed(s)
    PROVE  \E phase \in Phases, status \in {"RUNNING"} \cup Failing :
              /\ Decide(s, "SAVE", tick[s].copy, phase, status)
              /\ \/ phase = tick[s].phase
                 \/ phase = tick[s].copy.phase /\ tick[s].phase = "APPLY_UNCERTAIN"
  <1>1. tick[s].phase \in Phases /\ tick[s].copy.phase \in Phases
    BY TickIsRecord DEF Inv, TickRecord, Operation
  <1>2. CASE retry(s, tick[s].copy) /\ tick[s].phase = "APPLY_UNCERTAIN"
    BY <1>1, <1>2, RetryDecides
  <1>3. CASE advance(s, tick[s].copy, tick[s].phase)
    BY <1>1, <1>3 DEF advance
  <1> QED
    BY <1>2, <1>3 DEF CallFailed

LEMMA CallFailedStep ==
    ASSUME Inv, NEW s \in Servers, NotSent(s) \/ NoAnswer(s)
    PROVE  Inv'
  <1>1. /\ tick[s].stage \in {"SEND", "CALL"} /\ CallFailed(s)
        /\ (wire' = wire /\ tick[s].stage # "CALL") \/ wire' = Orphaned(s)
        /\ UNCHANGED <<store, runs, prs, file, head, history>>
        /\ Mishap \/ UNCHANGED mishaps
    BY DEF NotSent, NoAnswer, provider
  <1>2. PICK phase \in Phases, status \in {"RUNNING"} \cup Failing :
              /\ Decide(s, "SAVE", tick[s].copy, phase, status)
              /\ \/ phase = tick[s].phase
                 \/ phase = tick[s].copy.phase /\ tick[s].phase = "APPLY_UNCERTAIN"
    BY <1>1, CallFailedDecides
  <1>3. op[tick[s].op].owner = s =>
            DecisionOK(tick[s].op, "SAVE", tick[s].copy, phase, status)
    BY <1>1, <1>2, MutationSave
  <1>4. tick[s].copy \in Operation
    BY <1>1, TickIsRecord DEF Inv, TickRecord
  <1>5. /\ mishaps' \in Nat /\ tick[s].stage # "IDLE"
        /\ \/ wire' = wire /\ (tick[s].stage # "CALL" \/ tick[s].answer # None)
           \/ wire' = Orphaned(s)
        /\ status \in {"RUNNING", "GITOPS_APPLIED"} \cup Failing
    BY <1>1, MishapCounts
  <1>6. UNCHANGED <<store, runs, prs, file, head, history>>
    BY <1>1
  <1> QED
    BY <1>2, <1>3, <1>4, <1>5, <1>6, DecideStep

LEMMA AnsweredStep ==
    ASSUME Inv, NEW s \in Servers, Answered(s)
    PROVE  Inv'
  <1> DEFINE o == tick[s].op
             k == tick[s].copy
  <1>1. /\ tick[s].stage = "CALL" /\ tick[s].answer = "done" /\ wire' = wire
        /\ UNCHANGED <<store, runs, prs, file, head, history>> /\ mishaps' \in Nat
    BY MishapCounts DEF Answered, provider
  <1>2. /\ tick[s] \in TickRecord /\ k \in Operation /\ k.phase \in Phases /\ o \in Ops
        /\ prs[o].state \in {None, "open", "closed", "merged"}
        /\ GoodTick(s, tick[s]) /\ ProposalOK(o)
    BY <1>1, TickIsRecord DEF Inv, TypeOK, TickRecord, Operation
  <1>3. MutationOK(s, tick[s]) /\ CallOK(s, tick[s])
    BY <1>1, <1>2 DEF GoodTick
  <1>4. tick[s].answer # None
    BY <1>1, ExecutorAssumption DEF ExecutorAssumption
  <1>5. ASSUME NEW phase \in Phases, NEW c \in Operation,
               NEW status \in {"RUNNING", "GITOPS_APPLIED"},
               Decide(s, "SAVE", c, phase, status),
               op[o].owner = s => DecisionOK(o, "SAVE", c, phase, status)
        PROVE  Inv'
    <2>1. /\ tick[s].stage # "IDLE"
          /\ \/ wire' = wire /\ (tick[s].stage # "CALL" \/ tick[s].answer # None)
             \/ wire' = Orphaned(s)
          /\ status \in {"RUNNING", "GITOPS_APPLIED"} \cup Failing
      BY <1>1, <1>4
    <2>2. mishaps' \in Nat /\ UNCHANGED <<store, runs, prs, file, head, history>>
      BY <1>1
    <2> QED
      BY <1>5, <2>1, <2>2, DecideStep
  <1>6. /\ op[o].owner = s =>
             /\ op[o].phase = tick[s].phase
             /\ DecisionOK(o, "SAVE", k, tick[s].phase, "RUNNING")
             /\ tick[s].phase = "APPLY_UNCERTAIN" =>
                   DecisionOK(o, "SAVE", k, k.phase, "RUNNING")
    BY <1>1, <1>3, MutationSave DEF MutationOK
  <1>7. CASE RequestOf(s).kind = "DISPATCH"
    <2>1. tick[s].phase = "BUILD_LOOKUP"
      BY <1>3, <1>7 DEF RequestOf, MutationOK
    <2>2. PICK r \in {k.run, "running"} : advance(s, [k EXCEPT !.run = r], "BUILD_LOOKUP")
      BY <1>7 DEF Answered
    <2> DEFINE c == [k EXCEPT !.run = r]
    <2>3. /\ c \in Operation /\ c.run = r /\ c.artifact = k.artifact /\ c.base = k.base
          /\ c.result = k.result /\ c.existing = k.existing /\ c.expected = k.expected
          /\ c.pr = k.pr
      BY <1>2 DEF Operation
    <2> HIDE DEF c
    <2>4. op[o].owner = s => DecisionOK(o, "SAVE", c, "BUILD_LOOKUP", "RUNNING")
      BY <1>6, <2>1, <2>3 DEF DecisionOK, SaveOK, ResultOK, RecordOK
    <2> QED
      BY <1>5, <2>2, <2>3, <2>4 DEF advance, Phases, c
  <1>8. CASE RequestOf(s).kind = "PUT"
    <2>1. tick[s].phase = "APPLY_UNCERTAIN" /\ env.mode # "PR"
      BY <1>3, <1>8 DEF RequestOf, MutationOK
    <2> DEFINE c == [k EXCEPT !.result = TRUE]
    <2>2. finish(s, c, "GITOPS_APPLIED")
      BY <1>8 DEF Answered
    <2>3. /\ c \in Operation /\ c.result /\ c.artifact = k.artifact /\ c.base = k.base
          /\ c.phase = k.phase /\ c.existing = k.existing /\ c.expected = k.expected
          /\ c.pr = k.pr /\ c.run = k.run
      BY <1>2 DEF Operation
    <2> HIDE DEF c
    <2>4. ASSUME op[o].owner = s
          PROVE  DecisionOK(o, "SAVE", c, k.phase, "GITOPS_APPLIED")
      <3>1. /\ k.artifact \in shown[o] \ {None} /\ file.blob # planned[o]
            /\ k.base.blob = planned[o] /\ k.phase \in {"APPLY", "APPLY_UNCERTAIN"}
            /\ op[o].phase = "APPLY_UNCERTAIN"
        BY <1>1, <1>3, <1>6, <2>1, <2>4 DEF CallOK, MutationOK
      <3>2. SaveOK(o, c, k.phase, "GITOPS_APPLIED")
        BY <1>6, <2>1, <2>3, <2>4, <3>1 DEF DecisionOK, SaveOK, RecordOK
      <3> QED
        BY <2>3, <3>1, <3>2 DEF DecisionOK, ResultOK, GitOpsPhases
    <2> QED
      BY <1>2, <1>5, <2>2, <2>3, <2>4 DEF finish
  <1>9. CASE RequestOf(s).kind = "PROPOSE"
    <2>1. tick[s].phase = "APPLY_UNCERTAIN" /\ env.mode = "PR"
      BY <1>3, <1>9 DEF RequestOf, MutationOK
    <2> DEFINE c == [k EXCEPT !.pr = prs[o].state]
    <2>2. advance(s, c, "WAIT_GITOPS_PR")
      BY <1>9 DEF Answered
    <2>3. /\ c \in Operation /\ c.pr = prs[o].state /\ c.artifact = k.artifact /\ c.base = k.base
          /\ c.result = k.result /\ c.existing = k.existing /\ c.expected = k.expected
          /\ c.run = k.run
      BY <1>2 DEF Operation
    <2> HIDE DEF c
    <2>4. ASSUME op[o].owner = s
          PROVE  DecisionOK(o, "SAVE", c, "WAIT_GITOPS_PR", "RUNNING")
      <3>1. /\ prs[o].state # None /\ op[o].phase = "APPLY_UNCERTAIN"
            /\ Rank("WAIT_GITOPS_PR") >= Rank(op[o].phase)
        BY <1>1, <1>3, <1>6, <2>1, <2>4, RankValues DEF CallOK
      <3>2. SaveOK(o, c, "WAIT_GITOPS_PR", "RUNNING")
        BY <1>6, <2>1, <2>3, <2>4, <3>1 DEF DecisionOK, SaveOK, RecordOK, GitOpsPhases
      <3> QED
        BY <1>6, <2>3, <2>4, <3>2 DEF DecisionOK, ResultOK
    <2> QED
      BY <1>5, <2>2, <2>3, <2>4 DEF advance, Phases
  <1> QED
    BY <1>3, <1>7, <1>8, <1>9 DEF RequestOf, MutationOK

LEMMA CrashStep ==
    ASSUME Inv, NEW s \in Servers, Crash(s)
    PROVE  Inv'
  BY TickEnds, MishapCounts DEF Crash

-----------------------------------------------------------------------------
(***************************************************************************)
(* The provider                                                            *)
(***************************************************************************)

\* Runs and pull requests do not come back from where they ended.
ProviderGrows ==
    \A o \in Ops :
        /\ runs[o].state \in Final => runs'[o].state = runs[o].state
        /\ prs[o].state # None => prs'[o].state # None
        /\ prs[o].state \in {"closed", "merged"} => prs'[o].state = prs[o].state

\* The file stays or gets a state it never had.
FileMoves ==
    /\ \A o \in Ops : shown[o] \subseteq shown'[o]
    /\ \/ head' >= head /\ file' = file
       \/ /\ head' > head /\ file'.blob = head'
          /\ \A o \in Ops : Active(o) => file'.digest \in shown'[o]

LEMMA CommitMoves ==
    ASSUME Inv, NEW w \in Ops \cup {None}, NEW d \in Digests \cup {None}, Commit(w, d)
    PROVE  /\ FileMoves /\ head' \in Nat /\ file'.blob = head + 1
           /\ file' \in [blob : Nat, digest : Digests \cup {None}, writer : Ops \cup {None}]
           /\ shown' \in [Ops -> SUBSET (Digests \cup {None})]
  <1>1. /\ TypeOK /\ head' = head + 1
        /\ file' = [blob |-> head + 1, digest |-> d, writer |-> w]
        /\ shown' = [o \in Ops |-> IF Active(o) THEN shown[o] \cup {d} ELSE shown[o]]
    BY DEF Inv, Commit
  <1>2. /\ head' \in Nat /\ head' > head /\ file'.blob = head' /\ file'.digest = d
        /\ file' \in [blob : Nat, digest : Digests \cup {None}, writer : Ops \cup {None}]
    BY <1>1 DEF TypeOK
  <1>3. shown' \in [Ops -> SUBSET (Digests \cup {None})]
    BY <1>1 DEF TypeOK
  <1> QED
    BY <1>1, <1>2, <1>3 DEF FileMoves

\* What the provider does on its own leaves what the executor relies on.
LEMMA ProviderFrame ==
    ASSUME Inv, head' \in Nat, UNCHANGED <<store, posted, planned>>, FileMoves, ProviderGrows
    PROVE  /\ FileOK'
           /\ \A o \in Ops : OpOK(o)'
           /\ \A o \in Ops : runs'[o] = runs[o] => BuildOK(o)'
           /\ \A o \in Ops : prs'[o] = prs[o] => ProposalOK(o)'
           /\ \A r \in Servers : tick'[r] = tick[r] => GoodTick(r, tick[r])'
           /\ \A r \in Servers, t \in TickRecord : MutationOK(r, t) => MutationOK(r, t)'
           /\ \A m \in wire :
                 /\ m.from # None => tick'[m.from] = tick[m.from]
                 /\ m.kind = "DISPATCH" => runs'[m.op] = runs[m.op]
                 => RequestOK(m)'
  <1> USE DEF store
  <1>1. TypeOK /\ FileOK
    BY DEF Inv
  <1>2. FileOK'
    BY <1>1 DEF FileMoves, FileOK, TypeOK
  <1>3. ASSUME NEW o \in Ops, NEW c, NEW phase, RecordOK(o, c, phase)
        PROVE  RecordOK(o, c, phase)'
    BY <1>3 DEF RecordOK, ProviderGrows
  <1>4. ASSUME NEW o \in Ops
        PROVE  OpOK(o)'
    <2>1. OpOK(o) /\ planned[o] \in Nat
      BY <1>1 DEF Inv, TypeOK
    <2>2. RecordOK(o, op[o], op[o].phase)'
      BY <1>3, <2>1 DEF OpOK, RecordOK
    <2> QED
      BY <1>1, <2>1, <2>2 DEF OpOK, Active, FileMoves, TypeOK
  <1>5. ASSUME NEW o \in Ops, runs'[o] = runs[o]
        PROVE  BuildOK(o)'
    BY <1>5 DEF Inv, BuildOK
  <1>6. ASSUME NEW blob \in Nat, NEW digest, blob <= head, WouldChange(blob, digest)
        PROVE  WouldChange(blob, digest)'
    BY <1>1, <1>6 DEF WouldChange, FileMoves, TypeOK
  <1>7. ASSUME NEW o \in Ops, prs'[o] = prs[o]
        PROVE  ProposalOK(o)'
    <2>1. ProposalOK(o) /\ OpOK(o) /\ planned[o] \in Nat /\ planned[o] <= head
      BY <1>1 DEF Inv, TypeOK, OpOK
    <2>2. file' = file \/ file'.blob > planned[o]
      BY <1>1, <2>1 DEF FileMoves, TypeOK
    <2>3. file'.blob = planned[o] => file' = file
      BY <2>1, <2>2 DEF FileMoves
    <2>4. prs'[o].state = prs[o].state /\ prs'[o].blob = prs[o].blob
          /\ prs'[o].digest = prs[o].digest
      BY <1>7
    <2>5. (prs[o].state = "merged" => file.blob # planned[o])'
      BY <2>1, <2>3, <2>4 DEF ProposalOK
    <2>6. (prs[o].state # None =>
             /\ env.mode = "PR"
             /\ op[o].phase \in GitOpsPhases
             /\ prs[o].blob = planned[o]
             /\ prs[o].digest = op[o].artifact)'
      BY <2>1, <2>4 DEF ProposalOK
    <2>7. (prs[o].state = "open" /\ prs[o].blob = file.blob =>
             WouldChange(prs[o].blob, prs[o].digest) /\ WriteShown(o) /\ ~env.held)'
      BY <2>1, <2>3, <2>4, <2>6, ExecutorAssumption
         DEF ProposalOK, WouldChange, WriteShown, ExecutorAssumption
    <2> QED
      BY <2>5, <2>6, <2>7 DEF ProposalOK
  <1>10. ASSUME NEW r \in Servers, NEW t \in TickRecord, MutationOK(r, t)
         PROVE  MutationOK(r, t)'
    <2> DEFINE o == t.op
    <2>1. /\ o \in Ops /\ OpOK(o) /\ planned[o] <= head
          /\ t.copy.base.blob \in Nat /\ planned[o] \in Nat
      BY <1>1 DEF Inv, TickRecord, Operation, OpOK, TypeOK
    <2>2. RecordOK(o, t.copy, t.phase)'
      BY <1>3, <1>10, <2>1 DEF MutationOK, RecordOK
    <2>3. t.phase = "APPLY_UNCERTAIN" => WouldChange(t.copy.base.blob, t.copy.artifact)'
      BY <1>6, <1>10, <2>1 DEF MutationOK
    <2> QED
      BY <1>10, <2>2, <2>3 DEF MutationOK
  <1>8. ASSUME NEW r \in Servers, tick'[r] = tick[r]
        PROVE  GoodTick(r, tick[r])'
    <2> DEFINE t == tick[r]
               o == t.op
    <2>1. CASE t.stage = "IDLE"
      BY <1>8, <2>1 DEF GoodTick
    <2>2. CASE t.stage # "IDLE"
      <3>1. /\ t \in TickRecord /\ o \in Ops /\ GoodTick(r, t) /\ OpOK(o)
            /\ t.copy.base.blob \in Nat /\ planned[o] \in Nat /\ planned[o] <= head
        BY <1>1, <2>2, TickIsRecord DEF Inv, TickRecord, Operation, OpOK, TypeOK
      <3>2. CASE t.stage = "LOOK"
        BY <1>8, <3>1, <3>2 DEF GoodTick, LookOK
      <3>3. CASE t.stage \in {"SAVE", "INTENT"}
        <4>1. ASSUME op[o].owner = r
              PROVE  DecisionOK(o, t.stage, t.copy, t.phase, t.status)'
          <5>1. DecisionOK(o, t.stage, t.copy, t.phase, t.status) /\ Active(o)
            BY <3>1, <3>3, <4>1 DEF GoodTick, Active
          <5>2. SaveOK(o, t.copy, t.phase, t.status)'
            <6>1. RecordOK(o, t.copy, t.phase)'
              BY <1>3, <1>8, <3>1, <5>1 DEF DecisionOK, SaveOK, RecordOK
            <6>2. t.copy.base.blob <= head'
              BY <1>1, <3>1, <5>1 DEF DecisionOK, SaveOK, FileMoves, TypeOK
            <6> QED
              BY <1>8, <3>1, <5>1, <6>1, <6>2 DEF DecisionOK, SaveOK, ProviderGrows
          <5>3. ResultOK(o, t.copy, t.phase, t.status)'
            BY <1>1, <1>8, <3>1, <5>1 DEF DecisionOK, SaveOK, ResultOK, FileMoves, TypeOK
          <5>4. (t.stage = "INTENT" => IntentOK(o, t.copy, t.phase, t.status))'
            BY <1>1, <1>6, <1>8, <3>1, <5>1 DEF DecisionOK, SaveOK, IntentOK, WouldChange
          <5> QED
            BY <5>2, <5>3, <5>4 DEF DecisionOK
        <4> QED
          BY <1>8, <3>1, <3>3, <4>1 DEF GoodTick
      <3>4. CASE t.stage \in {"SEND", "CALL"}
        <4>1. MutationOK(r, t)
          BY <3>1, <3>4 DEF GoodTick
        <4>2. MutationOK(r, t)'
          BY <1>8, <1>10, <3>1, <4>1
        <4>3. (t.stage = "SEND" => SendOK(t))'
          BY <1>1, <1>8, <3>1, <3>4, <4>1
             DEF GoodTick, SendOK, ProviderGrows, FileMoves, WriteShown, TypeOK
        <4>4. (t.stage = "CALL" => CallOK(r, t))'
          BY <1>1, <1>8, <3>1, <3>4, <4>1
             DEF GoodTick, CallOK, ProviderGrows, FileMoves, Active, TypeOK
        <4> QED
          BY <1>8, <3>1, <3>4, <4>2, <4>3, <4>4 DEF GoodTick
      <3> QED
        BY <3>1, <3>2, <3>3, <3>4 DEF TickRecord
    <2> QED
      BY <2>1, <2>2
  <1>9. ASSUME NEW m \in wire,
               /\ m.from # None => tick'[m.from] = tick[m.from]
               /\ m.kind = "DISPATCH" => runs'[m.op] = runs[m.op]
        PROVE  RequestOK(m)'
    <2>1. RequestOK(m) /\ m \in Request /\ OpOK(m.op) /\ planned[m.op] \in Nat
      BY <1>1 DEF Inv, TypeOK, Request
    <2>2. planned[m.op] <= head /\ m.op \in Ops
      BY <2>1 DEF OpOK, Request
    <2>3. m.from # None => RequestOf(m.from)' = RequestOf(m.from)
      BY <1>9 DEF RequestOf
    <2>4. m.kind = "DISPATCH" => RequestOK(m)'
      BY <1>9, <2>1, <2>3 DEF RequestOK
    <2>5. m.kind # "DISPATCH" => WouldChange(m.blob, m.digest)'
      BY <1>6, <2>1, <2>2 DEF RequestOK
    <2>6. m.kind # "DISPATCH" /\ prs'[m.op].state = None /\ m.blob = file'.blob
             => prs[m.op].state = None /\ m.blob = file.blob
      BY <1>1, <2>1, <2>2 DEF RequestOK, ProviderGrows, FileMoves, TypeOK
    <2>7. m.kind # "DISPATCH" => RequestOK(m)'
      BY <1>9, <2>1, <2>3, <2>5, <2>6 DEF RequestOK, WriteShown
    <2> QED
      BY <2>4, <2>7
  <1> QED
    BY <1>2, <1>4, <1>5, <1>7, <1>8, <1>9, <1>10

LEMMA ForeignCommitStep ==
    ASSUME Inv, ForeignCommit
    PROVE  Inv'
  <1>1. /\ TypeOK /\ UNCHANGED <<store, posted, planned, tick, wire, runs, prs>>
        /\ mishaps' \in Nat
    BY MishapCounts DEF ForeignCommit, Inv
  <1>2. /\ FileMoves /\ head' \in Nat
        /\ file' \in [blob : Nat, digest : Digests \cup {None}, writer : Ops \cup {None}]
        /\ shown' \in [Ops -> SUBSET (Digests \cup {None})]
    <2>1. CASE \E d \in Digests \cup {None} : Commit(None, d)
      BY <2>1, CommitMoves
    <2>2. CASE head' = head + 1 /\ UNCHANGED <<file, shown>>
      BY <1>1, <2>2 DEF FileMoves, TypeOK
    <2> QED
      BY <2>1, <2>2 DEF ForeignCommit
  <1>3. ProviderGrows
    BY <1>1 DEF ProviderGrows
  <1>4. TypeOK' /\ DispatchAlone'
    BY <1>1, <1>2 DEF store, TypeOK, Inv, DispatchAlone, Dispatcher
  <1>5. UNCHANGED <<store, posted, planned>>
    BY <1>1
  <1> QED
    BY <1>1, <1>2, <1>3, <1>4, <1>5, ProviderFrame DEF Inv

LEMMA RunEndsStep ==
    ASSUME Inv, NEW o \in Ops, RunEnds(o)
    PROVE  Inv'
  <1>1. /\ TypeOK /\ UNCHANGED <<store, posted, planned>>
        /\ UNCHANGED <<tick, wire, prs, file, head, mishaps, shown>>
        /\ runs[o].state = "running"
    BY DEF RunEnds, Inv, history
  <1>2. /\ \A q \in Ops : q # o => runs'[q] = runs[q]
        /\ runs'[o].state \in Final /\ runs'[o].digest \in Digests \cup {None}
        /\ runs'[o].state = "success" => runs'[o].digest \in Digests
        /\ runs' \in [Ops -> [state : {None, "running", "failed", "success"},
                              digest : Digests \cup {None}]]
    <2>1. CASE runs' = [runs EXCEPT ![o].state = "failed"]
      BY <1>1, <2>1 DEF TypeOK, Final
    <2>2. CASE \E d \in Digests : runs' = [runs EXCEPT ![o] = [state |-> "success", digest |-> d]]
      BY <1>1, <2>2 DEF TypeOK, Final
    <2> QED
      BY <2>1, <2>2 DEF RunEnds
  <1>3. FileMoves /\ ProviderGrows /\ head' \in Nat
    BY <1>1, <1>2 DEF FileMoves, ProviderGrows, TypeOK, Final
  <1>4. TypeOK' /\ DispatchAlone'
    BY <1>1, <1>2 DEF store, TypeOK, Inv, DispatchAlone, Dispatcher
  <1>5. BuildOK(o)'
    <2>1. BuildOK(o)
      BY DEF Inv
    <2>2. posted[o] = 1
      BY <1>1, <2>1, ExecutorAssumption DEF BuildOK, ExecutorAssumption
    <2> QED
      BY <1>1, <1>2, <2>1, <2>2 DEF BuildOK, store, Final
  <1>6. ASSUME NEW m \in wire, m.kind = "DISPATCH"
        PROVE  runs'[m.op] = runs[m.op]
    BY <1>1, <1>2, <1>6, ExecutorAssumption
       DEF Inv, RequestOK, TypeOK, Request, ExecutorAssumption
  <1> QED
    BY <1>1, <1>2, <1>3, <1>4, <1>5, <1>6, ProviderFrame DEF Inv

LEMMA PullRequestEndsStep ==
    ASSUME Inv, NEW o \in Ops, PullRequestEnds(o)
    PROVE  Inv'
  <1>1. /\ TypeOK /\ UNCHANGED <<store, posted, planned>>
        /\ UNCHANGED <<tick, wire, runs, mishaps>>
        /\ prs[o].state = "open" /\ ProposalOK(o) /\ OpOK(o)
    BY DEF PullRequestEnds, Inv
  <1>2. /\ prs[o].digest \in Digests \cup {None} /\ None # "open"
        /\ env.mode = "PR" /\ op[o].phase \in GitOpsPhases
        /\ prs[o].blob = planned[o] /\ prs[o].digest = op[o].artifact
        /\ planned[o] \in Nat /\ planned[o] <= head
    BY <1>1, ExecutorAssumption DEF TypeOK, ProposalOK, OpOK, ExecutorAssumption
  <1>3. /\ FileMoves /\ head' \in Nat
        /\ file' \in [blob : Nat, digest : Digests \cup {None}, writer : Ops \cup {None}]
        /\ shown' \in [Ops -> SUBSET (Digests \cup {None})]
        /\ \/ prs' = [prs EXCEPT ![o].state = "merged"] /\ file'.blob = head + 1
           \/ prs' = [prs EXCEPT ![o].state = "closed"]
    <2>1. CASE prs' = [prs EXCEPT ![o].state = "merged"] /\ Commit(o, prs[o].digest)
      BY <1>2, <2>1, CommitMoves
    <2>2. CASE prs' = [prs EXCEPT ![o].state = "closed"] /\ NoCommit
      BY <1>1, <2>2 DEF FileMoves, TypeOK, NoCommit
    <2> QED
      BY <2>1, <2>2 DEF PullRequestEnds
  <1>4. /\ \A q \in Ops : q # o => prs'[q] = prs[q]
        /\ prs'[o].blob = prs[o].blob /\ prs'[o].digest = prs[o].digest
        /\ prs'[o].state = "closed" \/ (prs'[o].state = "merged" /\ file'.blob = head + 1)
        /\ prs' \in [Ops -> [state : {None, "open", "closed", "merged"}, blob : Nat,
                             digest : Digests \cup {None}]]
    <2>1. prs \in [Ops -> [state : {None, "open", "closed", "merged"}, blob : Nat,
                           digest : Digests \cup {None}]]
      BY <1>1 DEF TypeOK
    <2>2. CASE prs' = [prs EXCEPT ![o].state = "merged"] /\ file'.blob = head + 1
      BY <2>1, <2>2
    <2>3. CASE prs' = [prs EXCEPT ![o].state = "closed"]
      BY <2>1, <2>3
    <2> QED
      BY <1>3, <2>2, <2>3
  <1>5. ProviderGrows
    BY <1>1, <1>4, ExecutorAssumption DEF ProviderGrows, ExecutorAssumption
  <1>6. TypeOK' /\ DispatchAlone'
    BY <1>1, <1>3, <1>4 DEF store, TypeOK, Inv, DispatchAlone, Dispatcher
  <1>7. ProposalOK(o)'
    BY <1>1, <1>2, <1>4 DEF ProposalOK, store, TypeOK
  <1> QED
    BY <1>1, <1>3, <1>4, <1>5, <1>6, <1>7, ProviderFrame DEF Inv

LEMMA ProcessStep ==
    ASSUME Inv, NEW m \in wire, Process(m)
    PROVE  Inv'
  <1> DEFINE o == m.op
             f == m.from
             accepted == m.kind # "PUT" \/ m.blob = file.blob
             verdict == IF accepted THEN "done" ELSE "rejected"
  <1>1. /\ TypeOK /\ UNCHANGED <<store, posted, planned, mishaps>> /\ wire' = wire \ {m}
        /\ m \in Request /\ o \in Ops /\ RequestOK(m) /\ OpOK(o) /\ BuildOK(o) /\ ProposalOK(o)
        /\ tick' = IF f = None THEN tick ELSE [tick EXCEPT ![f].answer = verdict]
    BY DEF Process, Inv, TypeOK, Request
  <1>2. /\ FileMoves /\ head' \in Nat
        /\ file' \in [blob : Nat, digest : Digests \cup {None}, writer : Ops \cup {None}]
        /\ shown' \in [Ops -> SUBSET (Digests \cup {None})]
        /\ m.kind = "PUT" /\ accepted => /\ file'.blob = head + 1
                                         /\ Active(o) => m.digest \in shown'[o]
    <2>1. CASE m.kind = "PUT" /\ accepted /\ Commit(o, m.digest)
      <3>1. m.digest \in Digests \cup {None}
        BY <1>1 DEF Request
      <3>2. Active(o) => m.digest \in shown'[o]
        BY <1>1, <2>1 DEF Commit
      <3> QED
        BY <1>1, <3>1, <3>2, <2>1, CommitMoves
    <2>2. CASE ~(m.kind = "PUT" /\ accepted) /\ NoCommit
      BY <1>1, <2>2 DEF FileMoves, TypeOK, NoCommit
    <2> QED
      BY <2>1, <2>2 DEF Process
  <1>3. /\ \A q \in Ops : (q # o \/ m.kind # "DISPATCH") => runs'[q] = runs[q]
        /\ m.kind = "DISPATCH" => runs'[o].state = "running"
        /\ runs' \in [Ops -> [state : {None, "running", "failed", "success"},
                              digest : Digests \cup {None}]]
    <2>1. runs \in [Ops -> [state : {None, "running", "failed", "success"},
                            digest : Digests \cup {None}]]
      BY <1>1 DEF TypeOK
    <2>2. CASE m.kind = "DISPATCH" /\ runs' = [runs EXCEPT ![o].state = "running"]
      BY <1>1, <2>1, <2>2
    <2>3. CASE m.kind # "DISPATCH" /\ runs' = runs
      BY <1>1, <2>1, <2>3
    <2> QED
      BY <2>2, <2>3 DEF Process
  <1>4. /\ \A q \in Ops : (q # o \/ m.kind # "PROPOSE" \/ prs[o].state # None) => prs'[q] = prs[q]
        /\ m.kind = "PROPOSE" /\ prs[o].state = None =>
             prs'[o] = [state |-> "open", blob |-> m.blob, digest |-> m.digest]
        /\ prs' \in [Ops -> [state : {None, "open", "closed", "merged"}, blob : Nat,
                             digest : Digests \cup {None}]]
    BY <1>1 DEF Process, TypeOK, Request
  <1>5. ProviderGrows
    BY <1>1, <1>3, <1>4, ExecutorAssumption
       DEF ProviderGrows, RequestOK, Final, ExecutorAssumption
  <1>6. f # None =>
          /\ f \in Servers /\ tick[f] \in TickRecord /\ tick[f].stage = "CALL"
          /\ tick'[f] \in TickRecord /\ tick'[f].answer = verdict
          /\ tick'[f].stage = "CALL" /\ tick'[f].op = tick[f].op
          /\ tick'[f].copy = tick[f].copy /\ tick'[f].phase = tick[f].phase
          /\ tick'[f].status = tick[f].status
          /\ m = RequestOf(f)
          /\ tick' = [tick EXCEPT ![f] = [tick[f] EXCEPT !.answer = verdict]]
    <2>1. SUFFICES ASSUME f # None
          PROVE  /\ f \in Servers /\ tick[f] \in TickRecord /\ tick[f].stage = "CALL"
                 /\ tick'[f] \in TickRecord /\ tick'[f].answer = verdict
                 /\ tick'[f].stage = "CALL" /\ tick'[f].op = tick[f].op
                 /\ tick'[f].copy = tick[f].copy /\ tick'[f].phase = tick[f].phase
                 /\ tick'[f].status = tick[f].status
                 /\ m = RequestOf(f)
                 /\ tick' = [tick EXCEPT ![f] = [tick[f] EXCEPT !.answer = verdict]]
      OBVIOUS
    <2>2. f \in Servers /\ tick[f].stage = "CALL" /\ m = RequestOf(f)
      BY <1>1, <2>1 DEF Request, RequestOK
    <2>3. tick[f] \in TickRecord
      BY <1>1, <2>2, TickIsRecord
    <2> DEFINE t == [tick[f] EXCEPT !.answer = verdict]
    <2>4. tick' = [tick EXCEPT ![f] = t]
      BY <1>1, <2>1
    <2>5. /\ t \in TickRecord /\ t.answer = verdict /\ t.stage = "CALL" /\ t.op = tick[f].op
          /\ t.copy = tick[f].copy /\ t.phase = tick[f].phase /\ t.status = tick[f].status
      BY <2>2, <2>3 DEF TickRecord
    <2>6. tick'[f] = t
      BY <1>1, <2>2, <2>4 DEF TypeOK
    <2> HIDE DEF t
    <2> QED
      BY <2>2, <2>3, <2>4, <2>5, <2>6 DEF t
  <1>7. \A r \in Servers : r # f => tick'[r] = tick[r]
    BY <1>1 DEF TypeOK
  <1>8. tick' \in [Servers -> TickRecord \cup {NoTick}]
    BY <1>1, <1>6 DEF TypeOK
  <1>9. TypeOK'
    BY <1>1, <1>2, <1>3, <1>4, <1>8 DEF TypeOK, store
  <1>10. BuildOK(o)'
    <2>1. m.kind # "DISPATCH" => BuildOK(o)'
      BY <1>1, <1>3 DEF BuildOK, store
    <2>2. m.kind = "DISPATCH" => BuildOK(o)'
      BY <1>1, <1>3 DEF BuildOK, RequestOK, store
    <2> QED
      BY <2>1, <2>2
  <1>11. ProposalOK(o)'
    <2>1. CASE prs'[o] = prs[o]
      BY <1>1, <1>2, <1>5, <2>1, ProviderFrame
    <2>2. CASE m.kind = "PROPOSE" /\ prs[o].state = None
      <3>1. prs'[o].state = "open" /\ prs'[o].blob = m.blob /\ prs'[o].digest = m.digest
        BY <1>4, <2>2
      <3>2. file' = file
        BY <2>2 DEF Process, NoCommit
      <3> QED
        BY <1>1, <2>2, <3>1, <3>2, ExecutorAssumption
           DEF ProposalOK, RequestOK, WouldChange, WriteShown, store, ExecutorAssumption
    <2> QED
      BY <1>1, <1>4, <2>1, <2>2
  <1>12. f # None => GoodTick(f, tick[f])'
    <2>1. SUFFICES ASSUME f # None
          PROVE  GoodTick(f, tick[f])'
      OBVIOUS
    <2>2. GoodTick(f, tick[f]) /\ MutationOK(f, tick[f]) /\ tick[f].op = o
      BY <1>6, <2>1 DEF Inv, GoodTick, RequestOf
    <2>3. MutationOK(f, tick[f])'
      <3>1. MutationOK(f, tick'[f])
        BY <1>6, <2>1, <2>2 DEF MutationOK
      <3> QED
        BY <1>1, <1>2, <1>5, <1>6, <2>1, <3>1, ProviderFrame
    <2>4. CallOK(f, tick[f])'
      <3>1. SUFFICES ASSUME verdict = "done", tick[f].phase = "APPLY_UNCERTAIN"
            PROVE  IF env.mode = "PR" THEN prs'[o].state # None
                   ELSE /\ file'.blob # planned[o]
                        /\ op[o].owner = f => tick[f].copy.artifact \in shown'[o] \ {None}
        BY <1>1, <1>6, <2>1, <2>2 DEF CallOK, store
      <3>2. /\ m.kind = IF env.mode = "PR" THEN "PROPOSE" ELSE "PUT"
            /\ m.digest = tick[f].copy.artifact
        BY <1>6, <2>1, <3>1 DEF RequestOf
      <3>3. CASE env.mode = "PR"
        BY <1>1, <1>4, <3>2, <3>3, ExecutorAssumption DEF ExecutorAssumption
      <3>4. CASE env.mode # "PR"
        <4>1. accepted
          BY <3>1
        <4>2. file'.blob # planned[o]
          BY <1>1, <1>2, <3>2, <3>4, <4>1 DEF OpOK, TypeOK
        <4>3. tick[f].copy.artifact # None
          BY <2>2, <3>1, ExecutorAssumption
             DEF MutationOK, RecordOK, GitOpsPhases, ExecutorAssumption
        <4>4. op[o].owner = f => Active(o)
          BY <1>6, <2>1, <2>2 DEF GoodTick, Active
        <4> QED
          BY <1>2, <3>2, <3>4, <4>1, <4>2, <4>3, <4>4
      <3> QED
        BY <3>3, <3>4
    <2> QED
      BY <1>1, <1>6, <2>1, <2>2, <2>3, <2>4 DEF GoodTick, store
  <1>13. ASSUME NEW n \in wire'
         PROVE  RequestOK(n)'
    <2>1. n \in wire /\ n # m
      BY <1>1
    <2>2. n.from # None => n.from # f /\ tick'[n.from] = tick[n.from]
      BY <1>1, <1>6, <1>7, <2>1 DEF Inv, RequestOK, TypeOK, Request
    <2>3. n.kind = "DISPATCH" => runs'[n.op] = runs[n.op]
      <3>1. n.kind = "DISPATCH" => m.kind # "DISPATCH" \/ n.op # o
        BY <2>1 DEF Inv, DispatchAlone
      <3>2. n.op \in Ops
        BY <1>1, <2>1 DEF TypeOK, Request
      <3> QED
        BY <1>3, <3>1, <3>2
    <2> QED
      BY <1>1, <1>2, <1>5, <2>1, <2>2, <2>3, ProviderFrame
  <1>14. DispatchAlone'
    <2>1. \A r \in Servers : tick'[r].stage = tick[r].stage /\ tick'[r].op = tick[r].op
                             /\ tick'[r].phase = tick[r].phase
      BY <1>6, <1>7, ExecutorAssumption DEF ExecutorAssumption
    <2> QED
      BY <1>1, <2>1 DEF Inv, DispatchAlone, Dispatcher
  <1>15. /\ FileOK' /\ \A q \in Ops : OpOK(q)'
         /\ \A q \in Ops : q # o => BuildOK(q)' /\ ProposalOK(q)'
         /\ \A r \in Servers : r # f => GoodTick(r, tick[r])'
    BY <1>1, <1>2, <1>3, <1>4, <1>5, <1>7, ProviderFrame
  <1> QED
    BY <1>6, <1>9, <1>10, <1>11, <1>12, <1>13, <1>14, <1>15, ExecutorAssumption
       DEF Inv, ExecutorAssumption

-----------------------------------------------------------------------------
(***************************************************************************)
(* The store                                                               *)
(***************************************************************************)

\* The record keeps what ties the operation to the provider.
SameRecord(o) ==
    /\ op'[o].phase = op[o].phase /\ op'[o].base = op[o].base /\ op'[o].intent = op[o].intent
    /\ op'[o].artifact = op[o].artifact /\ op'[o].run = op[o].run /\ op'[o].pr = op[o].pr
    /\ op'[o].result = op[o].result

\* Who has an operation, whether its lease is live and how it stands may change
\* without an effect on the provider.
LEMMA StoreFrame ==
    ASSUME Inv, UNCHANGED <<runs, prs, file, head, posted, planned>>,
           env'.mode = env.mode, env'.held => env.held,
           \A o \in Ops : SameRecord(o)
    PROVE  /\ FileOK'
           /\ \A o \in Ops : BuildOK(o)' /\ ProposalOK(o)'
           /\ \A m \in wire : (m.from # None => tick'[m.from] = tick[m.from]) => RequestOK(m)'
           /\ \A m \in wire, n \in Request :
                 /\ n.kind = m.kind /\ n.op = m.op /\ n.blob = m.blob /\ n.digest = m.digest
                 /\ n.from = None
                 => RequestOK(n)'
           /\ \A r \in Servers :
                 /\ tick[r].stage # "IDLE"
                 /\ tick'[r] = tick[r]
                 /\ op'[tick[r].op].status # "ABSENT"
                 /\ op'[tick[r].op].owner # r
                 => GoodTick(r, tick[r])'
           /\ \A r \in Servers :
                 /\ tick'[r] = tick[r]
                 /\ tick[r].stage # "IDLE" =>
                      /\ op'[tick[r].op] \in {op[tick[r].op], [op[tick[r].op] EXCEPT !.leased = FALSE]}
                      /\ shown'[tick[r].op] = shown[tick[r].op]
                 => GoodTick(r, tick[r])'
  <1>1. TypeOK /\ FileOK'
    BY DEF Inv, FileOK
  <1>2. ASSUME NEW o \in Ops
        PROVE  BuildOK(o)' /\ ProposalOK(o)'
    <2>1. BuildOK(o) /\ ProposalOK(o) /\ SameRecord(o)
      BY DEF Inv
    <2> QED
      BY <2>1 DEF BuildOK, ProposalOK, SameRecord, WriteShown, WouldChange
  <1>3. ASSUME NEW m \in wire, NEW n \in Request,
               n.kind = m.kind, n.op = m.op, n.blob = m.blob, n.digest = m.digest,
               n.from # None => n = m /\ tick'[n.from] = tick[n.from]
        PROVE  RequestOK(n)'
    <2>1. RequestOK(m) /\ m.op \in Ops /\ SameRecord(m.op)
      BY <1>1 DEF Inv, TypeOK, Request
    <2>2. n.from # None => RequestOf(n.from)' = RequestOf(n.from)
      BY <1>3 DEF RequestOf
    <2> QED
      BY <1>3, <2>1, <2>2 DEF RequestOK, SameRecord, WriteShown, WouldChange
  <1>4. ASSUME NEW r \in Servers, tick'[r] = tick[r], tick[r].stage # "IDLE"
        PROVE  LET t == tick[r]
                   o == tick[r].op
               IN /\ t \in TickRecord /\ o \in Ops /\ GoodTick(r, t) /\ SameRecord(o)
                  /\ t.stage \in {"SEND", "CALL"} /\ (op'[o].owner = r => op[o].owner = r)
                       => MutationOK(r, t)'
                  /\ t.stage = "SEND" => SendOK(t)'
    <2>1. tick[r] \in TickRecord /\ tick[r].op \in Ops /\ GoodTick(r, tick[r]) /\ SameRecord(tick[r].op)
      BY <1>1, <1>4, TickIsRecord DEF Inv, TickRecord
    <2>2. ASSUME tick[r].stage \in {"SEND", "CALL"},
                 op'[tick[r].op].owner = r => op[tick[r].op].owner = r
          PROVE  MutationOK(r, tick[r])'
      BY <1>4, <2>1, <2>2 DEF GoodTick, MutationOK, SameRecord, RecordOK, WouldChange
    <2>3. ASSUME tick[r].stage = "SEND"
          PROVE  SendOK(tick[r])'
      BY <1>4, <2>1, <2>3 DEF GoodTick, SendOK, SameRecord, WriteShown
    <2> QED
      BY <2>1, <2>2, <2>3
  <1>5. ASSUME NEW r \in Servers, tick[r].stage # "IDLE", tick'[r] = tick[r],
               op'[tick[r].op].status # "ABSENT", op'[tick[r].op].owner # r
        PROVE  GoodTick(r, tick[r])'
    <2>1. GoodTick(r, tick[r])
      BY <1>4, <1>5
    <2>2. (tick[r].stage = "CALL" => CallOK(r, tick[r]))'
      BY <1>5, <2>1 DEF GoodTick, CallOK
    <2>3. (tick[r].stage \in {"SEND", "CALL"} => MutationOK(r, tick[r]))'
      BY <1>4, <1>5
    <2>4. (tick[r].stage = "SEND" => SendOK(tick[r]))'
      BY <1>4, <1>5
    <2> QED
      BY <1>5, <2>1, <2>2, <2>3, <2>4 DEF GoodTick, LookOK
  <1>6. ASSUME NEW r \in Servers, tick'[r] = tick[r],
               tick[r].stage # "IDLE" =>
                  /\ op'[tick[r].op] \in {op[tick[r].op], [op[tick[r].op] EXCEPT !.leased = FALSE]}
                  /\ shown'[tick[r].op] = shown[tick[r].op]
        PROVE  GoodTick(r, tick[r])'
    <2> DEFINE o == tick[r].op
    <2>1. CASE tick[r].stage = "IDLE"
      BY <1>6, <2>1 DEF GoodTick
    <2>2. CASE tick[r].stage # "IDLE"
      <3>1. GoodTick(r, tick[r]) /\ op[o] \in Operation /\ SameRecord(o) /\ tick[r] \in TickRecord
        BY <1>1, <1>4, <1>6, <2>2 DEF TypeOK
      <3>2. /\ op'[o].owner = op[o].owner /\ op'[o].status = op[o].status
            /\ [op'[o] EXCEPT !.leased = TRUE] = [op[o] EXCEPT !.leased = TRUE]
        BY <1>6, <2>2, <3>1 DEF Operation
      <3>3. (tick[r].stage = "LOOK" => LookOK(r, tick[r]))'
        BY <1>6, <2>2, <3>1, <3>2 DEF GoodTick, LookOK
      <3>4. (tick[r].stage \in {"SAVE", "INTENT"} /\ op[o].owner = r =>
               DecisionOK(o, tick[r].stage, tick[r].copy, tick[r].phase, tick[r].status))'
        BY <1>6, <2>2, <3>1, <3>2
           DEF GoodTick, DecisionOK, SaveOK, ResultOK, IntentOK, RecordOK, SameRecord, WouldChange
      <3>5. (tick[r].stage = "CALL" => CallOK(r, tick[r]))'
        BY <1>6, <2>2, <3>1, <3>2 DEF GoodTick, CallOK
      <3> QED
        BY <1>4, <1>6, <2>2, <3>1, <3>2, <3>3, <3>4, <3>5 DEF GoodTick
    <2> QED
      BY <2>1, <2>2
  <1>7. \A m \in wire : (m.from # None => tick'[m.from] = tick[m.from]) => RequestOK(m)'
    BY <1>1, <1>3 DEF TypeOK
  <1>8. \A m \in wire, n \in Request :
            /\ n.kind = m.kind /\ n.op = m.op /\ n.blob = m.blob /\ n.digest = m.digest
            /\ n.from = None
            => RequestOK(n)'
    BY <1>3
  <1>9. \A r \in Servers :
            /\ tick[r].stage # "IDLE"
            /\ tick'[r] = tick[r]
            /\ op'[tick[r].op].status # "ABSENT"
            /\ op'[tick[r].op].owner # r
            => GoodTick(r, tick[r])'
    BY <1>5
  <1> QED
    BY <1>1, <1>2, <1>6, <1>7, <1>8, <1>9

LEMMA ClaimStep ==
    ASSUME Inv, NEW s \in Servers, Tick(s)
    PROVE  Inv'
  <1>1. PICK o \in Ops :
          /\ Active(o)
          /\ ~op[o].leased
          /\ op' = [op EXCEPT ![o] = [@ EXCEPT !.owner = s, !.leased = TRUE, !.status = "RUNNING"]]
          /\ tick' = [tick EXCEPT ![s] =
                      [stage |-> "LOOK", op |-> o, copy |-> op'[o],
                       phase |-> op[o].phase, status |-> "RUNNING", answer |-> None]]
    BY DEF Tick
  <1> DEFINE c == [op[o] EXCEPT !.owner = s, !.leased = TRUE, !.status = "RUNNING"]
             t == [stage |-> "LOOK", op |-> o, copy |-> c,
                   phase |-> op[o].phase, status |-> "RUNNING", answer |-> None]
  <1>2. /\ TypeOK /\ OpOK(o) /\ tick[s] = NoTick /\ op[o] \in Operation
        /\ UNCHANGED <<age, retargeted, known, env, wire, runs, prs, file, head, mishaps>>
        /\ UNCHANGED <<posted, planned, shown>>
    BY DEF Inv, Tick, TypeOK, provider, history
  <1>3. /\ c \in Operation /\ c.owner = s /\ c.leased = TRUE /\ c.status = "RUNNING"
        /\ c.phase = op[o].phase /\ c.base = op[o].base /\ c.intent = op[o].intent
        /\ c.artifact = op[o].artifact /\ c.run = op[o].run /\ c.pr = op[o].pr
        /\ c.result = op[o].result /\ c.existing = op[o].existing
        /\ c.expected = op[o].expected
    BY <1>2 DEF Operation
  <1>4. /\ op' = [op EXCEPT ![o] = c] /\ op'[o] = c
        /\ \A q \in Ops : q # o => op'[q] = op[q]
        /\ op' \in [Ops -> Operation]
    BY <1>1, <1>2, <1>3 DEF TypeOK
  <1>5. /\ t.stage = "LOOK" /\ t.op = o /\ t.copy = c /\ t.answer = None /\ t \in TickRecord
        /\ tick' = [tick EXCEPT ![s] = t]
    BY <1>1, <1>2, <1>3, <1>4 DEF TickRecord, Operation
  <1>6. [c EXCEPT !.leased = TRUE] = c
    BY <1>3 DEF Operation
  <1> HIDE DEF c, t
  <1>7. /\ tick'[s] = t /\ tick' \in [Servers -> TickRecord \cup {NoTick}]
        /\ \A r \in Servers : r # s => tick'[r] = tick[r]
    BY <1>2, <1>5 DEF TypeOK
  <1>8. \A q \in Ops : SameRecord(q)
    BY <1>3, <1>4 DEF SameRecord
  <1>9. TypeOK'
    BY <1>2, <1>4, <1>7 DEF TypeOK
  <1>10. /\ FileOK'
         /\ \A q \in Ops : BuildOK(q)' /\ ProposalOK(q)'
         /\ \A m \in wire : (m.from # None => tick'[m.from] = tick[m.from]) => RequestOK(m)'
    BY <1>2, <1>8, StoreFrame
  <1>11. \A m \in wire' : RequestOK(m)'
    <2>1. \A m \in wire : m.from # s
      BY <1>2, NobodyElseWaits DEF NoTick
    <2> QED
      BY <1>2, <1>7, <1>10, <2>1 DEF TypeOK, Request
  <1>12. \A q \in Ops : OpOK(q)'
    <2>1. OpOK(o)'
      BY <1>1, <1>2, <1>3, <1>4 DEF OpOK, RecordOK, Active, Terminal
    <2> QED
      BY <1>2, <1>4, <2>1 DEF Inv, OpOK, RecordOK, Active
  <1>13. GoodTick(s, tick[s])'
    BY <1>3, <1>4, <1>5, <1>6, <1>7 DEF GoodTick, LookOK
  <1>14. ASSUME NEW r \in Servers, r # s
         PROVE  GoodTick(r, tick[r])'
    <2>1. CASE tick[r].stage # "IDLE" /\ tick[r].op = o
      BY <1>2, <1>3, <1>4, <1>7, <1>8, <1>14, <2>1, StoreFrame
    <2>2. CASE tick[r].stage = "IDLE" \/ tick[r].op # o
      <3>1. tick[r].stage # "IDLE" => op'[tick[r].op] = op[tick[r].op]
        BY <1>2, <1>4, <2>2, TickIsRecord DEF TickRecord
      <3> QED
        BY <1>2, <1>7, <1>8, <1>14, <3>1, StoreFrame
    <2> QED
      BY <2>1, <2>2
  <1>15. DispatchAlone'
    BY <1>2, <1>5, <1>7 DEF Inv, DispatchAlone, Dispatcher
  <1> QED
    BY <1>9, <1>10, <1>11, <1>12, <1>13, <1>14, <1>15 DEF Inv

LEMMA LeaseExpiresStep ==
    ASSUME Inv, NEW o \in Ops, LeaseExpires(o)
    PROVE  Inv'
  <1> DEFINE c == [op[o] EXCEPT !.leased = FALSE]
  <1>1. /\ TypeOK /\ op[o] \in Operation /\ op' = [op EXCEPT ![o] = c]
        /\ UNCHANGED <<age, retargeted, known, env, tick, wire, runs, prs, file, head>>
        /\ UNCHANGED <<posted, planned, shown>> /\ mishaps' \in Nat
    BY MishapCounts DEF Inv, LeaseExpires, TypeOK, provider, history
  <1>2. /\ c \in Operation /\ c.owner = op[o].owner /\ c.status = op[o].status
        /\ c.phase = op[o].phase /\ c.base = op[o].base /\ c.intent = op[o].intent
        /\ c.artifact = op[o].artifact /\ c.run = op[o].run /\ c.pr = op[o].pr
        /\ c.result = op[o].result /\ c.existing = op[o].existing
        /\ c.expected = op[o].expected
    BY <1>1 DEF Operation
  <1>3. /\ op'[o] = c /\ op' \in [Ops -> Operation]
        /\ \A q \in Ops : q # o => op'[q] = op[q]
    BY <1>1, <1>2 DEF TypeOK
  <1>4. \A q \in Ops : op'[q] \in {op[q], [op[q] EXCEPT !.leased = FALSE]}
    BY <1>3
  <1> HIDE DEF c
  <1>5. \A q \in Ops : SameRecord(q)
    BY <1>2, <1>3 DEF SameRecord
  <1>6. TypeOK' /\ DispatchAlone'
    BY <1>1, <1>3 DEF TypeOK, Inv, DispatchAlone, Dispatcher
  <1>7. \A q \in Ops : OpOK(q)'
    BY <1>1, <1>2, <1>3 DEF Inv, OpOK, RecordOK, Active
  <1>8. \A r \in Servers : tick[r].stage # "IDLE" => tick[r].op \in Ops
    BY <1>1, TickIsRecord DEF TickRecord
  <1>9. \A r \in Servers : GoodTick(r, tick[r])'
    BY <1>1, <1>4, <1>5, <1>8, StoreFrame
  <1>10. /\ FileOK'
         /\ \A q \in Ops : BuildOK(q)' /\ ProposalOK(q)'
         /\ \A m \in wire' : RequestOK(m)'
    BY <1>1, <1>5, StoreFrame
  <1> QED
    BY <1>6, <1>7, <1>9, <1>10 DEF Inv

-----------------------------------------------------------------------------
(***************************************************************************)
(* Sending                                                                 *)
(***************************************************************************)

LEMMA SendStep ==
    ASSUME Inv, NEW s \in Servers, Send(s)
    PROVE  Inv'
  <1> DEFINE o == tick[s].op
  <1>0. PICK n : n = RequestOf(s)
    OBVIOUS
  <1>1. /\ TypeOK /\ tick[s].stage = "SEND" /\ tick[s] \in TickRecord /\ o \in Ops
        /\ op[o] \in Operation /\ tick[s].copy \in Operation
    BY TickIsRecord DEF Inv, Send, TypeOK, TickRecord
  <1>2. /\ UNCHANGED <<op, age, retargeted, known, env, runs, prs, file, head, mishaps, planned, shown>>
        /\ wire' = wire \cup {n}
        /\ posted' = [posted EXCEPT ![o] = @ + IF n.kind = "DISPATCH" THEN 1 ELSE 0]
    BY <1>0 DEF Send, store
  <1>3. /\ tick'[s].stage = "CALL" /\ tick'[s].op = o /\ tick'[s].copy = tick[s].copy
        /\ tick'[s].phase = tick[s].phase /\ tick'[s].status = tick[s].status
        /\ tick'[s].answer = tick[s].answer
        /\ \A r \in Servers : r # s => tick'[r] = tick[r]
        /\ tick' \in [Servers -> TickRecord \cup {NoTick}]
    BY <1>1 DEF Send, TypeOK, TickRecord
  <1>4. /\ GoodTick(s, tick[s]) /\ OpOK(o) /\ BuildOK(o)
        /\ MutationOK(s, tick[s]) /\ SendOK(tick[s]) /\ tick[s].answer = None
    BY <1>1 DEF Inv, GoodTick
  <1>5. /\ n \in Request /\ n.op = o /\ n.from = s /\ n.blob = planned[o]
        /\ n.digest = tick[s].copy.artifact
        /\ n.kind = "DISPATCH" => tick[s].phase = "BUILD_LOOKUP"
        /\ tick[s].phase = "BUILD_LOOKUP" => n.kind = "DISPATCH"
        /\ n.kind # "DISPATCH" => /\ n.kind = (IF env.mode = "PR" THEN "PROPOSE" ELSE "PUT")
                                  /\ tick[s].phase = "APPLY_UNCERTAIN"
    BY <1>0, <1>1, <1>4 DEF RequestOf, Request, MutationOK, Operation, TypeOK
  <1>6. n = RequestOf(s)'
    BY <1>0, <1>2, <1>3 DEF RequestOf
  <1>7. /\ \A q \in Ops : q # o \/ n.kind # "DISPATCH" => posted'[q] = posted[q]
        /\ n.kind = "DISPATCH" => posted[o] = 0 /\ posted'[o] = 1 /\ op[o].phase = "BUILD_LOOKUP"
        /\ posted' \in [Ops -> Nat]
    BY <1>1, <1>2, <1>4, <1>5 DEF TypeOK, SendOK
  <1>8. TypeOK' /\ FileOK'
    BY <1>1, <1>2, <1>3, <1>5, <1>7 DEF Inv, FileOK, TypeOK
  <1>9. ASSUME NEW q \in Ops
        PROVE  OpOK(q)' /\ BuildOK(q)' /\ ProposalOK(q)'
    <2>1. OpOK(q) /\ BuildOK(q) /\ ProposalOK(q)
      BY DEF Inv
    <2>2. OpOK(q)' /\ ProposalOK(q)'
      BY <1>2, <2>1 DEF OpOK, RecordOK, Active, ProposalOK, WriteShown, WouldChange
    <2>3. BuildOK(q)'
      BY <1>2, <1>7, <2>1, RankValues DEF BuildOK
    <2> QED
      BY <2>2, <2>3
  <1>10. ASSUME NEW r \in Servers
         PROVE  GoodTick(r, tick[r])'
    <2>1. CASE r = s
      <3>1. MutationOK(s, tick[s])'
        BY <1>2, <1>3, <1>4 DEF MutationOK, RecordOK, WouldChange
      <3>2. CallOK(s, tick[s])'
        BY <1>3, <1>4, ExecutorAssumption DEF CallOK, ExecutorAssumption
      <3> QED
        BY <1>1, <1>2, <1>3, <1>4, <2>1, <3>1, <3>2 DEF GoodTick
    <2>2. CASE r # s
      <3>1. GoodTick(r, tick[r]) /\ tick'[r] = tick[r] /\ (tick[r].stage # "IDLE" => tick[r].op \in Ops)
        BY <1>1, <1>3, <2>2, TickIsRecord DEF Inv, TickRecord
      <3>2. ASSUME tick[r].stage = "SEND"
            PROVE  SendOK(tick[r])'
        <4>1. Dispatcher(r) => tick[r].op # o \/ n.kind # "DISPATCH"
          BY <1>1, <1>5, <2>2 DEF Inv, DispatchAlone, Dispatcher
        <4>2. tick[r].phase = "BUILD_LOOKUP" => posted'[tick[r].op] = posted[tick[r].op]
          BY <1>7, <3>1, <3>2, <4>1 DEF Dispatcher
        <4> QED
          BY <1>2, <3>1, <3>2, <4>2 DEF GoodTick, SendOK, WriteShown
      <3> QED
        BY <1>2, <3>1, <3>2
           DEF GoodTick, LookOK, DecisionOK, SaveOK, ResultOK, IntentOK, MutationOK, CallOK, RecordOK,
               WouldChange
    <2> QED
      BY <2>1, <2>2
  <1>11. RequestOK(n)'
    <2>1. n.from # None => tick'[n.from].stage = "CALL" /\ tick'[n.from].answer = None
      BY <1>3, <1>4, <1>5
    <2>2. n.from # None => n = RequestOf(n.from)'
      BY <1>5, <1>6 DEF RequestOf
    <2>3. ASSUME n.kind = "DISPATCH"
          PROVE  /\ posted'[n.op] = 1 /\ runs'[n.op].state = None /\ ~env'.held
                 /\ op'[n.op].phase = "BUILD_LOOKUP" /\ op'[n.op].intent = "BUILD"
      BY <1>2, <1>4, <1>5, <1>7, <2>3 DEF SendOK, BuildOK
    <2>4. ASSUME n.kind # "DISPATCH"
          PROVE  /\ n.kind = (IF env'.mode = "PR" THEN "PROPOSE" ELSE "PUT")
                 /\ n.blob = planned'[n.op] /\ n.blob # 0
                 /\ op'[n.op].phase \in GitOpsPhases /\ n.digest = op'[n.op].artifact
                 /\ WouldChange(n.blob, n.digest)'
                 /\ prs'[n.op].state = None /\ n.blob = file'.blob
                       => WriteShown(n.op)' /\ ~env'.held
      <3>1. op[o].phase \in GitOpsPhases
        BY <1>1, <1>4, <1>5, <2>4, RankValues DEF MutationOK, Operation, Phases, GitOpsPhases
      <3>2. n.digest = op[o].artifact /\ WouldChange(n.blob, n.digest) /\ n.blob # 0
        BY <1>4, <1>5, <2>4 DEF MutationOK
      <3>3. prs[o].state = None /\ n.blob = file.blob => WriteShown(o) /\ ~env.held
        BY <1>4, <1>5, <2>4 DEF SendOK
      <3> QED
        BY <1>2, <1>5, <2>4, <3>1, <3>2, <3>3 DEF WouldChange, WriteShown
    <2> QED
      BY <2>1, <2>2, <2>3, <2>4 DEF RequestOK
  <1>12. ASSUME NEW m \in wire
         PROVE  RequestOK(m)'
    <2>1. RequestOK(m) /\ m \in Request /\ m.from # s
      BY <1>1, <1>4, NobodyElseWaits DEF Inv, TypeOK
    <2>2. m.from # None => tick'[m.from] = tick[m.from] /\ RequestOf(m.from)' = RequestOf(m.from)
      BY <1>2, <1>3, <2>1 DEF Request, RequestOf
    <2>3. m.kind = "DISPATCH" => posted'[m.op] = posted[m.op]
      BY <1>7, <2>1 DEF RequestOK, Request
    <2> QED
      BY <1>2, <2>1, <2>2, <2>3 DEF RequestOK, WouldChange, WriteShown
  <1>13. DispatchAlone'
    <2>1. \A m \in wire : m.kind = "DISPATCH" => n.kind # "DISPATCH" \/ m.op # n.op
      BY <1>5, <1>7 DEF Inv, RequestOK
    <2> QED
      BY <1>2, <1>3, <2>1 DEF Inv, DispatchAlone, Dispatcher
  <1> QED
    BY <1>2, <1>8, <1>9, <1>10, <1>11, <1>12, <1>13 DEF Inv

-----------------------------------------------------------------------------
(***************************************************************************)
(* Commands and time                                                       *)
(***************************************************************************)

LEMMA DeployStep ==
    ASSUME Inv, NEW o \in Ops, NEW d \in Digests \cup {None}, NEW k \in BOOLEAN,
           deploy_integration(o, d, k)
    PROVE  Inv'
  <1> DEFINE c == [op[o] EXCEPT !.status = "PENDING", !.requested = d, !.expected = d,
                                !.existing = k, !.epoch = env.epoch]
  <1>1. /\ TypeOK /\ op[o] \in Operation /\ op[o].status = "ABSENT" /\ (k => d \in Digests)
        /\ op' = [op EXCEPT ![o] = c] /\ shown' = [shown EXCEPT ![o] = {file.digest}]
        /\ UNCHANGED <<age, retargeted, known, env, tick, wire, runs, prs, file, head, mishaps>>
        /\ UNCHANGED <<posted, planned>>
    BY DEF Inv, deploy_integration, TypeOK, provider
  <1>2. /\ c \in Operation /\ c.owner = op[o].owner /\ c.status = "PENDING"
        /\ c.phase = op[o].phase /\ c.base = op[o].base /\ c.intent = op[o].intent
        /\ c.artifact = op[o].artifact /\ c.run = op[o].run /\ c.pr = op[o].pr
        /\ c.result = op[o].result /\ c.existing = k /\ c.expected = d
    BY <1>1 DEF Operation, TypeOK
  <1> HIDE DEF c
  <1>3. /\ op'[o] = c /\ op' \in [Ops -> Operation] /\ shown'[o] = {file.digest}
        /\ \A q \in Ops : q # o => op'[q] = op[q] /\ shown'[q] = shown[q]
        /\ shown' \in [Ops -> SUBSET (Digests \cup {None})]
    BY <1>1, <1>2 DEF TypeOK
  <1>4. \A q \in Ops : SameRecord(q)
    BY <1>2, <1>3 DEF SameRecord
  <1>5. TypeOK' /\ DispatchAlone'
    BY <1>1, <1>3 DEF TypeOK, Inv, DispatchAlone, Dispatcher
  <1>6. \A q \in Ops : OpOK(q)'
    <2>1. OpOK(o)'
      BY <1>1, <1>2, <1>3 DEF Inv, OpOK, RecordOK, Active, Terminal
    <2> QED
      BY <1>1, <1>3, <2>1 DEF Inv, OpOK, RecordOK, Active
  <1>7. \A r \in Servers : tick[r].stage # "IDLE" => tick[r].op \in Ops /\ tick[r].op # o
    BY <1>1, TickIsRecord DEF Inv, GoodTick, TickRecord
  <1>8. \A r \in Servers : GoodTick(r, tick[r])'
    BY <1>1, <1>3, <1>4, <1>7, StoreFrame
  <1>9. /\ FileOK'
        /\ \A q \in Ops : BuildOK(q)' /\ ProposalOK(q)'
        /\ \A m \in wire' : RequestOK(m)'
    BY <1>1, <1>4, StoreFrame
  <1> QED
    BY <1>5, <1>6, <1>8, <1>9 DEF Inv

\* The bindings, the clock and a released environment hold nothing back.
LEMMA QuietStep ==
    ASSUME Inv,
           UNCHANGED <<op, known, tick, provider, mishaps, history>>,
           age' \in [Ops -> 0..2], retargeted' \subseteq Ops,
           env' = env \/ env' = [env EXCEPT !.held = FALSE]
    PROVE  Inv'
  <1>1. /\ TypeOK /\ UNCHANGED <<wire, runs, prs, file, head, posted, planned, shown>>
        /\ UNCHANGED <<op, known, tick, mishaps>>
    BY DEF Inv, provider, history
  <1>2. env'.mode = env.mode /\ (env'.held => env.held) /\ TypeOK'
    BY <1>1 DEF TypeOK
  <1>3. \A q \in Ops : SameRecord(q)
    BY <1>1 DEF SameRecord
  <1>4. DispatchAlone'
    BY <1>1 DEF Inv, DispatchAlone, Dispatcher
  <1>5. \A q \in Ops : OpOK(q)'
    BY <1>1 DEF Inv, OpOK, RecordOK, Active
  <1>6. /\ FileOK'
        /\ \A q \in Ops : BuildOK(q)' /\ ProposalOK(q)'
        /\ \A m \in wire' : RequestOK(m)'
        /\ \A r \in Servers : GoodTick(r, tick[r])'
    BY <1>1, <1>2, <1>3, StoreFrame
  <1> QED
    BY <1>2, <1>4, <1>5, <1>6 DEF Inv

LEMMA QuietSteps ==
    ASSUME Inv,
           \/ configure_environment \/ release_candidate_dev
           \/ \E o \in Ops : Age(o)
    PROVE  Inv'
  <1>1. TypeOK
    BY DEF Inv
  <1>2. CASE configure_environment
    BY <1>1, <1>2, QuietStep DEF configure_environment, TypeOK
  <1>3. CASE release_candidate_dev
    BY <1>1, <1>3, QuietStep DEF release_candidate_dev, TypeOK
  <1>4. ASSUME NEW o \in Ops, Age(o)
        PROVE  Inv'
    <2>1. age' \in [Ops -> 0..2]
      BY <1>1, <1>4 DEF Age, TypeOK
    <2> QED
      BY <1>1, <1>4, <2>1, QuietStep DEF Age, TypeOK
  <1> QED
    BY <1>2, <1>3, <1>4

\* A reservation is made only when nothing under way is left.
LEMMA ReserveStep ==
    ASSUME Inv, reserve_candidate_dev
    PROVE  Inv'
  <1>1. /\ TypeOK /\ UNCHANGED <<op, age, retargeted, known, tick, wire, runs, prs, file, head, mishaps>>
        /\ UNCHANGED <<posted, planned, shown>>
        /\ env'.mode = env.mode
        /\ env' \in [mode : {"DIRECT", "PR"}, epoch : Nat, held : BOOLEAN, quarantined : BOOLEAN]
    <2>1. TypeOK /\ env' = [env EXCEPT !.epoch = @ + 1, !.held = TRUE]
      BY DEF Inv, reserve_candidate_dev
    <2>2. env \in [mode : {"DIRECT", "PR"}, epoch : Nat, held : BOOLEAN, quarantined : BOOLEAN]
      BY <2>1 DEF TypeOK
    <2>3. env.epoch + 1 \in Nat
      BY <2>2
    <2>4. ASSUME NEW n \in Nat, NEW e, e = [env EXCEPT !.epoch = n, !.held = TRUE]
          PROVE  /\ e.mode = env.mode
                 /\ e \in [mode : {"DIRECT", "PR"}, epoch : Nat, held : BOOLEAN, quarantined : BOOLEAN]
      BY <2>2, <2>4
    <2> QED
      BY <2>1, <2>3, <2>4 DEF reserve_candidate_dev, provider, history
  <1>2. \A o \in Ops : op[o].intent \notin {"BUILD", "GITOPS"} /\ op[o].pr # "open"
    BY ExecutorAssumption
       DEF reserve_candidate_dev, unresolvedReservationEffects, Unresolved, ExecutorAssumption
  <1>3. \A o \in Ops : ~WriteShown(o) /\ runs[o].state # "running"
    BY <1>2 DEF Inv, WriteShown, BuildOK
  <1>4. \A o \in Ops : OpOK(o)' /\ BuildOK(o)'
    BY <1>1, <1>3 DEF Inv, OpOK, BuildOK, RecordOK, Active
  <1>5. \A o \in Ops : ProposalOK(o)'
    BY <1>1, <1>3 DEF Inv, ProposalOK, WouldChange
  <1>6. ASSUME NEW r \in Servers
        PROVE  GoodTick(r, tick[r])'
    <2>1. GoodTick(r, tick[r]) /\ (tick[r].stage # "IDLE" => tick[r].op \in Ops)
      BY <1>1, TickIsRecord DEF Inv, TickRecord
    <2>2. tick[r].stage = "SEND" => SendOK(tick[r])'
      BY <1>1, <1>2, <1>3, <2>1 DEF GoodTick, SendOK
    <2> QED
      BY <1>1, <2>1, <2>2
         DEF GoodTick, LookOK, DecisionOK, SaveOK, ResultOK, IntentOK, MutationOK, CallOK, RecordOK,
             WouldChange
  <1>7. ASSUME NEW m \in wire
        PROVE  RequestOK(m)'
    <2>1. RequestOK(m) /\ m.op \in Ops
      BY <1>1 DEF Inv, TypeOK, Request
    <2>2. RequestOf(m.from)' = RequestOf(m.from)
      BY <1>1 DEF RequestOf
    <2> QED
      BY <1>1, <1>2, <1>3, <2>1, <2>2 DEF RequestOK, WouldChange
  <1> QED
    BY <1>1, <1>4, <1>5, <1>6, <1>7 DEF Inv, TypeOK, FileOK, DispatchAlone, Dispatcher

\* A restored instance has no Tick, and what was sent stays sent.
LEMMA RestoreStep ==
    ASSUME Inv, RestoreBackup
    PROVE  Inv'
  <1>1. /\ TypeOK /\ UNCHANGED <<age, retargeted, known, runs, prs, file, head, mishaps>>
        /\ UNCHANGED <<posted, planned, shown>>
        /\ env'.mode = env.mode /\ env'.held = env.held
        /\ env' \in [mode : {"DIRECT", "PR"}, epoch : Nat, held : BOOLEAN, quarantined : BOOLEAN]
        /\ \A r \in Servers : tick'[r] = NoTick
        /\ tick' \in [Servers -> TickRecord \cup {NoTick}]
    BY DEF Inv, RestoreBackup, TypeOK, history
  <1>2. ASSUME NEW o \in Ops
        PROVE  /\ op'[o] \in Operation /\ SameRecord(o)
               /\ op'[o].status = IF Active(o) THEN "CANCELLED" ELSE op[o].status
               /\ op'[o].existing = op[o].existing /\ op'[o].expected = op[o].expected
               /\ ~Active(o) => op'[o].owner = op[o].owner
    <2>1. op[o] \in Operation /\ op'[o] = IF Active(o)
                THEN [op[o] EXCEPT !.status = "CANCELLED", !.owner = None, !.leased = FALSE]
                ELSE op[o]
      BY <1>1 DEF RestoreBackup, TypeOK
    <2>2. CASE Active(o)
      <3> DEFINE c == [op[o] EXCEPT !.status = "CANCELLED", !.owner = None, !.leased = FALSE]
      <3>1. /\ c \in Operation /\ c.status = "CANCELLED"
            /\ c.phase = op[o].phase /\ c.base = op[o].base /\ c.intent = op[o].intent
            /\ c.artifact = op[o].artifact /\ c.run = op[o].run /\ c.pr = op[o].pr
            /\ c.result = op[o].result /\ c.existing = op[o].existing
            /\ c.expected = op[o].expected
        BY <2>1 DEF Operation, Terminal
      <3>2. op'[o] = c
        BY <2>1, <2>2
      <3> HIDE DEF c
      <3> QED
        BY <2>2, <3>1, <3>2 DEF SameRecord
    <2>3. CASE ~Active(o)
      BY <2>1, <2>3 DEF SameRecord
    <2> QED
      BY <2>2, <2>3
  <1>3. TypeOK' /\ \A m \in wire' : m \in Request /\ m.from = None
    <2>1. ASSUME NEW m \in wire'
          PROVE  m \in Request /\ m.from = None
      <3>1. PICK a \in wire : m = [a EXCEPT !.from = None]
        BY DEF RestoreBackup
      <3>2. a \in Request
        BY <1>1 DEF TypeOK
      <3> QED
        BY <3>1, <3>2 DEF Request
    <2>2. op' \in [Ops -> Operation]
      BY <1>2 DEF RestoreBackup
    <2> QED
      BY <1>1, <2>1, <2>2 DEF TypeOK
  <1>4. \A m \in wire' : \E n \in wire :
            m.kind = n.kind /\ m.op = n.op /\ m.blob = n.blob /\ m.digest = n.digest
    <2> SUFFICES ASSUME NEW m \in wire'
                 PROVE  \E n \in wire :
                          m.kind = n.kind /\ m.op = n.op /\ m.blob = n.blob /\ m.digest = n.digest
      OBVIOUS
    <2>1. PICK a \in wire : m = [a EXCEPT !.from = None]
      BY DEF RestoreBackup
    <2> QED
      BY <1>1, <2>1 DEF TypeOK, Request
  <1>5. \A o \in Ops : OpOK(o)'
    <2> SUFFICES ASSUME NEW o \in Ops PROVE OpOK(o)'
      OBVIOUS
    <2>1. OpOK(o)
      BY DEF Inv
    <2> QED
      BY <1>1, <1>2, <2>1 DEF OpOK, RecordOK, SameRecord, Active, Terminal
  <1>6. /\ FileOK'
        /\ \A o \in Ops : BuildOK(o)' /\ ProposalOK(o)'
        /\ \A m \in wire, n \in Request :
              /\ n.kind = m.kind /\ n.op = m.op /\ n.blob = m.blob /\ n.digest = m.digest
              /\ n.from = None
              => RequestOK(n)'
    BY <1>1, <1>2, StoreFrame
  <1>7. \A m \in wire' : RequestOK(m)'
    BY <1>3, <1>4, <1>6
  <1>8. DispatchAlone'
    <2>1. \A s \in Servers : ~Dispatcher(s)'
      BY <1>1 DEF Dispatcher, NoTick
    <2>2. \A m, n \in wire' : m.kind = "DISPATCH" /\ n.kind = "DISPATCH" /\ m.op = n.op => m = n
      <3> SUFFICES ASSUME NEW m \in wire', NEW n \in wire',
                          m.kind = "DISPATCH", n.kind = "DISPATCH", m.op = n.op
                   PROVE  m = n
        OBVIOUS
      <3>1. PICK a \in wire : m = [a EXCEPT !.from = None]
        BY DEF RestoreBackup
      <3>2. PICK b \in wire : n = [b EXCEPT !.from = None]
        BY DEF RestoreBackup
      <3>3. a.kind = "DISPATCH" /\ b.kind = "DISPATCH" /\ a.op = b.op
        BY <1>1, <3>1, <3>2 DEF TypeOK, Request
      <3> QED
        BY <3>1, <3>2, <3>3 DEF Inv, DispatchAlone
    <2> QED
      BY <2>1, <2>2 DEF DispatchAlone
  <1>9. \A r \in Servers : GoodTick(r, tick[r])'
    BY <1>1 DEF GoodTick, NoTick
  <1> QED
    BY <1>3, <1>5, <1>6, <1>7, <1>8, <1>9 DEF Inv

-----------------------------------------------------------------------------
(***************************************************************************)
(* Saving                                                                  *)
(***************************************************************************)

\* A Tick works on a copy it claimed itself.
OwnCopy == \A s \in Servers : tick[s].stage # "IDLE" => tick[s].copy.owner = s

\* What a save does to the record and to the Tick.
LEMMA SavedRecord ==
    ASSUME Inv, OwnCopy, NEW s \in Servers, save(s)
    PROVE  LET t == tick[s]
               o == tick[s].op
               c == tick[s].copy
           IN /\ t \in TickRecord /\ o \in Ops /\ c \in Operation /\ op[o] \in Operation
              /\ TypeOK' /\ op'[o] \in Operation
              /\ t.stage \in {"SAVE", "INTENT"} /\ (t.stage = "INTENT" => t.answer = None)
              /\ op[o].status = "RUNNING"
              /\ DecisionOK(o, t.stage, c, t.phase, t.status)
              /\ t.status \notin Failing => ~env.held
              /\ \A q \in Ops : q # o => op'[q] = op[q] /\ planned'[q] = planned[q]
              /\ op'[o].phase = t.phase /\ op'[o].status = StatusAfter(t.status)
              /\ op'[o].intent = IntentAfter(op[o], t) /\ op'[o].owner \in {s, None}
              /\ op'[o].base = c.base /\ op'[o].artifact = c.artifact /\ op'[o].run = c.run
              /\ op'[o].pr = c.pr /\ op'[o].result = c.result
              /\ op'[o].existing = c.existing /\ op'[o].expected = c.expected
              /\ planned'[o] = c.base.blob
              /\ op[o].phase # "PREFLIGHT" => planned'[o] = planned[o]
              /\ t.stage = "SAVE" => tick'[s] = NoTick
              /\ t.stage = "INTENT" =>
                   /\ tick'[s].stage = "SEND" /\ tick'[s].op = o /\ tick'[s].copy = c
                   /\ tick'[s].phase = t.phase /\ tick'[s].status = t.status
                   /\ tick'[s].answer = t.answer
              /\ \A r \in Servers : r # s => tick'[r] = tick[r]
              /\ UNCHANGED <<age, retargeted, env, wire, runs, prs, file, head, posted, shown>>
  <1> DEFINE t == tick[s]
             o == tick[s].op
             c == tick[s].copy
  <1>1. /\ t.stage \in {"SAVE", "INTENT"} /\ op[o].owner = s /\ TypeOK
        /\ op' = [op EXCEPT ![o] = Saved(op[o], t)]
        /\ planned' = [planned EXCEPT ![o] = IF @ = 0 THEN c.base.blob ELSE @]
        /\ UNCHANGED <<age, retargeted, env, wire, runs, prs, file, head, mishaps, posted, shown>>
        /\ t.status \notin Failing => ~env.held
    BY DEF Inv, save, OwnsLease, MaySave, reservationOperationAllowed, provider
  <1>2. /\ t \in TickRecord /\ o \in Ops /\ c \in Operation /\ op[o] \in Operation
        /\ t.phase \in Phases /\ t.status \in {"RUNNING", "GITOPS_APPLIED"} \cup Failing
        /\ c.base.blob \in Nat /\ c.artifact \in Digests \cup {None} /\ c.owner = s
    BY <1>1, TickIsRecord DEF TickRecord, TypeOK, Operation, OwnCopy
  <1>3. GoodTick(s, t) /\ OpOK(o)
    BY <1>2 DEF Inv
  <1>4. /\ op[o].status = "RUNNING" /\ (t.stage = "INTENT" => t.answer = None)
        /\ DecisionOK(o, t.stage, c, t.phase, t.status)
    BY <1>1, <1>3 DEF GoodTick
  <1>5. IntentAfter(op[o], t) \in {None, "BUILD", "GITOPS"}
    <2>1. op[o].intent \in {None, "BUILD", "GITOPS"} /\ c.intent \in {None, "BUILD", "GITOPS"}
      BY <1>2 DEF Operation
    <2> QED
      BY <2>1 DEF IntentAfter
  <1>6. StatusAfter(t.status) \in {"RUNNING", "SUCCEEDED", "FAILED", "CANCELLED"}
    BY <1>2 DEF StatusAfter, Failing
  <1> DEFINE i == IntentAfter(op[o], t)
             z == StatusAfter(t.status)
             w == IF t.stage = "INTENT" THEN s ELSE None
             l == t.stage = "INTENT" /\ op[o].leased
  <1>7. Saved(op[o], t) = [c EXCEPT !.phase = t.phase, !.status = z, !.intent = i, !.owner = w,
                                    !.leased = l]
    BY <1>2 DEF Saved
  <1> DEFINE n == Saved(op[o], t)
  <1>8. /\ w \in {s, None} /\ l \in BOOLEAN /\ w \in Servers \cup {None}
        /\ i \in {None, "BUILD", "GITOPS"}
        /\ z \in {"ABSENT", "PENDING", "RUNNING"} \cup Terminal
    BY <1>2, <1>5, <1>6 DEF Operation, Terminal
  <1> HIDE DEF i, z, w, l, n
  <1>9. /\ n \in Operation /\ n.phase = t.phase /\ n.status = z /\ n.intent = i /\ n.owner = w
        /\ n.base = c.base /\ n.artifact = c.artifact /\ n.run = c.run /\ n.pr = c.pr
        /\ n.result = c.result /\ n.existing = c.existing /\ n.expected = c.expected
    <2>1. PICK k \in Operation, p \in Phases : k = c /\ p = t.phase
      BY <1>2
    <2>2. n = [k EXCEPT !.phase = p, !.status = z, !.intent = i, !.owner = w, !.leased = l]
      BY <1>7, <2>1 DEF n
    <2>3. /\ n \in Operation /\ n.phase = p /\ n.status = z /\ n.intent = i /\ n.owner = w
          /\ n.base = k.base /\ n.artifact = k.artifact /\ n.run = k.run /\ n.pr = k.pr
          /\ n.result = k.result /\ n.existing = k.existing /\ n.expected = k.expected
      BY <1>8, <2>2 DEF Operation
    <2> QED
      BY <2>1, <2>3
  <1>10. /\ op'[o] = n /\ op' \in [Ops -> Operation]
         /\ \A q \in Ops : q # o => op'[q] = op[q]
    BY <1>1, <1>2, <1>9 DEF TypeOK, n
  <1>11. /\ planned'[o] = (IF planned[o] = 0 THEN c.base.blob ELSE planned[o])
         /\ planned' \in [Ops -> Nat]
         /\ \A q \in Ops : q # o => planned'[q] = planned[q]
    BY <1>1, <1>2 DEF TypeOK
  <1>12. /\ planned'[o] = c.base.blob
         /\ op[o].phase # "PREFLIGHT" => planned'[o] = planned[o]
    BY <1>3, <1>4, <1>11 DEF OpOK, DecisionOK, SaveOK, Terminal
  <1>13. known' \subseteq Digests
    BY <1>1, <1>2 DEF save, TypeOK
  <1>14. \A r \in Servers : r # s => tick'[r] = tick[r]
    BY <1>1 DEF save, TypeOK
  <1>15. /\ t.stage = "SAVE" => tick'[s] = NoTick
         /\ t.stage = "INTENT" =>
              /\ tick'[s].stage = "SEND" /\ tick'[s].op = o /\ tick'[s].copy = c
              /\ tick'[s].phase = t.phase /\ tick'[s].status = t.status
              /\ tick'[s].answer = t.answer
         /\ tick' \in [Servers -> TickRecord \cup {NoTick}]
    <2>1. /\ tick' = [tick EXCEPT ![s] = IF t.stage = "INTENT" THEN [t EXCEPT !.stage = "SEND"]
                                         ELSE NoTick]
      BY DEF save
    <2>2. CASE t.stage = "SAVE"
      BY <1>1, <2>1, <2>2 DEF TypeOK
    <2>3. CASE t.stage = "INTENT"
      <3>1. tick' = [tick EXCEPT ![s] = [t EXCEPT !.stage = "SEND"]]
        BY <2>1, <2>3
      <3>2. [t EXCEPT !.stage = "SEND"] \in TickRecord
        BY <1>2 DEF TickRecord
      <3> QED
        BY <1>1, <1>2, <2>3, <3>1, <3>2 DEF TypeOK, TickRecord
    <2> QED
      BY <1>1, <2>2, <2>3
  <1>16. TypeOK'
    BY <1>1, <1>10, <1>11, <1>13, <1>15 DEF TypeOK
  <1> QED
    BY <1>1, <1>2, <1>4, <1>8, <1>9, <1>10, <1>12, <1>14, <1>15, <1>16 DEF i, z

\* A build that may still start or end stays on record.
LEMMA BuildStays ==
    ASSUME Inv, OwnCopy, NEW s \in Servers, save(s),
           op[tick[s].op].phase = "BUILD_LOOKUP", op[tick[s].op].intent = "BUILD",
           runs[tick[s].op].state \notin Final
    PROVE  op'[tick[s].op].phase = "BUILD_LOOKUP" /\ op'[tick[s].op].intent = "BUILD"
  <1> DEFINE t == tick[s]
             o == tick[s].op
             c == tick[s].copy
  <1>1. /\ DecisionOK(o, t.stage, c, t.phase, t.status) /\ op'[o].phase = t.phase
        /\ op'[o].intent = IntentAfter(op[o], t)
    BY SavedRecord
  <1>2. t.phase = "BUILD_LOOKUP" /\ c.run # "completed"
    BY <1>1 DEF DecisionOK, SaveOK, RecordOK
  <1> QED
    BY <1>1, <1>2, ExecutorAssumption DEF IntentAfter, ExecutorAssumption

\* A write that may still take effect stays on record.
LEMMA WriteStays ==
    ASSUME Inv, OwnCopy, NEW s \in Servers, save(s), NEW o, o = tick[s].op,
           WriteShown(o), planned[o] = file.blob, WouldChange(planned[o], op[o].artifact),
           prs[o].state \notin {"closed", "merged"}
    PROVE  WriteShown(o)'
  <1> DEFINE t == tick[s]
             c == tick[s].copy
  <1>1. /\ DecisionOK(o, t.stage, c, t.phase, t.status) /\ op'[o].phase = t.phase
        /\ op'[o].intent = IntentAfter(op[o], t) /\ op'[o].pr = c.pr
        /\ t \in TickRecord /\ c \in Operation
        /\ planned'[o] = c.base.blob
        /\ op[o].phase # "PREFLIGHT" => planned'[o] = planned[o]
    BY SavedRecord
  <1>2. op[o].phase \in GitOpsPhases
    BY DEF WriteShown, GitOpsPhases
  <1>3. c.base.blob = planned[o]
    BY <1>1, <1>2 DEF GitOpsPhases
  <1>4. /\ Rank(t.phase) >= Rank(op[o].phase) /\ RecordOK(o, c, t.phase)
        /\ c.artifact = op[o].artifact /\ ResultOK(o, c, t.phase, t.status)
    BY <1>1, <1>2 DEF DecisionOK, SaveOK
  <1>5. ~c.result
    BY <1>3, <1>4 DEF ResultOK, WouldChange
  <1>6. c.pr \notin {"closed", "merged"} /\ c.pr \in {None, "open", "closed", "merged"}
    BY <1>1, <1>4 DEF RecordOK, Operation
  <1>7. t.phase \in GitOpsPhases
    BY <1>1, <1>2, <1>4, RankValues DEF TickRecord, Phases, GitOpsPhases
  <1>8. CASE t.phase = "WAIT_GITOPS_PR"
    BY <1>1, <1>4, <1>6, <1>8 DEF RecordOK, WriteShown
  <1>9. CASE t.phase \in {"APPLY", "APPLY_UNCERTAIN"}
    <2>1. op[o].phase \in {"APPLY", "APPLY_UNCERTAIN"} /\ op[o].intent = "GITOPS"
      BY <1>4, <1>9, RankValues DEF WriteShown
    <2>2. IntentAfter(op[o], t) = "GITOPS"
      BY <1>5, <1>6, <1>9, <2>1, ExecutorAssumption DEF IntentAfter, ExecutorAssumption
    <2> QED
      BY <1>1, <1>9, <2>2 DEF WriteShown
  <1> QED
    BY <1>7, <1>8, <1>9 DEF GitOpsPhases

\* Once the operation has reached the GitOps file it keeps to its plan.
LEMMA PlanStays ==
    ASSUME Inv, OwnCopy, NEW s \in Servers, save(s)
    PROVE  LET o == tick[s].op
           IN /\ Rank(op'[o].phase) >= Rank(op[o].phase)
              /\ planned[o] # 0 => planned'[o] = planned[o]
              /\ op[o].phase \in GitOpsPhases =>
                   op'[o].phase \in GitOpsPhases /\ op'[o].artifact = op[o].artifact
  <1> DEFINE t == tick[s]
             o == tick[s].op
             c == tick[s].copy
  <1>1. /\ DecisionOK(o, t.stage, c, t.phase, t.status) /\ op'[o].phase = t.phase
        /\ op'[o].artifact = c.artifact /\ op[o].status = "RUNNING"
        /\ t.phase \in Phases /\ o \in Ops
        /\ planned'[o] = c.base.blob
        /\ op[o].phase # "PREFLIGHT" => planned'[o] = planned[o]
    BY SavedRecord DEF TickRecord
  <1>2. OpOK(o)
    BY <1>1 DEF Inv
  <1>3. planned[o] # 0 => op[o].phase # "PREFLIGHT"
    BY <1>1, <1>2 DEF OpOK, Terminal
  <1>4. Rank(t.phase) >= Rank(op[o].phase)
    BY <1>1 DEF DecisionOK, SaveOK
  <1>5. op[o].phase \in GitOpsPhases => t.phase \in GitOpsPhases /\ c.artifact = op[o].artifact
    BY <1>1, <1>4, RankValues DEF DecisionOK, SaveOK, Phases, GitOpsPhases
  <1> QED
    BY <1>1, <1>3, <1>4, <1>5

LEMMA SavedOperation ==
    ASSUME Inv, OwnCopy, NEW s \in Servers, save(s), NEW o, o = tick[s].op
    PROVE  OpOK(o)' /\ BuildOK(o)' /\ ProposalOK(o)'
  <1> DEFINE t == tick[s]
             c == tick[s].copy
             n == op'[o]
  <1>1. /\ t \in TickRecord /\ o \in Ops /\ c \in Operation /\ op[o] \in Operation
        /\ op[o].status = "RUNNING"
        /\ DecisionOK(o, t.stage, c, t.phase, t.status)
        /\ UNCHANGED <<age, retargeted, env, wire, runs, prs, file, head, posted, shown>>
    BY SavedRecord
  <1>2. /\ n.phase = t.phase /\ n.status = StatusAfter(t.status)
        /\ n.intent = IntentAfter(op[o], t) /\ n.owner \in {s, None}
        /\ n.base = c.base /\ n.artifact = c.artifact /\ n.run = c.run
        /\ n.pr = c.pr /\ n.result = c.result
        /\ n.existing = c.existing /\ n.expected = c.expected
        /\ planned'[o] = c.base.blob
        /\ op[o].phase # "PREFLIGHT" => planned'[o] = planned[o]
    BY SavedRecord
  <1>3. /\ SaveOK(o, c, t.phase, t.status) /\ ResultOK(o, c, t.phase, t.status)
        /\ OpOK(o) /\ BuildOK(o) /\ ProposalOK(o)
    BY <1>1 DEF Inv, DecisionOK
  <1>4. /\ n.status \in {"RUNNING", "SUCCEEDED", "FAILED", "CANCELLED"}
        /\ (n.status = "SUCCEEDED") <=> (t.status = "GITOPS_APPLIED")
    BY <1>1, <1>2 DEF TickRecord, StatusAfter, Failing
  <1>5. OpOK(o)'
    <2>1. RecordOK(o, op[o], op[o].phase)'
      BY <1>1, <1>2, <1>3 DEF SaveOK, RecordOK
    <2>2. /\ n.base.blob = planned'[o] /\ planned'[o] <= head
          /\ n.phase # "PREFLIGHT" => planned'[o] # 0
      BY <1>2, <1>3 DEF SaveOK
    <2>3. n.phase = "PREFLIGHT" => n.status \in Terminal
      BY <1>2, <1>3 DEF SaveOK, StatusAfter, Failing, Terminal
    <2>4. n.result => n.status = "SUCCEEDED"
      BY <1>2, <1>3, <1>4 DEF ResultOK
    <2>5. file.digest \in shown[o]
      BY <1>1, <1>3 DEF OpOK, Active
    <2>6. n.status = "SUCCEEDED" => n.artifact \in shown[o] \ {None}
      BY <1>2, <1>3, <1>4 DEF ResultOK
    <2> QED
      BY <1>1, <1>4, <2>1, <2>2, <2>3, <2>4, <2>5, <2>6 DEF OpOK
  <1>6. BuildOK(o)'
    <2>1. posted[o] = 1 => Rank(n.phase) >= 2
      BY <1>1, <1>2, <1>3, RankValues DEF BuildOK, SaveOK, TickRecord, Phases, Operation
    <2>2. runs[o].state = "running" => n.phase = "BUILD_LOOKUP" /\ n.intent = "BUILD"
      BY <1>3, BuildStays DEF BuildOK, Final
    <2> QED
      BY <1>1, <1>3, <2>1, <2>2 DEF BuildOK
  <1>7. ProposalOK(o)'
    <2>1. prs[o].state # None =>
            /\ n.phase \in GitOpsPhases /\ n.artifact = op[o].artifact
            /\ planned'[o] = planned[o]
      BY <1>2, <1>3, PlanStays DEF ProposalOK, GitOpsPhases
    <2>2. prs[o].state = "open" /\ prs[o].blob = file.blob => WriteShown(o)'
      BY <1>3, WriteStays, ExecutorAssumption DEF ProposalOK, ExecutorAssumption
    <2>3. prs[o].state = "merged" => prs[o].state # None
      BY ExecutorAssumption DEF ExecutorAssumption
    <2> QED
      BY <1>1, <1>3, <2>1, <2>2, <2>3 DEF ProposalOK, WouldChange
  <1> QED
    BY <1>5, <1>6, <1>7

\* The Tick that saved its intent may make the call.
LEMMA SavedTick ==
    ASSUME Inv, OwnCopy, NEW s \in Servers, save(s), NEW o, o = tick[s].op
    PROVE  GoodTick(s, tick[s])'
  <1> DEFINE t == tick[s]
             c == tick[s].copy
  <1>1. /\ t \in TickRecord /\ o \in Ops /\ c \in Operation /\ op[o] \in Operation
        /\ op[o].status = "RUNNING" /\ t.stage \in {"SAVE", "INTENT"}
        /\ DecisionOK(o, t.stage, c, t.phase, t.status)
        /\ t.status \notin Failing => ~env.held
        /\ op'[o].phase = t.phase /\ op'[o].status = StatusAfter(t.status)
        /\ op'[o].intent = IntentAfter(op[o], t) /\ op'[o].artifact = c.artifact
        /\ planned'[o] = c.base.blob
        /\ op[o].phase # "PREFLIGHT" => planned'[o] = planned[o]
        /\ UNCHANGED <<age, retargeted, env, wire, runs, prs, file, head, posted, shown>>
    BY SavedRecord
  <1>2. CASE t.stage = "SAVE"
    BY <1>2, SavedRecord DEF GoodTick, NoTick
  <1>3. CASE t.stage = "INTENT"
    <2>1. /\ tick'[s].stage = "SEND" /\ tick'[s].op = o /\ tick'[s].copy = c
          /\ tick'[s].phase = t.phase /\ tick'[s].status = t.status /\ tick'[s].answer = None
      BY <1>3, SavedRecord
    <2>2. /\ SaveOK(o, c, t.phase, t.status) /\ ResultOK(o, c, t.phase, t.status)
          /\ IntentOK(o, c, t.phase, t.status) /\ OpOK(o) /\ BuildOK(o) /\ ProposalOK(o)
      BY <1>1, <1>3 DEF Inv, DecisionOK
    <2>3. /\ t.status = "RUNNING" /\ ~c.result /\ op'[o].status = "RUNNING" /\ ~env.held
          /\ t.phase \in {"BUILD_LOOKUP", "APPLY_UNCERTAIN"}
      BY <1>1, <2>2 DEF IntentOK, ResultOK, StatusAfter, Failing
    <2>4. MutationOK(s, tick[s])'
      <3>1. RecordOK(tick[s].op, tick[s].copy, tick[s].phase)'
        BY <1>1, <2>1, <2>2 DEF SaveOK, RecordOK
      <3>2. /\ c.base.blob = planned'[o] /\ planned'[o] # 0
        BY <1>1, <2>2, <2>3 DEF SaveOK
      <3>3. Rank(op'[o].phase) >= Rank(t.phase)
        BY <1>1, <2>3, RankValues
      <3>4. t.phase = "APPLY_UNCERTAIN" =>
              /\ c.phase \in {"APPLY", "APPLY_UNCERTAIN"} /\ c.artifact = op'[o].artifact
              /\ WouldChange(tick[s].copy.base.blob, tick[s].copy.artifact)'
        BY <1>1, <2>1, <2>2 DEF IntentOK, WouldChange
      <3> QED
        BY <1>1, <2>1, <2>3, <3>1, <3>2, <3>3, <3>4 DEF MutationOK
    <2>5. SendOK(tick[s])'
      <3>1. ASSUME t.phase = "BUILD_LOOKUP"
            PROVE  posted[o] = 0 /\ op'[o].intent = "BUILD"
        <4>1. posted[o] = 0
          <5>1. posted[o] \in Nat /\ op[o].phase = "DISPATCH"
            BY <1>1, <2>2, <3>1 DEF Inv, TypeOK, IntentOK
          <5> QED
            BY <2>2, <5>1, RankValues DEF BuildOK
        <4>2. c.run # "completed"
          BY <2>2, <4>1, <3>1, ExecutorAssumption
             DEF SaveOK, RecordOK, BuildOK, Final, ExecutorAssumption
        <4> QED
          BY <1>1, <1>3, <3>1, <4>1, <4>2 DEF IntentAfter
      <3>2. ASSUME t.phase = "APPLY_UNCERTAIN", prs[o].state = None
            PROVE  op'[o].intent = "GITOPS"
        <4>1. c.pr = None
          BY <2>2, <3>2 DEF SaveOK, RecordOK
        <4> QED
          BY <1>1, <2>3, <3>2, <4>1 DEF IntentAfter
      <3> QED
        BY <1>1, <2>1, <2>3, <3>1, <3>2 DEF SendOK, WriteShown
    <2> QED
      BY <1>1, <2>1, <2>3, <2>4, <2>5 DEF GoodTick
  <1> QED
    BY <1>1, <1>2, <1>3

\* A Tick that lost its lease on the saved operation is not disturbed.
LEMMA SaveSparesTicks ==
    ASSUME Inv, OwnCopy, NEW s \in Servers, save(s), NEW o, o = tick[s].op,
           NEW r \in Servers, r # s
    PROVE  GoodTick(r, tick[r])'
  <1>1. /\ tick'[r] = tick[r] /\ o \in Ops
        /\ UNCHANGED <<age, retargeted, env, wire, runs, prs, file, head, posted, shown>>
        /\ \A q \in Ops : q # o => op'[q] = op[q] /\ planned'[q] = planned[q]
    BY SavedRecord
  <1>2. GoodTick(r, tick[r]) /\ (tick[r].stage # "IDLE" => tick[r] \in TickRecord /\ tick[r].op \in Ops)
    BY TickIsRecord DEF Inv, TickRecord
  <1>3. CASE tick[r].stage # "IDLE" /\ tick[r].op # o
    <2>1. op'[tick[r].op] = op[tick[r].op] /\ planned'[tick[r].op] = planned[tick[r].op]
      BY <1>1, <1>2, <1>3
    <2>2. tick[r].stage = "LOOK" => LookOK(r, tick[r])'
      BY <1>1, <1>2, <2>1 DEF GoodTick, LookOK
    <2> QED
      BY <1>1, <1>2, <2>1, <2>2
         DEF GoodTick, DecisionOK, SaveOK, ResultOK, IntentOK, MutationOK, SendOK, CallOK, RecordOK,
             WouldChange, WriteShown
  <1>4. CASE tick[r].stage # "IDLE" /\ tick[r].op = o
    <2> DEFINE t == tick[r]
    <2>1. /\ op'[o].owner # r /\ op'[o].status # "ABSENT"
          /\ op[o] \in Operation /\ op'[o] \in Operation
      <3>1. /\ op'[o].owner \in {s, None} /\ op'[o].status = StatusAfter(tick[s].status)
            /\ tick[s] \in TickRecord
            /\ op[o] \in Operation /\ op'[o] \in Operation
        BY SavedRecord
      <3>2. op'[o].status # "ABSENT"
        BY <3>1 DEF StatusAfter, TickRecord, Failing
      <3> QED
        BY <3>1, <3>2, ExecutorAssumption DEF ExecutorAssumption
    <2>2. BuildOK(o) /\ ProposalOK(o)
      BY <1>1 DEF Inv
    <2>3. /\ Rank(op'[o].phase) >= Rank(op[o].phase)
          /\ planned[o] # 0 => planned'[o] = planned[o]
          /\ op[o].phase \in GitOpsPhases =>
               op'[o].phase \in GitOpsPhases /\ op'[o].artifact = op[o].artifact
      BY PlanStays
    <2>4. t.stage \in {"SEND", "CALL"} => MutationOK(r, t)'
      <3>1. ASSUME t.stage \in {"SEND", "CALL"}
            PROVE  MutationOK(r, t)'
        <4>1. MutationOK(r, t)
          BY <1>2, <1>4, <3>1 DEF GoodTick
        <4>2. Rank(op'[o].phase) >= Rank(t.phase)
          BY <1>4, <2>1, <2>3, <4>1, RankValues DEF MutationOK, Operation, Phases
        <4>3. t.phase = "APPLY_UNCERTAIN" => op[o].phase \in GitOpsPhases
          BY <1>4, <2>1, <4>1, RankValues DEF MutationOK, Operation, Phases, GitOpsPhases
        <4>4. RecordOK(o, t.copy, t.phase)'
          BY <1>1, <1>4, <4>1 DEF MutationOK, RecordOK
        <4> QED
          BY <1>1, <1>4, <2>1, <2>3, <4>1, <4>2, <4>3, <4>4 DEF MutationOK, WouldChange
      <3> QED
        BY <3>1
    <2>5. t.stage = "SEND" => SendOK(t)'
      <3>1. ASSUME t.stage = "SEND"
            PROVE  SendOK(t)'
        <4>1. MutationOK(r, t) /\ SendOK(t)
          BY <1>2, <1>4, <3>1 DEF GoodTick
        <4>2. ASSUME t.phase = "BUILD_LOOKUP"
              PROVE  op'[o].phase = "BUILD_LOOKUP" /\ op'[o].intent = "BUILD"
          <5>1. runs[o].state \notin Final
            BY <1>4, <2>2, <4>1, <4>2, ExecutorAssumption
               DEF SendOK, BuildOK, Final, ExecutorAssumption
          <5> QED
            BY <1>4, <4>1, <4>2, <5>1, BuildStays DEF SendOK
        <4>3. ASSUME t.phase = "APPLY_UNCERTAIN", prs[o].state = None, planned'[o] = file.blob
              PROVE  WriteShown(o)' /\ ~env.held
          <5>1. planned[o] = file.blob /\ WouldChange(planned[o], op[o].artifact)
            BY <1>4, <2>3, <4>1, <4>3 DEF MutationOK
          <5>2. WriteShown(o) /\ ~env.held
            BY <1>4, <4>1, <4>3, <5>1 DEF SendOK
          <5> QED
            BY <4>3, <5>1, <5>2, WriteStays, ExecutorAssumption DEF ExecutorAssumption
        <4> QED
          BY <1>1, <1>4, <4>1, <4>2, <4>3 DEF SendOK, WriteShown
      <3> QED
        BY <3>1
    <2>6. t.stage = "CALL" => CallOK(r, t)'
      BY <1>1, <1>2, <1>4, <2>1, <2>3 DEF GoodTick, CallOK, MutationOK
    <2> QED
      BY <1>1, <1>2, <1>4, <2>1, <2>4, <2>5, <2>6 DEF GoodTick, LookOK
  <1> QED
    BY <1>1, <1>3, <1>4 DEF GoodTick

LEMMA SaveSparesRequests ==
    ASSUME Inv, OwnCopy, NEW s \in Servers, save(s), NEW o, o = tick[s].op, NEW m \in wire
    PROVE  RequestOK(m)'
  <1>1. /\ tick[s].stage \in {"SAVE", "INTENT"} /\ o \in Ops
        /\ \A r \in Servers : r # s => tick'[r] = tick[r]
        /\ UNCHANGED <<age, retargeted, env, wire, runs, prs, file, head, posted, shown>>
        /\ \A q \in Ops : q # o => op'[q] = op[q] /\ planned'[q] = planned[q]
    BY SavedRecord
  <1>2. RequestOK(m) /\ m \in Request /\ m.op \in Ops /\ m.from # s
    BY <1>1, NobodyElseWaits DEF Inv, TypeOK, Request
  <1>3. m.from # None => tick'[m.from] = tick[m.from] /\ RequestOf(m.from)' = RequestOf(m.from)
    BY <1>1, <1>2 DEF Request, RequestOf
  <1>4. CASE m.op # o
    BY <1>1, <1>2, <1>3, <1>4 DEF RequestOK, WouldChange, WriteShown
  <1>5. CASE m.op = o
    <2>1. m.kind = "DISPATCH" => op'[o].phase = "BUILD_LOOKUP" /\ op'[o].intent = "BUILD"
      BY <1>2, <1>5, BuildStays, ExecutorAssumption DEF RequestOK, Final, ExecutorAssumption
    <2>2. /\ planned[o] # 0 => planned'[o] = planned[o]
          /\ op[o].phase \in GitOpsPhases =>
               op'[o].phase \in GitOpsPhases /\ op'[o].artifact = op[o].artifact
      BY PlanStays
    <2>3. ASSUME m.kind # "DISPATCH", prs[o].state = None, m.blob = file.blob
          PROVE  WriteShown(o)' /\ ~env.held
      <3>1. /\ planned[o] = file.blob /\ WouldChange(planned[o], op[o].artifact)
            /\ WriteShown(o) /\ ~env.held
        BY <1>2, <1>5, <2>3 DEF RequestOK
      <3> QED
        BY <2>3, <3>1, WriteStays, ExecutorAssumption DEF ExecutorAssumption
    <2>4. m.kind # "DISPATCH" =>
            /\ m.kind = (IF env'.mode = "PR" THEN "PROPOSE" ELSE "PUT")
            /\ m.blob = planned'[o] /\ m.blob # 0
            /\ op'[o].phase \in GitOpsPhases /\ m.digest = op'[o].artifact
            /\ WouldChange(m.blob, m.digest)'
      BY <1>1, <1>2, <1>5, <2>2 DEF RequestOK, WouldChange
    <2> QED
      BY <1>1, <1>2, <1>3, <1>5, <2>1, <2>3, <2>4 DEF RequestOK
  <1> QED
    BY <1>4, <1>5

LEMMA SaveStep ==
    ASSUME Inv, OwnCopy, NEW s \in Servers, save(s)
    PROVE  Inv'
  <1>0. PICK o : o = tick[s].op
    OBVIOUS
  <1>1. /\ tick[s].stage \in {"SAVE", "INTENT"} /\ o \in Ops /\ TypeOK'
        /\ DecisionOK(o, tick[s].stage, tick[s].copy, tick[s].phase, tick[s].status)
        /\ \A r \in Servers : r # s => tick'[r] = tick[r]
        /\ UNCHANGED <<age, retargeted, env, wire, runs, prs, file, head, posted, shown>>
        /\ \A q \in Ops : q # o => op'[q] = op[q] /\ planned'[q] = planned[q]
    BY <1>0, SavedRecord
  <1>2. FileOK'
    BY <1>1 DEF Inv, FileOK
  <1>3. ASSUME NEW q \in Ops
        PROVE  OpOK(q)' /\ BuildOK(q)' /\ ProposalOK(q)'
    <2>1. CASE q = o
      BY <1>0, <2>1, SavedOperation
    <2>2. CASE q # o
      <3>1. op'[q] = op[q] /\ planned'[q] = planned[q] /\ OpOK(q) /\ BuildOK(q) /\ ProposalOK(q)
        BY <1>1, <2>2 DEF Inv
      <3> QED
        BY <1>1, <3>1 DEF OpOK, BuildOK, ProposalOK, RecordOK, Active, WriteShown, WouldChange
    <2> QED
      BY <2>1, <2>2
  <1>4. \A r \in Servers : GoodTick(r, tick[r])'
    BY <1>0, SavedTick, SaveSparesTicks
  <1>5. \A m \in wire' : RequestOK(m)'
    BY <1>0, <1>1, SaveSparesRequests
  <1>6. DispatchAlone'
    <2>1. \A r \in Servers : r # s /\ Dispatcher(r)' => Dispatcher(r)
      BY <1>1 DEF Dispatcher
    <2>2. ASSUME Dispatcher(s)', NEW r \in Servers, r # s, Dispatcher(r)'
          PROVE  tick'[s].op # tick'[r].op
      <3>1. tick[s].stage = "INTENT" /\ tick'[s].op = o /\ tick[s].phase = "BUILD_LOOKUP"
        BY <1>0, <1>1, <2>2, SavedRecord DEF Dispatcher, NoTick
      <3>2. op[o].phase = "DISPATCH"
        BY <1>1, <3>1 DEF DecisionOK, IntentOK
      <3>3. op[tick[r].op].phase = "BUILD_LOOKUP" /\ tick'[r] = tick[r]
        BY <1>1, <2>1, <2>2 DEF Inv, GoodTick, SendOK, Dispatcher
      <3> QED
        BY <3>1, <3>2, <3>3
    <2>3. ASSUME NEW r \in Servers, NEW q \in Servers, Dispatcher(r)', Dispatcher(q)',
                 tick'[r].op = tick'[q].op
          PROVE  r = q
      <3>1. CASE r # s /\ q # s
        BY <1>1, <2>1, <2>3, <3>1 DEF Inv, DispatchAlone
      <3>2. CASE r = s \/ q = s
        BY <2>2, <2>3, <3>2
      <3> QED
        BY <3>1, <3>2
    <2>4. \A r, q \in Servers :
             (Dispatcher(r) /\ Dispatcher(q) /\ tick[r].op = tick[q].op)' => r = q
      BY <2>3
    <2> QED
      BY <1>1, <2>4 DEF Inv, DispatchAlone
  <1> QED
    BY <1>1, <1>2, <1>3, <1>4, <1>5, <1>6 DEF Inv

-----------------------------------------------------------------------------
(***************************************************************************)
(* The copy a Tick works on is its own                                     *)
(***************************************************************************)

LEMMA DecideOwner ==
    ASSUME TypeOK, OwnCopy, NEW s \in Servers, tick[s].stage # "IDLE",
           NEW stage, NEW c, NEW phase, NEW status,
           Decide(s, stage, c, phase, status), c.owner = s
    PROVE  OwnCopy'
  <1>1. tick[s] \in TickRecord
    BY TickIsRecord
  <1>2. tick'[s].copy = c /\ \A r \in Servers : r # s => tick'[r] = tick[r]
    BY <1>1 DEF Decide, TypeOK, TickRecord
  <1> QED
    BY <1>2 DEF OwnCopy

\* The fields a Tick changes in its copy leave the owner alone.
LEMMA OwnerStays ==
    ASSUME TypeOK, OwnCopy, NEW s \in Servers, tick[s].stage # "IDLE"
    PROVE  LET c == tick[s].copy
           IN /\ c.owner = s
              /\ \A b, e, d, r, p :
                   /\ [c EXCEPT !.base = b].owner = s
                   /\ [c EXCEPT !.base = b, !.expected = e].owner = s
                   /\ [[c EXCEPT !.base = b] EXCEPT !.expected = e].owner = s
                   /\ [[c EXCEPT !.base = b] EXCEPT !.expected = e, !.artifact = d].owner = s
                   /\ [c EXCEPT !.run = r].owner = s
                   /\ [c EXCEPT !.run = r, !.expected = e].owner = s
                   /\ [c EXCEPT !.artifact = d].owner = s
                   /\ [c EXCEPT !.result = r].owner = s
                   /\ [c EXCEPT !.pr = p].owner = s
                   /\ [[c EXCEPT !.pr = p] EXCEPT !.result = r].owner = s
  <1>1. PICK c : c = tick[s].copy
    OBVIOUS
  <1>2. c \in Operation /\ c.owner = s
    BY <1>1, TickIsRecord DEF TickRecord, OwnCopy
  <1>3. ASSUME NEW b, NEW e, NEW d, NEW r, NEW p
        PROVE  /\ [c EXCEPT !.base = b].owner = s
               /\ [c EXCEPT !.base = b, !.expected = e].owner = s
               /\ [[c EXCEPT !.base = b] EXCEPT !.expected = e].owner = s
               /\ [[c EXCEPT !.base = b] EXCEPT !.expected = e, !.artifact = d].owner = s
               /\ [c EXCEPT !.run = r].owner = s
               /\ [c EXCEPT !.run = r, !.expected = e].owner = s
               /\ [c EXCEPT !.artifact = d].owner = s
               /\ [c EXCEPT !.result = r].owner = s
               /\ [c EXCEPT !.pr = p].owner = s
               /\ [[c EXCEPT !.pr = p] EXCEPT !.result = r].owner = s
    BY <1>2 DEF Operation
  <1> QED
    BY <1>1, <1>2, <1>3

LEMMA LookOwner ==
    ASSUME TypeOK, OwnCopy, NEW s \in Servers,
           \/ RefusedByReservation(s) \/ Preflight(s) \/ Dispatch(s) \/ BuildLookup(s)
           \/ Inspect(s) \/ Apply(s) \/ WaitGitOpsPR(s)
    PROVE  OwnCopy'
  <1> DEFINE c == tick[s].copy
             Decides(k) == \E stage, phase, status : Decide(s, stage, k, phase, status)
  <1>1. tick[s].stage # "IDLE"
    BY DEF RefusedByReservation, Preflight, Dispatch, BuildLookup, Inspect, Apply, WaitGitOpsPR,
           Looking
  <1>2. ASSUME NEW k, k.owner = s, Decides(k)
        PROVE  OwnCopy'
    BY <1>1, <1>2, DecideOwner
  <1>3. \A k, status : finish(s, k, status) => Decides(k)
    BY DEF finish
  <1>4. \A k, phase : advance(s, k, phase) \/ commit_intent(s, k, phase) => Decides(k)
    BY DEF advance, commit_intent
  <1>5. \A k : retry(s, k) => Decides(k)
    BY <1>3, <1>4 DEF retry
  <1> HIDE DEF Decides
  <1>6. c.owner = s
    BY <1>1, OwnerStays
  <1>7. CASE RefusedByReservation(s)
    BY <1>2, <1>3, <1>6, <1>7 DEF RefusedByReservation
  <1>8. CASE Preflight(s)
    <2> DEFINE b == [c EXCEPT !.base = [blob |-> file.blob, head |-> head]]
    <2>1. /\ b.owner = s
          /\ \A e : [b EXCEPT !.expected = e].owner = s
          /\ \A e, d : [b EXCEPT !.expected = e, !.artifact = d].owner = s
      BY <1>1, OwnerStays
    <2>2. \/ \E status : finish(s, c, status) \/ finish(s, b, status)
          \/ \E phase : advance(s, b, phase)
          \/ \E e, phase : advance(s, [b EXCEPT !.expected = e], phase)
          \/ \E e, d, phase : advance(s, [b EXCEPT !.expected = e, !.artifact = d], phase)
      BY <1>8 DEF Preflight
    <2> HIDE DEF b
    <2> QED
      BY <1>2, <1>3, <1>4, <1>6, <2>1, <2>2
  <1>9. CASE Dispatch(s)
    BY <1>2, <1>4, <1>6, <1>9 DEF Dispatch
  <1>10. CASE BuildLookup(s)
    <2>1. \/ retry(s, c) \/ \E status : finish(s, c, status)
          \/ \E r : retry(s, [c EXCEPT !.run = r])
          \/ \E r, status : finish(s, [c EXCEPT !.run = r], status)
          \/ \E r, e, phase : advance(s, [c EXCEPT !.run = r, !.expected = e], phase)
      BY <1>10 DEF BuildLookup
    <2>2. /\ \A r : [c EXCEPT !.run = r].owner = s
          /\ \A r, e : [c EXCEPT !.run = r, !.expected = e].owner = s
      BY <1>1, OwnerStays
    <2> QED
      BY <1>2, <1>3, <1>4, <1>5, <1>6, <2>1, <2>2
  <1>11. CASE Inspect(s)
    <2>1. \/ retry(s, c) \/ \E status : finish(s, c, status)
          \/ \E d, phase : advance(s, [c EXCEPT !.artifact = d], phase)
      BY <1>11 DEF Inspect
    <2>2. \A d : [c EXCEPT !.artifact = d].owner = s
      BY <1>1, OwnerStays
    <2> QED
      BY <1>2, <1>3, <1>4, <1>5, <1>6, <2>1, <2>2
  <1>12. CASE Apply(s)
    <2>1. \/ retry(s, c) \/ \E status : finish(s, c, status)
          \/ \E r, status : finish(s, [c EXCEPT !.result = r], status)
          \/ \E phase : commit_intent(s, c, phase)
      BY <1>12 DEF Apply
    <2>2. \A r : [c EXCEPT !.result = r].owner = s
      BY <1>1, OwnerStays
    <2> QED
      BY <1>2, <1>3, <1>4, <1>5, <1>6, <2>1, <2>2
  <1>13. CASE WaitGitOpsPR(s)
    <2> DEFINE k == [c EXCEPT !.pr = prs[tick[s].op].state]
    <2>1. \/ retry(s, c) \/ retry(s, k)
          \/ \E status : finish(s, c, status) \/ finish(s, k, status)
          \/ \E r, status : finish(s, [k EXCEPT !.result = r], status)
          \/ \E phase : advance(s, k, phase)
      BY <1>13 DEF WaitGitOpsPR
    <2>2. k.owner = s /\ \A r : [k EXCEPT !.result = r].owner = s
      BY <1>1, OwnerStays
    <2> HIDE DEF k
    <2> QED
      BY <1>2, <1>3, <1>4, <1>5, <1>6, <2>1, <2>2
  <1> QED
    BY <1>7, <1>8, <1>9, <1>10, <1>11, <1>12, <1>13

LEMMA CallOwner ==
    ASSUME TypeOK, OwnCopy, NEW s \in Servers,
           SaveRefused(s) \/ NotSent(s) \/ NoAnswer(s) \/ Answered(s)
    PROVE  OwnCopy'
  <1> DEFINE c == tick[s].copy
             Decides(k) == \E stage, phase, status : Decide(s, stage, k, phase, status)
  <1>1. tick[s].stage # "IDLE"
    BY DEF SaveRefused, NotSent, NoAnswer, Answered
  <1>2. ASSUME NEW k, k.owner = s, Decides(k)
        PROVE  OwnCopy'
    BY <1>1, <1>2, DecideOwner
  <1>3. \A k, status : finish(s, k, status) => Decides(k)
    BY DEF finish
  <1>4. \A k, phase : advance(s, k, phase) => Decides(k)
    BY DEF advance
  <1>5. \A k : retry(s, k) => Decides(k)
    BY <1>3, <1>4 DEF retry
  <1> HIDE DEF Decides
  <1>6. c.owner = s
    BY <1>1, OwnerStays
  <1>7. CASE SaveRefused(s)
    <2>1. CASE tick' = [tick EXCEPT ![s] = NoTick]
      BY <2>1 DEF OwnCopy, TypeOK, NoTick
    <2> QED
      BY <1>2, <1>3, <1>6, <1>7, <2>1 DEF SaveRefused
  <1>8. CASE NotSent(s) \/ NoAnswer(s)
    BY <1>2, <1>4, <1>5, <1>6, <1>8 DEF NotSent, NoAnswer, CallFailed
  <1>9. CASE Answered(s)
    <2>1. /\ RequestOf(s).kind \in {"DISPATCH", "PUT", "PROPOSE"}
      BY DEF RequestOf
    <2>2. \/ \E r, phase : advance(s, [c EXCEPT !.run = r], phase)
          \/ \E r, status : finish(s, [c EXCEPT !.result = r], status)
          \/ \E p, phase : advance(s, [c EXCEPT !.pr = p], phase)
      BY <1>9, <2>1 DEF Answered
    <2>3. /\ \A r : [c EXCEPT !.run = r].owner = s
          /\ \A r : [c EXCEPT !.result = r].owner = s
          /\ \A p : [c EXCEPT !.pr = p].owner = s
      BY <1>1, OwnerStays
    <2> QED
      BY <1>2, <1>3, <1>4, <2>2, <2>3
  <1> QED
    BY <1>7, <1>8, <1>9

LEMMA OwnCopyStep ==
    ASSUME Inv, OwnCopy, [Next]_vars
    PROVE  OwnCopy'
  <1>1. TypeOK
    BY DEF Inv
  <1>2. CASE UNCHANGED tick
    BY <1>2 DEF OwnCopy
  <1>3. ASSUME NEW s \in Servers, TickStep(s)
        PROVE  OwnCopy'
    <2>1. CASE Tick(s)
      <3>1. PICK o \in Ops :
              /\ op' = [op EXCEPT ![o] = [@ EXCEPT !.owner = s, !.leased = TRUE, !.status = "RUNNING"]]
              /\ tick' = [tick EXCEPT ![s] =
                      [stage |-> "LOOK", op |-> o, copy |-> op'[o],
                       phase |-> op[o].phase, status |-> "RUNNING", answer |-> None]]
        BY <2>1 DEF Tick
      <3>2. op'[o].owner = s
        BY <1>1, <3>1 DEF TypeOK, Operation
      <3> QED
        BY <1>1, <3>1, <3>2 DEF OwnCopy, TypeOK
    <2>2. CASE \/ RefusedByReservation(s) \/ Preflight(s) \/ Dispatch(s) \/ BuildLookup(s)
               \/ Inspect(s) \/ Apply(s) \/ WaitGitOpsPR(s)
      BY <1>1, <2>2, LookOwner
    <2>3. CASE save(s)
      <3>1. tick[s].stage \in {"SAVE", "INTENT"}
        BY <2>3 DEF save
      <3>2. tick'[s] = NoTick \/ tick'[s].copy = tick[s].copy
        BY <2>3, <3>1, SavedRecord
      <3>3. \A r \in Servers : r # s => tick'[r] = tick[r]
        BY <2>3, SavedRecord
      <3> QED
        BY <3>1, <3>2, <3>3 DEF OwnCopy, NoTick
    <2>4. CASE SaveRefused(s) \/ NotSent(s) \/ NoAnswer(s) \/ Answered(s)
      BY <1>1, <2>4, CallOwner
    <2>5. CASE Send(s)
      <3>1. tick[s] \in TickRecord /\ tick[s].stage = "SEND" /\ tick' = [tick EXCEPT ![s].stage = "CALL"]
        BY <1>1, <2>5, TickIsRecord DEF Send
      <3>2. tick'[s].copy = tick[s].copy /\ \A r \in Servers : r # s => tick'[r] = tick[r]
        BY <1>1, <3>1 DEF TypeOK, TickRecord
      <3> QED
        BY <3>1, <3>2 DEF OwnCopy
    <2> QED
      BY <1>3, <2>1, <2>2, <2>3, <2>4, <2>5 DEF TickStep
  <1>4. CASE Environment
    <2>1. CASE RestoreBackup
      BY <2>1 DEF RestoreBackup, OwnCopy, NoTick
    <2>2. ASSUME NEW s \in Servers, Crash(s)
          PROVE  OwnCopy'
      BY <1>1, <2>2 DEF Crash, OwnCopy, NoTick, TypeOK
    <2>3. ASSUME NEW m \in wire, Process(m)
          PROVE  OwnCopy'
      <3>1. CASE m.from = None
        BY <1>2, <2>3, <3>1 DEF Process
      <3>2. CASE m.from # None
        <4>1. PICK v : tick' = [tick EXCEPT ![m.from].answer = v]
          BY <2>3, <3>2 DEF Process
        <4>2. m.from \in Servers /\ tick[m.from].stage # "IDLE"
          BY <1>1, <2>3, <3>2 DEF Inv, RequestOK, TypeOK, Request
        <4>3. tick[m.from] \in TickRecord
          BY <1>1, <4>2, TickIsRecord
        <4>4. tick'[m.from].copy = tick[m.from].copy
          BY <1>1, <4>1, <4>2, <4>3 DEF TypeOK, TickRecord
        <4> QED
          BY <1>1, <4>1, <4>2, <4>4 DEF OwnCopy, TypeOK
      <3> QED
        BY <3>1, <3>2
    <2> QED
      BY <1>2, <1>4, <2>1, <2>2, <2>3
         DEF Environment, deploy_integration, configure_environment, reserve_candidate_dev,
             release_candidate_dev, RunEnds, PullRequestEnds, ForeignCommit
  <1>5. CASE Time
    BY <1>2, <1>5 DEF Time, LeaseExpires, Age
  <1> QED
    BY <1>2, <1>3, <1>4, <1>5 DEF Next, vars

-----------------------------------------------------------------------------
(***************************************************************************)
(* The theorems                                                            *)
(***************************************************************************)

LEMMA InitInv ==
    ASSUME Init
    PROVE  Inv /\ OwnCopy
  <1>1. \A o \in Ops : op[o] = Absent /\ runs[o].state = None /\ prs[o].state = None
                        /\ posted[o] = 0 /\ planned[o] = 0
    BY DEF Init
  <1>2. \A s \in Servers : tick[s].stage = "IDLE"
    BY DEF Init, NoTick
  <1>3. Absent \in Operation
    BY DEF Absent, Operation, NoBase, Phases
  <1>4. TypeOK
    <2>1. /\ op \in [Ops -> Operation] /\ age \in [Ops -> 0..2]
          /\ tick \in [Servers -> TickRecord \cup {NoTick}]
          /\ posted \in [Ops -> Nat] /\ planned \in [Ops -> Nat]
          /\ shown \in [Ops -> SUBSET (Digests \cup {None})]
      BY <1>3 DEF Init
    <2>2. env \in [mode : {"DIRECT", "PR"}, epoch : Nat, held : BOOLEAN, quarantined : BOOLEAN]
      <3>1. env \in [mode : GitOpsModes, epoch : {0}, held : {FALSE}, quarantined : {FALSE}]
        BY DEF Init
      <3>2. /\ GitOpsModes \subseteq {"DIRECT", "PR"} /\ {0} \subseteq Nat
            /\ {FALSE} \subseteq BOOLEAN
        BY ExecutorAssumption DEF ExecutorAssumption
      <3> QED
        BY <3>1, <3>2, Zenon
    <2>3. /\ runs \in [Ops -> [state : {None, "running", "failed", "success"},
                               digest : Digests \cup {None}]]
          /\ prs \in [Ops -> [state : {None, "open", "closed", "merged"}, blob : Nat,
                              digest : Digests \cup {None}]]
          /\ file \in [blob : Nat, digest : Digests \cup {None}, writer : Ops \cup {None}]
      BY DEF Init
    <2> QED
      BY <2>1, <2>2, <2>3 DEF Init, TypeOK
  <1>5. ASSUME NEW o \in Ops
        PROVE  OpOK(o) /\ BuildOK(o) /\ ProposalOK(o)
    BY <1>1, ExecutorAssumption
       DEF Init, OpOK, BuildOK, ProposalOK, RecordOK, Absent, NoBase, Active, Terminal, GitOpsPhases,
           ExecutorAssumption
  <1>6. \A s \in Servers : GoodTick(s, tick[s])
    BY <1>2 DEF GoodTick
  <1>7. FileOK /\ DispatchAlone /\ OwnCopy /\ \A m \in wire : RequestOK(m)
    BY <1>2 DEF Init, FileOK, DispatchAlone, Dispatcher, OwnCopy
  <1> QED
    BY <1>4, <1>5, <1>6, <1>7 DEF Inv

LEMMA Unchanged ==
    ASSUME Inv, UNCHANGED vars
    PROVE  Inv'
  <1>1. UNCHANGED <<op, known, tick, provider, mishaps, history>> /\ UNCHANGED <<age, retargeted, env>>
    BY DEF vars, store
  <1> QED
    BY <1>1, QuietStep DEF Inv, TypeOK

LEMMA NextInv ==
    ASSUME Inv, OwnCopy, [Next]_vars
    PROVE  Inv' /\ OwnCopy'
  <1>1. ASSUME NEW s \in Servers, TickStep(s)
        PROVE  Inv'
    BY <1>1, ClaimStep, RefusedStep, PreflightStep, DispatchStep, BuildLookupStep, InspectStep,
       ApplyStep, WaitGitOpsPRStep, SaveStep, SaveRefusedStep, SendStep, CallFailedStep, AnsweredStep
       DEF TickStep
  <1>2. ASSUME Environment
        PROVE  Inv'
    BY <1>2, DeployStep, QuietSteps, ReserveStep, RestoreStep, ProcessStep, RunEndsStep,
       PullRequestEndsStep, ForeignCommitStep, CrashStep
       DEF Environment
  <1>3. ASSUME Time
        PROVE  Inv'
    BY <1>3, LeaseExpiresStep, QuietSteps DEF Time
  <1>4. ASSUME UNCHANGED vars
        PROVE  Inv'
    BY <1>4, Unchanged
  <1>5. Inv'
    BY <1>1, <1>2, <1>3, <1>4 DEF Next
  <1> QED
    BY <1>5, OwnCopyStep

LEMMA Invariance == Spec => [](Inv /\ OwnCopy)
  <1>1. Init => Inv /\ OwnCopy
    BY InitInv
  <1>2. (Inv /\ OwnCopy) /\ [Next]_vars => (Inv /\ OwnCopy)'
    BY NextInv
  <1> QED
    BY <1>1, <1>2, PTL DEF Spec

\* Every variable of the executor keeps its type.
THEOREM TypeCorrect == Spec => []TypeOK
  <1>1. Inv => TypeOK
    BY DEF Inv
  <1> QED
    BY <1>1, Invariance, PTL

\* Whatever crashes, lost leases and lost answers come between the save of the
\* dispatch intent and the provider's answer, Tick asks the provider for the
\* workflow of an operation at most once.
THEOREM OneBuildPerOperation == Spec => []DispatchedOnce
  <1>1. Inv => DispatchedOnce
    BY DEF Inv, BuildOK, DispatchedOnce
  <1> QED
    BY <1>1, Invariance, PTL

\* An environment that ReserveCandidateDev holds has no build, write or mergeable
\* pull request of an ordinary deployment under way, though requests may outlive
\* the Tick that sent them.
THEOREM ReservedIsQuiet == Spec => []HoldIsQuiet
  <1>1. Inv => HoldIsQuiet
    <2> SUFFICES ASSUME Inv, env.held
                 PROVE  HoldIsQuiet
      BY DEF HoldIsQuiet
    <2>1. ASSUME NEW m \in wire
          PROVE  m.kind # "DISPATCH" /\ (m.kind = "PUT" => m.blob # file.blob)
      <3>1. RequestOK(m) /\ m.op \in Ops
        BY DEF Inv, TypeOK, Request
      <3>2. ProposalOK(m.op) /\ env.mode \in {"DIRECT", "PR"}
        BY <3>1 DEF Inv, TypeOK
      <3>3. m.kind # "DISPATCH"
        BY <3>1 DEF RequestOK
      <3>4. m.kind = "PUT" => prs[m.op].state = None
        BY <3>1, <3>2, <3>3 DEF RequestOK, ProposalOK
      <3> QED
        BY <3>1, <3>3, <3>4 DEF RequestOK
    <2>2. ASSUME NEW o \in Ops
          PROVE  /\ runs[o].state # "running"
                 /\ prs[o].state = "open" => prs[o].blob # file.blob
      BY DEF Inv, BuildOK, ProposalOK
    <2> QED
      BY <2>1, <2>2 DEF HoldIsQuiet
  <1> QED
    BY <1>1, Invariance, PTL

\* An operation that Tick ends with GITOPS_APPLIED had its exact digest in the
\* GitOps file at some time since it was requested.
THEOREM AppliedIsTrue == Spec => []AppliedWasSeen
  <1>1. Inv => AppliedWasSeen
    BY DEF Inv, OpOK, AppliedWasSeen
  <1> QED
    BY <1>1, Invariance, PTL

\* A write of an operation, by the PUT of ApplyGitOps or by the merge of its pull
\* request, replaces the very state of the GitOps file that Preflight pinned, so it
\* overwrites no change made since.
THEOREM PlannedChangesOnly == Spec => NoChangeIsLost
  <1>1. Inv /\ [Next]_vars =>
          [file'.blob # file.blob /\ file'.writer # None
              => file.blob = planned[file'.writer]]_vars
    <2> SUFFICES ASSUME Inv, [Next]_vars, file'.blob # file.blob, file'.writer # None
                 PROVE  file.blob = planned[file'.writer]
      OBVIOUS
    <2>1. file' # file
      OBVIOUS
    <2>2. \/ \E m \in wire : Process(m)
          \/ \E o \in Ops : PullRequestEnds(o)
          \/ ForeignCommit
      <3>1. \A s \in Servers : ~TickStep(s)
        BY <2>1 DEF TickStep, Tick, RefusedByReservation, Preflight, Dispatch, BuildLookup, Inspect,
                    Apply, WaitGitOpsPR, save, SaveRefused, Send, NotSent, NoAnswer, Answered,
                    LookOnly, provider
      <3>2. ~Time /\ vars' # vars
        BY <2>1 DEF Time, LeaseExpires, Age, provider, vars
      <3> QED
        BY <2>1, <3>1, <3>2
           DEF Next, Environment, deploy_integration, configure_environment, reserve_candidate_dev,
               release_candidate_dev, RestoreBackup, RunEnds, Crash, provider
    <2>3. ASSUME NEW m \in wire, Process(m)
          PROVE  file.blob = planned[file'.writer]
      <3>1. m.kind = "PUT" /\ m.blob = file.blob /\ Commit(m.op, m.digest)
        BY <2>1, <2>3 DEF Process, NoCommit
      <3>2. RequestOK(m) /\ file'.writer = m.op
        BY <3>1 DEF Inv, Commit
      <3> QED
        BY <3>1, <3>2 DEF RequestOK
    <2>4. ASSUME NEW o \in Ops, PullRequestEnds(o)
          PROVE  file.blob = planned[file'.writer]
      <3>1. prs[o].state = "open" /\ prs[o].blob = file.blob /\ file'.writer = o
        BY <2>1, <2>4 DEF PullRequestEnds, NoCommit, Commit
      <3> QED
        BY <3>1, ExecutorAssumption DEF Inv, ProposalOK, ExecutorAssumption
    <2>5. ~ForeignCommit
      BY <2>1 DEF ForeignCommit, Commit
    <2> QED
      BY <2>2, <2>3, <2>4, <2>5
  <1> QED
    BY <1>1, Invariance, PTL DEF Spec, NoChangeIsLost

===============================================================================
