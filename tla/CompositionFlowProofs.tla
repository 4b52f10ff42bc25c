------------------------- MODULE CompositionFlowProofs -------------------------
(***************************************************************************)
(* Proofs about CompositionFlow, for every set of servers and              *)
(* integrations and every number of operations and events.                 *)
(***************************************************************************)
EXTENDS CompositionFlow, SequenceTheorems, TLAPS

-----------------------------------------------------------------------------
(***************************************************************************)
(* The inductive invariant                                                 *)
(***************************************************************************)

Over(op) == op.status \in {"SUCCEEDED", "FAILED", "CANCELLED"}

\* The write to target t has had its effect on the record, or no longer matters.
Settled(op, t) ==
    \/ Over(op)
    \/ t = None /\ op.result # "none"
    \/ t # None /\ t \in op.retained

\* A write that was sent is settled or the one under the operation's intent.
PostedOK(o, op) ==
    \A t \in Targets :
       /\ posted[<<o, t>>] <= 1
       /\ posted[<<o, t>>] # 0 => Settled(op, t) \/ (op.intent /\ t = NextTarget(op, o))

OperationOK(o, op) ==
    /\ op.composition \in 1..Len(compositions)
    /\ Over(op) => op.owner = None
    /\ PostedOK(o, op)

\* What a Tick saves is what the operation is, as long as nobody else has
\* claimed it, and what it looks for is what the operation has to write next.
CopyOK(s, t, op) ==
    op.owner = s =>
      /\ t.copy.retained = op.retained /\ t.copy.result = op.result /\ t.copy.phase = op.phase
      /\ t.step \in {"LOOK", "ADMIT", "CONFLICT"} =>
           op.intent /\ op.result = "none" /\ t.target = NextTarget(t.copy, t.op)

TickOK(s, t) ==
    t.step # "IDLE" =>
      /\ t.op \in Ops /\ t.copy \in Copies
      /\ CopyOK(s, t, operations[t.op])

\* The environment is set to the plan of its operation, which descends from
\* the operation of a person's choice.
SelectionOK ==
    /\ environment.composition \in 0..Len(compositions)
    /\ environment.operation \in Ops \union {0}
    /\ environment.operation = 0 => decided = 0
    /\ environment.operation # 0 =>
         /\ environment.composition = operations[environment.operation].composition
         /\ decided \in Ops
         /\ operations[environment.operation].origin = decided
         /\ selectedIntegrations(environment.composition) =
                selectedIntegrations(operations[decided].composition)

RefreshOK == refresh # None => refresh.token.operation # 0

Inv ==
    /\ TypeOK
    /\ Len(operations) <= MaxOps
    /\ \A o \in Ops : OperationOK(o, operations[o])
    /\ \A o \in OpIds \ Ops, t \in Targets : posted[<<o, t>>] = 0
    /\ \A s \in Servers : TickOK(s, tick[s])
    /\ SelectionOK
    /\ RefreshOK

-----------------------------------------------------------------------------
(***************************************************************************)
(* Steps                                                                   *)
(***************************************************************************)

\* What one step of ProgressIsKept says of an operation.
Progress(op, n) ==
    /\ op.retained \subseteq n.retained
    /\ op.result # "none" => n.result = op.result
    /\ op.child # "none" => n.child # "none"
    /\ Over(op) => n.status = op.status

Progresses == \A o \in Ops : Progress(operations[o], operations'[o])

\* What was planned stays, for an operation and for its composition.
SamePlan(op, n) == n.composition = op.composition /\ n.origin = op.origin

PlansKept ==
    /\ Len(compositions') >= Len(compositions)
    /\ \A c \in 1..Len(compositions) : compositions'[c] = compositions[c]

\* What is known of an operation, by its number.
LEMMA OperationIs ==
    ASSUME Inv, NEW o \in Ops
    PROVE  /\ operations[o] \in OperationRecord /\ OperationOK(o, operations[o])
           /\ o \in OpIds /\ o \in Nat \ {0} /\ Len(operations) \in Nat
  <1>1. operations \in Seq(OperationRecord) /\ Len(operations) <= MaxOps
    BY DEF Inv, TypeOK
  <1> QED
    BY <1>1, ElementOfSeq, LenProperties, CompositionAssumption DEF Inv, Ops, OpIds

LEMMA NoneIsNobody ==
    ASSUME NEW s \in Servers
    PROVE  s # None
  BY CompositionAssumption

LEMMA CompositionIs ==
    ASSUME Inv, NEW c \in 1..Len(compositions)
    PROVE  compositions[c] \in Plans /\ compositions[c].revision \in [Integrations -> Nat]
  <1>1. compositions \in Seq(Plans)
    BY DEF Inv, TypeOK
  <1>2. compositions[c] \in Plans
    BY <1>1, ElementOfSeq
  <1> QED
    BY <1>2 DEF Plans

LEMMA NothingReplanned ==
    ASSUME Inv, compositions' = compositions
    PROVE  PlansKept
  <1>1. Len(compositions) \in Nat
    BY LenProperties DEF Inv, TypeOK
  <1> QED
    BY <1>1 DEF PlansKept

\* The next target is determined by the plan and by what is retained.
LEMMA TargetStays ==
    ASSUME Inv, PlansKept, NEW o \in Ops, NEW copy,
           operations'[o].composition = operations[o].composition
    PROVE  NextTarget(copy, o)' = NextTarget(copy, o)
  <1>1. PICK c \in 1..Len(compositions) : c = operations[o].composition
    BY OperationIs DEF OperationOK
  <1>2. compositions'[c] = compositions[c]
    BY DEF PlansKept
  <1>3. Retention(o)' = Retention(o)
    BY <1>1, <1>2 DEF Retention, selectedIntegrations
  <1> QED
    BY <1>3 DEF NextTarget

LEMMA SelectionStays ==
    ASSUME Inv, PlansKept, NEW c \in 1..Len(compositions)
    PROVE  selectedIntegrations(c)' = selectedIntegrations(c)
  BY DEF PlansKept, selectedIntegrations

LEMMA SameTarget ==
    ASSUME NEW a, NEW b, a.retained = b.retained, NEW o
    PROVE  NextTarget(a, o) = NextTarget(b, o)
  BY DEF NextTarget

LEMMA TargetIs ==
    ASSUME Inv, NEW o \in Ops, NEW copy
    PROVE  /\ NextTarget(copy, o) \in Revisions \union {None}
           /\ NextTarget(copy, o) # None => NextTarget(copy, o) \notin copy.retained
  <1>1. PICK c \in 1..Len(compositions) : c = operations[o].composition
    BY OperationIs DEF OperationOK
  <1>2. Retention(o) \subseteq Revisions
    BY <1>1, CompositionIs DEF Retention, selectedIntegrations, Revisions
  <1>3. PICK left : left = Retention(o) \ copy.retained
    OBVIOUS
  <1>4. CASE left = {}
    BY <1>3, <1>4 DEF NextTarget
  <1>5. CASE left # {}
    <2>1. (CHOOSE r \in left : TRUE) \in left
      BY <1>5
    <2> QED
      BY <1>2, <1>3, <1>5, <2>1 DEF NextTarget
  <1> QED
    BY <1>4, <1>5

-----------------------------------------------------------------------------
(***************************************************************************)
(* Changes of one operation                                                *)
(***************************************************************************)

\* What the Tick of u knows of o survives a change of o to n that keeps what
\* the Tick would save, or takes the lease away from it.
Untouched(u, op, n) ==
    n.owner = u =>
      /\ op.owner = u
      /\ n.retained = op.retained /\ n.result = op.result /\ n.phase = op.phase
      /\ n.intent = op.intent

LEMMA ChangeOne ==
    ASSUME Inv, NEW o \in Ops, NEW n \in OperationRecord,
           operations' = [operations EXCEPT ![o] = n]
    PROVE  /\ operations' \in Seq(OperationRecord)
           /\ Len(operations') = Len(operations) /\ Ops' = Ops
           /\ operations'[o] = n
           /\ \A p \in Ops : p # o => operations'[p] = operations[p]
  <1>1. operations \in Seq(OperationRecord)
    BY DEF Inv, TypeOK
  <1>2. /\ operations' \in Seq(OperationRecord) /\ Len(operations') = Len(operations)
        /\ \A p \in 1..Len(operations) : operations'[p] = IF p = o THEN n ELSE operations[p]
    BY <1>1, ExceptSeq DEF Ops
  <1> QED
    BY <1>2 DEF Ops

\* A step in which no operation is made and nothing is selected or planned.
LEMMA Frame ==
    ASSUME Inv, TypeOK', Len(operations') = Len(operations),
           \A p \in Ops : SamePlan(operations[p], operations'[p]),
           \A p \in Ops : Progress(operations[p], operations'[p]),
           \A p \in Ops : Over(operations'[p]) => operations'[p].owner = None,
           \A p \in Ops : \A x \in Targets :
              /\ posted'[<<p, x>>] <= 1
              /\ posted'[<<p, x>>] # 0 =>
                   \/ Settled(operations'[p], x)
                   \/ operations'[p].intent /\ x = NextTarget(operations'[p], p),
           \A p \in OpIds \ Ops, x \in Targets : posted'[<<p, x>>] = 0,
           \A u \in Servers : TickOK(u, tick[u])',
           UNCHANGED <<compositions, environment, decided>>, RefreshOK'
    PROVE  Inv' /\ Progresses
  <1>1. Ops' = Ops /\ PlansKept
    BY NothingReplanned DEF Ops
  <1>2. ASSUME NEW p \in Ops
        PROVE  OperationOK(p, operations[p])'
    <2>1. PICK n : n = operations'[p]
      OBVIOUS
    <2>2. NextTarget(n, p)' = NextTarget(n, p)
      BY <1>1, TargetStays DEF SamePlan
    <2>3. PostedOK(p, n)'
      BY <2>1, <2>2 DEF PostedOK, Settled, Over
    <2>4. n.composition \in 1..Len(compositions)
      BY <2>1, OperationIs DEF OperationOK, SamePlan
    <2> QED
      BY <2>1, <2>3, <2>4 DEF OperationOK, PostedOK
  <1>3. SelectionOK'
    <2>1. SelectionOK
      BY DEF Inv
    <2>2. \A c : selectedIntegrations(c)' = selectedIntegrations(c)
      BY DEF selectedIntegrations
    <2> QED
      BY <1>1, <2>1, <2>2 DEF SelectionOK, SamePlan
  <1>4. OpIds' = OpIds /\ Targets' = Targets
    BY DEF OpIds, Targets, RevisionIds
  <1>5. Progresses
    BY DEF Progresses
  <1>6. Inv'
    BY <1>1, <1>2, <1>3, <1>4 DEF Inv
  <1> QED
    BY <1>5, <1>6

\* A Tick that is not touched knows what it knew.
LEMMA TickStays ==
    ASSUME Inv, NEW u \in Servers, tick'[u] = tick[u], PlansKept, Ops \subseteq Ops',
           \A p \in Ops : SamePlan(operations[p], operations'[p]),
           \A p \in Ops : Untouched(u, operations[p], operations'[p])
    PROVE  TickOK(u, tick[u])'
  <1>1. SUFFICES ASSUME tick[u].step # "IDLE"
                 PROVE  TickOK(u, tick[u])'
    BY DEF TickOK
  <1>2. PICK t : t = tick[u]
    OBVIOUS
  <1>3. PICK o \in Ops : o = t.op
    BY <1>1, <1>2 DEF Inv, TickOK
  <1>4. t.copy \in Copies /\ CopyOK(u, t, operations[o]) /\ Untouched(u, operations[o], operations'[o])
    BY <1>1, <1>2, <1>3 DEF Inv, TickOK
  <1>5. NextTarget(t.copy, o)' = NextTarget(t.copy, o)
    BY TargetStays DEF SamePlan
  <1>6. CopyOK(u, t, operations[o])'
    BY <1>3, <1>4, <1>5 DEF CopyOK, Untouched
  <1> QED
    BY <1>2, <1>3, <1>4, <1>6 DEF TickOK

\* A step that changes at most one operation and makes, plans or selects none.
LEMMA OneChanges ==
    ASSUME Inv, NEW o \in Ops, NEW n \in OperationRecord,
           operations' = [operations EXCEPT ![o] = n],
           SamePlan(operations[o], n), Progress(operations[o], n),
           Over(n) => n.owner = None,
           posted' \in [OpIds \X Targets -> Nat],
           \A p \in OpIds, x \in Targets : p # o => posted'[<<p, x>>] = posted[<<p, x>>],
           \A x \in Targets :
              /\ posted'[<<o, x>>] <= 1
              /\ posted'[<<o, x>>] # 0 => Settled(n, x) \/ (n.intent /\ x = NextTarget(n, o)),
           tick' \in [Servers -> TickRecord],
           \A u \in Servers : \/ tick'[u] = tick[u] /\ Untouched(u, operations[o], n)
                              \/ TickOK(u, tick[u])',
           conflicts' \in [OpIds -> [status : {"none", "requires_resolution", "claimed",
                                               "verification_required", "resolved"},
                                     passed : BOOLEAN]],
           wire' \subseteq Ops \X (Revisions \union {None}), events' \in Nat,
           UNCHANGED <<compositions, environment, revisions, refs, generated, refresh, receipt,
                       decided>>
    PROVE  Inv' /\ Progresses
  <1>1. /\ operations' \in Seq(OperationRecord) /\ Len(operations') = Len(operations)
        /\ Ops' = Ops /\ operations'[o] = n
        /\ \A p \in Ops : p # o => operations'[p] = operations[p]
    BY ChangeOne
  <1>2. TypeOK'
    BY <1>1 DEF Inv, TypeOK, OpIds, Targets, RevisionIds
  <1>3. /\ \A p \in Ops : SamePlan(operations[p], operations'[p])
        /\ \A p \in Ops : Progress(operations[p], operations'[p])
    BY <1>1 DEF SamePlan, Progress
  <1>4. \A p \in Ops : Over(operations'[p]) => operations'[p].owner = None
    BY <1>1, OperationIs DEF OperationOK
  <1>5. ASSUME NEW p \in Ops, NEW x \in Targets
        PROVE  /\ posted'[<<p, x>>] <= 1
               /\ posted'[<<p, x>>] # 0 =>
                    \/ Settled(operations'[p], x)
                    \/ operations'[p].intent /\ x = NextTarget(operations'[p], p)
    <2>1. CASE p = o
      BY <1>1, <2>1
    <2>2. CASE p # o
      <3>1. PostedOK(p, operations[p]) /\ p \in OpIds
        BY OperationIs DEF OperationOK
      <3> QED
        BY <1>1, <2>2, <3>1 DEF PostedOK
    <2> QED
      BY <2>1, <2>2
  <1>6. \A p \in OpIds \ Ops, x \in Targets : posted'[<<p, x>>] = 0
    BY DEF Inv
  <1>7. ASSUME NEW u \in Servers
        PROVE  TickOK(u, tick[u])'
    <2>1. CASE tick'[u] = tick[u] /\ Untouched(u, operations[o], n)
      <3>1. \A p \in Ops : Untouched(u, operations[p], operations'[p])
        BY <1>1, <2>1 DEF Untouched
      <3> QED
        BY <1>1, <1>3, <2>1, <3>1, TickStays, NothingReplanned
    <2> QED
      BY <2>1
  <1>8. RefreshOK'
    BY DEF Inv, RefreshOK
  <1> QED
    BY <1>1, <1>2, <1>3, <1>4, <1>5, <1>6, <1>7, <1>8, Frame

\* A write that was sent stays settled, or stays the one that is intended, or
\* is settled by the change that gives the intent up.
LEMMA PostedStays ==
    ASSUME Inv, NEW o \in Ops, NEW n \in OperationRecord, Progress(operations[o], n),
           operations[o].intent =>
              \/ n.intent /\ n.retained = operations[o].retained
              \/ Settled(n, NextTarget(operations[o], o)),
           posted' = posted
    PROVE  /\ posted' \in [OpIds \X Targets -> Nat]
           /\ \A p \in OpIds, x \in Targets : p # o => posted'[<<p, x>>] = posted[<<p, x>>]
           /\ \A x \in Targets :
                /\ posted'[<<o, x>>] <= 1
                /\ posted'[<<o, x>>] # 0 => Settled(n, x) \/ (n.intent /\ x = NextTarget(n, o))
  <1>1. PostedOK(o, operations[o])
    BY OperationIs DEF OperationOK
  <1>2. ASSUME NEW x \in Targets
        PROVE  Settled(operations[o], x) => Settled(n, x)
    BY DEF Progress, Settled, Over
  <1>3. n.retained = operations[o].retained => NextTarget(n, o) = NextTarget(operations[o], o)
    BY SameTarget
  <1>4. \A x \in Targets :
          /\ posted'[<<o, x>>] <= 1
          /\ posted'[<<o, x>>] # 0 => Settled(n, x) \/ (n.intent /\ x = NextTarget(n, o))
    BY <1>1, <1>2, <1>3 DEF PostedOK
  <1> QED
    BY <1>4 DEF Inv, TypeOK

\* The same without a write being sent, for a step of a server that works on o.
LEMMA ServerStep ==
    ASSUME Inv, NEW s \in Servers, NEW o \in Ops, NEW n \in OperationRecord,
           operations' = [operations EXCEPT ![o] = n],
           SamePlan(operations[o], n), Progress(operations[o], n),
           Over(n) => n.owner = None,
           operations[o].intent =>
              \/ n.intent /\ n.retained = operations[o].retained
              \/ Settled(n, NextTarget(operations[o], o)),
           \A u \in Servers : u # s => Untouched(u, operations[o], n),
           NEW t \in TickRecord,
           t.step # "IDLE" => t.op = o /\ t.copy \in Copies /\ CopyOK(s, t, n),
           tick' = [tick EXCEPT ![s] = t],
           conflicts' \in [OpIds -> [status : {"none", "requires_resolution", "claimed",
                                               "verification_required", "resolved"},
                                     passed : BOOLEAN]],
           wire' \subseteq Ops \X (Revisions \union {None}), events' \in Nat,
           UNCHANGED <<compositions, environment, revisions, refs, generated, refresh, receipt,
                       posted, decided>>
    PROVE  Inv' /\ Progresses
  <1>1. Ops' = Ops /\ operations'[o] = n
    BY ChangeOne
  <1>2. /\ tick' \in [Servers -> TickRecord] /\ tick'[s] = t
        /\ \A u \in Servers : u # s => tick'[u] = tick[u]
    BY DEF Inv, TypeOK
  <1>3. TickOK(s, tick[s])'
    <2>1. NextTarget(t.copy, o)' = NextTarget(t.copy, o)
      BY <1>1, TargetStays, NothingReplanned DEF SamePlan
    <2>2. t.step # "IDLE" => CopyOK(s, t, n)'
      BY <2>1 DEF CopyOK
    <2> QED
      BY <1>1, <1>2, <2>2 DEF TickOK, CopyOK
  <1>4. \A u \in Servers : \/ tick'[u] = tick[u] /\ Untouched(u, operations[o], n)
                           \/ TickOK(u, tick[u])'
    BY <1>2, <1>3
  <1>5. /\ posted' \in [OpIds \X Targets -> Nat]
        /\ \A p \in OpIds, x \in Targets : p # o => posted'[<<p, x>>] = posted[<<p, x>>]
        /\ \A x \in Targets :
             /\ posted'[<<o, x>>] <= 1
             /\ posted'[<<o, x>>] # 0 => Settled(n, x) \/ (n.intent /\ x = NextTarget(n, o))
    BY PostedStays
  <1> QED
    BY <1>2, <1>4, <1>5, OneChanges

\* A step in which the operations, the plans and what is selected stay.
LEMMA OperationsStay ==
    ASSUME Inv, TypeOK',
           UNCHANGED <<operations, compositions, environment, posted, decided>>,
           \A u \in Servers : tick'[u] = tick[u] \/ TickOK(u, tick[u])',
           RefreshOK'
    PROVE  Inv' /\ Progresses
  <1>1. Ops' = Ops /\ PlansKept /\ Len(operations') = Len(operations)
    BY NothingReplanned DEF Ops
  <1>2. /\ \A p \in Ops : SamePlan(operations[p], operations'[p])
        /\ \A p \in Ops : Progress(operations[p], operations'[p])
    BY DEF SamePlan, Progress
  <1>3. \A p \in Ops : Over(operations'[p]) => operations'[p].owner = None
    BY OperationIs DEF OperationOK
  <1>4. \A p \in Ops : \A x \in Targets :
          /\ posted'[<<p, x>>] <= 1
          /\ posted'[<<p, x>>] # 0 =>
               \/ Settled(operations'[p], x)
               \/ operations'[p].intent /\ x = NextTarget(operations'[p], p)
    BY OperationIs DEF OperationOK, PostedOK
  <1>5. \A p \in OpIds \ Ops, x \in Targets : posted'[<<p, x>>] = 0
    BY DEF Inv
  <1>6. ASSUME NEW u \in Servers
        PROVE  TickOK(u, tick[u])'
    <2>1. CASE tick'[u] = tick[u]
      <3>1. \A p \in Ops : Untouched(u, operations[p], operations'[p])
        BY DEF Untouched
      <3> QED
        BY <1>1, <1>2, <2>1, <3>1, TickStays
    <2> QED
      BY <2>1
  <1> QED
    BY <1>1, <1>2, <1>3, <1>4, <1>5, <1>6, Frame

-----------------------------------------------------------------------------
(***************************************************************************)
(* Ticks                                                                   *)
(***************************************************************************)

LEMMA IdleIs == Idle \in TickRecord /\ Idle.step = "IDLE"
  BY DEF Idle, TickRecord, Steps

LEMMA TickIs ==
    ASSUME Inv, NEW s \in Servers, tick[s].step # "IDLE"
    PROVE  /\ tick[s] \in TickRecord /\ tick[s].op \in Ops /\ tick[s].copy \in Copies
           /\ CopyOK(s, tick[s], operations[tick[s].op])
  BY DEF Inv, TypeOK, TickOK

\* A Tick moves on, and the operations stay.
LEMMA MovesOn ==
    ASSUME Inv, NEW s \in Servers, NEW t \in TickRecord,
           t.step # "IDLE" => t.op \in Ops /\ t.copy \in Copies /\ CopyOK(s, t, operations[t.op]),
           tick' = [tick EXCEPT ![s] = t],
           wire' \subseteq Ops \X (Revisions \union {None}), events' \in Nat,
           UNCHANGED <<operations, compositions, environment, revisions, conflicts, refs, generated,
                       refresh, receipt, posted, decided>>
    PROVE  Inv' /\ Progresses
  <1>1. Ops' = Ops
    BY DEF Ops
  <1>2. /\ tick' \in [Servers -> TickRecord] /\ tick'[s] = t
        /\ \A u \in Servers : u # s => tick'[u] = tick[u]
    BY DEF Inv, TypeOK
  <1>3. TypeOK'
    BY <1>1, <1>2 DEF Inv, TypeOK, OpIds, Targets, RevisionIds
  <1>4. TickOK(s, tick[s])'
    <2>1. SUFFICES ASSUME t.step # "IDLE"
                   PROVE  TickOK(s, tick[s])'
      BY <1>2 DEF TickOK
    <2>2. PICK o \in Ops : o = t.op
      BY <2>1
    <2>3. NextTarget(t.copy, o)' = NextTarget(t.copy, o)
      BY TargetStays, NothingReplanned
    <2>4. CopyOK(s, t, operations[o])'
      BY <2>1, <2>2, <2>3 DEF CopyOK
    <2> QED
      BY <1>1, <1>2, <2>1, <2>2, <2>4 DEF TickOK
  <1>5. RefreshOK'
    BY DEF Inv, RefreshOK
  <1> QED
    BY <1>2, <1>3, <1>4, <1>5, OperationsStay

\* A Tick goes to another step with what it has.
LEMMA GoesOn ==
    ASSUME Inv, NEW s \in Servers, tick[s].step # "IDLE", NEW step \in Steps, Goes(s, step),
           \/ step \notin {"LOOK", "ADMIT", "CONFLICT"}
           \/ tick[s].step \in {"LOOK", "ADMIT", "CONFLICT"},
           wire' \subseteq Ops \X (Revisions \union {None}), events' \in Nat,
           UNCHANGED <<operations, compositions, environment, revisions, conflicts, refs, generated,
                       refresh, receipt, posted, decided>>
    PROVE  Inv' /\ Progresses
  <1>1. PICK k \in TickRecord : k = tick[s] /\ k.op \in Ops /\ k.copy \in Copies
                                  /\ CopyOK(s, k, operations[k.op])
    BY TickIs
  <1>2. PICK t \in TickRecord : t = [k EXCEPT !.step = step]
    BY DEF TickRecord
  <1>3. t.step = step /\ t.op = k.op /\ t.copy = k.copy /\ t.target = k.target
    BY <1>2 DEF TickRecord
  <1>4. tick' = [tick EXCEPT ![s] = t]
    BY <1>1, <1>2 DEF Goes, Inv, TypeOK
  <1>5. CopyOK(s, t, operations[t.op])
    BY <1>1, <1>3 DEF CopyOK
  <1> QED
    BY <1>1, <1>3, <1>4, <1>5, MovesOn

\* A Tick ends, and the operations stay.
LEMMA TickEnds ==
    ASSUME Inv, NEW s \in Servers, Ends(s),
           wire' \subseteq Ops \X (Revisions \union {None}), events' \in Nat,
           UNCHANGED <<operations, compositions, environment, revisions, conflicts, refs, generated,
                       refresh, receipt, posted, decided>>
    PROVE  Inv' /\ Progresses
  <1>1. PICK t \in TickRecord : t = Idle /\ t.step = "IDLE"
    BY IdleIs
  <1>2. tick' = [tick EXCEPT ![s] = t]
    BY <1>1 DEF Ends
  <1> QED
    BY <1>1, <1>2, MovesOn

\* A Tick that may not write ends or goes on to block, and the operations stay.
LEMMA RefusedOK ==
    ASSUME Inv, NEW s \in Servers, tick[s].step # "IDLE", NEW x, Refused(s, x),
           wire' \subseteq Ops \X (Revisions \union {None}), events' \in Nat,
           UNCHANGED <<operations, compositions, environment, revisions, conflicts, refs, generated,
                       refresh, receipt, posted, decided>>
    PROVE  Inv' /\ Progresses
  <1>1. "BLOCK" \in Steps /\ "BLOCK" \notin {"LOOK", "ADMIT", "CONFLICT"}
    BY DEF Steps
  <1>2. CASE Ends(s)
    BY <1>2, TickEnds
  <1>3. CASE Goes(s, "BLOCK")
    BY <1>1, <1>3, GoesOn
  <1> QED
    BY <1>2, <1>3 DEF Refused

\* What save writes for the owner of the lease, whose copy is what is stored.
LEMMA KeptIs ==
    ASSUME Inv, NEW s \in Servers, tick[s].step # "IDLE", NEW o \in Ops, o = tick[s].op,
           operations[o].owner = s
    PROVE  /\ Kept(s) \in OperationRecord
           /\ SamePlan(operations[o], Kept(s))
           /\ Kept(s).status = "RUNNING" /\ Kept(s).owner = None
           /\ Kept(s).retained = operations[o].retained /\ Kept(s).result = operations[o].result
           /\ Kept(s).intent = operations[o].intent /\ Kept(s).child = operations[o].child
           /\ ~Over(operations[o])
  <1>1. PICK k \in OperationRecord : k = operations[o] /\ OperationOK(o, k)
    BY OperationIs
  <1>2. PICK c \in Copies : /\ c = tick[s].copy
                            /\ c.retained = k.retained /\ c.result = k.result /\ c.phase = k.phase
    BY <1>1, TickIs DEF CopyOK
  <1>3. Kept(s) = [k EXCEPT !.status = "RUNNING", !.phase = k.phase, !.retained = k.retained,
                            !.result = k.result, !.owner = None, !.live = FALSE]
    BY <1>1, <1>2 DEF Kept
  <1>4. Kept(s) \in OperationRecord
    BY <1>3 DEF OperationRecord
  <1>5. /\ Kept(s).status = "RUNNING" /\ Kept(s).owner = None
        /\ Kept(s).retained = k.retained /\ Kept(s).result = k.result
        /\ Kept(s).intent = k.intent /\ Kept(s).child = k.child
        /\ Kept(s).composition = k.composition /\ Kept(s).origin = k.origin
    BY <1>3 DEF OperationRecord
  <1>6. ~Over(k)
    BY <1>1, NoneIsNobody DEF OperationOK
  <1> QED
    BY <1>1, <1>4, <1>5, <1>6 DEF SamePlan

\* A save by the owner of the lease ends its Tick.
LEMMA OwnerSaves ==
    ASSUME Inv, NEW s \in Servers, NEW o \in Ops, NEW n \in OperationRecord,
           operations' = [operations EXCEPT ![o] = n], n.owner = None,
           SamePlan(operations[o], n), Progress(operations[o], n),
           operations[o].intent =>
              \/ n.intent /\ n.retained = operations[o].retained
              \/ Settled(n, NextTarget(operations[o], o)),
           Ends(s),
           conflicts' \in [OpIds -> [status : {"none", "requires_resolution", "claimed",
                                               "verification_required", "resolved"},
                                     passed : BOOLEAN]],
           UNCHANGED <<compositions, environment, revisions, refs, generated, wire, refresh, receipt,
                       events, posted, decided>>
    PROVE  Inv' /\ Progresses
  <1>1. PICK t \in TickRecord : t = Idle /\ t.step = "IDLE"
    BY IdleIs
  <1>2. tick' = [tick EXCEPT ![s] = t]
    BY <1>1 DEF Ends
  <1>3. \A u \in Servers : u # s => Untouched(u, operations[o], n)
    BY NoneIsNobody DEF Untouched
  <1>4. wire' \subseteq Ops \X (Revisions \union {None}) /\ events' \in Nat
    BY DEF Inv, TypeOK
  <1> QED
    BY <1>1, <1>2, <1>3, <1>4, ServerStep

LEMMA FailedSaves ==
    ASSUME Inv, NEW s \in Servers, tick[s].step # "IDLE", Failed(s), Ends(s), StoreOnly
    PROVE  Inv' /\ Progresses
  <1>1. PICK o \in Ops : o = tick[s].op
    BY TickIs
  <1>2. /\ wire' \subseteq Ops \X (Revisions \union {None}) /\ events' \in Nat
        /\ conflicts' \in [OpIds -> [status : {"none", "requires_resolution", "claimed",
                                               "verification_required", "resolved"},
                                     passed : BOOLEAN]]
        /\ UNCHANGED <<compositions, environment, revisions, conflicts, refs, generated, wire,
                       refresh, receipt, events, posted, decided>>
    BY DEF StoreOnly, Inv, TypeOK
  <1>3. CASE operations[o].owner = s
    <2>1. PICK k \in OperationRecord :
             /\ k = Kept(s) /\ SamePlan(operations[o], k) /\ k.owner = None
             /\ k.retained = operations[o].retained /\ k.result = operations[o].result
             /\ k.intent = operations[o].intent /\ k.child = operations[o].child
             /\ ~Over(operations[o])
      BY <1>1, <1>3, KeptIs
    <2>2. PICK n \in OperationRecord : n = [k EXCEPT !.status = "FAILED"]
      BY DEF OperationRecord
    <2>3. /\ n.status = "FAILED" /\ n.owner = k.owner /\ n.retained = k.retained
          /\ n.result = k.result /\ n.intent = k.intent /\ n.child = k.child
          /\ n.composition = k.composition /\ n.origin = k.origin
      BY <2>2 DEF OperationRecord
    <2>4. operations' = [operations EXCEPT ![o] = n]
      BY <1>1, <1>3, <2>1, <2>2 DEF Failed
    <2>5. SamePlan(operations[o], n) /\ Progress(operations[o], n)
      BY <2>1, <2>3 DEF SamePlan, Progress
    <2>6. n.owner = None /\ (operations[o].intent => n.intent /\ n.retained = operations[o].retained)
      BY <2>1, <2>3
    <2> QED
      BY <1>2, <2>4, <2>5, <2>6, OwnerSaves
  <1>4. CASE operations[o].owner # s
    BY <1>1, <1>2, <1>4, TickEnds DEF Failed
  <1> QED
    BY <1>3, <1>4

\* A save that goes on, of what the owner may save.
LEMMA SavedSaves ==
    ASSUME Inv, NEW s \in Servers, tick[s].step # "IDLE", NEW o \in Ops, o = tick[s].op,
           NEW after, Saved(s, after),
           operations[o].owner = s =>
             /\ after \in OperationRecord /\ after.owner = None
             /\ SamePlan(operations[o], after) /\ Progress(operations[o], after)
             /\ operations[o].intent =>
                  \/ after.intent /\ after.retained = operations[o].retained
                  \/ Settled(after, NextTarget(operations[o], o)),
           Ends(s), StoreOnly
    PROVE  Inv' /\ Progresses
  <1>1. /\ wire' \subseteq Ops \X (Revisions \union {None}) /\ events' \in Nat
        /\ conflicts' \in [OpIds -> [status : {"none", "requires_resolution", "claimed",
                                               "verification_required", "resolved"},
                                     passed : BOOLEAN]]
        /\ UNCHANGED <<compositions, environment, revisions, conflicts, refs, generated, wire,
                       refresh, receipt, events, posted, decided>>
    BY DEF StoreOnly, Inv, TypeOK
  <1>2. CASE retentionLease(s, o, tick[s].copy)
    <2>1. operations' = [operations EXCEPT ![o] = after] /\ operations[o].owner = s
      BY <1>2 DEF Saved, retentionLease
    <2> QED
      BY <1>1, <2>1, OwnerSaves
  <1>3. CASE ~retentionLease(s, o, tick[s].copy)
    <2>1. UNCHANGED operations
      BY <1>3 DEF Saved
    <2> QED
      BY <1>1, <2>1, TickEnds
  <1> QED
    BY <1>2, <1>3

\* A save that only moves the status, the phase and the child on.
LEMMA KeptSaves ==
    ASSUME Inv, NEW s \in Servers, tick[s].step # "IDLE", NEW o \in Ops, o = tick[s].op,
           NEW after, Saved(s, after),
           operations[o].owner = s =>
             /\ after \in OperationRecord
             /\ after.owner = Kept(s).owner /\ after.retained = Kept(s).retained
             /\ after.result = Kept(s).result /\ after.intent = Kept(s).intent
             /\ Kept(s).child # "none" => after.child # "none"
             /\ after.composition = Kept(s).composition /\ after.origin = Kept(s).origin,
           Ends(s), StoreOnly
    PROVE  Inv' /\ Progresses
  <1>1. ASSUME operations[o].owner = s
        PROVE  /\ after \in OperationRecord /\ after.owner = None
               /\ SamePlan(operations[o], after) /\ Progress(operations[o], after)
               /\ operations[o].intent =>
                    \/ after.intent /\ after.retained = operations[o].retained
                    \/ Settled(after, NextTarget(operations[o], o))
    <2>1. /\ SamePlan(operations[o], Kept(s)) /\ Kept(s).owner = None
          /\ Kept(s).retained = operations[o].retained /\ Kept(s).result = operations[o].result
          /\ Kept(s).intent = operations[o].intent /\ Kept(s).child = operations[o].child
          /\ ~Over(operations[o])
      BY <1>1, KeptIs
    <2>2. SamePlan(operations[o], after) /\ Progress(operations[o], after)
      BY <1>1, <2>1 DEF SamePlan, Progress
    <2> QED
      BY <1>1, <2>1, <2>2
  <1> QED
    BY <1>1, SavedSaves

LEMMA RetriedSaves ==
    ASSUME Inv, NEW s \in Servers, tick[s].step # "IDLE", Retried(s), Ends(s), StoreOnly
    PROVE  Inv' /\ Progresses
  <1>1. PICK o \in Ops : o = tick[s].op
    BY TickIs
  <1>2. CASE Failed(s)
    BY <1>2, FailedSaves
  <1>3. CASE Saved(s, Kept(s))
    <2>1. operations[o].owner = s => Kept(s) \in OperationRecord
      BY <1>1, KeptIs
    <2>2. PICK after : after = Kept(s)
      OBVIOUS
    <2> QED
      BY <1>1, <1>3, <2>1, <2>2, KeptSaves
  <1> QED
    BY <1>2, <1>3 DEF Retried

-----------------------------------------------------------------------------
(***************************************************************************)
(* The steps of a Tick                                                     *)
(***************************************************************************)

LEMMA EndsOK ==
    ASSUME Inv, NEW s \in Servers, finish(s) \/ retry(s)
    PROVE  Inv' /\ Progresses
  BY FailedSaves, RetriedSaves DEF finish, retry

LEMMA UnpreparedOK ==
    ASSUME Inv, NEW s \in Servers, Unprepared(s)
    PROVE  Inv' /\ Progresses
  <1>1. /\ UNCHANGED <<operations, compositions, environment, revisions, conflicts, refs, generated,
                       refresh, receipt, posted, decided>>
        /\ wire' \subseteq Ops \X (Revisions \union {None}) /\ events' \in Nat
    BY DEF Unprepared, TickOnly, StoreOnly, Inv, TypeOK
  <1>2. tick[s].step # "IDLE" /\ Goes(s, "BLOCK") /\ "BLOCK" \in Steps
    BY DEF Unprepared, Steps
  <1> QED
    BY <1>1, <1>2, GoesOn

LEMMA VerifyForChildrenOK ==
    ASSUME Inv, NEW s \in Servers, VerifyForChildren(s)
    PROVE  Inv' /\ Progresses
  <1>1. /\ UNCHANGED <<operations, compositions, environment, revisions, conflicts, refs, generated,
                       refresh, receipt, posted, decided>>
        /\ wire' \subseteq Ops \X (Revisions \union {None}) /\ events' \in Nat
    BY DEF VerifyForChildren, TickOnly, StoreOnly, Inv, TypeOK
  <1>2. tick[s].step # "IDLE" /\ (Ends(s) \/ \E step \in {"QUEUE", "BLOCK"} : Goes(s, step))
    BY DEF VerifyForChildren
  <1>3. {"QUEUE", "BLOCK"} \subseteq Steps \ {"LOOK", "ADMIT", "CONFLICT"}
    BY DEF Steps
  <1> QED
    BY <1>1, <1>2, <1>3, GoesOn, TickEnds

LEMMA LookOK ==
    ASSUME Inv, NEW s \in Servers, Look(s)
    PROVE  Inv' /\ Progresses
  <1>1. /\ UNCHANGED <<operations, compositions, environment, revisions, conflicts, refs, generated,
                       refresh, receipt, posted, decided>>
        /\ wire' \subseteq Ops \X (Revisions \union {None}) /\ events' \in Nat
    BY DEF Look, Inv, TypeOK
  <1>2. tick[s].step = "LOOK" /\ \E step \in {"ADMIT", "RETRY", "BLOCK", "CONFLICT"} : Goes(s, step)
    BY DEF Look
  <1>3. {"ADMIT", "RETRY", "BLOCK", "CONFLICT"} \subseteq Steps
    BY DEF Steps
  <1> QED
    BY <1>1, <1>2, <1>3, GoesOn

LEMMA SourceReadyOK ==
    ASSUME Inv, NEW s \in Servers, SourceReady(s)
    PROVE  Inv' /\ Progresses
  <1>1. PICK o \in Ops : o = tick[s].op
    BY TickIs DEF SourceReady
  <1>2. tick[s].step # "IDLE" /\ Ends(s) /\ StoreOnly
    BY DEF SourceReady
  <1>3. CASE Failed(s)
    BY <1>2, <1>3, FailedSaves
  <1>4. CASE Saved(s, [Kept(s) EXCEPT !.phase = "QUEUE_BUILDS"])
    <2>1. PICK after : after = [Kept(s) EXCEPT !.phase = "QUEUE_BUILDS"]
      OBVIOUS
    <2>2. ASSUME operations[o].owner = s
          PROVE  /\ after \in OperationRecord
                 /\ after.owner = Kept(s).owner /\ after.retained = Kept(s).retained
                 /\ after.result = Kept(s).result /\ after.intent = Kept(s).intent
                 /\ Kept(s).child # "none" => after.child # "none"
                 /\ after.composition = Kept(s).composition /\ after.origin = Kept(s).origin
      <3>1. PICK k \in OperationRecord : k = Kept(s)
        BY <1>1, <1>2, <2>2, KeptIs
      <3> QED
        BY <2>1, <3>1 DEF OperationRecord, Phases
    <2> QED
      BY <1>1, <1>2, <1>4, <2>1, <2>2, KeptSaves
  <1> QED
    BY <1>3, <1>4 DEF SourceReady

LEMMA queueFlowChildrenOK ==
    ASSUME Inv, NEW s \in Servers, queueFlowChildren(s)
    PROVE  Inv' /\ Progresses
  <1>1. PICK o \in Ops : o = tick[s].op
    BY TickIs DEF queueFlowChildren
  <1>2. tick[s].step # "IDLE" /\ Ends(s) /\ StoreOnly
    BY DEF queueFlowChildren
  <1>3. PICK after : after = [Kept(s) EXCEPT !.phase = "WAIT_CHILDREN", !.child = "PENDING"]
    OBVIOUS
  <1>4. ASSUME operations[o].owner = s
        PROVE  /\ after \in OperationRecord
               /\ after.owner = Kept(s).owner /\ after.retained = Kept(s).retained
               /\ after.result = Kept(s).result /\ after.intent = Kept(s).intent
               /\ Kept(s).child # "none" => after.child # "none"
               /\ after.composition = Kept(s).composition /\ after.origin = Kept(s).origin
    <2>1. PICK k \in OperationRecord : k = Kept(s)
      BY <1>1, <1>2, <1>4, KeptIs
    <2> QED
      BY <1>3, <2>1 DEF OperationRecord, Phases, Children
  <1> QED
    BY <1>1, <1>2, <1>3, <1>4, KeptSaves DEF queueFlowChildren

LEMMA WaitChildrenOK ==
    ASSUME Inv, NEW s \in Servers, WaitChildren(s)
    PROVE  Inv' /\ Progresses
  <1>1. PICK o \in Ops : o = tick[s].op
    BY TickIs DEF WaitChildren
  <1>2. tick[s].step # "IDLE" /\ Ends(s) /\ StoreOnly
    BY DEF WaitChildren
  <1>3. CASE Failed(s) \/ Retried(s)
    BY <1>2, <1>3, FailedSaves, RetriedSaves
  <1>4. CASE Saved(s, [Kept(s) EXCEPT !.phase = "WAIT_RUNTIME"])
    <2>1. PICK after : after = [Kept(s) EXCEPT !.phase = "WAIT_RUNTIME"]
      OBVIOUS
    <2>2. ASSUME operations[o].owner = s
          PROVE  /\ after \in OperationRecord
                 /\ after.owner = Kept(s).owner /\ after.retained = Kept(s).retained
                 /\ after.result = Kept(s).result /\ after.intent = Kept(s).intent
                 /\ Kept(s).child # "none" => after.child # "none"
                 /\ after.composition = Kept(s).composition /\ after.origin = Kept(s).origin
      <3>1. PICK k \in OperationRecord : k = Kept(s)
        BY <1>1, <1>2, <2>2, KeptIs
      <3> QED
        BY <2>1, <3>1 DEF OperationRecord, Phases
    <2> QED
      BY <1>1, <1>2, <1>4, <2>1, <2>2, KeptSaves
  <1> QED
    BY <1>3, <1>4 DEF WaitChildren

LEMMA WaitRuntimeOK ==
    ASSUME Inv, NEW s \in Servers, WaitRuntime(s)
    PROVE  Inv' /\ Progresses
  <1>1. PICK o \in Ops : o = tick[s].op
    BY TickIs DEF WaitRuntime
  <1>2. tick[s].step # "IDLE" /\ Ends(s) /\ StoreOnly
    BY DEF WaitRuntime
  <1>3. CASE Failed(s) \/ Retried(s)
    BY <1>2, <1>3, FailedSaves, RetriedSaves
  <1>4. CASE Saved(s, [Kept(s) EXCEPT !.status = "SUCCEEDED"])
    <2>1. PICK after : after = [Kept(s) EXCEPT !.status = "SUCCEEDED"]
      OBVIOUS
    <2>2. ASSUME operations[o].owner = s
          PROVE  /\ after \in OperationRecord
                 /\ after.owner = Kept(s).owner /\ after.retained = Kept(s).retained
                 /\ after.result = Kept(s).result /\ after.intent = Kept(s).intent
                 /\ Kept(s).child # "none" => after.child # "none"
                 /\ after.composition = Kept(s).composition /\ after.origin = Kept(s).origin
      <3>1. PICK k \in OperationRecord : k = Kept(s)
        BY <1>1, <1>2, <2>2, KeptIs
      <3> QED
        BY <2>1, <3>1 DEF OperationRecord, Phases
    <2> QED
      BY <1>1, <1>2, <1>4, <2>1, <2>2, KeptSaves
  <1> QED
    BY <1>3, <1>4 DEF WaitRuntime

LEMMA ClaimOK ==
    ASSUME Inv, NEW s \in Servers, NEW o \in Ops, Claim(s, o)
    PROVE  Inv' /\ Progresses
  <1>1. PICK k \in OperationRecord : k = operations[o]
    BY OperationIs
  <1>2. ~Over(k)
    BY <1>1 DEF Claim, terminalOperation, Over
  <1>3. PICK n \in OperationRecord : n = [k EXCEPT !.status = "RUNNING", !.owner = s, !.live = TRUE]
    BY DEF OperationRecord
  <1>4. /\ n.status = "RUNNING" /\ n.owner = s /\ n.phase = k.phase
        /\ n.composition = k.composition /\ n.origin = k.origin
        /\ n.retained = k.retained /\ n.result = k.result /\ n.intent = k.intent
        /\ n.child = k.child
    BY <1>3 DEF OperationRecord
  <1>5. operations' = [operations EXCEPT ![o] = n]
    <2>1. operations \in Seq(OperationRecord)
      BY DEF Inv, TypeOK
    <2> QED
      BY <1>1, <1>3, <2>1 DEF Claim, Ops
  <1>6. SamePlan(operations[o], n) /\ Progress(operations[o], n) /\ ~Over(n)
    BY <1>1, <1>2, <1>4 DEF SamePlan, Progress, Over
  <1>7. \A u \in Servers : u # s => Untouched(u, operations[o], n)
    BY <1>4 DEF Untouched
  <1>8. PICK step \in {"BLOCK", "SOURCE", "VERIFY", "CHILDREN", "RUNTIME"} :
           step = IF flowGuard(o) THEN StepOfPhase(operations[o].phase) ELSE "BLOCK"
    <2>1. k.phase \in Phases
      BY DEF OperationRecord
    <2> QED
      BY <1>1, <2>1 DEF StepOfPhase, Phases
  <1>9. PICK copy \in Copies : /\ copy = Copied(operations[o]) /\ copy.retained = k.retained
                               /\ copy.result = k.result /\ copy.phase = k.phase
    <2>1. Copied(k) \in Copies
      BY DEF Copied, Copies, OperationRecord, Children
    <2> QED
      BY <1>1, <2>1 DEF Copied
  <1>10. PICK t \in TickRecord : t = [step |-> step, op |-> o, copy |-> copy, target |-> None]
    BY OperationIs DEF TickRecord, Steps
  <1>11. tick' = [tick EXCEPT ![s] = t]
    BY <1>8, <1>9, <1>10 DEF Claim
  <1>12. t.op = o /\ t.copy \in Copies /\ CopyOK(s, t, n)
    BY <1>4, <1>8, <1>9, <1>10 DEF CopyOK
  <1>13. /\ wire' \subseteq Ops \X (Revisions \union {None}) /\ events' \in Nat
         /\ conflicts' \in [OpIds -> [status : {"none", "requires_resolution", "claimed",
                                                "verification_required", "resolved"},
                                      passed : BOOLEAN]]
         /\ UNCHANGED <<compositions, environment, revisions, refs, generated, refresh, receipt,
                        posted, decided>>
    BY DEF Claim, StoreOnly, Inv, TypeOK
  <1>14. operations[o].intent =>
              \/ n.intent /\ n.retained = operations[o].retained
              \/ Settled(n, NextTarget(operations[o], o))
    BY <1>1, <1>4
  <1> QED
    BY <1>5, <1>6, <1>7, <1>11, <1>12, <1>13, <1>14, ServerStep

\* A write begins: its target is neither settled nor intended, so it was
\* never sent.
LEMMA beginReservationMutationOK ==
    ASSUME Inv, NEW s \in Servers, beginReservationMutation(s)
    PROVE  Inv' /\ Progresses
  <1>1. PICK o \in Ops : o = tick[s].op
    BY TickIs DEF beginReservationMutation, Prepared
  <1>2. PICK u \in TickRecord : /\ u = tick[s] /\ u.step = "SOURCE" /\ u.copy.result = "none"
                                /\ u.op = o /\ u.copy \in Copies /\ CopyOK(s, u, operations[o])
    BY <1>1, TickIs DEF beginReservationMutation, Prepared
  <1>3. PICK x \in Revisions \union {None} : /\ x = NextTarget(u.copy, o)
                                             /\ x # None => x \notin u.copy.retained
    BY TargetIs
  <1>4. UNCHANGED <<compositions, environment, revisions, conflicts, refs, generated, refresh,
                    receipt, events, decided>>
    BY DEF beginReservationMutation
  <1>5. PICK absent \in BOOLEAN : absent = IF x = None THEN generated[o] = "none" ELSE refs[x] = "none"
    OBVIOUS
  <1>6. CASE ~retentionLease(s, o, u.copy)
    <2>1. Refused(s, x) /\ UNCHANGED <<operations, wire, posted>>
      BY <1>1, <1>2, <1>3, <1>6 DEF beginReservationMutation
    <2>2. wire' \subseteq Ops \X (Revisions \union {None}) /\ events' \in Nat
      BY <1>4, <2>1 DEF Inv, TypeOK
    <2> QED
      BY <1>2, <1>4, <2>1, <2>2, RefusedOK
  <1>7. CASE retentionLease(s, o, u.copy)
    <2>1. PICK k \in OperationRecord : k = operations[o] /\ OperationOK(o, k) /\ k.owner = s
      BY <1>7, OperationIs DEF retentionLease
    <2>2. /\ ~Over(k) /\ k.retained = u.copy.retained /\ k.result = "none" /\ k.phase = u.copy.phase
          /\ ~k.intent
      BY <1>1, <1>2, <2>1, NoneIsNobody DEF OperationOK, CopyOK, beginReservationMutation
    <2>3. x = NextTarget(k, o)
      BY <1>3, <2>2, SameTarget
    <2>4. PICK n \in OperationRecord : n = [k EXCEPT !.intent = TRUE]
      BY DEF OperationRecord
    <2>5. /\ n.intent /\ n.status = k.status /\ n.owner = s /\ n.phase = k.phase
          /\ n.composition = k.composition /\ n.origin = k.origin
          /\ n.retained = k.retained /\ n.result = k.result /\ n.child = k.child
      BY <2>1, <2>4 DEF OperationRecord
    <2>6. operations' = [operations EXCEPT ![o] = n]
      <3>1. operations \in Seq(OperationRecord)
        BY DEF Inv, TypeOK
      <3> QED
        BY <1>1, <1>2, <1>7, <2>1, <2>4, <3>1 DEF beginReservationMutation, Ops
    <2>7. SamePlan(operations[o], n) /\ Progress(operations[o], n) /\ ~Over(n)
      BY <2>1, <2>2, <2>5 DEF SamePlan, Progress, Over
    <2>8. PICK t \in TickRecord : t = [u EXCEPT !.step = "LOOK", !.target = x]
      BY DEF TickRecord, Steps
    <2>9. tick' = [tick EXCEPT ![s] = t]
      BY <1>1, <1>2, <1>3, <1>7, <2>8 DEF beginReservationMutation, Inv, TypeOK
    <2>10. t.step = "LOOK" /\ t.op = o /\ t.copy = u.copy /\ t.target = x
      BY <1>2, <2>8 DEF TickRecord
    <2>11. Ops' = Ops /\ operations'[o] = n
      BY <2>6, ChangeOne
    <2>12. /\ tick' \in [Servers -> TickRecord] /\ tick'[s] = t
           /\ \A v \in Servers : v # s => tick'[v] = tick[v]
      BY <2>9 DEF Inv, TypeOK
    <2>13. TickOK(s, tick[s])'
      <3>1. NextTarget(u.copy, o)' = x
        BY <1>3, <1>4, <2>7, <2>11, TargetStays, NothingReplanned DEF SamePlan
      <3>2. t.op \in Ops' /\ t.copy \in Copies
        BY <1>2, <2>10, <2>11
      <3>3. CopyOK(s, t, n)'
        BY <1>2, <2>2, <2>5, <2>10, <3>1 DEF CopyOK
      <3> QED
        BY <2>10, <2>11, <2>12, <3>2, <3>3 DEF TickOK, CopyOK
    <2>14. \A v \in Servers : \/ tick'[v] = tick[v] /\ Untouched(v, operations[o], n)
                              \/ TickOK(v, tick[v])'
      BY <2>5, <2>12, <2>13 DEF Untouched
    <2>15. /\ wire' = IF absent THEN wire \union {<<o, x>>} ELSE wire
           /\ posted' = IF absent THEN [posted EXCEPT ![<<o, x>>] = @ + 1] ELSE posted
      BY <1>1, <1>2, <1>3, <1>5, <1>7 DEF beginReservationMutation
    <2>16. wire' \subseteq Ops \X (Revisions \union {None}) /\ events' \in Nat
      BY <1>3, <1>4, <2>15 DEF Inv, TypeOK
    <2>17. posted \in [OpIds \X Targets -> Nat] /\ o \in OpIds /\ PostedOK(o, k)
      BY <2>1, OperationIs DEF Inv, TypeOK, OperationOK
    <2>18. /\ posted' \in [OpIds \X Targets -> Nat]
           /\ \A p \in OpIds, y \in Targets : p # o => posted'[<<p, y>>] = posted[<<p, y>>]
           /\ \A y \in Targets : y # x => posted'[<<o, y>>] = posted[<<o, y>>]
           /\ x \in Targets => posted'[<<o, x>>] \in {posted[<<o, x>>], posted[<<o, x>>] + 1}
      <3>1. CASE ~absent
        BY <2>15, <2>17, <3>1
      <3>2. CASE absent
        <4>1. PICK w : w = <<o, x>>
          OBVIOUS
        <4>2. posted' = [posted EXCEPT ![w] = posted[w] + 1]
          BY <2>15, <3>2, <4>1
        <4>3. \A v \in OpIds \X Targets : posted[v] \in Nat
          BY <2>17
        <4>4. posted' \in [OpIds \X Targets -> Nat]
          <5>1. CASE w \in OpIds \X Targets
            <6>1. PICK j \in Nat : j = posted[w] + 1
              BY <4>3, <5>1
            <6> QED
              BY <2>17, <4>2, <6>1
          <5>2. CASE w \notin OpIds \X Targets
            BY <2>17, <4>2, <5>2
          <5> QED
            BY <5>1, <5>2
        <4>5. \A v \in OpIds \X Targets : posted'[v] = IF v = w THEN posted[w] + 1 ELSE posted[v]
          BY <2>17, <4>2
        <4>6. /\ \A p \in OpIds, y \in Targets : p # o => posted'[<<p, y>>] = posted[<<p, y>>]
              /\ \A y \in Targets : y # x => posted'[<<o, y>>] = posted[<<o, y>>]
          BY <2>17, <4>1, <4>5
        <4>7. x \in Targets => posted'[<<o, x>>] = posted[<<o, x>>] + 1
          BY <2>17, <4>1, <4>5
        <4> QED
          BY <4>4, <4>6, <4>7
      <3> QED
        BY <3>1, <3>2
    <2>19. ASSUME NEW y \in Targets
           PROVE  /\ posted'[<<o, y>>] <= 1
                  /\ posted'[<<o, y>>] # 0 => Settled(n, y) \/ (n.intent /\ y = NextTarget(n, o))
      <3>1. x = NextTarget(n, o)
        BY <2>3, <2>5, SameTarget
      <3>2. CASE y = x
        <4>1. ~Settled(k, x)
          BY <1>3, <2>2 DEF Settled
        <4>2. posted[<<o, x>>] = 0
          BY <2>2, <2>17, <3>2, <4>1 DEF PostedOK
        <4>3. posted'[<<o, x>>] \in {0, 1}
          BY <2>18, <3>2, <4>2
        <4> QED
          BY <2>5, <3>1, <3>2, <4>3
      <3>3. CASE y # x
        <4>1. posted'[<<o, y>>] = posted[<<o, y>>]
          BY <2>18, <3>3
        <4>2. /\ posted[<<o, y>>] <= 1
              /\ posted[<<o, y>>] # 0 => Settled(k, y)
          BY <2>2, <2>17 DEF PostedOK
        <4>3. Settled(k, y) => Settled(n, y)
          BY <2>5 DEF Settled, Over
        <4> QED
          BY <4>1, <4>2, <4>3
      <3> QED
        BY <3>2, <3>3
    <2>20. /\ conflicts' \in [OpIds -> [status : {"none", "requires_resolution", "claimed",
                                                  "verification_required", "resolved"},
                                        passed : BOOLEAN]]
      BY <1>4 DEF Inv, TypeOK
    <2> QED
      BY <1>4, <2>6, <2>7, <2>12, <2>14, <2>16, <2>18, <2>19, <2>20, OneChanges
  <1> QED
    BY <1>6, <1>7

LEMMA reservationMutationRecoveryOK ==
    ASSUME Inv, NEW s \in Servers, reservationMutationRecovery(s)
    PROVE  Inv' /\ Progresses
  <1>1. PICK o \in Ops : o = tick[s].op
    BY TickIs DEF reservationMutationRecovery, Prepared
  <1>2. PICK u \in TickRecord : /\ u = tick[s] /\ u.step = "SOURCE" /\ u.copy.result = "none"
                                /\ u.op = o /\ u.copy \in Copies /\ CopyOK(s, u, operations[o])
    BY <1>1, TickIs DEF reservationMutationRecovery, Prepared
  <1>3. PICK x \in Revisions \union {None} : x = NextTarget(u.copy, o)
    BY TargetIs
  <1>4. /\ UNCHANGED <<operations, compositions, environment, revisions, conflicts, refs, generated,
                       refresh, receipt, posted, decided>>
        /\ wire' \subseteq Ops \X (Revisions \union {None}) /\ events' \in Nat
    BY DEF reservationMutationRecovery, TickOnly, StoreOnly, Inv, TypeOK
  <1>5. CASE Ends(s)
    BY <1>4, <1>5, TickEnds
  <1>6. CASE Refused(s, x)
    BY <1>2, <1>4, <1>6, RefusedOK
  <1>7. CASE ~Ends(s) /\ ~Refused(s, x)
    <2>1. PICK step \in {"ADMIT", "BLOCK"} :
             tick' = [tick EXCEPT ![s].step = step, ![s].target = x]
      <3>1. PICK found \in BOOLEAN :
               found = IF x = None THEN verifyRetainedSource(o) ELSE refs[x] = "exact"
        BY DEF verifyRetainedSource
      <3> QED
        BY <1>1, <1>2, <1>3, <1>7, <3>1 DEF reservationMutationRecovery
    <2>2. PICK t \in TickRecord : t = [u EXCEPT !.step = step, !.target = x]
      BY DEF TickRecord, Steps
    <2>3. tick' = [tick EXCEPT ![s] = t]
      BY <1>2, <2>1, <2>2 DEF Inv, TypeOK
    <2>4. t.step = step /\ t.op = o /\ t.copy = u.copy /\ t.target = x
      BY <1>2, <2>2 DEF TickRecord
    <2>5. operations[o].intent
      BY <1>1 DEF reservationMutationRecovery
    <2>6. CopyOK(s, t, operations[o])
      BY <1>2, <1>3, <2>4, <2>5 DEF CopyOK
    <2> QED
      BY <1>2, <1>4, <2>3, <2>4, <2>6, MovesOn
  <1> QED
    BY <1>5, <1>6, <1>7

\* The outcome settles the write that was intended.
LEMMA admitSourceProgressOK ==
    ASSUME Inv, NEW s \in Servers, admitSourceProgress(s)
    PROVE  Inv' /\ Progresses
  <1>1. PICK o \in Ops : o = tick[s].op
    BY TickIs DEF admitSourceProgress
  <1>2. PICK u \in TickRecord : /\ u = tick[s] /\ u.step = "ADMIT" /\ u.op = o
                                /\ CopyOK(s, u, operations[o])
    BY <1>1, TickIs DEF admitSourceProgress
  <1>3. PICK x \in Revisions \union {None} : x = u.target
    BY DEF TickRecord
  <1>4. PICK after : after = [Kept(s) EXCEPT !.intent = FALSE,
                                    !.retained = IF x = None THEN @ ELSE @ \union {x},
                                    !.result = IF x = None THEN "done" ELSE @]
    OBVIOUS
  <1>5. Saved(s, after) /\ Ends(s) /\ StoreOnly
    BY <1>2, <1>3, <1>4 DEF admitSourceProgress
  <1>6. ASSUME operations[o].owner = s
        PROVE  /\ after \in OperationRecord /\ after.owner = None
               /\ SamePlan(operations[o], after) /\ Progress(operations[o], after)
               /\ Settled(after, NextTarget(operations[o], o))
    <2>1. PICK k \in OperationRecord :
             /\ k = Kept(s) /\ SamePlan(operations[o], k) /\ k.owner = None
             /\ k.retained = operations[o].retained /\ k.result = operations[o].result
             /\ k.child = operations[o].child /\ ~Over(operations[o])
      BY <1>1, <1>2, <1>6, KeptIs
    <2>2. after = [k EXCEPT !.intent = FALSE,
                            !.retained = IF x = None THEN k.retained ELSE k.retained \union {x},
                            !.result = IF x = None THEN "done" ELSE k.result]
      BY <1>4, <2>1 DEF OperationRecord
    <2>3. after \in OperationRecord
      BY <1>3, <2>2 DEF OperationRecord, Results
    <2>4. /\ after.owner = k.owner /\ after.composition = k.composition /\ after.origin = k.origin
          /\ after.retained = IF x = None THEN k.retained ELSE k.retained \union {x}
          /\ after.result = IF x = None THEN "done" ELSE k.result
          /\ after.child = k.child
      BY <2>2 DEF OperationRecord
    <2>5. /\ operations[o].result = "none" /\ x = NextTarget(u.copy, o)
          /\ u.copy.retained = operations[o].retained
      BY <1>2, <1>3, <1>6 DEF CopyOK
    <2>6. x = NextTarget(operations[o], o)
      BY <2>5, SameTarget
    <2>7. Settled(after, x)
      BY <2>4 DEF Settled
    <2> QED
      BY <2>1, <2>3, <2>4, <2>5, <2>6, <2>7 DEF SamePlan, Progress
  <1> QED
    BY <1>1, <1>2, <1>5, <1>6, SavedSaves

LEMMA admitSourceConflictOK ==
    ASSUME Inv, NEW s \in Servers, admitSourceConflict(s)
    PROVE  Inv' /\ Progresses
  <1>1. PICK o \in Ops : o = tick[s].op
    BY TickIs DEF admitSourceConflict
  <1>2. PICK u \in TickRecord : /\ u = tick[s] /\ u.step = "CONFLICT" /\ u.op = o
                                /\ CopyOK(s, u, operations[o])
    BY <1>1, TickIs DEF admitSourceConflict
  <1>3. Ends(s) /\ UNCHANGED <<compositions, environment, revisions, refs, generated, wire, refresh,
                               receipt, events, posted, decided>>
    BY DEF admitSourceConflict
  <1>4. CASE ~retentionLease(s, o, tick[s].copy)
    <2>1. UNCHANGED <<operations, conflicts>>
      BY <1>1, <1>4 DEF admitSourceConflict
    <2>2. wire' \subseteq Ops \X (Revisions \union {None}) /\ events' \in Nat
      BY <1>3 DEF Inv, TypeOK
    <2> QED
      BY <1>3, <2>1, <2>2, TickEnds
  <1>5. CASE retentionLease(s, o, tick[s].copy)
    <2>1. operations[o].owner = s
      BY <1>5 DEF retentionLease
    <2>2. PICK k \in OperationRecord :
             /\ k = Kept(s) /\ SamePlan(operations[o], k) /\ k.owner = None
             /\ k.retained = operations[o].retained
             /\ k.child = operations[o].child /\ ~Over(operations[o])
      BY <1>1, <1>2, <2>1, KeptIs
    <2>3. PICK n \in OperationRecord :
             n = [k EXCEPT !.intent = FALSE, !.result = "conflict", !.status = "FAILED"]
      BY DEF OperationRecord, Results
    <2>4. /\ n.status = "FAILED" /\ n.owner = None /\ n.retained = k.retained /\ n.child = k.child
          /\ n.composition = k.composition /\ n.origin = k.origin
      BY <2>2, <2>3 DEF OperationRecord
    <2>5. /\ operations' = [operations EXCEPT ![o] = n]
          /\ conflicts' = [conflicts EXCEPT ![o].status = "requires_resolution"]
      BY <1>1, <1>5, <2>2, <2>3 DEF admitSourceConflict
    <2>6. operations[o].result = "none"
      BY <1>2, <2>1 DEF CopyOK
    <2>7. /\ SamePlan(operations[o], n) /\ Progress(operations[o], n)
          /\ Settled(n, NextTarget(operations[o], o))
      BY <2>2, <2>4, <2>6 DEF SamePlan, Progress, Settled, Over
    <2>8. conflicts' \in [OpIds -> [status : {"none", "requires_resolution", "claimed",
                                              "verification_required", "resolved"},
                                    passed : BOOLEAN]]
      BY <2>5 DEF Inv, TypeOK
    <2> QED
      BY <1>3, <2>4, <2>5, <2>7, <2>8, OwnerSaves
  <1> QED
    BY <1>4, <1>5

-----------------------------------------------------------------------------
(***************************************************************************)
(* Commands and the scheduler                                              *)
(***************************************************************************)

LEMMA NewOperationIs ==
    ASSUME NEW c \in Nat, NEW k \in Nat, NEW parent \in Nat, NEW origin \in Nat
    PROVE  /\ NewOperation(c, k, parent, origin) \in OperationRecord
           /\ NewOperation(c, k, parent, origin).composition = c
           /\ NewOperation(c, k, parent, origin).origin = origin
           /\ NewOperation(c, k, parent, origin).status = "PENDING"
           /\ NewOperation(c, k, parent, origin).owner = None
  <1>1. PICK n : n = NewOperation(c, k, parent, origin)
    OBVIOUS
  <1>2. n \in OperationRecord
    BY <1>1 DEF NewOperation, OperationRecord, Phases, Results, Children
  <1>3. n.composition = c /\ n.origin = origin /\ n.status = "PENDING" /\ n.owner = None
    BY <1>1 DEF NewOperation
  <1> QED
    BY <1>1, <1>2, <1>3

\* A new operation becomes what the environment wants, for a person or in
\* descent from a person's choice.
LEMMA AppendStep ==
    ASSUME Inv, Len(operations) < MaxOps,
           NEW n \in OperationRecord, n.status = "PENDING", n.owner = None,
           compositions' \in Seq(Plans), PlansKept, n.composition \in 1..Len(compositions'),
           operations' = Append(operations, n), environment' \in Selections,
           environment'.composition = n.composition,
           environment'.operation = Len(operations) + 1,
           NEW d, decided' = d, n.origin = d,
           \/ d = Len(operations) + 1
           \/ /\ d \in Ops
              /\ selectedIntegrations(n.composition)' =
                     selectedIntegrations(operations[d].composition),
           receipt' \in Nat, refresh' \in {refresh, None},
           UNCHANGED <<revisions, conflicts, refs, generated, wire, tick, events, posted>>
    PROVE  Inv' /\ Progresses
  <1>1. PICK L \in Nat : L = Len(operations)
    BY LenProperties DEF Inv, TypeOK
  <1>2. operations \in Seq(OperationRecord) /\ Ops = 1..L /\ L + 1 \in OpIds /\ L + 1 \notin Ops
    BY <1>1, CompositionAssumption DEF Inv, TypeOK, Ops, OpIds
  <1>3. /\ operations' \in Seq(OperationRecord) /\ Len(operations') = L + 1
        /\ \A p \in 1..L : operations'[p] = operations[p]
        /\ operations'[L + 1] = n
    BY <1>1, <1>2, AppendProperties
  <1>4. Ops' = 1..(L + 1) /\ Ops \subseteq Ops' /\ Ops' = Ops \union {L + 1}
    BY <1>2, <1>3 DEF Ops
  <1>5. d \in Nat
    BY DEF OperationRecord
  <1>6. TypeOK'
    <2>1. wire' \subseteq Ops' \X (Revisions \union {None})
      BY <1>4 DEF Inv, TypeOK
    <2>2. refresh' \in [token : Selections, scope : SUBSET Integrations] \union {None}
      BY DEF Inv, TypeOK
    <2> QED
      BY <1>3, <1>5, <2>1, <2>2 DEF Inv, TypeOK, OpIds, Targets, RevisionIds
  <1>7. /\ \A p \in Ops : SamePlan(operations[p], operations'[p])
        /\ \A p \in Ops : Progress(operations[p], operations'[p])
        /\ \A u \in Servers, p \in Ops : Untouched(u, operations[p], operations'[p])
    BY <1>2, <1>3 DEF SamePlan, Progress, Untouched
  <1>8. ASSUME NEW u \in Servers
        PROVE  TickOK(u, tick[u])'
    BY <1>4, <1>7, TickStays
  <1>9. ASSUME NEW p \in Ops
        PROVE  OperationOK(p, operations[p])'
    <2>1. PICK k \in OperationRecord : k = operations[p] /\ OperationOK(p, k)
      BY OperationIs
    <2>2. operations'[p] = k
      BY <1>2, <1>3, <2>1
    <2>3. NextTarget(k, p)' = NextTarget(k, p)
      BY <1>7, TargetStays DEF SamePlan
    <2>4. PostedOK(p, k)'
      BY <2>1, <2>3 DEF OperationOK, PostedOK, Targets, RevisionIds
    <2>5. k.composition \in 1..Len(compositions')
      <3>1. Len(compositions) \in Nat /\ Len(compositions') \in Nat
        BY LenProperties DEF Inv, TypeOK
      <3> QED
        BY <2>1, <3>1 DEF OperationOK, PlansKept
    <2> QED
      BY <2>1, <2>2, <2>4, <2>5 DEF OperationOK, PostedOK
  <1>10. OperationOK(L + 1, operations[L + 1])'
    <2>1. \A x \in Targets' : posted'[<<L + 1, x>>] = 0
      BY <1>2 DEF Inv, Targets, RevisionIds
    <2>2. PostedOK(L + 1, n)'
      BY <2>1 DEF PostedOK
    <2> QED
      BY <1>3, <2>2 DEF OperationOK, PostedOK, Over
  <1>11. \A p \in OpIds' \ Ops', x \in Targets' : posted'[<<p, x>>] = 0
    BY <1>4 DEF Inv, OpIds, Targets, RevisionIds
  <1>12. SelectionOK'
    <2>1. environment'.operation = L + 1 /\ L + 1 \in Ops' /\ L + 1 # 0
      BY <1>1, <1>4
    <2>2. environment'.composition \in 0..Len(compositions')
      <3>1. Len(compositions') \in Nat
        BY LenProperties
      <3> QED
        BY <3>1
    <2>3. d \in Ops'
      BY <1>1, <1>4
    <2>4. selectedIntegrations(n.composition)' = selectedIntegrations(operations[d].composition)'
      <3>1. CASE d = L + 1
        BY <1>3, <3>1 DEF selectedIntegrations
      <3>2. CASE d # L + 1
        <4>1. d \in Ops
          BY <1>1, <3>2
        <4>2. PICK c \in 1..Len(compositions) : c = operations[d].composition
          BY <4>1, OperationIs DEF OperationOK
        <4>3. operations'[d].composition = c
          BY <1>7, <4>1, <4>2 DEF SamePlan
        <4>4. selectedIntegrations(c)' = selectedIntegrations(c)
          BY SelectionStays
        <4>5. selectedIntegrations(operations[d].composition)' = selectedIntegrations(c)'
          BY <4>3 DEF selectedIntegrations
        <4>6. selectedIntegrations(n.composition)' = selectedIntegrations(c)
          BY <1>1, <3>2, <4>2
        <4> QED
          BY <4>4, <4>5, <4>6
      <3> QED
        BY <3>1, <3>2
    <2>5. operations'[environment'.operation] = n
      BY <1>3, <2>1
    <2>6. selectedIntegrations(environment.composition)' = selectedIntegrations(operations[decided].composition)'
      BY <2>4 DEF selectedIntegrations
    <2> QED
      BY <2>1, <2>2, <2>3, <2>5, <2>6 DEF SelectionOK
  <1>13. RefreshOK'
    BY DEF Inv, RefreshOK
  <1>14. Len(operations') <= MaxOps
    BY <1>1, <1>3, CompositionAssumption
  <1>15. Inv'
    BY <1>4, <1>6, <1>8, <1>9, <1>10, <1>11, <1>12, <1>13, <1>14 DEF Inv
  <1> QED
    BY <1>7, <1>15 DEF Progresses

\* A new plan keeps the earlier ones.
LEMMA PlanAppends ==
    ASSUME Inv, NEW p \in Plans, compositions' = Append(compositions, p)
    PROVE  /\ compositions' \in Seq(Plans) /\ PlansKept
           /\ Len(compositions) + 1 \in 1..Len(compositions') /\ Len(compositions) \in Nat
           /\ compositions'[Len(compositions) + 1] = p
  <1>1. compositions \in Seq(Plans)
    BY DEF Inv, TypeOK
  <1>2. /\ compositions' \in Seq(Plans) /\ Len(compositions') = Len(compositions) + 1
        /\ Len(compositions) \in Nat
        /\ \A c \in 1..Len(compositions) : compositions'[c] = compositions[c]
        /\ compositions'[Len(compositions) + 1] = p
    BY <1>1, AppendProperties, LenProperties
  <1> QED
    BY <1>2 DEF PlansKept

\* The latest revisions of some integrations make a plan that selects these.
LEMMA LatestIs ==
    ASSUME Inv, NEW scope \in SUBSET Integrations, NEW auto \in BOOLEAN
    PROVE  /\ planned(Latest(scope), auto) \in Plans
           /\ {i \in Integrations : planned(Latest(scope), auto).revision[i] # 0} = scope
  <1>1. revisions \in [Integrations -> Nat \ {0}]
    BY DEF Inv, TypeOK
  <1>2. Latest(scope) \in [Integrations -> Nat]
    BY <1>1 DEF Latest
  <1>3. \A i \in Integrations : Latest(scope)[i] # 0 <=> i \in scope
    BY <1>1 DEF Latest
  <1> QED
    BY <1>2, <1>3 DEF planned, Plans

LEMMA SelectedIs ==
    ASSUME Inv, NEW c \in Nat, NEW n, Selected(n, c)
    PROVE  /\ operations' = Append(operations, n) /\ environment' \in Selections
           /\ environment'.composition = c /\ environment'.operation = Len(operations) + 1
           /\ Len(operations) + 1 \in Nat
  <1>1. Len(operations) \in Nat /\ environment.generation \in Nat
    BY LenProperties DEF Inv, TypeOK, Selections
  <1> QED
    BY <1>1 DEF Selected, Selections

LEMMA assemble_environmentOK ==
    ASSUME Inv, NEW scope \in SUBSET Integrations, assemble_environment(scope)
    PROVE  Inv' /\ Progresses
  <1>1. PICK p \in Plans : p = planned(Latest(scope), TRUE)
    BY LatestIs
  <1>2. compositions' = Append(compositions, p)
    BY <1>1 DEF assemble_environment
  <1>3. PICK c \in Nat : c = Len(compositions) + 1 /\ c \in 1..Len(compositions')
    BY <1>2, PlanAppends
  <1>4. PICK o \in Nat : o = Len(operations) + 1
    BY LenProperties DEF Inv, TypeOK
  <1>5. PICK n \in OperationRecord :
           /\ n = NewOperation(c, 0, 0, o)
           /\ n.composition = c /\ n.origin = o /\ n.status = "PENDING" /\ n.owner = None
    <2>1. /\ NewOperation(c, 0, 0, o) \in OperationRecord
          /\ NewOperation(c, 0, 0, o).composition = c /\ NewOperation(c, 0, 0, o).origin = o
          /\ NewOperation(c, 0, 0, o).status = "PENDING" /\ NewOperation(c, 0, 0, o).owner = None
      BY NewOperationIs, Z3
    <2> QED
      BY <2>1
  <1>6. Selected(n, c) /\ decided' = o /\ Len(operations) < MaxOps
    BY <1>3, <1>4, <1>5 DEF assemble_environment, Admits
  <1>7. /\ receipt' \in Nat /\ refresh' \in {refresh, None}
        /\ UNCHANGED <<revisions, conflicts, refs, generated, wire, tick, events, posted>>
    BY DEF assemble_environment, Inv, TypeOK
  <1>8. /\ operations' = Append(operations, n) /\ environment' \in Selections
        /\ environment'.composition = c /\ environment'.operation = Len(operations) + 1
    BY <1>6, SelectedIs
  <1>9. compositions' \in Seq(Plans) /\ PlansKept
    BY <1>2, PlanAppends
  <1> QED
    BY <1>3, <1>4, <1>5, <1>6, <1>7, <1>8, <1>9, AppendStep

LEMMA reconcile_compositionOK ==
    ASSUME Inv, NEW c \in 1..Len(compositions), NEW k \in Ops \union {0},
           reconcile_composition(c, k)
    PROVE  Inv' /\ Progresses
  <1>1. /\ compositions' = compositions /\ receipt' \in Nat /\ refresh' \in {refresh, None}
        /\ UNCHANGED <<revisions, conflicts, refs, generated, wire, tick, events, posted>>
    BY DEF reconcile_composition, Inv, TypeOK
  <1>2. PlansKept /\ compositions' \in Seq(Plans) /\ c \in 1..Len(compositions')
    BY <1>1, NothingReplanned DEF Inv, TypeOK
  <1>3. c \in Nat /\ k \in Nat
    BY DEF Ops
  <1>4. PICK o \in Nat : o = Len(operations) + 1
    BY LenProperties DEF Inv, TypeOK
  <1>5. PICK n \in OperationRecord :
           /\ n = NewOperation(c, k, 0, o)
           /\ n.composition = c /\ n.origin = o /\ n.status = "PENDING" /\ n.owner = None
    <2>1. /\ NewOperation(c, k, 0, o) \in OperationRecord
          /\ NewOperation(c, k, 0, o).composition = c /\ NewOperation(c, k, 0, o).origin = o
          /\ NewOperation(c, k, 0, o).status = "PENDING" /\ NewOperation(c, k, 0, o).owner = None
      BY <1>3, NewOperationIs, Z3
    <2> QED
      BY <2>1
  <1>6. Selected(n, c) /\ decided' = o /\ Len(operations) < MaxOps
    BY <1>4, <1>5 DEF reconcile_composition, Admits
  <1>8. /\ operations' = Append(operations, n) /\ environment' \in Selections
        /\ environment'.composition = c /\ environment'.operation = Len(operations) + 1
    BY <1>3, <1>6, SelectedIs
  <1> QED
    BY <1>1, <1>2, <1>4, <1>5, <1>6, <1>8, AppendStep

LEMMA update_environment_featureOK ==
    ASSUME Inv, NEW i \in Integrations, NEW r \in 1..revisions[i],
           update_environment_feature(i, r)
    PROVE  Inv' /\ Progresses
  <1>1. PICK old \in 1..Len(compositions) : old = environment.composition
    <2>1. environment.composition # 0 /\ environment.composition \in 0..Len(compositions)
      BY DEF update_environment_feature, Inv, SelectionOK
    <2>2. Len(compositions) \in Nat
      BY LenProperties DEF Inv, TypeOK
    <2> QED
      BY <2>1, <2>2
  <1>2. PICK p \in Plans : p = planned(planFeatureUpdate(i, r), FALSE)
    <2>1. compositions[old].revision \in [Integrations -> Nat] /\ r \in Nat
      BY CompositionIs
    <2>2. planFeatureUpdate(i, r) \in [Integrations -> Nat]
      BY <1>1, <2>1 DEF planFeatureUpdate
    <2> QED
      BY <2>2 DEF planned, Plans
  <1>3. compositions' = Append(compositions, p)
    BY <1>2 DEF update_environment_feature
  <1>4. PICK c \in Nat : c = Len(compositions) + 1 /\ c \in 1..Len(compositions')
    BY <1>3, PlanAppends
  <1>5. PICK o \in Nat : o = Len(operations) + 1
    BY LenProperties DEF Inv, TypeOK
  <1>6. PICK n \in OperationRecord :
           /\ n = NewOperation(c, 0, 0, o)
           /\ n.composition = c /\ n.origin = o /\ n.status = "PENDING" /\ n.owner = None
    <2>1. /\ NewOperation(c, 0, 0, o) \in OperationRecord
          /\ NewOperation(c, 0, 0, o).composition = c /\ NewOperation(c, 0, 0, o).origin = o
          /\ NewOperation(c, 0, 0, o).status = "PENDING" /\ NewOperation(c, 0, 0, o).owner = None
      BY NewOperationIs, Z3
    <2> QED
      BY <2>1
  <1>7. Selected(n, c) /\ decided' = o /\ receipt' = o /\ Len(operations) < MaxOps
    BY <1>4, <1>5, <1>6 DEF update_environment_feature, Admits
  <1>8. /\ receipt' \in Nat /\ refresh' \in {refresh, None}
        /\ UNCHANGED <<revisions, conflicts, refs, generated, wire, tick, events, posted>>
    BY <1>7 DEF update_environment_feature
  <1>9. /\ operations' = Append(operations, n) /\ environment' \in Selections
        /\ environment'.composition = c /\ environment'.operation = Len(operations) + 1
    BY <1>7, SelectedIs
  <1>10. compositions' \in Seq(Plans) /\ PlansKept
    BY <1>3, PlanAppends
  <1> QED
    BY <1>4, <1>5, <1>6, <1>7, <1>8, <1>9, <1>10, AppendStep

\* A refresh that is admitted was read of the selection that is still there.
LEMMA SubmitRefreshOK ==
    ASSUME Inv, SubmitRefresh
    PROVE  Inv' /\ Progresses
  <1>1. /\ refresh # None /\ refresh' = None
        /\ UNCHANGED <<revisions, conflicts, refs, generated, wire, tick, receipt, events,
                       posted, decided>>
    BY DEF SubmitRefresh
  <1>2. CASE UNCHANGED <<operations, compositions, environment>>
    <2>1. TypeOK' /\ RefreshOK'
      BY <1>1, <1>2 DEF Inv, TypeOK, Ops, OpIds, Targets, RevisionIds, RefreshOK
    <2> QED
      BY <1>1, <1>2, <2>1, OperationsStay
  <1>3. CASE ~UNCHANGED <<operations, compositions, environment>>
    <2>1. PICK parent : parent = refresh.token.operation
      OBVIOUS
    <2>2. PICK scope \in SUBSET Integrations : scope = refresh.scope
      <3>1. refresh \in [token : Selections, scope : SUBSET Integrations]
        BY <1>1 DEF Inv, TypeOK
      <3> QED
        BY <3>1
    <2>3. PICK c : c = Len(compositions) + 1
      OBVIOUS
    <2>4. /\ Admits /\ environment = refresh.token
          /\ selectedIntegrations(operations[parent].composition) = scope
          /\ compositions' = Append(compositions, planned(Latest(scope), TRUE))
          /\ Selected(NewOperation(c, 0, parent, operations[parent].origin), c)
      BY <1>3, <2>1, <2>2, <2>3 DEF SubmitRefresh, checkSelection, selectionToken
    <2>5. PICK p \in Plans : /\ p = planned(Latest(scope), TRUE)
                             /\ {i \in Integrations : p.revision[i] # 0} = scope
      BY LatestIs
    <2>6. /\ compositions' \in Seq(Plans) /\ PlansKept
          /\ c \in Nat /\ c \in 1..Len(compositions') /\ compositions'[c] = p
      <3>1. compositions' = Append(compositions, p)
        BY <2>4, <2>5
      <3> QED
        BY <2>3, <3>1, PlanAppends
    <2>7. /\ environment.operation = parent /\ parent # 0 /\ parent \in Ops
          /\ decided \in Ops /\ operations[parent].origin = decided
          /\ environment.composition = operations[parent].composition
          /\ selectedIntegrations(environment.composition) =
                 selectedIntegrations(operations[decided].composition)
      BY <1>1, <2>1, <2>4 DEF Inv, RefreshOK, SelectionOK
    <2>8. PICK d \in Ops : d = decided /\ d \in Nat /\ parent \in Nat
      BY <2>7, OperationIs
    <2>9. PICK n \in OperationRecord :
             /\ n = NewOperation(c, 0, parent, d)
             /\ n.composition = c /\ n.origin = d /\ n.status = "PENDING" /\ n.owner = None
      <3>1. /\ NewOperation(c, 0, parent, d) \in OperationRecord
            /\ NewOperation(c, 0, parent, d).composition = c /\ NewOperation(c, 0, parent, d).origin = d
            /\ NewOperation(c, 0, parent, d).status = "PENDING" /\ NewOperation(c, 0, parent, d).owner = None
        BY <2>6, <2>8, NewOperationIs, Z3
      <3> QED
        BY <3>1
    <2>10. Selected(n, c) /\ Len(operations) < MaxOps
      BY <2>4, <2>7, <2>8, <2>9 DEF Admits
    <2>11. /\ operations' = Append(operations, n) /\ environment' \in Selections
           /\ environment'.composition = c /\ environment'.operation = Len(operations) + 1
      BY <2>6, <2>10, SelectedIs
    <2>12. selectedIntegrations(c)' = scope
      BY <2>5, <2>6 DEF selectedIntegrations
    <2>13. scope = selectedIntegrations(operations[d].composition)
      BY <2>4, <2>7, <2>8
    <2>14. selectedIntegrations(n.composition)' = selectedIntegrations(operations[d].composition)
      BY <2>9, <2>12, <2>13 DEF selectedIntegrations
    <2>15. receipt' \in Nat /\ decided' = d
      BY <1>1, <2>8 DEF Inv, TypeOK
    <2> QED
      BY <1>1, <2>6, <2>8, <2>9, <2>10, <2>11, <2>14, <2>15, AppendStep
  <1> QED
    BY <1>2, <1>3

LEMMA ReadForRefreshOK ==
    ASSUME Inv, ReadForRefresh
    PROVE  Inv' /\ Progresses
  <1>1. /\ environment.operation # 0
        /\ UNCHANGED <<operations, compositions, environment, revisions, conflicts, refs, generated,
                       wire, tick, receipt, events, posted, decided>>
    BY DEF ReadForRefresh
  <1>2. PICK c : c = environment.composition
    OBVIOUS
  <1>3. PICK scope \in SUBSET Integrations : scope = selectedIntegrations(c)
    BY DEF selectedIntegrations
  <1>4. PICK token \in Selections : token = environment
    BY DEF Inv, TypeOK
  <1>5. refresh' = [token |-> token, scope |-> scope]
    BY <1>2, <1>3, <1>4 DEF ReadForRefresh, selectionToken
  <1>6. TypeOK' /\ RefreshOK'
    BY <1>1, <1>4, <1>5 DEF Inv, TypeOK, Ops, OpIds, Targets, RevisionIds, RefreshOK
  <1> QED
    BY <1>1, <1>6, OperationsStay

\* A person selects a plan, and no operation carries it out.
LEMMA select_compositionOK ==
    ASSUME Inv, NEW c \in 1..Len(compositions), select_composition(c)
    PROVE  Inv' /\ Progresses
  <1>1. /\ UNCHANGED <<operations, compositions, revisions, conflicts, refs, generated, wire, tick,
                       refresh, receipt, events, posted>>
        /\ decided' = 0
        /\ environment' = [composition |-> c, operation |-> 0,
                           generation |-> environment.generation + 1]
    BY DEF select_composition
  <1>2. c \in Nat /\ environment.generation \in Nat
    BY DEF Inv, TypeOK, Selections
  <1>3. TypeOK' /\ Ops' = Ops /\ PlansKept
    BY <1>1, <1>2, NothingReplanned DEF Inv, TypeOK, Selections, Ops, OpIds, Targets, RevisionIds
  <1>4. environment'.operation = 0 /\ environment'.composition \in 0..Len(compositions')
    BY <1>1
  <1>5. SelectionOK' /\ RefreshOK'
    BY <1>1, <1>4 DEF SelectionOK, Inv, RefreshOK
  <1>6. ASSUME NEW u \in Servers
        PROVE  TickOK(u, tick[u])'
    BY <1>1, <1>3, TickStays DEF SamePlan, Untouched, Inv, TickOK, CopyOK, NextTarget, Retention,
                                 selectedIntegrations
  <1>7. ASSUME NEW p \in Ops'
        PROVE  OperationOK(p, operations[p])'
    <2>1. p \in Ops /\ OperationOK(p, operations[p])
      BY <1>3, OperationIs
    <2> QED
      BY <1>1, <2>1 DEF OperationOK, PostedOK, Targets, RevisionIds, Settled, Over, NextTarget,
                        Retention, selectedIntegrations
  <1>8. Len(operations') <= MaxOps /\ \A p \in OpIds' \ Ops', x \in Targets' : posted'[<<p, x>>] = 0
    BY <1>1, <1>3 DEF Inv, OpIds, Targets, RevisionIds
  <1>9. Progresses
    BY <1>1 DEF Progresses, Progress
  <1> QED
    BY <1>3, <1>5, <1>6, <1>7, <1>8, <1>9 DEF Inv

-----------------------------------------------------------------------------
(***************************************************************************)
(* Conflicts, the provider, children, time and faults                      *)
(***************************************************************************)

LEMMA EventIs ==
    ASSUME Inv
    PROVE  events \in Nat /\ (Event => events' \in Nat)
  BY DEF Inv, TypeOK, Event

\* What happens to revisions, conflict records and the provider.
LEMMA QuietStep ==
    ASSUME Inv, UNCHANGED <<operations, compositions, environment, tick, refresh, receipt, posted,
                            decided>>,
           revisions' \in [Integrations -> Nat \ {0}],
           conflicts' \in [OpIds -> [status : {"none", "requires_resolution", "claimed",
                                               "verification_required", "resolved"},
                                     passed : BOOLEAN]],
           refs' \in [RevisionIds -> {"none", "exact", "moved"}],
           generated' \in [OpIds -> {"none", "done", "moved"}],
           wire' \subseteq wire, events' \in Nat
    PROVE  Inv' /\ Progresses
  <1>1. TypeOK' /\ RefreshOK'
    BY DEF Inv, TypeOK, Ops, OpIds, Targets, RevisionIds, RefreshOK
  <1> QED
    BY <1>1, OperationsStay

LEMMA record_integration_revisionOK ==
    ASSUME Inv, NEW i \in Integrations, record_integration_revision(i)
    PROVE  Inv' /\ Progresses
  <1>1. PICK r \in Nat \ {0} : r = revisions[i] + 1
    BY DEF Inv, TypeOK
  <1>2. revisions' = [revisions EXCEPT ![i] = r]
    BY <1>1 DEF record_integration_revision
  <1>3. revisions' \in [Integrations -> Nat \ {0}]
    BY <1>2 DEF Inv, TypeOK
  <1>4. /\ UNCHANGED <<operations, compositions, environment, conflicts, refs, generated, wire, tick,
                       refresh, receipt, posted, decided>>
        /\ events' \in Nat
    BY EventIs DEF record_integration_revision
  <1>5. /\ conflicts' \in [OpIds -> [status : {"none", "requires_resolution", "claimed",
                                               "verification_required", "resolved"},
                                     passed : BOOLEAN]]
        /\ refs' \in [RevisionIds -> {"none", "exact", "moved"}]
        /\ generated' \in [OpIds -> {"none", "done", "moved"}] /\ wire' \subseteq wire
    BY <1>4 DEF Inv, TypeOK
  <1> QED
    BY <1>3, <1>4, <1>5, QuietStep

LEMMA ConflictsOK ==
    ASSUME Inv, NEW o \in Ops,
           \/ claim_composition_conflict(o) \/ record_conflict_resolution(o)
           \/ verify_conflict_resolution(o)
           \/ \E passed \in BOOLEAN : RecordResult(o, passed)
    PROVE  Inv' /\ Progresses
  <1>1. /\ UNCHANGED <<operations, compositions, environment, revisions, refs, generated, wire, tick,
                       refresh, receipt, posted, decided>>
        /\ events' \in {events, events + 1}
    BY DEF claim_composition_conflict, record_conflict_resolution, verify_conflict_resolution,
           Advance, RecordResult
  <1>2. conflicts' \in [OpIds -> [status : {"none", "requires_resolution", "claimed",
                                            "verification_required", "resolved"},
                                  passed : BOOLEAN]]
    <2>1. \/ \E to \in {"claimed", "verification_required", "resolved"} :
                conflicts' = [conflicts EXCEPT ![o].status = to]
          \/ \E passed \in BOOLEAN : conflicts' = [conflicts EXCEPT ![o].passed = passed]
      BY DEF claim_composition_conflict, record_conflict_resolution, verify_conflict_resolution,
             Advance, RecordResult
    <2>2. conflicts \in [OpIds -> [status : {"none", "requires_resolution", "claimed",
                                             "verification_required", "resolved"},
                                   passed : BOOLEAN]]
      BY DEF Inv, TypeOK
    <2> QED
      BY <2>1, <2>2
  <1>3. events' \in Nat
    BY <1>1, EventIs
  <1>4. /\ revisions' \in [Integrations -> Nat \ {0}]
        /\ refs' \in [RevisionIds -> {"none", "exact", "moved"}]
        /\ generated' \in [OpIds -> {"none", "done", "moved"}] /\ wire' \subseteq wire
    BY <1>1 DEF Inv, TypeOK
  <1> QED
    BY <1>1, <1>2, <1>3, <1>4, QuietStep

LEMMA ProviderOK ==
    ASSUME Inv, (\E w \in wire : Arrives(w)) \/ (\E r \in RevisionIds : Tamper(r))
    PROVE  Inv' /\ Progresses
  <1>1. /\ UNCHANGED <<operations, compositions, environment, revisions, conflicts, tick, refresh,
                       receipt, posted, decided>>
        /\ wire' \subseteq wire /\ events' \in Nat
    BY EventIs DEF Arrives, Tamper
  <1>2. refs' \in [RevisionIds -> {"none", "exact", "moved"}]
    <2>1. \/ refs' = refs
          \/ \E r : refs' = [refs EXCEPT ![r] = IF @ = "none" THEN "exact" ELSE @]
          \/ \E r : refs' = [refs EXCEPT ![r] = "moved"]
      BY DEF Arrives, Tamper
    <2>2. refs \in [RevisionIds -> {"none", "exact", "moved"}]
      BY DEF Inv, TypeOK
    <2> QED
      BY <2>1, <2>2
  <1>3. generated' \in [OpIds -> {"none", "done", "moved"}]
    <2>1. \/ generated' = generated
          \/ \E o : generated' = [generated EXCEPT ![o] = IF @ = "none" THEN "done" ELSE @]
          \/ \E o : generated' = [generated EXCEPT ![o] = "moved"]
      BY DEF Arrives, Tamper
    <2>2. generated \in [OpIds -> {"none", "done", "moved"}]
      BY DEF Inv, TypeOK
    <2> QED
      BY <2>1, <2>2
  <1>4. /\ revisions' \in [Integrations -> Nat \ {0}]
        /\ conflicts' \in [OpIds -> [status : {"none", "requires_resolution", "claimed",
                                               "verification_required", "resolved"},
                                     passed : BOOLEAN]]
    BY <1>1 DEF Inv, TypeOK
  <1> QED
    BY <1>1, <1>2, <1>3, <1>4, QuietStep

LEMMA CrashOK ==
    ASSUME Inv, NEW s \in Servers, Crash(s)
    PROVE  Inv' /\ Progresses
  <1>1. /\ Ends(s) /\ events' \in Nat
        /\ UNCHANGED <<operations, compositions, environment, revisions, conflicts, refs, generated,
                       wire, refresh, receipt, posted, decided>>
    BY EventIs DEF Crash
  <1>2. wire' \subseteq Ops \X (Revisions \union {None})
    BY <1>1 DEF Inv, TypeOK
  <1> QED
    BY <1>1, <1>2, TickEnds

\* A change of what no Tick saves.
LEMMA FieldChanges ==
    ASSUME Inv, NEW o \in Ops, NEW n \in OperationRecord,
           operations' = [operations EXCEPT ![o] = n],
           SamePlan(operations[o], n), Progress(operations[o], n),
           n.status = operations[o].status, n.owner = operations[o].owner,
           \A u \in Servers : Untouched(u, operations[o], n),
           n.intent = operations[o].intent, n.retained = operations[o].retained,
           events' \in Nat,
           UNCHANGED <<compositions, environment, revisions, conflicts, refs, generated, wire, tick,
                       refresh, receipt, posted, decided>>
    PROVE  Inv' /\ Progresses
  <1>1. Over(n) => n.owner = None
    BY OperationIs DEF OperationOK, Over
  <1>2. /\ posted' \in [OpIds \X Targets -> Nat]
        /\ \A p \in OpIds, x \in Targets : p # o => posted'[<<p, x>>] = posted[<<p, x>>]
        /\ \A x \in Targets :
             /\ posted'[<<o, x>>] <= 1
             /\ posted'[<<o, x>>] # 0 => Settled(n, x) \/ (n.intent /\ x = NextTarget(n, o))
    BY PostedStays
  <1>3. /\ tick' \in [Servers -> TickRecord]
        /\ wire' \subseteq Ops \X (Revisions \union {None})
        /\ conflicts' \in [OpIds -> [status : {"none", "requires_resolution", "claimed",
                                               "verification_required", "resolved"},
                                     passed : BOOLEAN]]
        /\ \A u \in Servers : tick'[u] = tick[u]
    BY DEF Inv, TypeOK
  <1> QED
    BY <1>1, <1>2, <1>3, OneChanges

LEMMA ChildrenOK ==
    ASSUME Inv, NEW o \in Ops, NEW from \in Children \ {"none"}, NEW to \in Children \ {"none"},
           Child(o, from, to)
    PROVE  Inv' /\ Progresses
  <1>1. PICK k \in OperationRecord : k = operations[o]
    BY OperationIs
  <1>2. PICK n \in OperationRecord : n = [k EXCEPT !.child = to]
    BY DEF OperationRecord
  <1>3. /\ n.child = to /\ n.status = k.status /\ n.owner = k.owner /\ n.phase = k.phase
        /\ n.composition = k.composition /\ n.origin = k.origin
        /\ n.retained = k.retained /\ n.result = k.result /\ n.intent = k.intent
    BY <1>2 DEF OperationRecord
  <1>4. operations' = [operations EXCEPT ![o] = n]
    <2>1. operations \in Seq(OperationRecord)
      BY DEF Inv, TypeOK
    <2> QED
      BY <1>1, <1>2, <2>1 DEF Child, Ops
  <1>5. /\ SamePlan(operations[o], n) /\ Progress(operations[o], n)
        /\ \A u \in Servers : Untouched(u, operations[o], n)
    BY <1>1, <1>3 DEF SamePlan, Progress, Untouched
  <1>6. /\ UNCHANGED <<compositions, environment, revisions, conflicts, refs, generated, wire, tick,
                       refresh, receipt, posted, decided>>
        /\ events' \in Nat
    BY EventIs DEF Child, StoreOnly
  <1> QED
    BY <1>1, <1>3, <1>4, <1>5, <1>6, FieldChanges

LEMMA LeaseEndsOK ==
    ASSUME Inv, NEW o \in Ops, LeaseEnds(o)
    PROVE  Inv' /\ Progresses
  <1>1. PICK k \in OperationRecord : k = operations[o]
    BY OperationIs
  <1>2. PICK n \in OperationRecord : n = [k EXCEPT !.live = FALSE]
    BY DEF OperationRecord
  <1>3. /\ n.child = k.child /\ n.status = k.status /\ n.owner = k.owner /\ n.phase = k.phase
        /\ n.composition = k.composition /\ n.origin = k.origin
        /\ n.retained = k.retained /\ n.result = k.result /\ n.intent = k.intent
    BY <1>2 DEF OperationRecord
  <1>4. operations' = [operations EXCEPT ![o] = n]
    <2>1. operations \in Seq(OperationRecord)
      BY DEF Inv, TypeOK
    <2> QED
      BY <1>1, <1>2, <2>1 DEF LeaseEnds, Ops
  <1>5. /\ SamePlan(operations[o], n) /\ Progress(operations[o], n)
        /\ \A u \in Servers : Untouched(u, operations[o], n)
    BY <1>1, <1>3 DEF SamePlan, Progress, Untouched
  <1>6. UNCHANGED <<compositions, environment, revisions, conflicts, refs, generated, wire, tick,
                    refresh, receipt, posted, decided>>
    BY DEF LeaseEnds
  <1>7. events' \in Nat
    <2>1. events' \in {events, events + 1}
      BY DEF LeaseEnds
    <2> QED
      BY <2>1, EventIs
  <1> QED
    BY <1>1, <1>3, <1>4, <1>5, <1>6, <1>7, FieldChanges

\* A change of every operation that keeps what the Ticks know, or takes the
\* leases away.
LEMMA AllChange ==
    ASSUME Inv, NEW new \in [Ops -> OperationRecord], operations' = new,
           \A o \in Ops :
              /\ SamePlan(operations[o], new[o]) /\ Progress(operations[o], new[o])
              /\ Over(new[o]) => new[o].owner = None
              /\ new[o].intent = operations[o].intent /\ new[o].retained = operations[o].retained
              /\ \A u \in Servers : Untouched(u, operations[o], new[o]),
           events' \in Nat,
           UNCHANGED <<compositions, environment, revisions, conflicts, refs, generated, wire, tick,
                       refresh, receipt, posted, decided>>
    PROVE  Inv' /\ Progresses
  <1>1. Len(operations) \in Nat
    BY LenProperties DEF Inv, TypeOK
  <1>2. new \in [1..Len(operations) -> OperationRecord]
    BY DEF Ops
  <1>3. operations' \in Seq(OperationRecord) /\ Len(operations') = Len(operations)
    BY <1>1, <1>2
  <1>4. Ops' = Ops /\ PlansKept
    BY <1>3, NothingReplanned DEF Ops
  <1>5. TypeOK'
    BY <1>3, <1>4 DEF Inv, TypeOK, OpIds, Targets, RevisionIds
  <1>6. ASSUME NEW p \in Ops, NEW x \in Targets
        PROVE  /\ posted'[<<p, x>>] <= 1
               /\ posted'[<<p, x>>] # 0 =>
                    \/ Settled(operations'[p], x)
                    \/ operations'[p].intent /\ x = NextTarget(operations'[p], p)
    <2>1. new[p] \in OperationRecord
      OBVIOUS
    <2>2. Progress(operations[p], new[p]) /\ new[p].intent = operations[p].intent
          /\ new[p].retained = operations[p].retained
      OBVIOUS
    <2>3. \A y \in Targets :
             /\ posted'[<<p, y>>] <= 1
             /\ posted'[<<p, y>>] # 0 => Settled(new[p], y) \/ (new[p].intent /\ y = NextTarget(new[p], p))
      BY <2>1, <2>2, PostedStays
    <2> QED
      BY <2>3
  <1>7. ASSUME NEW u \in Servers
        PROVE  TickOK(u, tick[u])'
    BY <1>4, TickStays
  <1>8. RefreshOK' /\ \A p \in OpIds \ Ops, x \in Targets : posted'[<<p, x>>] = 0
    BY DEF Inv, RefreshOK
  <1> QED
    BY <1>3, <1>5, <1>6, <1>7, <1>8, Frame

LEMMA ReconfigureOK ==
    ASSUME Inv, Reconfigure
    PROVE  Inv' /\ Progresses
  <1> DEFINE new == [o \in Ops |-> [operations[o] EXCEPT !.frozen = FALSE]]
  <1>1. ASSUME NEW o \in Ops
        PROVE  /\ new[o] \in OperationRecord
               /\ SamePlan(operations[o], new[o]) /\ Progress(operations[o], new[o])
               /\ Over(new[o]) => new[o].owner = None
               /\ new[o].intent = operations[o].intent /\ new[o].retained = operations[o].retained
               /\ \A u \in Servers : Untouched(u, operations[o], new[o])
    <2>1. PICK k \in OperationRecord : k = operations[o] /\ OperationOK(o, k)
      BY OperationIs
    <2>2. PICK n \in OperationRecord : n = [k EXCEPT !.frozen = FALSE]
      BY DEF OperationRecord
    <2>3. new[o] = n
      BY <2>1, <2>2
    <2>4. /\ n.child = k.child /\ n.status = k.status /\ n.owner = k.owner /\ n.phase = k.phase
          /\ n.composition = k.composition /\ n.origin = k.origin
          /\ n.retained = k.retained /\ n.result = k.result /\ n.intent = k.intent
      BY <2>2 DEF OperationRecord
    <2>5. /\ SamePlan(k, n) /\ Progress(k, n) /\ (Over(n) => n.owner = None)
          /\ \A u \in Servers : Untouched(u, k, n)
      BY <2>1, <2>4 DEF SamePlan, Progress, Untouched, OperationOK, Over
    <2> HIDE DEF new
    <2> QED
      BY <2>1, <2>3, <2>4, <2>5
  <1>2. new \in [Ops -> OperationRecord]
    BY <1>1
  <1>3. operations' = new
    BY DEF Reconfigure
  <1>4. /\ events' \in Nat
        /\ UNCHANGED <<compositions, environment, revisions, conflicts, refs, generated, wire, tick,
                       refresh, receipt, posted, decided>>
    BY EventIs DEF Reconfigure
  <1> HIDE DEF new
  <1> QED
    BY <1>1, <1>2, <1>3, <1>4, AllChange

LEMMA RestoreBackupOK ==
    ASSUME Inv, RestoreBackup
    PROVE  Inv' /\ Progresses
  <1> DEFINE cut(o) == [operations[o] EXCEPT !.current = FALSE,
                            !.child = IF @ \in {"PENDING", "APPLYING"} THEN "FAILED" ELSE @]
             new == [o \in Ops |-> IF terminalOperation(o) THEN cut(o)
                                   ELSE [cut(o) EXCEPT !.status = "CANCELLED", !.owner = None,
                                                       !.live = FALSE]]
  <1>1. ASSUME NEW o \in Ops
        PROVE  /\ new[o] \in OperationRecord
               /\ SamePlan(operations[o], new[o]) /\ Progress(operations[o], new[o])
               /\ Over(new[o]) => new[o].owner = None
               /\ new[o].intent = operations[o].intent /\ new[o].retained = operations[o].retained
               /\ \A u \in Servers : Untouched(u, operations[o], new[o])
    <2>1. PICK k \in OperationRecord : k = operations[o] /\ OperationOK(o, k)
      BY OperationIs
    <2>2. PICK child \in Children :
             /\ child = IF k.child \in {"PENDING", "APPLYING"} THEN "FAILED" ELSE k.child
             /\ k.child # "none" => child # "none"
      BY DEF OperationRecord, Children
    <2>3. PICK m \in OperationRecord : m = [k EXCEPT !.current = FALSE, !.child = child]
      BY DEF OperationRecord
    <2>4. cut(o) = m
      BY <2>1, <2>2, <2>3 DEF OperationRecord
    <2>5. /\ m.child = child /\ m.status = k.status /\ m.owner = k.owner /\ m.phase = k.phase
          /\ m.composition = k.composition /\ m.origin = k.origin
          /\ m.retained = k.retained /\ m.result = k.result /\ m.intent = k.intent
      BY <2>3 DEF OperationRecord
    <2> HIDE DEF cut
    <2>6. CASE terminalOperation(o)
      <3>1. new[o] = m
        BY <2>4, <2>6
      <3>2. /\ SamePlan(k, m) /\ Progress(k, m) /\ (Over(m) => m.owner = None)
            /\ \A u \in Servers : Untouched(u, k, m)
        BY <2>1, <2>2, <2>5 DEF SamePlan, Progress, Untouched, OperationOK, Over
      <3> HIDE DEF new
      <3> QED
        BY <2>1, <2>5, <3>1, <3>2
    <2>7. CASE ~terminalOperation(o)
      <3>1. PICK n \in OperationRecord :
               n = [m EXCEPT !.status = "CANCELLED", !.owner = None, !.live = FALSE]
        BY DEF OperationRecord
      <3>2. new[o] = n
        BY <2>4, <2>7, <3>1
      <3>3. /\ n.child = child /\ n.status = "CANCELLED" /\ n.owner = None
            /\ n.composition = k.composition /\ n.origin = k.origin
            /\ n.retained = k.retained /\ n.result = k.result /\ n.intent = k.intent
        BY <2>5, <3>1 DEF OperationRecord
      <3>4. ~Over(k)
        BY <2>1, <2>7 DEF terminalOperation, Over
      <3>5. /\ SamePlan(k, n) /\ Progress(k, n)
            /\ \A u \in Servers : Untouched(u, k, n)
        BY <2>2, <3>3, <3>4, NoneIsNobody DEF SamePlan, Progress, Untouched
      <3> HIDE DEF new
      <3> QED
        BY <2>1, <3>2, <3>3, <3>5
    <2> QED
      BY <2>6, <2>7
  <1>2. new \in [Ops -> OperationRecord]
    BY <1>1
  <1>3. operations' = new
    BY DEF RestoreBackup
  <1>4. /\ events' \in Nat
        /\ UNCHANGED <<compositions, environment, revisions, conflicts, refs, generated, wire, tick,
                       refresh, receipt, posted, decided>>
    BY EventIs DEF RestoreBackup
  <1> HIDE DEF new
  <1> QED
    BY <1>1, <1>2, <1>3, <1>4, AllChange

-----------------------------------------------------------------------------
(***************************************************************************)
(* The specification                                                       *)
(***************************************************************************)

LEMMA InitOK == Init => Inv
  <1> SUFFICES ASSUME Init
               PROVE  Inv
    OBVIOUS
  <1>1. operations \in Seq(OperationRecord) /\ Len(operations) = 0 /\ Ops = {}
    BY DEF Init, Ops
  <1>2. compositions \in Seq(Plans) /\ Len(compositions) = 0
    BY DEF Init
  <1>3. environment \in Selections /\ revisions \in [Integrations -> Nat \ {0}]
    BY DEF Init, Selections
  <1>4. /\ conflicts \in [OpIds -> [status : {"none", "requires_resolution", "claimed",
                                              "verification_required", "resolved"},
                                    passed : BOOLEAN]]
        /\ refs \in [RevisionIds -> {"none", "exact", "moved"}]
        /\ generated \in [OpIds -> {"none", "done", "moved"}]
        /\ posted \in [OpIds \X Targets -> Nat]
    BY DEF Init
  <1>5. /\ tick \in [Servers -> TickRecord]
        /\ \A s \in Servers : tick[s].step = "IDLE"
    BY IdleIs DEF Init
  <1>6. /\ wire \subseteq Ops \X (Revisions \union {None})
        /\ refresh \in [token : Selections, scope : SUBSET Integrations] \union {None}
        /\ receipt \in Nat /\ decided \in Nat /\ events \in Nat
    BY DEF Init
  <1>7. TypeOK
    BY <1>1, <1>2, <1>3, <1>4, <1>5, <1>6 DEF TypeOK
  <1>8. \A o \in OpIds \ Ops, t \in Targets : posted[<<o, t>>] = 0
    BY DEF Init
  <1>9. SelectionOK /\ RefreshOK
    BY <1>2 DEF Init, SelectionOK, RefreshOK
  <1>10. Len(operations) <= MaxOps
    BY <1>1, CompositionAssumption
  <1> QED
    BY <1>1, <1>5, <1>7, <1>8, <1>9, <1>10 DEF Inv, TickOK

LEMMA PeopleOK ==
    ASSUME Inv, People
    PROVE  Inv' /\ Progresses
  <1>1. CASE \E scope \in SUBSET Integrations : assemble_environment(scope)
    BY <1>1, assemble_environmentOK
  <1>2. CASE \E c \in 1..Len(compositions), k \in Ops \union {0} : reconcile_composition(c, k)
    BY <1>2, reconcile_compositionOK
  <1>3. CASE \E c \in 1..Len(compositions) : select_composition(c)
    BY <1>3, select_compositionOK
  <1>4. CASE \E i \in Integrations : record_integration_revision(i)
    BY <1>4, record_integration_revisionOK
  <1>5. CASE \E i \in Integrations : \E r \in 1..revisions[i] : update_environment_feature(i, r)
    BY <1>5, update_environment_featureOK
  <1>6. CASE \E o \in Ops : \/ claim_composition_conflict(o) \/ record_conflict_resolution(o)
                            \/ verify_conflict_resolution(o)
                            \/ \E passed \in BOOLEAN : RecordResult(o, passed)
    BY <1>6, ConflictsOK
  <1> QED
    BY <1>1, <1>2, <1>3, <1>4, <1>5, <1>6 DEF People

LEMMA ServerOK ==
    ASSUME Inv, NEW s \in Servers, Server(s)
    PROVE  Inv' /\ Progresses
  <1>1. CASE \E o \in Ops : Claim(s, o)
    BY <1>1, ClaimOK
  <1>2. CASE finish(s) \/ retry(s) \/ Unprepared(s) \/ Look(s)
    BY <1>2, EndsOK, UnpreparedOK, LookOK
  <1>3. CASE \/ beginReservationMutation(s) \/ reservationMutationRecovery(s)
             \/ admitSourceProgress(s) \/ admitSourceConflict(s)
    BY <1>3, beginReservationMutationOK, reservationMutationRecoveryOK, admitSourceProgressOK,
       admitSourceConflictOK
  <1>4. CASE \/ SourceReady(s) \/ VerifyForChildren(s) \/ queueFlowChildren(s)
             \/ WaitChildren(s) \/ WaitRuntime(s)
    BY <1>4, SourceReadyOK, VerifyForChildrenOK, queueFlowChildrenOK, WaitChildrenOK, WaitRuntimeOK
  <1> QED
    BY <1>1, <1>2, <1>3, <1>4 DEF Server

LEMMA OthersOK ==
    ASSUME Inv, Others
    PROVE  Inv' /\ Progresses
  <1>1. CASE ReadForRefresh \/ SubmitRefresh
    BY <1>1, ReadForRefreshOK, SubmitRefreshOK
  <1>2. CASE (\E w \in wire : Arrives(w)) \/ (\E r \in RevisionIds : Tamper(r))
    BY <1>2, ProviderOK
  <1>3. CASE \E o \in Ops : \/ ChildApplies(o) \/ ChildWaits(o) \/ ChildRefused(o)
                            \/ \E to \in {"SUCCEEDED", "FAILED"} : ChildEnds(o, to)
    <2>1. PICK o \in Ops, from \in Children \ {"none"}, to \in Children \ {"none"} : Child(o, from, to)
      BY <1>3 DEF ChildApplies, ChildWaits, ChildRefused, ChildEnds, Children
    <2> QED
      BY <2>1, ChildrenOK
  <1>4. CASE \E o \in Ops : LeaseEnds(o)
    BY <1>4, LeaseEndsOK
  <1>5. CASE \E s \in Servers : Crash(s)
    BY <1>5, CrashOK
  <1>6. CASE Reconfigure \/ RestoreBackup
    BY <1>6, ReconfigureOK, RestoreBackupOK
  <1> QED
    BY <1>1, <1>2, <1>3, <1>4, <1>5, <1>6 DEF Others

LEMMA StutterOK ==
    ASSUME Inv, UNCHANGED vars
    PROVE  Inv' /\ Progresses
  <1>1. UNCHANGED <<operations, compositions, environment, tick, refresh, receipt, posted, decided,
                    revisions, conflicts, refs, generated, wire, events>>
    BY DEF vars
  <1>2. /\ revisions' \in [Integrations -> Nat \ {0}]
        /\ conflicts' \in [OpIds -> [status : {"none", "requires_resolution", "claimed",
                                               "verification_required", "resolved"},
                                     passed : BOOLEAN]]
        /\ refs' \in [RevisionIds -> {"none", "exact", "moved"}]
        /\ generated' \in [OpIds -> {"none", "done", "moved"}]
        /\ wire' \subseteq wire /\ events' \in Nat
    BY <1>1 DEF Inv, TypeOK
  <1> QED
    BY <1>1, <1>2, QuietStep

LEMMA NextOK == Inv /\ [Next]_vars => Inv' /\ Progresses
  BY PeopleOK, ServerOK, OthersOK, StutterOK DEF Next

THEOREM InvHolds == Spec => []Inv
  <1>1. Inv /\ [Next]_vars => Inv'
    BY NextOK
  <1> QED
    BY <1>1, InitOK, PTL DEF Spec

(* Operations, plans, selections, conflict records, refs, writes and Ticks
   have the types the code gives them: operations and plans in a row, phases
   and steps that exist, writes under way only of operations there are.      *)
THEOREM TypeCorrect == Spec => []TypeOK
  <1>1. Inv => TypeOK
    BY DEF Inv
  <1> QED
    BY <1>1, InvHolds, PTL

(* No retained ref and no generated branch is written twice: a write that was
   sent is settled in the record or is the one its intent is about, and a Tick
   sends only what is neither.                                               *)
THEOREM WritesAreSentOnce == Spec => []WrittenOnce
  <1>1. Inv => WrittenOnce
    <2> SUFFICES ASSUME Inv, NEW o \in OpIds, NEW t \in Targets
                 PROVE  posted[<<o, t>>] <= 1
      BY DEF WrittenOnce
    <2>1. CASE o \in Ops
      BY <2>1, OperationIs DEF OperationOK, PostedOK
    <2>2. CASE o \notin Ops
      BY <2>2 DEF Inv
    <2> QED
      BY <2>1, <2>2
  <1> QED
    BY <1>1, InvHolds, PTL

(* What the environment wants descends from what a person chose last: a
   refresh is submitted with the selection it was read of, and is refused
   when a person has chosen since.                                           *)
THEOREM ChoicesStand == Spec => []PersonDecides
  <1>1. Inv => PersonDecides
    BY DEF Inv, SelectionOK, PersonDecides
  <1> QED
    BY <1>1, InvHolds, PTL

(* No save of an old copy takes back a retained ref, a composed result, the
   queued children or the end of an operation.                               *)
THEOREM ProgressStays == Spec => ProgressIsKept
  <1>1. Inv /\ [Next]_vars =>
          [\A o \in Ops :
              /\ operations[o].retained \subseteq operations'[o].retained
              /\ operations[o].result # "none" => operations'[o].result = operations[o].result
              /\ operations[o].child # "none" => operations'[o].child # "none"
              /\ terminalOperation(o) => operations'[o].status = operations[o].status]_vars
    BY NextOK DEF Progresses, Progress, Over, terminalOperation
  <1> QED
    BY <1>1, InvHolds, PTL DEF Spec, ProgressIsKept

===============================================================================
