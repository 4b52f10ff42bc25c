--------------------------- MODULE ReleaseFlowProofs ---------------------------
(***************************************************************************)
(* Proofs about ReleaseFlow, for every set of servers, clients and         *)
(* repositories and every number of operations, pushes and events.         *)
(***************************************************************************)
EXTENDS ReleaseFlow, FiniteSetTheorems, SequenceTheorems, TLAPS

-----------------------------------------------------------------------------
(***************************************************************************)
(* The inductive invariant                                                 *)
(***************************************************************************)

\* Main of repository r contains what operation op is built from.
OnMain(op, r) == IsPrefix(op.source[r], main[r])

PhasesOf(kind) ==
    CASE kind = "COMPOSED" -> {"COMPOSE_SOURCE", "ADVANCE_MAIN", "QUEUE_BUILDS", "WAIT_CHILDREN"}
      [] kind = "MAIN" -> {"QUEUE_BUILDS", "WAIT_CHILDREN"}
      [] kind = "PROMOTION" -> {"QUEUE_DEPLOYMENTS", "WAIT_CHILDREN", "WAIT_RUNTIME"}

\* Operation number o is op: it has advanced the mains it says it has, all of
\* them before anything is built, and nobody owns it when it is over.
OperationOK(o, op) ==
    /\ op.phase \in PhasesOf(op.kind)
    /\ op.status \in {"SUCCEEDED", "FAILED", "CANCELLED"} => op.owner = None
    /\ op.kind # "COMPOSED" => \A r \in Repositories : OnMain(op, r)
    /\ op.kind = "COMPOSED" =>
         /\ op.composed => op.source = [r \in Repositories |-> Append(op.base[r], o)]
         /\ ~op.composed => op.advanced = {}
         /\ op.phase # "COMPOSE_SOURCE" => op.composed
         /\ \A r \in op.advanced : OnMain(op, r)
         /\ \/ op.phase \in {"QUEUE_BUILDS", "WAIT_CHILDREN"} \/ op.child # "none"
            \/ op.status = "SUCCEEDED"
            => op.advanced = Repositories

\* A promotion deploys what its candidate was built from.
PromotionOK(op) ==
    op.kind = "PROMOTION" =>
      /\ op.candidate \in Ops
      /\ operations[op.candidate].kind = "COMPOSED"
      /\ operations[op.candidate].status = "SUCCEEDED"
      /\ op.source = operations[op.candidate].source

\* One candidate from main, and one promotion of a candidate.
KeysOK ==
    \A o, p \in Ops :
       operations[o].kind = operations[p].kind =>
         /\ operations[o].kind = "MAIN" => o = p
         /\ operations[o].kind = "PROMOTION" /\ operations[o].candidate = operations[p].candidate
              => o = p

\* What a Tick on operation op has looked at so far still holds.
TickFor(t, op) ==
    /\ t.step \in Phases => t.step \in PhasesOf(op.kind)
    /\ t.step = "OBSERVE" => op.kind = "MAIN"
    /\ t.step = "RELEASE" => op.kind = "PROMOTION"
    /\ t.step \in {"COMPOSED", "READ_MAIN", "READ_BACK", "ADVANCED"} => op.kind = "COMPOSED"
    /\ t.step \in {"ADVANCE_MAIN", "READ_MAIN", "READ_BACK", "ADVANCED"} => op.composed
    /\ t.step \in {"READ_MAIN", "READ_BACK", "ADVANCED"} => t.repository \in Repositories
    /\ t.step = "ADVANCED" => OnMain(op, t.repository)
    /\ t.step \in {"QUEUE_BUILDS", "WAIT_CHILDREN"} /\ op.kind = "COMPOSED"
         => op.composed /\ op.advanced = Repositories

TickOK(t) == t.step # "IDLE" => t.op \in Ops /\ TickFor(t, operations[t.op])

\* A request for a candidate from main has seen main.
RequestOK(op) ==
    op # None =>
      /\ op.kind = "MAIN" /\ op.phase = "QUEUE_BUILDS" /\ op.status = "PENDING"
      /\ op.child = "none"
      /\ \A r \in Repositories : OnMain(op, r)

ReleaseOK(q) ==
    /\ q.promotion \in Ops
    /\ operations[q.promotion].kind = "PROMOTION"
    /\ operations[q.promotion].status = "SUCCEEDED"
    /\ operations[q.promotion].candidate = q.candidate

PushesOK ==
    /\ IsFiniteSet(pushed)
    /\ \A p \in pushed : p[2] \in Range(main[p[1]])

Inv ==
    /\ TypeOK
    /\ \A o \in Ops : OperationOK(o, operations[o]) /\ PromotionOK(operations[o])
    /\ KeysOK
    /\ \A s \in Servers : TickOK(tick[s])
    /\ \A c \in Clients : RequestOK(request[c])
    /\ \A q \in releases : ReleaseOK(q)
    /\ PushesOK

-----------------------------------------------------------------------------
(***************************************************************************)
(* Sequences                                                               *)
(***************************************************************************)

\* A prefix agrees with what it is a prefix of wherever it is defined.
LEMMA PrefixMeans ==
    ASSUME NEW s \in Seq(Int), NEW t \in Seq(Int)
    PROVE  IsPrefix(s, t) <=> Len(s) <= Len(t) /\ \A i \in 1..Len(s) : s[i] = t[i]
  <1>1. Len(s) \in Nat /\ Len(t) \in Nat
    OBVIOUS
  <1>2. ASSUME Len(s) <= Len(t)
        PROVE  SubSeq(s, 1, Len(s)) = SubSeq(t, 1, Len(s)) <=> \A i \in 1..Len(s) : s[i] = t[i]
    <2>1. /\ SubSeq(s, 1, Len(s)) \in Seq(Int) /\ SubSeq(t, 1, Len(s)) \in Seq(Int)
          /\ Len(SubSeq(s, 1, Len(s))) = Len(s) /\ Len(SubSeq(t, 1, Len(s))) = Len(s)
          /\ \A i \in 1..Len(s) : SubSeq(s, 1, Len(s))[i] = s[i] /\ SubSeq(t, 1, Len(s))[i] = t[i]
      BY <1>1, <1>2
    <2> QED
      BY <1>1, <2>1, SeqEqual
  <1> QED
    BY <1>1, <1>2 DEF IsPrefix

LEMMA PrefixOfItself ==
    ASSUME NEW s \in Seq(Int)
    PROVE  IsPrefix(s, s)
  BY PrefixMeans

LEMMA PrefixTransitive ==
    ASSUME NEW s \in Seq(Int), NEW t \in Seq(Int), NEW u \in Seq(Int),
           IsPrefix(s, t), IsPrefix(t, u)
    PROVE  IsPrefix(s, u)
  <1>1. Len(s) \in Nat /\ Len(t) \in Nat /\ Len(u) \in Nat
    OBVIOUS
  <1>2. Len(s) <= Len(t) /\ \A i \in 1..Len(s) : s[i] = t[i]
    BY PrefixMeans
  <1>3. Len(t) <= Len(u) /\ \A i \in 1..Len(t) : t[i] = u[i]
    BY PrefixMeans
  <1>4. Len(s) <= Len(u) /\ \A i \in 1..Len(s) : s[i] = u[i]
    BY <1>1, <1>2, <1>3
  <1> QED
    BY <1>4, PrefixMeans

LEMMA PrefixOfAppend ==
    ASSUME NEW s \in Seq(Int), NEW e \in Int
    PROVE  Append(s, e) \in Seq(Int) /\ IsPrefix(s, Append(s, e)) /\ e \in Range(Append(s, e))
  <1>1. /\ Append(s, e) \in Seq(Int) /\ Len(Append(s, e)) = Len(s) + 1 /\ Len(s) \in Nat
        /\ \A i \in 1..Len(s) : Append(s, e)[i] = s[i]
        /\ Append(s, e)[Len(s) + 1] = e
    BY AppendProperties
  <1>2. IsPrefix(s, Append(s, e))
    <2>1. \A t \in Seq(Int) : Len(s) <= Len(t) /\ (\A i \in 1..Len(s) : s[i] = t[i]) => IsPrefix(s, t)
      BY PrefixMeans
    <2>2. /\ Append(s, e) \in Seq(Int) /\ Len(s) <= Len(Append(s, e))
          /\ \A i \in 1..Len(s) : s[i] = Append(s, e)[i]
      BY <1>1
    <2> QED
      BY <2>1, <2>2
  <1>3. e \in Range(Append(s, e))
    BY <1>1, LenProperties DEF Range
  <1> QED
    BY <1>1, <1>2, <1>3

\* Growing a sequence takes nothing out of it.
LEMMA PrefixRange ==
    ASSUME NEW s \in Seq(Int), NEW t \in Seq(Int), IsPrefix(s, t)
    PROVE  Range(s) \subseteq Range(t)
  <1>1. /\ Len(s) \in Nat /\ Len(t) \in Nat /\ Len(s) <= Len(t)
        /\ \A i \in 1..Len(s) : s[i] = t[i]
        /\ DOMAIN s = 1..Len(s) /\ DOMAIN t = 1..Len(t)
    BY PrefixMeans, LenProperties
  <1> QED
    BY <1>1 DEF Range

-----------------------------------------------------------------------------
(***************************************************************************)
(* Steps                                                                   *)
(***************************************************************************)

\* Every main stays or grows.
MainGrows == \A r \in Repositories : IsPrefix(main[r], main'[r])

\* What others rely on of an operation stays what it is.
Kept(op, new) ==
    /\ new.kind = op.kind /\ new.candidate = op.candidate
    /\ op.composed => new.composed /\ new.source = op.source
    /\ op.kind = "PROMOTION" \/ op.status = "SUCCEEDED" => new.source = op.source
    /\ op.status = "SUCCEEDED" => new.status = "SUCCEEDED"
    /\ op.advanced \subseteq new.advanced

\* What an operation keeps when only its phase or status moves on.
Same(op, n) ==
    /\ n.kind = op.kind /\ n.candidate = op.candidate /\ n.base = op.base
    /\ n.source = op.source /\ n.composed = op.composed

LEMMA MainStays ==
    ASSUME TypeOK, main' = main
    PROVE  MainGrows
  BY PrefixOfItself DEF TypeOK, Sources, MainGrows

LEMMA StaysOnMain ==
    ASSUME TypeOK, main' \in Sources, MainGrows, NEW r \in Repositories,
           NEW s \in Seq(Int), IsPrefix(s, main[r])
    PROVE  IsPrefix(s, main'[r])
  BY PrefixTransitive DEF TypeOK, Sources, MainGrows

\* Whatever keeps the operations and lets main grow keeps what was observed.
LEMMA Frame ==
    ASSUME Inv, TypeOK', MainGrows, Len(operations') >= Len(operations),
           \A o \in Ops : Kept(operations[o], operations'[o])
    PROVE  /\ \A s \in Servers : tick'[s] = tick[s] => TickOK(tick[s])'
           /\ \A c \in Clients : request'[c] \in {request[c], None} => RequestOK(request[c])'
           /\ \A q \in releases : ReleaseOK(q)'
           /\ \A o \in Ops : PromotionOK(operations[o])'
           /\ \A o \in Ops : operations'[o] = operations[o] => OperationOK(o, operations[o])'
           /\ pushed' = pushed => PushesOK'
  <1>1. /\ TypeOK /\ Ops \subseteq Ops' /\ main' \in Sources
        /\ \A o \in Ops : operations[o] \in OperationRecord
    <2>1. TypeOK /\ operations \in Seq(OperationRecord) /\ operations' \in Seq(OperationRecord)
      BY DEF Inv, TypeOK
    <2>2. Len(operations) \in Nat /\ Len(operations') \in Nat
      BY <2>1, LenProperties
    <2> QED
      BY <2>1, <2>2, ElementOfSeq DEF Ops, TypeOK
  <1>2. ASSUME NEW op \in OperationRecord, NEW r \in Repositories, OnMain(op, r)
        PROVE  OnMain(op, r)'
    <2>1. op.source[r] \in Seq(Int)
      BY DEF OperationRecord, Sources
    <2> QED
      BY <1>1, <1>2, <2>1, StaysOnMain DEF OnMain
  <1>3. ASSUME NEW s \in Servers, tick'[s] = tick[s]
        PROVE  TickOK(tick[s])'
    <2>1. SUFFICES ASSUME tick[s].step # "IDLE"
                   PROVE  TickOK(tick[s])'
      BY <1>3 DEF TickOK
    <2> DEFINE o == tick[s].op
    <2>2. /\ TickOK(tick[s]) /\ o \in Ops /\ o \in Ops' /\ Kept(operations[o], operations'[o])
          /\ operations[o] \in OperationRecord /\ operations'[o] \in OperationRecord
      BY <1>1, <2>1, ElementOfSeq DEF Inv, TickOK, TypeOK, Ops
    <2>3. ASSUME tick[s].step = "ADVANCED"
          PROVE  IsPrefix(operations'[o].source[tick[s].repository], main'[tick[s].repository])
      <3>1. /\ TickFor(tick[s], operations[o]) /\ tick[s].repository \in Repositories
            /\ operations[o].composed /\ OnMain(operations[o], tick[s].repository)
        BY <2>1, <2>2, <2>3 DEF TickOK, TickFor
      <3>2. operations'[o].source = operations[o].source
        BY <2>2, <3>1 DEF Kept
      <3>3. operations[o].source[tick[s].repository] \in Seq(Int)
        BY <2>2, <3>1 DEF OperationRecord, Sources
      <3> QED
        BY <1>1, <3>1, <3>2, <3>3, StaysOnMain DEF OnMain
    <2>4. operations[o].advanced = Repositories => operations'[o].advanced = Repositories
      BY <2>2 DEF Kept, OperationRecord
    <2>5. TickFor(tick[s], operations[o])
      BY <2>1, <2>2 DEF TickOK
    <2>6. TickFor(tick[s], operations[o])'
      BY <1>3, <2>2, <2>3, <2>4, <2>5 DEF TickFor, Kept, OnMain
    <2> QED
      BY <1>3, <2>2, <2>6 DEF TickOK
  <1>4. ASSUME NEW c \in Clients, request'[c] \in {request[c], None}
        PROVE  RequestOK(request[c])'
    <2>1. RequestOK(request[c]) /\ request[c] \in OperationRecord \union {None}
      BY DEF Inv, TypeOK
    <2> QED
      BY <1>2, <1>4, <2>1 DEF RequestOK, OnMain
  <1>5. ASSUME NEW q \in releases
        PROVE  ReleaseOK(q)'
    BY <1>1 DEF Inv, ReleaseOK, Kept
  <1>6. ASSUME NEW o \in Ops
        PROVE  PromotionOK(operations[o])'
    BY <1>1 DEF Inv, PromotionOK, Kept
  <1>7. ASSUME NEW o \in Ops, operations'[o] = operations[o]
        PROVE  OperationOK(o, operations[o])'
    <2>1. OperationOK(o, operations[o]) /\ operations[o] \in OperationRecord
      BY <1>1 DEF Inv
    <2>2. \A r \in Repositories : OnMain(operations[o], r) => OnMain(operations[o], r)'
      BY <1>2, <1>7, <2>1 DEF OnMain
    <2>3. operations[o].advanced \subseteq Repositories
      BY <2>1 DEF OperationRecord
    <2> QED
      BY <1>7, <2>1, <2>2, <2>3 DEF OperationOK
  <1>8. ASSUME pushed' = pushed
        PROVE  PushesOK'
    <2>1. \A r \in Repositories : Range(main[r]) \subseteq Range(main'[r])
      BY <1>1, PrefixRange DEF MainGrows, TypeOK, Sources
    <2> QED
      BY <1>1, <1>8, <2>1 DEF Inv, PushesOK, TypeOK
  <1> QED
    BY <1>3, <1>4, <1>5, <1>6, <1>7, <1>8

-----------------------------------------------------------------------------
(***************************************************************************)
(* Changes of one operation                                                *)
(***************************************************************************)

\* What is known of an operation, by its number.
LEMMA OperationIs ==
    ASSUME Inv, NEW o \in Ops
    PROVE  /\ operations[o] \in OperationRecord
           /\ OperationOK(o, operations[o]) /\ PromotionOK(operations[o])
           /\ o \in Nat \ {0} /\ Len(operations) \in Nat
  <1>1. operations \in Seq(OperationRecord)
    BY DEF Inv, TypeOK
  <1> QED
    BY <1>1, ElementOfSeq, LenProperties DEF Inv, Ops

LEMMA NoneIsNobody ==
    ASSUME NEW s \in Servers
    PROVE  s # None
  BY ReleaseAssumption

\* One operation is replaced, the others stay.
LEMMA ChangeOne ==
    ASSUME Inv, NEW o \in Ops, NEW n \in OperationRecord,
           operations' = [operations EXCEPT ![o] = n]
    PROVE  /\ operations' \in Seq(OperationRecord)
           /\ Len(operations') = Len(operations) /\ Ops' = Ops
           /\ operations'[o] = n
           /\ \A p \in Ops : p # o => operations'[p] = operations[p]
  <1>1. operations \in Seq(OperationRecord)
    BY DEF Inv, TypeOK
  <1>2. /\ operations' \in Seq(OperationRecord) /\ Len(operations') = Len(operations)
        /\ \A p \in 1..Len(operations) : operations'[p] = IF p = o THEN n ELSE operations[p]
    BY <1>1, ExceptSeq DEF Ops
  <1> QED
    BY <1>2 DEF Ops

\* Operation o becomes n, which keeps what others rely on.
LEMMA ChangeOK ==
    ASSUME Inv, NEW o \in Ops, NEW n \in OperationRecord,
           Kept(operations[o], n), OperationOK(o, n),
           operations' = [operations EXCEPT ![o] = n],
           main' = main
    PROVE  /\ \A p \in Ops : Kept(operations[p], operations'[p])
           /\ \A p \in Ops' : OperationOK(p, operations[p])'
           /\ KeysOK'
  <1>1. /\ Ops' = Ops /\ operations'[o] = n
        /\ \A p \in Ops : p # o => operations'[p] = operations[p]
    BY ChangeOne
  <1>2. \A p \in Ops : Kept(operations[p], operations'[p])
    BY <1>1 DEF Kept
  <1>3. ASSUME NEW p \in Ops
        PROVE  OperationOK(p, operations[p])'
    <2>1. OperationOK(p, operations'[p])
      BY <1>1, OperationIs
    <2> QED
      BY <2>1 DEF OperationOK, OnMain
  <1>4. KeysOK'
    BY <1>1, <1>2 DEF Inv, KeysOK, Kept
  <1> QED
    BY <1>1, <1>2, <1>3, <1>4

\* A step that keeps what others rely on, in whatever it changes.
LEMMA KeptStep ==
    ASSUME Inv, TypeOK', MainGrows, Len(operations') = Len(operations),
           \A p \in Ops : Kept(operations[p], operations'[p]),
           \A p \in Ops : OperationOK(p, operations[p])',
           \A u \in Servers : tick'[u] = tick[u] \/ TickOK(tick[u])',
           \A c \in Clients : request'[c] \in {request[c], None},
           \A q \in releases' : q \in releases \/ ReleaseOK(q)',
           pushed' = pushed \/ PushesOK'
    PROVE  Inv'
  <1>1. Len(operations) \in Nat /\ Ops' = Ops
    BY LenProperties DEF Inv, TypeOK, Ops
  <1>2. Len(operations') >= Len(operations)
    BY <1>1
  <1>3. /\ \A u \in Servers : tick'[u] = tick[u] => TickOK(tick[u])'
        /\ \A c \in Clients : RequestOK(request[c])'
        /\ \A q \in releases : ReleaseOK(q)'
        /\ \A p \in Ops : PromotionOK(operations[p])'
        /\ pushed' = pushed => PushesOK'
    BY <1>2, Frame
  <1>4. KeysOK'
    BY <1>1 DEF Inv, KeysOK, Kept
  <1>5. \A u \in Servers : TickOK(tick[u])'
    BY <1>3
  <1>6. \A q \in releases' : ReleaseOK(q)'
    BY <1>3
  <1> QED
    BY <1>1, <1>3, <1>4, <1>5, <1>6 DEF Inv

\* A step that changes at most one operation, and neither main, the requests
\* nor the pushes.
LEMMA OneChanges ==
    ASSUME Inv, NEW o \in Ops,
           NEW n \in OperationRecord, Kept(operations[o], n), OperationOK(o, n),
           operations' = [operations EXCEPT ![o] = n],
           tick' \in [Servers -> TickRecord],
           \A u \in Servers : tick'[u] = tick[u] \/ TickOK(tick[u])',
           work' \in [ready : BOOLEAN, evidence : Nat],
           releases' \subseteq [promotion : Nat, candidate : Nat, source : Sources],
           \A q \in releases' : q \in releases \/ ReleaseOK(q)',
           wire' \subseteq Ops \X Repositories, generated' \subseteq Ops, events' \in Nat,
           UNCHANGED <<desired, verdict, main, request, pushed>>
    PROVE  Inv'
  <1>1. /\ operations' \in Seq(OperationRecord) /\ Len(operations') = Len(operations)
        /\ Ops' = Ops
    BY ChangeOne
  <1>2. TypeOK'
    BY <1>1 DEF Inv, TypeOK
  <1>3. MainGrows
    BY MainStays DEF Inv
  <1>4. /\ \A p \in Ops : Kept(operations[p], operations'[p])
        /\ \A p \in Ops : OperationOK(p, operations[p])'
    BY <1>1, ChangeOK
  <1> QED
    BY <1>1, <1>2, <1>3, <1>4, KeptStep

\* The same with one Tick that may change, of a server that works on o.
LEMMA ServerStep ==
    ASSUME Inv, NEW s \in Servers, NEW o \in Ops,
           NEW n \in OperationRecord, Kept(operations[o], n), OperationOK(o, n),
           operations' = [operations EXCEPT ![o] = n],
           NEW t \in TickRecord, t.step # "IDLE" => t.op = o /\ TickFor(t, n),
           tick' = [tick EXCEPT ![s] = t],
           wire' \subseteq Ops \X Repositories, generated' \subseteq Ops, events' \in Nat,
           UNCHANGED <<desired, work, verdict, main, request, releases, pushed>>
    PROVE  Inv'
  <1>1. Ops' = Ops /\ operations'[o] = n
    BY ChangeOne
  <1>2. /\ tick' \in [Servers -> TickRecord] /\ tick'[s] = t
        /\ \A u \in Servers : u # s => tick'[u] = tick[u]
    BY DEF Inv, TypeOK
  <1>3. TickOK(tick[s])'
    <2>1. t.step # "IDLE" => TickFor(t, n)'
      BY DEF TickFor, OnMain
    <2> QED
      BY <1>1, <1>2, <2>1 DEF TickOK, TickFor, OnMain
  <1>4. \A u \in Servers : tick'[u] = tick[u] \/ TickOK(tick[u])'
    BY <1>2, <1>3
  <1>5. /\ work' \in [ready : BOOLEAN, evidence : Nat]
        /\ releases' \subseteq [promotion : Nat, candidate : Nat, source : Sources]
        /\ \A q \in releases' : q \in releases \/ ReleaseOK(q)'
    BY DEF Inv, TypeOK
  <1> QED
    BY <1>2, <1>4, <1>5, OneChanges

\* No Tick: the server has nothing to say.
LEMMA IdleIs ==
    Idle \in TickRecord /\ Idle.step = "IDLE"
  BY DEF Idle, TickRecord, Steps, Children, Health

\* A Tick under way works on an operation.
LEMMA TickIs ==
    ASSUME Inv, NEW s \in Servers, tick[s].step # "IDLE"
    PROVE  /\ tick[s] \in TickRecord /\ tick[s].op \in Ops
           /\ TickFor(tick[s], operations[tick[s].op])
  BY DEF Inv, TypeOK, TickOK

\* Nothing saved.
LEMMA NotSaved ==
    ASSUME Inv, NEW o \in Ops, operations' = operations
    PROVE  /\ operations' = [operations EXCEPT ![o] = operations[o]]
           /\ operations[o] \in OperationRecord
           /\ Kept(operations[o], operations[o]) /\ OperationOK(o, operations[o])
  <1>1. operations \in Seq(OperationRecord)
    BY DEF Inv, TypeOK
  <1>2. operations = [i \in DOMAIN operations |-> operations[i]]
    BY <1>1
  <1> QED
    BY <1>2, OperationIs DEF Kept

\* A failed Tick of the owner ends its operation; nobody else saves anything.
LEMMA FailedSaves ==
    ASSUME Inv, NEW s \in Servers, NEW o \in Ops, o = tick[s].op, Failed(s)
    PROVE  \E n \in OperationRecord :
              /\ operations' = [operations EXCEPT ![o] = n]
              /\ Kept(operations[o], n) /\ OperationOK(o, n)
  <1>1. CASE operations[o].owner = s
    <2>1. /\ operations[o] \in OperationRecord /\ OperationOK(o, operations[o])
          /\ operations[o].status # "SUCCEEDED"
      BY <1>1, OperationIs, NoneIsNobody DEF OperationOK
    <2>2. PICK k \in OperationRecord : k = operations[o]
      BY <2>1
    <2> DEFINE n == [Released(k) EXCEPT !.status = "FAILED"]
    <2>3. operations' = [operations EXCEPT ![o] = n]
      BY <1>1, <2>2 DEF Failed
    <2>4. n = [k EXCEPT !.owner = None, !.live = FALSE, !.status = "FAILED"]
      BY <2>2 DEF Released, OperationRecord
    <2>5. n \in OperationRecord
      BY <2>2, <2>4 DEF OperationRecord
    <2>6. /\ n.kind = k.kind /\ n.candidate = k.candidate /\ n.phase = k.phase /\ n.base = k.base
          /\ n.source = k.source /\ n.composed = k.composed /\ n.advanced = k.advanced
          /\ n.child = k.child /\ n.status = "FAILED" /\ n.owner = None
      BY <2>2, <2>4 DEF OperationRecord
    <2> HIDE DEF n
    <2>7. Kept(k, n)
      BY <2>1, <2>2, <2>6 DEF Kept
    <2>8. OperationOK(o, n)
      BY <2>1, <2>2, <2>6 DEF OperationOK, OnMain
    <2> QED
      BY <2>2, <2>3, <2>5, <2>7, <2>8
  <1>2. CASE operations[o].owner # s
    BY <1>2, NotSaved DEF Failed
  <1> QED
    BY <1>1, <1>2

\* The owner saves what it may, or fails.
LEMMA SavedSaves ==
    ASSUME Inv, NEW s \in Servers, NEW o \in Ops, o = tick[s].op,
           NEW after \in OperationRecord, Saved(s, after),
           operations[o].owner = s /\ flowGuard(o) =>
              Kept(operations[o], after) /\ OperationOK(o, Released(after))
    PROVE  \E n \in OperationRecord :
              /\ operations' = [operations EXCEPT ![o] = n]
              /\ Kept(operations[o], n) /\ OperationOK(o, n)
  <1>1. CASE operations[o].owner = s /\ flowGuard(o)
    <2>1. operations' = [operations EXCEPT ![o] = Released(after)]
      BY <1>1 DEF Saved
    <2>2. Released(after) \in OperationRecord
      BY DEF Released, OperationRecord
    <2>3. Kept(operations[o], Released(after))
      BY <1>1 DEF Kept, Released, OperationRecord
    <2> QED
      BY <1>1, <2>1, <2>2, <2>3
  <1>2. CASE ~(operations[o].owner = s /\ flowGuard(o))
    BY <1>2, FailedSaves DEF Saved
  <1> QED
    BY <1>1, <1>2

-----------------------------------------------------------------------------
(***************************************************************************)
(* The steps of a Tick                                                     *)
(***************************************************************************)

\* A Tick that saves and ends.
LEMMA SaveEnds ==
    ASSUME Inv, NEW s \in Servers, NEW o \in Ops, Ends(s), StoreOnly,
           \E n \in OperationRecord :
              /\ operations' = [operations EXCEPT ![o] = n]
              /\ Kept(operations[o], n) /\ OperationOK(o, n)
    PROVE  Inv'
  <1>1. PICK n \in OperationRecord :
              /\ operations' = [operations EXCEPT ![o] = n]
              /\ Kept(operations[o], n) /\ OperationOK(o, n)
    OBVIOUS
  <1>2. PICK t \in TickRecord : t = Idle /\ t.step = "IDLE"
    BY IdleIs
  <1>3. /\ tick' = [tick EXCEPT ![s] = t]
        /\ wire' \subseteq Ops \X Repositories /\ generated' \subseteq Ops /\ events' \in Nat
        /\ UNCHANGED <<desired, work, verdict, main, request, releases, pushed>>
    BY <1>2 DEF Ends, StoreOnly, Inv, TypeOK
  <1> QED
    BY <1>1, <1>2, <1>3, ServerStep

\* A Tick that goes on with t and saves nothing.
LEMMA MovesOn ==
    ASSUME Inv, NEW s \in Servers, NEW o \in Ops, UNCHANGED operations,
           NEW t \in TickRecord, t.step # "IDLE" => t.op = o /\ TickFor(t, operations[o]),
           tick' = [tick EXCEPT ![s] = t],
           wire' \subseteq Ops \X Repositories, generated' \subseteq Ops, events' \in Nat,
           UNCHANGED <<desired, work, verdict, main, request, releases, pushed>>
    PROVE  Inv'
  <1>1. /\ operations' = [operations EXCEPT ![o] = operations[o]]
        /\ operations[o] \in OperationRecord
        /\ Kept(operations[o], operations[o]) /\ OperationOK(o, operations[o])
    BY NotSaved
  <1>2. PICK n \in OperationRecord : n = operations[o]
    BY <1>1
  <1>3. /\ operations' = [operations EXCEPT ![o] = n]
        /\ Kept(operations[o], n) /\ OperationOK(o, n)
        /\ t.step # "IDLE" => t.op = o /\ TickFor(t, n)
    BY <1>1, <1>2
  <1> QED
    BY <1>3, ServerStep

\* A Tick goes to its next step.
LEMMA GoesOn ==
    ASSUME Inv, NEW s \in Servers, NEW o \in Ops, o = tick[s].op, tick[s].step # "IDLE",
           UNCHANGED operations, NEW step \in Steps, Goes(s, step),
           step # "IDLE" => TickFor([tick[s] EXCEPT !.step = step], operations[o]),
           wire' \subseteq Ops \X Repositories, generated' \subseteq Ops, events' \in Nat,
           UNCHANGED <<desired, work, verdict, main, request, releases, pushed>>
    PROVE  Inv'
  <1>1. tick[s] \in TickRecord
    BY TickIs
  <1>2. PICK t \in TickRecord : t = [tick[s] EXCEPT !.step = step]
    BY <1>1 DEF TickRecord
  <1>3. t.step = step /\ t.op = o
    BY <1>1, <1>2 DEF TickRecord
  <1>4. tick' = [tick EXCEPT ![s] = t]
    BY <1>2 DEF Goes, Inv, TypeOK
  <1>5. t.step # "IDLE" => t.op = o /\ TickFor(t, operations[o])
    BY <1>2, <1>3
  <1> QED
    BY <1>4, <1>5, MovesOn

\* Tick claims an operation: what it goes to is a phase of the operation.
LEMMA ClaimOK ==
    ASSUME Inv, NEW s \in Servers, NEW o \in Ops, Claim(s, o)
    PROVE  Inv'
  <1>1. /\ operations[o] \in OperationRecord /\ OperationOK(o, operations[o])
        /\ operations[o].status \notin {"SUCCEEDED", "FAILED", "CANCELLED"}
    BY OperationIs DEF Claim, terminalOperation
  <1>2. PICK k \in OperationRecord : k = operations[o]
    BY <1>1
  <1> DEFINE n == [k EXCEPT !.status = "RUNNING", !.owner = s, !.live = TRUE]
  <1>3. n \in OperationRecord
    BY DEF OperationRecord
  <1>4. /\ n.kind = k.kind /\ n.candidate = k.candidate /\ n.phase = k.phase /\ n.base = k.base
        /\ n.source = k.source /\ n.composed = k.composed /\ n.advanced = k.advanced
        /\ n.child = k.child /\ n.status = "RUNNING"
    BY DEF OperationRecord
  <1>5. operations' = [operations EXCEPT ![o] = n]
    <2>1. operations' = [operations EXCEPT ![o].status = "RUNNING", ![o].owner = s, ![o].live = TRUE]
      BY DEF Claim
    <2>2. operations \in Seq(OperationRecord)
      BY DEF Inv, TypeOK
    <2> QED
      BY <1>2, <2>1, <2>2 DEF Ops
  <1> HIDE DEF n
  <1>6. Kept(operations[o], n)
    BY <1>1, <1>2, <1>4 DEF Kept
  <1>7. OperationOK(o, n)
    BY <1>1, <1>2, <1>4 DEF OperationOK, OnMain
  <1>8. PICK step \in {"BLOCK", "OBSERVE"} \union Phases :
           /\ step = StepOf(o)
           /\ step = "OBSERVE" => k.kind = "MAIN"
           /\ step \in Phases => step = k.phase
    <2>1. k.phase \in Phases
      BY DEF OperationRecord
    <2> QED
      BY <1>2, <2>1 DEF StepOf, Phases
  <1> DEFINE t == [step |-> step, op |-> o, repository |-> None, child |-> k.child,
                   health |-> k.health]
  <1>9. t \in TickRecord
    BY OperationIs DEF TickRecord, Steps, OperationRecord
  <1>10. tick' = [tick EXCEPT ![s] = t]
    BY <1>2, <1>8 DEF Claim
  <1>11. t.step = step /\ t.op = o /\ t.repository = None
    OBVIOUS
  <1> HIDE DEF t
  <1>12. TickFor(t, n)
    <2>1. step \in Phases => step \in PhasesOf(n.kind)
      BY <1>1, <1>2, <1>4, <1>8 DEF OperationOK
    <2>2. step = "OBSERVE" => n.kind = "MAIN"
      BY <1>4, <1>8
    <2>3. step \in {"BLOCK", "OBSERVE"} \union Phases
      BY <1>8
    <2>4. step = "ADVANCE_MAIN" => n.composed
      <3>1. k.kind \in {"COMPOSED", "MAIN", "PROMOTION"} /\ k.phase \in PhasesOf(k.kind)
        BY <1>1, <1>2 DEF OperationRecord, OperationOK
      <3>2. k.phase = "ADVANCE_MAIN" => k.kind = "COMPOSED"
        BY <3>1 DEF PhasesOf
      <3>3. k.kind = "COMPOSED" /\ k.phase # "COMPOSE_SOURCE" => k.composed
        BY <1>1, <1>2 DEF OperationOK
      <3> QED
        BY <1>4, <1>8, <3>2, <3>3 DEF Phases
    <2>5. step \in {"QUEUE_BUILDS", "WAIT_CHILDREN"} /\ n.kind = "COMPOSED"
             => n.composed /\ n.advanced = Repositories
      BY <1>1, <1>2, <1>4, <1>8 DEF OperationOK, Phases
    <2> QED
      BY <1>11, <2>1, <2>2, <2>3, <2>4, <2>5 DEF TickFor, Phases
  <1>13. /\ wire' \subseteq Ops \X Repositories /\ generated' \subseteq Ops /\ events' \in Nat
         /\ UNCHANGED <<desired, work, verdict, main, request, releases, pushed>>
    BY DEF Claim, StoreOnly, Inv, TypeOK
  <1> QED
    BY <1>3, <1>5, <1>6, <1>7, <1>9, <1>10, <1>11, <1>12, <1>13, ServerStep

LEMMA finishOK ==
    ASSUME Inv, NEW s \in Servers, finish(s)
    PROVE  Inv'
  <1>1. PICK o \in Ops : o = tick[s].op
    BY TickIs DEF finish
  <1> QED
    BY <1>1, FailedSaves, SaveEnds DEF finish

LEMMA observeMainCandidateOK ==
    ASSUME Inv, NEW s \in Servers, observeMainCandidate(s)
    PROVE  Inv'
  <1>1. PICK o \in Ops : o = tick[s].op
    BY TickIs DEF observeMainCandidate
  <1>2. /\ tick[s] \in TickRecord /\ tick[s].step = "OBSERVE"
        /\ operations[o].kind = "MAIN" /\ operations[o] \in OperationRecord
        /\ operations[o].phase \in PhasesOf("MAIN")
    BY <1>1, TickIs, OperationIs DEF observeMainCandidate, TickFor, OperationOK
  <1>3. /\ wire' \subseteq Ops \X Repositories /\ generated' \subseteq Ops /\ events' \in Nat
        /\ UNCHANGED <<desired, work, verdict, main, request, releases, pushed>>
        /\ UNCHANGED operations
    BY DEF observeMainCandidate, StoreOnly, Inv, TypeOK
  <1>4. PICK step \in {"BLOCK"} \union PhasesOf("MAIN") : Goes(s, step)
    BY <1>1, <1>2 DEF observeMainCandidate
  <1>5. step \in Steps /\ TickFor([tick[s] EXCEPT !.step = step], operations[o])
    BY <1>2 DEF TickFor, PhasesOf, Steps, Phases, TickRecord
  <1> QED
    BY <1>1, <1>2, <1>3, <1>4, <1>5, GoesOn

\* A write begins: the operation keeps all but its intent.
LEMMA IntentKeeps ==
    ASSUME Inv, NEW o \in Ops
    PROVE  \E n \in OperationRecord :
              /\ [operations EXCEPT ![o].intent = TRUE] = [operations EXCEPT ![o] = n]
              /\ n = [operations[o] EXCEPT !.intent = TRUE]
              /\ Kept(operations[o], n) /\ OperationOK(o, n)
              /\ \A t : TickFor(t, operations[o]) => TickFor(t, n)
  <1>1. PICK k \in OperationRecord : k = operations[o] /\ OperationOK(o, k)
    BY OperationIs
  <1> DEFINE n == [k EXCEPT !.intent = TRUE]
  <1>2. n \in OperationRecord
    BY DEF OperationRecord
  <1>3. /\ n.kind = k.kind /\ n.candidate = k.candidate /\ n.phase = k.phase /\ n.base = k.base
        /\ n.source = k.source /\ n.composed = k.composed /\ n.advanced = k.advanced
        /\ n.child = k.child /\ n.status = k.status /\ n.owner = k.owner
    BY DEF OperationRecord
  <1>4. [operations EXCEPT ![o].intent = TRUE] = [operations EXCEPT ![o] = n]
    <2>1. operations \in Seq(OperationRecord)
      BY DEF Inv, TypeOK
    <2> QED
      BY <1>1, <2>1 DEF Ops
  <1>5. n = [operations[o] EXCEPT !.intent = TRUE]
    BY <1>1
  <1> HIDE DEF n
  <1>6. Kept(k, n)
    BY <1>3 DEF Kept
  <1>7. OperationOK(o, n)
    BY <1>1, <1>3 DEF OperationOK, OnMain
  <1>8. \A t : TickFor(t, k) => TickFor(t, n)
    BY <1>3 DEF TickFor, OnMain
  <1> QED
    BY <1>1, <1>2, <1>4, <1>5, <1>6, <1>7, <1>8

\* Begins goes on to a step of a composed candidate, or ends.
LEMMA BeginsOK ==
    ASSUME Inv, NEW s \in Servers, NEW o \in Ops, o = tick[s].op, tick[s].step # "IDLE",
           NEW r \in Repositories \union {None}, NEW step \in Steps, Begins(s, o, r, step),
           step # "IDLE" => TickFor([tick[s] EXCEPT !.step = step, !.repository = r], operations[o]),
           wire' \subseteq Ops \X Repositories, generated' \subseteq Ops, events' \in Nat,
           UNCHANGED <<desired, work, verdict, main, request, releases, pushed>>
    PROVE  Inv'
  <1>1. CASE MayBegin(s, o)
    <2>1. PICK n \in OperationRecord :
              /\ [operations EXCEPT ![o].intent = TRUE] = [operations EXCEPT ![o] = n]
              /\ Kept(operations[o], n) /\ OperationOK(o, n)
              /\ \A t : TickFor(t, operations[o]) => TickFor(t, n)
      BY IntentKeeps
    <2>2. tick[s] \in TickRecord
      BY TickIs
    <2>3. PICK t \in TickRecord : t = [tick[s] EXCEPT !.step = step, !.repository = r]
      BY <2>2 DEF TickRecord
    <2>4. t.step = step /\ t.op = o
      BY <2>2, <2>3 DEF TickRecord
    <2>5. tick' = [tick EXCEPT ![s] = t]
      BY <1>1, <2>3 DEF Begins, Inv, TypeOK
    <2>6. operations' = [operations EXCEPT ![o] = n]
      BY <1>1, <2>1 DEF Begins
    <2>7. t.step # "IDLE" => t.op = o /\ TickFor(t, n)
      BY <2>1, <2>3, <2>4
    <2> QED
      BY <2>1, <2>5, <2>6, <2>7, ServerStep
  <1>2. CASE ~MayBegin(s, o)
    <2>1. Ends(s) /\ UNCHANGED operations
      BY <1>2 DEF Begins
    <2>2. PICK t \in TickRecord : t = Idle /\ t.step = "IDLE"
      BY IdleIs
    <2>3. tick' = [tick EXCEPT ![s] = t]
      BY <2>1, <2>2 DEF Ends
    <2> QED
      BY <2>1, <2>2, <2>3, MovesOn
  <1> QED
    BY <1>1, <1>2

\* A phase that only a composed candidate has.
LEMMA ComposedStep ==
    ASSUME Inv, NEW s \in Servers, tick[s].step \in {"COMPOSE_SOURCE", "ADVANCE_MAIN"}
    PROVE  /\ tick[s].op \in Ops
           /\ operations[tick[s].op].kind = "COMPOSED"
           /\ tick[s].step = "ADVANCE_MAIN" => operations[tick[s].op].composed
  <1>1. PICK o \in Ops : o = tick[s].op
    BY TickIs
  <1>2. /\ operations[o] \in OperationRecord /\ tick[s].step \in PhasesOf(operations[o].kind)
        /\ tick[s].step = "ADVANCE_MAIN" => operations[o].composed
    BY <1>1, TickIs, OperationIs DEF TickFor, Phases
  <1>3. operations[o].kind = "COMPOSED"
    BY <1>2 DEF OperationRecord, PhasesOf
  <1> QED
    BY <1>1, <1>2, <1>3

LEMMA ComposeSourceOK ==
    ASSUME Inv, NEW s \in Servers, ComposeSource(s)
    PROVE  Inv'
  <1>1. PICK o \in Ops : o = tick[s].op
    BY ComposedStep DEF ComposeSource
  <1>2. /\ tick[s] \in TickRecord /\ operations[o].kind = "COMPOSED" /\ tick[s].step # "IDLE"
        /\ "COMPOSED" \in Steps
    BY <1>1, TickIs, ComposedStep DEF ComposeSource, Steps
  <1>3. PICK t \in TickRecord : t = [tick[s] EXCEPT !.step = "COMPOSED", !.repository = None]
    BY <1>2 DEF TickRecord
  <1>4. t.step = "COMPOSED"
    BY <1>2, <1>3 DEF TickRecord
  <1>5. TickFor(t, operations[o])
    BY <1>2, <1>4 DEF TickFor, Phases
  <1>6. Begins(s, o, None, "COMPOSED")
    BY <1>1 DEF ComposeSource
  <1>7. /\ wire' \subseteq Ops \X Repositories /\ events' \in Nat
        /\ UNCHANGED <<desired, work, verdict, main, request, releases, pushed>>
    BY DEF ComposeSource, Inv, TypeOK
  <1>8. generated' \subseteq Ops
    BY <1>1 DEF ComposeSource, Inv, TypeOK
  <1> QED
    BY <1>1, <1>2, <1>3, <1>5, <1>6, <1>7, <1>8, BeginsOK

LEMMA RecoverSourceOK ==
    ASSUME Inv, NEW s \in Servers, RecoverSource(s)
    PROVE  Inv'
  <1>1. PICK o \in Ops : o = tick[s].op
    BY ComposedStep DEF RecoverSource
  <1>2. /\ tick[s] \in TickRecord /\ operations[o].kind = "COMPOSED" /\ tick[s].step # "IDLE"
        /\ "COMPOSED" \in Steps
    BY <1>1, TickIs, ComposedStep DEF RecoverSource, Steps
  <1>3. /\ wire' \subseteq Ops \X Repositories /\ generated' \subseteq Ops /\ events' \in Nat
        /\ UNCHANGED <<desired, work, verdict, main, request, releases, pushed>>
        /\ UNCHANGED operations
    BY DEF RecoverSource, StoreOnly, Inv, TypeOK
  <1>4. CASE o \in generated
    <2>1. Goes(s, "COMPOSED")
      BY <1>1, <1>4 DEF RecoverSource
    <2>2. TickFor([tick[s] EXCEPT !.step = "COMPOSED"], operations[o])
      BY <1>2 DEF TickFor, TickRecord, Phases
    <2> QED
      BY <1>1, <1>2, <1>3, <2>1, <2>2, GoesOn
  <1>5. CASE o \notin generated
    <2>1. Ends(s)
      BY <1>1, <1>5 DEF RecoverSource
    <2> QED
      BY <1>3, <2>1, NotSaved, SaveEnds DEF RecoverSource
  <1> QED
    BY <1>4, <1>5

\* The composed source of operation o is its base and what o adds.
LEMMA SaveSourceOK ==
    ASSUME Inv, NEW s \in Servers, SaveSource(s)
    PROVE  Inv'
  <1>1. PICK o \in Ops : o = tick[s].op
    BY TickIs DEF SaveSource
  <1>2. /\ operations[o].kind = "COMPOSED" /\ operations[o] \in OperationRecord /\ o \in Int
        /\ OperationOK(o, operations[o])
    BY <1>1, TickIs, OperationIs DEF SaveSource, TickFor
  <1>3. PICK k \in OperationRecord : k = operations[o]
    BY <1>2
  <1>4. PICK src \in Sources : src = [r \in Repositories |-> Append(k.base[r], o)]
    <2>1. \A r \in Repositories : k.base[r] \in Seq(Int)
      BY DEF OperationRecord, Sources
    <2> QED
      BY <1>2, <2>1, PrefixOfAppend DEF Sources
  <1> DEFINE after == [k EXCEPT !.composed = TRUE, !.intent = FALSE, !.source = src]
  <1>5. after \in OperationRecord
    BY DEF OperationRecord
  <1>6. /\ Composed(o) = after
        /\ after.kind = k.kind /\ after.candidate = k.candidate /\ after.phase = k.phase
        /\ after.base = k.base /\ after.source = src /\ after.composed = TRUE
        /\ after.advanced = k.advanced /\ after.child = k.child /\ after.status = k.status
    BY <1>3, <1>4 DEF OperationRecord, Composed
  <1> HIDE DEF after
  <1>7. CASE o \in generated
    <2>1. Saved(s, after)
      BY <1>1, <1>6, <1>7 DEF SaveSource
    <2>2. ASSUME operations[o].owner = s
          PROVE  Kept(operations[o], after)
      <3>1. k.status # "SUCCEEDED"
        BY <1>2, <1>3, <2>2, NoneIsNobody DEF OperationOK
      <3>2. k.composed => src = k.source
        BY <1>2, <1>3, <1>4 DEF OperationOK
      <3> QED
        BY <1>2, <1>3, <1>6, <3>1, <3>2 DEF Kept
    <2>3. ASSUME operations[o].owner = s
          PROVE  OperationOK(o, Released(after))
      <3>1. PICK n \in OperationRecord : n = Released(after)
        BY <1>5 DEF Released, OperationRecord
      <3>2. /\ n.kind = k.kind /\ n.phase = k.phase /\ n.base = k.base /\ n.source = src
            /\ n.composed /\ n.advanced = k.advanced /\ n.child = k.child
            /\ n.status = k.status /\ n.owner = None
        BY <1>5, <1>6, <3>1 DEF Released, OperationRecord
      <3>3. /\ ~k.composed => k.advanced = {}
            /\ k.composed => src = k.source
        BY <1>2, <1>3, <1>4 DEF OperationOK
      <3>4. \A r \in n.advanced : OnMain(n, r)
        BY <1>2, <1>3, <3>2, <3>3 DEF OperationOK, OnMain, OperationRecord
      <3>5. OperationOK(o, n)
        BY <1>2, <1>3, <1>4, <3>2, <3>4 DEF OperationOK
      <3> QED
        BY <3>1, <3>5
    <2>4. \E n \in OperationRecord :
              /\ operations' = [operations EXCEPT ![o] = n]
              /\ Kept(operations[o], n) /\ OperationOK(o, n)
      BY <1>1, <1>5, <2>1, <2>2, <2>3, SavedSaves
    <2> QED
      BY <2>4, SaveEnds DEF SaveSource
  <1>8. CASE o \notin generated
    <2>1. Failed(s)
      BY <1>1, <1>8 DEF SaveSource
    <2> QED
      BY <1>1, <2>1, FailedSaves, SaveEnds DEF SaveSource
  <1> QED
    BY <1>7, <1>8

LEMMA SourceReadyOK ==
    ASSUME Inv, NEW s \in Servers, SourceReady(s)
    PROVE  Inv'
  <1>1. PICK o \in Ops : o = tick[s].op
    BY ComposedStep DEF SourceReady
  <1>2. /\ operations[o].kind = "COMPOSED" /\ operations[o].composed
        /\ OperationOK(o, operations[o])
    BY <1>1, ComposedStep, OperationIs DEF SourceReady
  <1>3. PICK k \in OperationRecord : k = operations[o]
    BY OperationIs
  <1> DEFINE after == [k EXCEPT !.phase = "ADVANCE_MAIN"]
  <1>4. after \in OperationRecord /\ Saved(s, after)
    BY <1>1, <1>3 DEF OperationRecord, Phases, SourceReady
  <1>5. PICK n \in OperationRecord : n = Released(after)
    BY <1>4 DEF Released, OperationRecord
  <1>6. /\ Same(k, after) /\ after.advanced = k.advanced /\ after.status = k.status
        /\ Same(k, n) /\ n.advanced = k.advanced /\ n.status = k.status /\ n.child = k.child
        /\ n.owner = None /\ n.phase = "ADVANCE_MAIN"
    BY <1>4, <1>5 DEF OperationRecord, Released, Same
  <1> HIDE DEF after
  <1>7. Kept(operations[o], after)
    BY <1>3, <1>6 DEF Kept, Same
  <1>8. OperationOK(o, n)
    BY <1>2, <1>3, <1>6 DEF OperationOK, OnMain, Same, PhasesOf
  <1>9. \E m \in OperationRecord :
            /\ operations' = [operations EXCEPT ![o] = m]
            /\ Kept(operations[o], m) /\ OperationOK(o, m)
    BY <1>1, <1>4, <1>5, <1>7, <1>8, SavedSaves DEF SourceReady
  <1> QED
    BY <1>9, SaveEnds DEF SourceReady

LEMMA BeginAdvanceOK ==
    ASSUME Inv, NEW s \in Servers, BeginAdvance(s)
    PROVE  Inv'
  <1>1. PICK o \in Ops : o = tick[s].op
    BY ComposedStep DEF BeginAdvance
  <1>2. /\ tick[s] \in TickRecord /\ operations[o].kind = "COMPOSED" /\ tick[s].step # "IDLE"
        /\ operations[o].composed /\ "READ_MAIN" \in Steps
    BY <1>1, TickIs, ComposedStep DEF BeginAdvance, Steps
  <1>3. PICK r \in Repositories : r = NextOf(Repositories \ operations[o].advanced)
    BY <1>1 DEF BeginAdvance, NextOf
  <1>4. PICK t \in TickRecord : t = [tick[s] EXCEPT !.step = "READ_MAIN", !.repository = r]
    BY <1>2 DEF TickRecord
  <1>5. t.step = "READ_MAIN" /\ t.repository = r
    BY <1>2, <1>4 DEF TickRecord
  <1>6. TickFor(t, operations[o])
    BY <1>2, <1>5 DEF TickFor, Phases
  <1>7. Begins(s, o, r, "READ_MAIN")
    BY <1>1, <1>3 DEF BeginAdvance
  <1>8. /\ wire' \subseteq Ops \X Repositories /\ generated' \subseteq Ops /\ events' \in Nat
        /\ UNCHANGED <<desired, work, verdict, main, request, releases, pushed>>
    BY DEF BeginAdvance, StoreOnly, Inv, TypeOK
  <1> QED
    BY <1>1, <1>2, <1>4, <1>6, <1>7, <1>8, BeginsOK

\* A Tick in the middle of advancing main.
LEMMA AdvanceStep ==
    ASSUME Inv, NEW s \in Servers, tick[s].step \in {"READ_MAIN", "READ_BACK", "ADVANCED"}
    PROVE  \E o \in Ops, r \in Repositories :
              /\ o = tick[s].op /\ r = tick[s].repository /\ tick[s] \in TickRecord
              /\ operations[o].kind = "COMPOSED" /\ operations[o].composed
              /\ operations[o].source[r] \in Seq(Int)
              /\ tick[s].step = "ADVANCED" => OnMain(operations[o], r)
              /\ \A step \in {"READ_BACK", "BLOCK", "ADVANCED"} :
                    (step = "ADVANCED" => OnMain(operations[o], r))
                    => TickFor([tick[s] EXCEPT !.step = step], operations[o])
  <1>1. PICK o \in Ops : o = tick[s].op
    BY TickIs
  <1>2. /\ tick[s] \in TickRecord /\ TickFor(tick[s], operations[o])
        /\ operations[o] \in OperationRecord
    BY <1>1, TickIs, OperationIs
  <1>3. PICK r \in Repositories : r = tick[s].repository
    BY <1>2 DEF TickFor
  <1>4. /\ operations[o].kind = "COMPOSED" /\ operations[o].composed
        /\ tick[s].step = "ADVANCED" => OnMain(operations[o], r)
    BY <1>2, <1>3 DEF TickFor
  <1>5. operations[o].source[r] \in Seq(Int)
    BY <1>2 DEF OperationRecord, Sources
  <1>6. ASSUME NEW step \in {"READ_BACK", "BLOCK", "ADVANCED"},
               step = "ADVANCED" => OnMain(operations[o], r)
        PROVE  TickFor([tick[s] EXCEPT !.step = step], operations[o])
    <2>1. PICK t \in TickRecord : t = [tick[s] EXCEPT !.step = step]
      BY <1>2 DEF TickRecord, Steps
    <2>2. t.step = step /\ t.repository = r
      BY <1>2, <1>3, <2>1 DEF TickRecord
    <2>3. TickFor(t, operations[o])
      BY <1>4, <1>6, <2>2 DEF TickFor, Phases
    <2> QED
      BY <2>1, <2>3
  <1> QED
    BY <1>1, <1>2, <1>3, <1>4, <1>5, <1>6

\* Main that is the source contains it.
LEMMA AdvanceMainOK ==
    ASSUME Inv, NEW s \in Servers, AdvanceMain(s)
    PROVE  Inv'
  <1>1. PICK o \in Ops, r \in Repositories :
            /\ o = tick[s].op /\ r = tick[s].repository
            /\ operations[o].source[r] \in Seq(Int)
            /\ \A step \in {"READ_BACK", "BLOCK", "ADVANCED"} :
                    (step = "ADVANCED" => OnMain(operations[o], r))
                    => TickFor([tick[s] EXCEPT !.step = step], operations[o])
    BY AdvanceStep DEF AdvanceMain
  <1>2. PICK step \in {"READ_BACK", "BLOCK", "ADVANCED"} :
            /\ Goes(s, step)
            /\ step = "ADVANCED" => main[r] = operations[o].source[r]
    BY <1>1 DEF AdvanceMain
  <1>3. step = "ADVANCED" => OnMain(operations[o], r)
    BY <1>1, <1>2, PrefixOfItself DEF OnMain
  <1>4. wire' \subseteq Ops \X Repositories
    BY <1>1 DEF AdvanceMain, Inv, TypeOK
  <1>5. /\ generated' \subseteq Ops /\ events' \in Nat
        /\ UNCHANGED <<desired, work, verdict, main, request, releases, pushed>>
        /\ UNCHANGED operations /\ tick[s].step # "IDLE"
    BY DEF AdvanceMain, Inv, TypeOK
  <1>6. step \in Steps
    BY DEF Steps
  <1> QED
    BY <1>1, <1>2, <1>3, <1>4, <1>5, <1>6, GoesOn

LEMMA ReadBackOK ==
    ASSUME Inv, NEW s \in Servers, ReadBack(s)
    PROVE  Inv'
  <1>1. PICK o \in Ops, r \in Repositories :
            /\ o = tick[s].op /\ r = tick[s].repository
            /\ operations[o].source[r] \in Seq(Int)
            /\ \A step \in {"READ_BACK", "BLOCK", "ADVANCED"} :
                    (step = "ADVANCED" => OnMain(operations[o], r))
                    => TickFor([tick[s] EXCEPT !.step = step], operations[o])
    BY AdvanceStep DEF ReadBack
  <1>2. PICK step \in {"READ_BACK", "BLOCK", "ADVANCED"} :
            /\ Goes(s, step)
            /\ step = "ADVANCED" => main[r] = operations[o].source[r]
    BY <1>1 DEF ReadBack
  <1>3. step = "ADVANCED" => OnMain(operations[o], r)
    BY <1>1, <1>2, PrefixOfItself DEF OnMain
  <1>4. /\ wire' \subseteq Ops \X Repositories /\ generated' \subseteq Ops /\ events' \in Nat
        /\ UNCHANGED <<desired, work, verdict, main, request, releases, pushed>>
        /\ UNCHANGED operations /\ tick[s].step # "IDLE"
    BY DEF ReadBack, StoreOnly, Inv, TypeOK
  <1>5. step \in Steps
    BY DEF Steps
  <1> QED
    BY <1>1, <1>2, <1>3, <1>4, <1>5, GoesOn

\* One more main is said to be advanced, and it is.
LEMMA SaveAdvanceOK ==
    ASSUME Inv, NEW s \in Servers, SaveAdvance(s)
    PROVE  Inv'
  <1>1. PICK o \in Ops, r \in Repositories :
            /\ o = tick[s].op /\ r = tick[s].repository
            /\ operations[o].kind = "COMPOSED" /\ operations[o].composed
            /\ OnMain(operations[o], r)
    BY AdvanceStep DEF SaveAdvance
  <1>2. PICK k \in OperationRecord : k = operations[o] /\ OperationOK(o, k)
    BY OperationIs
  <1> DEFINE after == [k EXCEPT !.advanced = @ \union {r}, !.intent = FALSE]
  <1>3. after \in OperationRecord
    BY DEF OperationRecord
  <1>4. Saved(s, after)
    BY <1>1, <1>2 DEF SaveAdvance
  <1>5. PICK n \in OperationRecord : n = Released(after)
    BY <1>3 DEF Released, OperationRecord
  <1>6. /\ Same(k, after) /\ after.advanced = k.advanced \union {r} /\ after.status = k.status
        /\ Same(k, n) /\ n.advanced = k.advanced \union {r} /\ n.status = k.status
        /\ n.child = k.child /\ n.owner = None /\ n.phase = k.phase
        /\ k.advanced \subseteq Repositories
    BY <1>3, <1>5 DEF OperationRecord, Released, Same
  <1> HIDE DEF after
  <1>7. Kept(operations[o], after)
    BY <1>2, <1>6 DEF Kept, Same
  <1>8. OperationOK(o, n)
    BY <1>1, <1>2, <1>6 DEF OperationOK, OnMain, Same
  <1>9. \E m \in OperationRecord :
            /\ operations' = [operations EXCEPT ![o] = m]
            /\ Kept(operations[o], m) /\ OperationOK(o, m)
    BY <1>1, <1>3, <1>4, <1>5, <1>7, <1>8, SavedSaves DEF SaveAdvance
  <1> QED
    BY <1>9, SaveEnds DEF SaveAdvance

\* Builds wait until every main is advanced.
LEMMA MainReadyOK ==
    ASSUME Inv, NEW s \in Servers, MainReady(s)
    PROVE  Inv'
  <1>1. PICK o \in Ops : o = tick[s].op
    BY ComposedStep DEF MainReady
  <1>2. /\ operations[o].kind = "COMPOSED" /\ operations[o].composed
        /\ operations[o].advanced = Repositories
        /\ OperationOK(o, operations[o])
    BY <1>1, ComposedStep, OperationIs DEF MainReady
  <1>3. PICK k \in OperationRecord : k = operations[o]
    BY OperationIs
  <1> DEFINE after == [k EXCEPT !.phase = "QUEUE_BUILDS"]
  <1>4. after \in OperationRecord /\ Saved(s, after)
    BY <1>1, <1>3 DEF OperationRecord, Phases, MainReady
  <1>5. PICK n \in OperationRecord : n = Released(after)
    BY <1>4 DEF Released, OperationRecord
  <1>6. /\ Same(k, after) /\ after.advanced = k.advanced /\ after.status = k.status
        /\ Same(k, n) /\ n.advanced = k.advanced /\ n.status = k.status /\ n.child = k.child
        /\ n.owner = None /\ n.phase = "QUEUE_BUILDS"
    BY <1>4, <1>5 DEF OperationRecord, Released, Same
  <1> HIDE DEF after
  <1>7. Kept(operations[o], after)
    BY <1>3, <1>6 DEF Kept, Same
  <1>8. OperationOK(o, n)
    BY <1>2, <1>3, <1>6 DEF OperationOK, OnMain, Same, PhasesOf
  <1>9. \E m \in OperationRecord :
            /\ operations' = [operations EXCEPT ![o] = m]
            /\ Kept(operations[o], m) /\ OperationOK(o, m)
    BY <1>1, <1>4, <1>5, <1>7, <1>8, SavedSaves DEF MainReady
  <1> QED
    BY <1>9, SaveEnds DEF MainReady

\* Children are queued for an operation that has advanced every main.
LEMMA queueFlowChildrenOK ==
    ASSUME Inv, NEW s \in Servers, queueFlowChildren(s)
    PROVE  Inv'
  <1>1. PICK o \in Ops : o = tick[s].op
    BY TickIs DEF queueFlowChildren
  <1>2. PICK k \in OperationRecord : k = operations[o] /\ OperationOK(o, k)
    BY OperationIs
  <1>3. /\ tick[s].step \in PhasesOf(k.kind)
        /\ k.kind = "COMPOSED" /\ tick[s].step = "QUEUE_BUILDS" => k.composed /\ k.advanced = Repositories
        /\ tick[s].step \in {"QUEUE_BUILDS", "QUEUE_DEPLOYMENTS"}
    BY <1>1, <1>2, TickIs DEF queueFlowChildren, TickFor, Phases
  <1>4. k.kind = "COMPOSED" => k.composed /\ k.advanced = Repositories
    BY <1>3 DEF PhasesOf
  <1>5. CASE operations[o].owner = s /\ flowGuard(o) /\ operations[o].child = "none"
    <2> DEFINE n == [k EXCEPT !.owner = None, !.live = FALSE, !.phase = "WAIT_CHILDREN",
                              !.child = "PENDING"]
    <2>1. n \in OperationRecord
      BY DEF OperationRecord, Phases, Children
    <2>2. operations' = [operations EXCEPT ![o] = n]
      <3>1. operations' = [operations EXCEPT ![o] = [Released(@) EXCEPT !.phase = "WAIT_CHILDREN",
                                                                        !.child = "PENDING"]]
        BY <1>1, <1>5 DEF queueFlowChildren
      <3>2. [Released(k) EXCEPT !.phase = "WAIT_CHILDREN", !.child = "PENDING"] = n
        BY DEF Released, OperationRecord
      <3> QED
        BY <1>2, <3>1, <3>2
    <2>3. /\ Same(k, n) /\ n.advanced = k.advanced /\ n.status = k.status
          /\ n.owner = None /\ n.phase = "WAIT_CHILDREN"
      BY DEF OperationRecord, Same
    <2> HIDE DEF n
    <2>4. Kept(operations[o], n)
      BY <1>2, <2>3 DEF Kept, Same
    <2>5. n.phase \in PhasesOf(n.kind)
      BY <2>3 DEF Same, PhasesOf, OperationRecord
    <2>6. OperationOK(o, n)
      BY <1>2, <1>4, <2>3, <2>5 DEF OperationOK, OnMain, Same
    <2> QED
      BY <2>1, <2>2, <2>4, <2>6, SaveEnds DEF queueFlowChildren
  <1>6. CASE ~(operations[o].owner = s /\ flowGuard(o) /\ operations[o].child = "none")
    <2>1. operations' = operations
      BY <1>1, <1>6 DEF queueFlowChildren
    <2> QED
      BY <2>1, NotSaved, SaveEnds DEF queueFlowChildren
  <1> QED
    BY <1>5, <1>6

\* A retry saves the operation as it is.
LEMMA RetriedSaves ==
    ASSUME Inv, NEW s \in Servers, NEW o \in Ops, o = tick[s].op, Retried(s)
    PROVE  \E n \in OperationRecord :
              /\ operations' = [operations EXCEPT ![o] = n]
              /\ Kept(operations[o], n) /\ OperationOK(o, n)
  <1>1. PICK k \in OperationRecord : k = operations[o] /\ OperationOK(o, k)
    BY OperationIs
  <1>2. PICK n \in OperationRecord : n = Released(k)
    BY DEF Released, OperationRecord
  <1>3. /\ Same(k, n) /\ n.advanced = k.advanced /\ n.status = k.status /\ n.phase = k.phase
        /\ n.child = k.child /\ n.owner = None
    BY <1>2 DEF Released, OperationRecord, Same
  <1>4. OperationOK(o, n)
    BY <1>1, <1>3 DEF OperationOK, OnMain, Same
  <1>5. Kept(operations[o], k)
    BY <1>1 DEF Kept
  <1>6. CASE Saved(s, k)
    BY <1>1, <1>2, <1>4, <1>5, <1>6, SavedSaves
  <1>7. CASE Failed(s)
    BY <1>7, FailedSaves
  <1> QED
    BY <1>1, <1>6, <1>7 DEF Retried

\* A candidate with its builds has succeeded; a promotion waits for its runtime.
LEMMA WaitChildrenOK ==
    ASSUME Inv, NEW s \in Servers, WaitChildren(s)
    PROVE  Inv'
  <1>1. PICK o \in Ops : o = tick[s].op
    BY TickIs DEF WaitChildren
  <1>2. PICK k \in OperationRecord : k = operations[o] /\ OperationOK(o, k)
    BY OperationIs
  <1>3. k.kind = "COMPOSED" => k.composed /\ k.advanced = Repositories
    BY <1>1, <1>2, TickIs DEF WaitChildren, TickFor
  <1>4. CASE tick[s].child = "FAILED"
    BY <1>1, <1>4, FailedSaves, SaveEnds DEF WaitChildren
  <1>5. CASE tick[s].child = "SUCCEEDED" /\ k.kind = "PROMOTION"
    <2> DEFINE after == [k EXCEPT !.phase = "WAIT_RUNTIME"]
    <2>1. after \in OperationRecord /\ Saved(s, after)
      BY <1>1, <1>2, <1>5 DEF OperationRecord, Phases, WaitChildren
    <2>2. PICK n \in OperationRecord : n = Released(after)
      BY <2>1 DEF Released, OperationRecord
    <2>3. /\ Same(k, after) /\ after.advanced = k.advanced /\ after.status = k.status
          /\ Same(k, n) /\ n.owner = None /\ n.phase = "WAIT_RUNTIME"
      BY <2>1, <2>2 DEF OperationRecord, Released, Same
    <2> HIDE DEF after
    <2>4. Kept(operations[o], after)
      BY <1>2, <2>3 DEF Kept, Same
    <2>5. OperationOK(o, n)
      BY <1>2, <1>5, <2>3 DEF OperationOK, OnMain, Same, PhasesOf
    <2>6. \E m \in OperationRecord :
              /\ operations' = [operations EXCEPT ![o] = m]
              /\ Kept(operations[o], m) /\ OperationOK(o, m)
      BY <1>1, <2>1, <2>2, <2>4, <2>5, SavedSaves
    <2> QED
      BY <2>6, SaveEnds DEF WaitChildren
  <1>6. CASE tick[s].child = "SUCCEEDED" /\ k.kind # "PROMOTION"
    <2> DEFINE after == [k EXCEPT !.status = "SUCCEEDED"]
    <2>1. after \in OperationRecord /\ Saved(s, after)
      BY <1>1, <1>2, <1>6 DEF OperationRecord, WaitChildren
    <2>2. PICK n \in OperationRecord : n = Released(after)
      BY <2>1 DEF Released, OperationRecord
    <2>3. /\ Same(k, after) /\ after.advanced = k.advanced /\ after.status = "SUCCEEDED"
          /\ Same(k, n) /\ n.advanced = k.advanced /\ n.owner = None /\ n.phase = k.phase
      BY <2>1, <2>2 DEF OperationRecord, Released, Same
    <2> HIDE DEF after
    <2>4. Kept(operations[o], after)
      BY <1>2, <2>3 DEF Kept, Same
    <2>5. OperationOK(o, n)
      BY <1>2, <1>3, <2>3 DEF OperationOK, OnMain, Same
    <2>6. \E m \in OperationRecord :
              /\ operations' = [operations EXCEPT ![o] = m]
              /\ Kept(operations[o], m) /\ OperationOK(o, m)
      BY <1>1, <2>1, <2>2, <2>4, <2>5, SavedSaves
    <2> QED
      BY <2>6, SaveEnds DEF WaitChildren
  <1>7. CASE tick[s].child \notin {"FAILED", "SUCCEEDED"}
    <2>1. Retried(s)
      BY <1>7 DEF WaitChildren
    <2> QED
      BY <1>1, <2>1, RetriedSaves, SaveEnds DEF WaitChildren
  <1> QED
    BY <1>4, <1>5, <1>6, <1>7

LEMMA WaitRuntimeOK ==
    ASSUME Inv, NEW s \in Servers, WaitRuntime(s)
    PROVE  Inv'
  <1>1. PICK o \in Ops : o = tick[s].op
    BY TickIs DEF WaitRuntime
  <1>2. CASE tick[s].health = "unhealthy"
    BY <1>1, <1>2, FailedSaves, SaveEnds DEF WaitRuntime
  <1>3. CASE tick[s].health = "none"
    <2>1. Retried(s) /\ Ends(s)
      BY <1>3 DEF WaitRuntime
    <2> QED
      BY <1>1, <2>1, RetriedSaves, SaveEnds DEF WaitRuntime
  <1>4. CASE tick[s].health \notin {"unhealthy", "none"}
    <2>1. Goes(s, "RELEASE") /\ UNCHANGED operations
      BY <1>4 DEF WaitRuntime
    <2>2. /\ tick[s] \in TickRecord /\ tick[s].step = "WAIT_RUNTIME"
          /\ tick[s].step \in PhasesOf(operations[o].kind)
          /\ operations[o] \in OperationRecord
      BY <1>1, TickIs, OperationIs DEF WaitRuntime, TickFor, Phases
    <2>3. operations[o].kind = "PROMOTION"
      BY <2>2 DEF PhasesOf, OperationRecord
    <2>4. PICK t \in TickRecord : t = [tick[s] EXCEPT !.step = "RELEASE"]
      BY <2>2 DEF TickRecord, Steps
    <2>5. t.step = "RELEASE"
      BY <2>2, <2>4 DEF TickRecord
    <2>6. TickFor(t, operations[o])
      BY <2>3, <2>5 DEF TickFor, Phases
    <2>7. /\ wire' \subseteq Ops \X Repositories /\ generated' \subseteq Ops /\ events' \in Nat
          /\ UNCHANGED <<desired, work, verdict, main, request, releases, pushed>>
      BY DEF WaitRuntime, StoreOnly, Inv, TypeOK
    <2>8. "RELEASE" \in Steps
      BY DEF Steps
    <2> QED
      BY <1>1, <2>1, <2>2, <2>4, <2>6, <2>7, <2>8, GoesOn
  <1> QED
    BY <1>2, <1>3, <1>4

\* The release is recorded for a promotion that is not over and is then.
LEMMA finishFlowReleaseOK ==
    ASSUME Inv, NEW s \in Servers, finishFlowRelease(s)
    PROVE  Inv'
  <1>1. PICK o \in Ops : o = tick[s].op
    BY TickIs DEF finishFlowRelease
  <1>2. PICK k \in OperationRecord : k = operations[o] /\ OperationOK(o, k)
    BY OperationIs
  <1>3. k.kind = "PROMOTION"
    BY <1>1, <1>2, TickIs DEF finishFlowRelease, TickFor
  <1>4. CASE operations[o].owner = s /\ flowGuard(o) /\ operations[o].health = "healthy"
    <2>1. Recorded(s)
      BY <1>1, <1>4 DEF finishFlowRelease
    <2>2. k.status # "SUCCEEDED"
      BY <1>2, <1>4, NoneIsNobody DEF OperationOK
    <2> DEFINE n == [k EXCEPT !.owner = None, !.live = FALSE, !.status = "SUCCEEDED"]
    <2>3. n \in OperationRecord
      BY DEF OperationRecord
    <2>4. operations' = [operations EXCEPT ![o] = n]
      <3>1. operations' = [operations EXCEPT ![o] = [Released(@) EXCEPT !.status = "SUCCEEDED"]]
        BY <1>1, <2>1 DEF Recorded
      <3>2. [Released(k) EXCEPT !.status = "SUCCEEDED"] = n
        BY DEF Released, OperationRecord
      <3> QED
        BY <1>2, <3>1, <3>2
    <2>5. /\ Same(k, n) /\ n.advanced = k.advanced /\ n.status = "SUCCEEDED"
          /\ n.owner = None /\ n.phase = k.phase
      BY DEF OperationRecord, Same
    <2> HIDE DEF n
    <2>6. Kept(operations[o], n)
      BY <1>2, <2>5 DEF Kept, Same
    <2>7. OperationOK(o, n)
      BY <1>2, <1>3, <2>5 DEF OperationOK, OnMain, Same
    <2>8. PICK q \in [promotion : Nat, candidate : Nat, source : Sources] :
             /\ q.promotion = o /\ q.candidate = k.candidate
             /\ releases' = releases \union {q}
      <3>1. ReleaseOf(o) \in [promotion : Nat, candidate : Nat, source : Sources]
        BY <1>2, OperationIs DEF ReleaseOf, OperationRecord
      <3>2. ReleaseOf(o).promotion = o /\ ReleaseOf(o).candidate = k.candidate
        BY <1>2 DEF ReleaseOf
      <3> QED
        BY <1>1, <2>1, <3>1, <3>2 DEF Recorded
    <2>9. ReleaseOK(q)'
      BY <1>3, <2>3, <2>4, <2>5, <2>8, ChangeOne DEF ReleaseOK, Same
    <2>10. \A r \in releases' : r \in releases \/ ReleaseOK(r)'
      BY <2>8, <2>9
    <2>11. work' \in [ready : BOOLEAN, evidence : Nat]
      <3>1. work \in [ready : BOOLEAN, evidence : Nat]
        BY DEF Inv, TypeOK
      <3>2. PICK e \in Nat : e = work.evidence + 1
        BY <3>1
      <3>3. work' = [work EXCEPT !.evidence = e]
        BY <2>1, <3>1, <3>2 DEF Recorded
      <3> QED
        BY <3>1, <3>3
    <2>12. releases' \subseteq [promotion : Nat, candidate : Nat, source : Sources]
      BY <2>8 DEF Inv, TypeOK
    <2>13. /\ tick' \in [Servers -> TickRecord]
           /\ \A u \in Servers : tick'[u] = tick[u] \/ TickOK(tick[u])'
      BY IdleIs DEF finishFlowRelease, Ends, Inv, TypeOK, TickOK
    <2>14. /\ wire' \subseteq Ops \X Repositories /\ generated' \subseteq Ops /\ events' \in Nat
           /\ UNCHANGED <<desired, verdict, main, request, pushed>>
      BY DEF finishFlowRelease, Inv, TypeOK
    <2> QED
      BY <2>3, <2>4, <2>6, <2>7, <2>10, <2>11, <2>12, <2>13, <2>14, OneChanges
  <1>5. CASE ~(operations[o].owner = s /\ flowGuard(o) /\ operations[o].health = "healthy")
    <2>1. UNCHANGED <<operations, releases, work>> /\ Ends(s) /\ StoreOnly
      BY <1>1, <1>5 DEF finishFlowRelease, StoreOnly
    <2> QED
      BY <2>1, NotSaved, SaveEnds
  <1> QED
    BY <1>4, <1>5

-----------------------------------------------------------------------------
(***************************************************************************)
(* Commands                                                                *)
(***************************************************************************)

\* What Operation makes, and that it is right for a composed candidate, ...
LEMMA NewOperation ==
    ASSUME Inv, NEW kind \in {"COMPOSED", "MAIN", "PROMOTION"}, NEW phase \in Phases,
           NEW candidate \in Nat
    PROVE  /\ Operation(kind, phase, candidate, main) \in OperationRecord
           /\ LET n == Operation(kind, phase, candidate, main)
              IN /\ n.kind = kind /\ n.phase = phase /\ n.candidate = candidate
                 /\ n.source = main /\ n.status = "PENDING" /\ ~n.composed /\ n.advanced = {}
                 /\ n.child = "none"
  BY DEF Operation, OperationRecord, Children, Health, Inv, TypeOK

\* ... which has advanced nothing, and for one from main, which has seen it.
LEMMA OnItself ==
    ASSUME Inv, NEW n \in OperationRecord, n.source = main
    PROVE  \A r \in Repositories : OnMain(n, r)
  BY PrefixOfItself DEF OnMain, Inv, TypeOK, Sources

\* An operation is added whose key is new.
LEMMA AppendStep ==
    ASSUME Inv, NEW n \in OperationRecord,
           OperationOK(Len(operations) + 1, n), PromotionOK(n),
           n.kind = "MAIN" => \A p \in Ops : operations[p].kind # "MAIN",
           n.kind = "PROMOTION" => \A p \in Ops : operations[p].candidate # n.candidate,
           operations' = Append(operations, n), desired' \in Nat,
           request' \in [Clients -> OperationRecord \union {None}],
           \A c \in Clients : request'[c] \in {request[c], None},
           UNCHANGED <<work, verdict, main, generated, wire, tick, releases, pushed, events>>
    PROVE  Inv'
  <1>0. Len(operations) \in Nat
    BY LenProperties DEF Inv, TypeOK
  <1>l. PICK L \in Nat : L = Len(operations)
    BY <1>0
  <1>1. operations \in Seq(OperationRecord) /\ L \in Nat /\ Ops = 1..L
    BY <1>l DEF Inv, TypeOK, Ops
  <1>2. /\ operations' \in Seq(OperationRecord) /\ Len(operations') = L + 1
        /\ \A p \in 1..L : operations'[p] = operations[p]
        /\ operations'[L + 1] = n
    BY <1>1, <1>l, AppendProperties
  <1>3. Ops' = 1..(L + 1) /\ Ops \subseteq Ops'
    BY <1>1, <1>2 DEF Ops
  <1>4. TypeOK'
    <2>1. generated' \subseteq Ops' /\ wire' \subseteq Ops' \X Repositories
      BY <1>3 DEF Inv, TypeOK
    <2> QED
      BY <1>2, <2>1 DEF Inv, TypeOK
  <1>5. MainGrows
    BY MainStays DEF Inv
  <1>6. \A p \in Ops : Kept(operations[p], operations'[p])
    BY <1>1, <1>2 DEF Kept
  <1>7. Len(operations') >= Len(operations)
    BY <1>1, <1>2, <1>l
  <1>8. /\ \A u \in Servers : TickOK(tick[u])'
        /\ \A c \in Clients : RequestOK(request[c])'
        /\ \A q \in releases' : ReleaseOK(q)'
        /\ \A p \in Ops : PromotionOK(operations[p])'
        /\ \A p \in Ops : OperationOK(p, operations[p])'
        /\ PushesOK'
    BY <1>1, <1>2, <1>4, <1>5, <1>6, <1>7, Frame
  <1>9. OperationOK(L + 1, operations[L + 1])' /\ PromotionOK(operations[L + 1])'
    <2>1. OperationOK(L + 1, n)
      BY <1>l
    <2>2. OperationOK(L + 1, n)'
      BY <2>1 DEF OperationOK, OnMain
    <2>3. PromotionOK(n)'
      BY <1>1, <1>2, <1>3 DEF PromotionOK
    <2>4. operations'[L + 1] = n
      BY <1>2
    <2>5. OperationOK(L + 1, operations[L + 1])'
      BY <2>2, <2>4 DEF OperationOK, OnMain
    <2>6. PromotionOK(operations[L + 1])'
      BY <2>3, <2>4 DEF PromotionOK
    <2> QED
      BY <2>5, <2>6
  <1>10. \A p \in Ops' : p \in Ops \/ p = L + 1
    BY <1>1, <1>3
  <1>11. KeysOK'
    <2> SUFFICES ASSUME NEW o \in Ops', NEW p \in Ops', operations'[o].kind = operations'[p].kind
                 PROVE  /\ operations'[o].kind = "MAIN" => o = p
                        /\ operations'[o].kind = "PROMOTION"
                             /\ operations'[o].candidate = operations'[p].candidate => o = p
      BY DEF KeysOK
    <2>1. CASE o \in Ops /\ p \in Ops
      BY <1>1, <1>2, <2>1 DEF Inv, KeysOK
    <2>2. CASE o = L + 1 /\ p = L + 1
      BY <2>2
    <2>3. CASE o \in Ops /\ p = L + 1
      BY <1>1, <1>2, <2>3
    <2>4. CASE o = L + 1 /\ p \in Ops
      BY <1>1, <1>2, <2>4
    <2> QED
      BY <1>10, <2>1, <2>2, <2>3, <2>4
  <1>12. \A p \in Ops' : OperationOK(p, operations[p])' /\ PromotionOK(operations[p])'
    BY <1>8, <1>9, <1>10
  <1> QED
    BY <1>4, <1>8, <1>11, <1>12 DEF Inv

LEMMA prepare_release_candidateOK ==
    ASSUME Inv, prepare_release_candidate
    PROVE  Inv'
  <1>1. PICK n \in OperationRecord :
           /\ n = Operation("COMPOSED", "COMPOSE_SOURCE", 0, main)
           /\ n.kind = "COMPOSED" /\ n.phase = "COMPOSE_SOURCE" /\ n.status = "PENDING"
           /\ ~n.composed /\ n.advanced = {} /\ n.child = "none"
    BY NewOperation DEF Phases
  <1>2. OperationOK(Len(operations) + 1, n) /\ PromotionOK(n)
    BY <1>1 DEF OperationOK, PhasesOf, PromotionOK
  <1>3. /\ operations' = Append(operations, n) /\ desired' \in Nat
        /\ request' \in [Clients -> OperationRecord \union {None}]
        /\ \A c \in Clients : request'[c] \in {request[c], None}
        /\ UNCHANGED <<work, verdict, main, generated, wire, tick, releases, pushed, events>>
    BY <1>1 DEF prepare_release_candidate, Inv, TypeOK
  <1> QED
    BY <1>1, <1>2, <1>3, AppendStep

\* A request reads main and prepares a candidate from it.
LEMMA observeRequestOK ==
    ASSUME Inv, NEW c \in Clients, observeRequest(c)
    PROVE  Inv'
  <1>1. PICK n \in OperationRecord :
           /\ n = Operation("MAIN", "QUEUE_BUILDS", 0, main)
           /\ n.kind = "MAIN" /\ n.phase = "QUEUE_BUILDS" /\ n.status = "PENDING"
           /\ n.child = "none" /\ n.source = main
    BY NewOperation DEF Phases
  <1>2. RequestOK(n)
    BY <1>1, OnItself DEF RequestOK
  <1>3. request' = [request EXCEPT ![c] = n]
    BY <1>1 DEF observeRequest
  <1>4. request' \in [Clients -> OperationRecord \union {None}]
    BY <1>3 DEF Inv, TypeOK
  <1>5. \A d \in Clients : RequestOK(request'[d])
    BY <1>2, <1>3, <1>4 DEF Inv, TypeOK
  <1>6. UNCHANGED <<operations, desired, work, verdict, main, generated, wire, tick, releases,
                    pushed, events>>
    BY DEF observeRequest
  <1>7. TypeOK'
    BY <1>4, <1>6 DEF Inv, TypeOK, Ops
  <1>8. Ops' = Ops
    BY <1>6 DEF Ops
  <1>9. ASSUME NEW o \in Ops'
        PROVE  OperationOK(o, operations[o])' /\ PromotionOK(operations[o])'
    <2>1. OperationOK(o, operations[o]) /\ PromotionOK(operations[o])
      BY <1>8, OperationIs
    <2>2. OperationOK(o, operations[o])'
      BY <1>6, <2>1 DEF OperationOK, OnMain
    <2>3. PromotionOK(operations[o])'
      BY <1>6, <1>8, <2>1 DEF PromotionOK
    <2> QED
      BY <2>2, <2>3
  <1>10. KeysOK' /\ (\A q \in releases' : ReleaseOK(q)') /\ PushesOK'
    BY <1>6, <1>8 DEF Inv, KeysOK, ReleaseOK, PushesOK
  <1>11. \A s \in Servers : TickOK(tick[s])'
    BY <1>6, <1>8 DEF Inv, TickOK, TickFor, OnMain
  <1>12. \A d \in Clients : RequestOK(request[d])'
    BY <1>5, <1>6 DEF RequestOK, OnMain
  <1> QED
    BY <1>7, <1>9, <1>10, <1>11, <1>12 DEF Inv

\* A request is admitted if there is no candidate from main yet.
LEMMA executeMainCandidateOK ==
    ASSUME Inv, NEW c \in Clients, executeMainCandidate(c)
    PROVE  Inv'
  <1>1. /\ request' = [request EXCEPT ![c] = None]
        /\ UNCHANGED <<desired, work, verdict, main, generated, wire, tick, releases, pushed, events>>
        /\ request \in [Clients -> OperationRecord \union {None}]
        /\ desired' \in Nat
    BY DEF executeMainCandidate, Inv, TypeOK
  <1>2. /\ request' \in [Clients -> OperationRecord \union {None}]
        /\ \A d \in Clients : request'[d] \in {request[d], None}
    BY <1>1
  <1>3. CASE ~candidateReplay /\ request[c].evidence = work.evidence /\ releaseWorkReady
    <2>1. PICK n \in OperationRecord : n = request[c] /\ RequestOK(n) /\ n # None
      BY <1>1 DEF executeMainCandidate, Inv
    <2>2. operations' = Append(operations, n)
      BY <1>3, <2>1 DEF executeMainCandidate
    <2>3. OperationOK(Len(operations) + 1, n) /\ PromotionOK(n)
      BY <2>1 DEF OperationOK, PhasesOf, PromotionOK, RequestOK
    <2>4. n.kind = "MAIN" /\ \A p \in Ops : operations[p].kind # "MAIN"
      BY <1>3, <2>1 DEF candidateReplay, RequestOK
    <2> QED
      BY <1>1, <1>2, <2>2, <2>3, <2>4, AppendStep
  <1>4. CASE ~(~candidateReplay /\ request[c].evidence = work.evidence /\ releaseWorkReady)
    <2>1. operations' = operations
      BY <1>4 DEF executeMainCandidate
    <2>2. Ops' = Ops
      BY <2>1 DEF Ops
    <2>3. TypeOK'
      BY <1>1, <1>2, <2>1, <2>2 DEF Inv, TypeOK
    <2>4. MainGrows
      BY <1>1, MainStays DEF Inv
    <2>5. \A p \in Ops : Kept(operations[p], operations'[p])
      BY <2>1 DEF Kept
    <2>6. \A p \in Ops : OperationOK(p, operations[p])'
      BY <1>1, <2>1 DEF Inv, OperationOK, OnMain
    <2>7. /\ Len(operations') = Len(operations)
          /\ \A u \in Servers : tick'[u] = tick[u]
          /\ \A q \in releases' : q \in releases
          /\ pushed' = pushed
      BY <1>1, <2>1
    <2> QED
      BY <1>2, <2>3, <2>4, <2>5, <2>6, <2>7, KeptStep
  <1> QED
    BY <1>3, <1>4

\* A promotion takes the source of a candidate that has succeeded and has none.
LEMMA promote_release_candidateOK ==
    ASSUME Inv, NEW c \in Ops, promote_release_candidate(c)
    PROVE  Inv'
  <1>1. PICK k \in OperationRecord : k = operations[c] /\ OperationOK(c, k) /\ c \in Nat
    BY OperationIs
  <1>2. k.kind = "COMPOSED" /\ k.status = "SUCCEEDED"
    BY <1>1 DEF promote_release_candidate
  <1>3. PICK m \in OperationRecord :
           /\ m = Operation("PROMOTION", "QUEUE_DEPLOYMENTS", c, main)
           /\ m.kind = "PROMOTION" /\ m.phase = "QUEUE_DEPLOYMENTS" /\ m.candidate = c
           /\ m.status = "PENDING" /\ m.child = "none"
    BY <1>1, NewOperation DEF Phases
  <1>4. PICK n \in OperationRecord : n = [m EXCEPT !.base = k.base, !.source = k.source]
    BY DEF OperationRecord
  <1>5. /\ n.kind = "PROMOTION" /\ n.phase = "QUEUE_DEPLOYMENTS" /\ n.candidate = c
        /\ n.status = "PENDING" /\ n.child = "none" /\ n.source = k.source
    BY <1>3, <1>4 DEF OperationRecord
  <1>6. \A r \in Repositories : OnMain(n, r)
    BY <1>1, <1>2, <1>5 DEF OperationOK, OnMain
  <1>7. OperationOK(Len(operations) + 1, n) /\ PromotionOK(n)
    BY <1>1, <1>2, <1>5, <1>6 DEF OperationOK, PhasesOf, PromotionOK
  <1>8. operations' = Append(operations, n)
    BY <1>1, <1>3, <1>4 DEF promote_release_candidate
  <1>9. \A p \in Ops : operations[p].candidate # n.candidate
    BY <1>5 DEF promote_release_candidate
  <1>10. desired' \in Nat
    BY OperationIs DEF promote_release_candidate
  <1>11. /\ request' \in [Clients -> OperationRecord \union {None}]
         /\ \A d \in Clients : request'[d] \in {request[d], None}
         /\ UNCHANGED <<work, verdict, main, generated, wire, tick, releases, pushed, events>>
    BY DEF promote_release_candidate, Inv, TypeOK
  <1> QED
    BY <1>5, <1>7, <1>8, <1>9, <1>10, <1>11, AppendStep

-----------------------------------------------------------------------------
(***************************************************************************)
(* People, children, time and faults                                       *)
(***************************************************************************)

\* A step that leaves the operations alone; a Tick may die.
LEMMA OperationsStay ==
    ASSUME Inv, TypeOK', MainGrows,
           UNCHANGED <<operations, request, releases>>,
           \A u \in Servers : tick'[u] = tick[u] \/ tick'[u].step = "IDLE",
           pushed' = pushed \/ PushesOK'
    PROVE  Inv'
  <1>1. \A p \in Ops : Kept(operations[p], operations'[p])
    BY DEF Kept
  <1>2. Len(operations) \in Nat
    BY LenProperties DEF Inv, TypeOK
  <1>3. Len(operations') = Len(operations) /\ Len(operations') >= Len(operations)
    BY <1>2
  <1>4. \A p \in Ops : OperationOK(p, operations[p])'
    BY <1>1, <1>3, Frame
  <1>5. \A u \in Servers : tick'[u] = tick[u] \/ TickOK(tick[u])'
    BY DEF TickOK
  <1> QED
    BY <1>1, <1>3, <1>4, <1>5, KeptStep

\* A step that moves on the child, the health or the lease of one operation.
LEMMA FieldChanges ==
    ASSUME Inv, NEW o \in Ops, NEW n \in OperationRecord, Same(operations[o], n),
           n.phase = operations[o].phase, n.status = operations[o].status,
           n.advanced = operations[o].advanced, n.owner = operations[o].owner,
           n.child # "none" => operations[o].child # "none",
           operations' = [operations EXCEPT ![o] = n],
           events' \in Nat,
           UNCHANGED <<desired, work, verdict, main, generated, wire, tick, request, releases, pushed>>
    PROVE  Inv'
  <1>1. OperationOK(o, operations[o])
    BY OperationIs
  <1>2. Kept(operations[o], n)
    BY DEF Kept, Same
  <1>3. OperationOK(o, n)
    BY <1>1 DEF OperationOK, OnMain, Same
  <1>4. /\ tick' \in [Servers -> TickRecord]
        /\ \A u \in Servers : tick'[u] = tick[u] \/ TickOK(tick[u])'
        /\ work' \in [ready : BOOLEAN, evidence : Nat]
        /\ releases' \subseteq [promotion : Nat, candidate : Nat, source : Sources]
        /\ \A q \in releases' : q \in releases \/ ReleaseOK(q)'
        /\ wire' \subseteq Ops \X Repositories /\ generated' \subseteq Ops
    BY DEF Inv, TypeOK
  <1> QED
    BY <1>2, <1>3, <1>4, OneChanges

\* The child of an operation moves on.
LEMMA ChildOK ==
    ASSUME Inv, NEW o \in Ops, NEW from \in Children \ {"none"}, NEW to \in Children,
           Child(o, from, to)
    PROVE  Inv'
  <1>1. PICK k \in OperationRecord : k = operations[o]
    BY OperationIs
  <1>2. PICK n \in OperationRecord : n = [k EXCEPT !.child = to]
    BY DEF OperationRecord
  <1>3. /\ Same(k, n) /\ n.phase = k.phase /\ n.status = k.status /\ n.advanced = k.advanced
        /\ n.owner = k.owner
    BY <1>2 DEF OperationRecord, Same
  <1>4. operations' = [operations EXCEPT ![o] = n]
    <2>1. operations \in Seq(OperationRecord)
      BY DEF Inv, TypeOK
    <2> QED
      BY <1>1, <1>2, <2>1 DEF Child, Ops
  <1>5. k.child # "none"
    BY <1>1 DEF Child
  <1>6. /\ events' \in Nat
        /\ UNCHANGED <<desired, work, verdict, main, generated, wire, tick, request, releases, pushed>>
    BY DEF Child, StoreOnly, Inv, TypeOK
  <1> QED
    BY <1>1, <1>3, <1>4, <1>5, <1>6, FieldChanges

LEMMA ChildrenOK ==
    ASSUME Inv, NEW o \in Ops,
           \/ ChildBuilds(o) \/ verifyPromotionSource(o) \/ ChildFails(o)
           \/ \E to \in {"PENDING", "SUCCEEDED", "FAILED"} : ChildApplied(o, to)
    PROVE  Inv'
  <1>1. PICK from \in Children \ {"none"}, to \in Children : Child(o, from, to)
    <2>1. \E from \in {"PENDING", "APPLYING"},
             to \in {"PENDING", "APPLYING", "SUCCEEDED", "FAILED"} : Child(o, from, to)
      BY DEF ChildBuilds, verifyPromotionSource, ChildFails, ChildApplied
    <2>2. /\ {"PENDING", "APPLYING"} \subseteq Children \ {"none"}
          /\ {"PENDING", "APPLYING", "SUCCEEDED", "FAILED"} \subseteq Children
      BY DEF Children
    <2> QED
      BY <2>1, <2>2
  <1> QED
    BY <1>1, ChildOK

LEMMA EventIs ==
    ASSUME Inv, Event \/ UNCHANGED events
    PROVE  events' \in Nat
  BY DEF Inv, TypeOK, Event

LEMMA record_runtime_observationOK ==
    ASSUME Inv, NEW o \in Ops, NEW health \in {"healthy", "unhealthy"},
           record_runtime_observation(o, health)
    PROVE  Inv'
  <1>1. PICK k \in OperationRecord : k = operations[o]
    BY OperationIs
  <1>2. PICK n \in OperationRecord : n = [k EXCEPT !.health = health]
    BY DEF OperationRecord, Health
  <1>3. /\ Same(k, n) /\ n.phase = k.phase /\ n.status = k.status /\ n.advanced = k.advanced
        /\ n.owner = k.owner /\ n.child = k.child
    BY <1>2 DEF OperationRecord, Same
  <1>4. operations' = [operations EXCEPT ![o] = n]
    <2>1. operations \in Seq(OperationRecord)
      BY DEF Inv, TypeOK
    <2> QED
      BY <1>1, <1>2, <2>1 DEF record_runtime_observation, Ops
  <1>5. events' \in Nat
    BY EventIs DEF record_runtime_observation
  <1>6. UNCHANGED <<desired, work, verdict, main, generated, wire, tick, request, releases, pushed>>
    BY DEF record_runtime_observation
  <1> QED
    BY <1>1, <1>3, <1>4, <1>5, <1>6, FieldChanges

LEMMA LeaseEndsOK ==
    ASSUME Inv, NEW o \in Ops, LeaseEnds(o)
    PROVE  Inv'
  <1>1. PICK k \in OperationRecord : k = operations[o]
    BY OperationIs
  <1>2. PICK n \in OperationRecord : n = [k EXCEPT !.live = FALSE]
    BY DEF OperationRecord
  <1>3. /\ Same(k, n) /\ n.phase = k.phase /\ n.status = k.status /\ n.advanced = k.advanced
        /\ n.owner = k.owner /\ n.child = k.child
    BY <1>2 DEF OperationRecord, Same
  <1>4. operations' = [operations EXCEPT ![o] = n]
    <2>1. operations \in Seq(OperationRecord)
      BY DEF Inv, TypeOK
    <2> QED
      BY <1>1, <1>2, <2>1 DEF LeaseEnds, Ops
  <1>5. events' \in Nat
    BY EventIs DEF LeaseEnds
  <1>6. UNCHANGED <<desired, work, verdict, main, generated, wire, tick, request, releases, pushed>>
    BY DEF LeaseEnds
  <1> QED
    BY <1>1, <1>3, <1>4, <1>5, <1>6, FieldChanges

\* Somebody selects, records, revises or dies: no operation changes.
LEMMA QuietStep ==
    ASSUME Inv,
           \/ SelectOther \/ revise_test_scenario
           \/ \E passed \in BOOLEAN : RecordResult(passed)
           \/ \E o \in Ops, result \in {"passed", "failed"} : record_scenario_run(o, result)
           \/ \E s \in Servers : Crash(s)
    PROVE  Inv'
  <1>1. /\ UNCHANGED <<operations, main, generated, wire, request, releases, pushed>>
        /\ events' \in Nat /\ Ops' = Ops
    BY EventIs DEF SelectOther, revise_test_scenario, RecordResult, record_scenario_run, Crash, Ops
  <1>2. desired' \in Nat
    BY DEF SelectOther, revise_test_scenario, RecordResult, record_scenario_run, Crash, Inv, TypeOK
  <1>3. work' \in [ready : BOOLEAN, evidence : Nat]
    BY DEF SelectOther, revise_test_scenario, RecordResult, record_scenario_run, Crash, Inv, TypeOK
  <1>4. verdict' \in [OpIds -> {"none", "passed", "failed"}]
    BY DEF SelectOther, revise_test_scenario, RecordResult, record_scenario_run, Crash, Inv, TypeOK
  <1>5. /\ tick' \in [Servers -> TickRecord]
        /\ \A u \in Servers : tick'[u] = tick[u] \/ tick'[u].step = "IDLE"
    BY IdleIs DEF SelectOther, revise_test_scenario, RecordResult, record_scenario_run, Crash, Ends,
                  Inv, TypeOK
  <1>6. TypeOK'
    BY <1>1, <1>2, <1>3, <1>4, <1>5 DEF Inv, TypeOK
  <1>7. MainGrows
    BY <1>1, MainStays DEF Inv
  <1> QED
    BY <1>1, <1>5, <1>6, <1>7, OperationsStay

-----------------------------------------------------------------------------
(***************************************************************************)
(* Main                                                                    *)
(***************************************************************************)

\* One main changes to what it is a prefix of.
LEMMA MainChanges ==
    ASSUME Inv, NEW r \in Repositories, NEW new \in Seq(Int), IsPrefix(main[r], new),
           main' = [main EXCEPT ![r] = new]
    PROVE  main' \in Sources /\ MainGrows /\ main'[r] = new
  <1>1. main \in [Repositories -> Seq(Int)]
    BY DEF Inv, TypeOK, Sources
  <1>2. main' \in Sources /\ main'[r] = new /\ \A q \in Repositories : q # r => main'[q] = main[q]
    BY <1>1 DEF Sources
  <1> QED
    BY <1>1, <1>2, PrefixOfItself DEF MainGrows

\* An update that is not forced only adds to main.
LEMMA UpdateRefOK ==
    ASSUME Inv, NEW w \in wire, UpdateRef(w)
    PROVE  Inv'
  <1>1. PICK o \in Ops, r \in Repositories : w[1] = o /\ w[2] = r
    BY DEF Inv, TypeOK
  <1>2. operations[o].source[r] \in Seq(Int) /\ main[r] \in Seq(Int)
    BY OperationIs DEF OperationRecord, Sources, Inv, TypeOK
  <1>3. PICK new \in Seq(Int) :
            new = IF IsPrefix(main[r], operations[o].source[r]) THEN operations[o].source[r]
                  ELSE main[r]
    BY <1>2
  <1>4. IsPrefix(main[r], new)
    BY <1>2, <1>3, PrefixOfItself
  <1>5. main' = [main EXCEPT ![r] = new]
    BY <1>1, <1>3 DEF UpdateRef
  <1>6. main' \in Sources /\ MainGrows
    BY <1>4, <1>5, MainChanges
  <1>7. /\ UNCHANGED <<operations, request, releases, tick, pushed>>
        /\ Ops' = Ops
    BY DEF UpdateRef, Ops
  <1>8. TypeOK'
    BY <1>6, <1>7 DEF UpdateRef, Inv, TypeOK
  <1> QED
    BY <1>6, <1>7, <1>8, OperationsStay

\* A person adds a commit to main.
LEMMA PushOK ==
    ASSUME Inv, NEW r \in Repositories, Push(r)
    PROVE  Inv'
  <1>1. IsFiniteSet(pushed) /\ Cardinality(pushed) \in Nat
    BY FS_CardinalityType DEF Inv, PushesOK
  <1>2. PICK n \in Int : n = -(Cardinality(pushed) + 1)
    BY <1>1
  <1>3. PICK new \in Seq(Int) :
            new = Append(main[r], n) /\ IsPrefix(main[r], new) /\ n \in Range(new)
    BY PrefixOfAppend DEF Inv, TypeOK, Sources
  <1>4. main' = [main EXCEPT ![r] = new] /\ pushed' = pushed \union {<<r, n>>}
    BY <1>2, <1>3 DEF Push
  <1>5. main' \in Sources /\ MainGrows /\ main'[r] = new
    BY <1>3, <1>4, MainChanges
  <1>6. UNCHANGED <<operations, request, releases, tick>> /\ Ops' = Ops
    BY DEF Push, Ops
  <1>7. TypeOK'
    BY <1>4, <1>5, <1>6 DEF Push, Inv, TypeOK
  <1>8. PushesOK'
    <2>1. IsFiniteSet(pushed')
      BY <1>1, <1>4, FS_AddElement
    <2>2. ASSUME NEW p \in pushed
          PROVE  p[2] \in Range(main'[p[1]])
      <3>1. p[1] \in Repositories /\ p[2] \in Range(main[p[1]])
        BY DEF Inv, TypeOK, PushesOK
      <3>2. main[p[1]] \in Seq(Int) /\ main'[p[1]] \in Seq(Int) /\ IsPrefix(main[p[1]], main'[p[1]])
        BY <1>5, <3>1 DEF Inv, TypeOK, Sources, MainGrows
      <3> QED
        BY <3>1, <3>2, PrefixRange
    <2>3. \A p \in pushed' : p[2] \in Range(main'[p[1]])
      BY <1>3, <1>4, <1>5, <2>2
    <2> QED
      BY <2>1, <2>3 DEF PushesOK
  <1> QED
    BY <1>5, <1>6, <1>7, <1>8, OperationsStay

-----------------------------------------------------------------------------
(***************************************************************************)
(* Every operation at once                                                 *)
(***************************************************************************)

\* A step that changes fields of every operation.
LEMMA AllChange ==
    ASSUME Inv, NEW new \in [Ops -> OperationRecord], operations' = new,
           \A o \in Ops : Kept(operations[o], new[o]) /\ OperationOK(o, new[o]),
           events' \in Nat,
           UNCHANGED <<desired, work, verdict, main, generated, wire, tick, request, releases, pushed>>
    PROVE  Inv'
  <1>1. Len(operations) \in Nat
    BY LenProperties DEF Inv, TypeOK
  <1>2. new \in [1..Len(operations) -> OperationRecord]
    BY DEF Ops
  <1>3. operations' \in Seq(OperationRecord) /\ Len(operations') = Len(operations)
    BY <1>1, <1>2
  <1>4. Ops' = Ops
    BY <1>3 DEF Ops
  <1>5. TypeOK'
    BY <1>3, <1>4 DEF Inv, TypeOK
  <1>6. MainGrows
    BY MainStays DEF Inv
  <1>7. \A o \in Ops : Kept(operations[o], operations'[o])
    OBVIOUS
  <1>8. ASSUME NEW o \in Ops
        PROVE  OperationOK(o, operations[o])'
    <2>1. OperationOK(o, operations'[o])
      OBVIOUS
    <2> QED
      BY <2>1 DEF OperationOK, OnMain
  <1>9. /\ \A u \in Servers : tick'[u] = tick[u]
        /\ \A c \in Clients : request'[c] \in {request[c], None}
        /\ \A q \in releases' : q \in releases
        /\ pushed' = pushed
    OBVIOUS
  <1> QED
    BY <1>3, <1>5, <1>6, <1>7, <1>8, <1>9, KeptStep

LEMMA ReconfigureOK ==
    ASSUME Inv, Reconfigure
    PROVE  Inv'
  <1> DEFINE new == [o \in Ops |-> [operations[o] EXCEPT !.frozen = FALSE]]
  <1>1. ASSUME NEW o \in Ops
        PROVE  /\ new[o] \in OperationRecord
               /\ Kept(operations[o], new[o]) /\ OperationOK(o, new[o])
    <2>1. PICK k \in OperationRecord : k = operations[o] /\ OperationOK(o, k)
      BY OperationIs
    <2>2. PICK n \in OperationRecord : n = [k EXCEPT !.frozen = FALSE]
      BY DEF OperationRecord
    <2>3. new[o] = n
      BY <2>1, <2>2
    <2>4. /\ Same(k, n) /\ n.phase = k.phase /\ n.status = k.status /\ n.advanced = k.advanced
          /\ n.owner = k.owner /\ n.child = k.child
      BY <2>2 DEF OperationRecord, Same
    <2>5. Kept(k, n) /\ OperationOK(o, n)
      BY <2>1, <2>4 DEF Kept, Same, OperationOK, OnMain
    <2> HIDE DEF new
    <2> QED
      BY <2>1, <2>3, <2>5
  <1>2. new \in [Ops -> OperationRecord]
    BY <1>1
  <1>3. operations' = new
    BY DEF Reconfigure
  <1>4. /\ events' \in Nat
        /\ UNCHANGED <<desired, work, verdict, main, generated, wire, tick, request, releases, pushed>>
    BY EventIs DEF Reconfigure
  <1>5. PICK m \in [Ops -> OperationRecord] :
           m = new /\ \A o \in Ops : Kept(operations[o], m[o]) /\ OperationOK(o, m[o])
    BY <1>1, <1>2
  <1> HIDE DEF new
  <1> QED
    BY <1>3, <1>4, <1>5, AllChange

\* What is under way is cancelled, and nobody owns it any more.
LEMMA RestoreBackupOK ==
    ASSUME Inv, RestoreBackup
    PROVE  Inv'
  <1> DEFINE cut(o) == [operations[o] EXCEPT !.child = IF @ \in {"PENDING", "APPLYING"} THEN "FAILED" ELSE @]
             new == [o \in Ops |-> IF terminalOperation(o) THEN cut(o)
                                   ELSE [Released(cut(o)) EXCEPT !.status = "CANCELLED"]]
  <1>1. ASSUME NEW o \in Ops
        PROVE  /\ new[o] \in OperationRecord
               /\ Kept(operations[o], new[o]) /\ OperationOK(o, new[o])
    <2>1. PICK k \in OperationRecord : k = operations[o] /\ OperationOK(o, k)
      BY OperationIs
    <2>2. PICK child \in Children :
             /\ child = IF k.child \in {"PENDING", "APPLYING"} THEN "FAILED" ELSE k.child
             /\ child # "none" => k.child # "none"
      BY DEF OperationRecord, Children
    <2>3. PICK m \in OperationRecord : m = [k EXCEPT !.child = child]
      BY DEF OperationRecord
    <2>4. cut(o) = m
      BY <2>1, <2>2, <2>3
    <2>5. /\ Same(k, m) /\ m.phase = k.phase /\ m.status = k.status /\ m.advanced = k.advanced
          /\ m.owner = k.owner /\ m.child = child
      BY <2>3 DEF OperationRecord, Same
    <2> HIDE DEF cut
    <2>6. CASE terminalOperation(o)
      <3>1. new[o] = m
        BY <2>4, <2>6
      <3>2. Kept(k, m) /\ OperationOK(o, m)
        BY <2>1, <2>2, <2>5 DEF Kept, Same, OperationOK, OnMain
      <3> HIDE DEF new
      <3> QED
        BY <2>1, <3>1, <3>2
    <2>7. CASE ~terminalOperation(o)
      <3>1. PICK n \in OperationRecord : n = [Released(m) EXCEPT !.status = "CANCELLED"]
        BY DEF Released, OperationRecord
      <3>2. new[o] = n
        BY <2>4, <2>7, <3>1
      <3>3. /\ Same(k, n) /\ n.phase = k.phase /\ n.status = "CANCELLED"
            /\ n.advanced = k.advanced /\ n.owner = None /\ n.child = child
        BY <2>5, <3>1 DEF OperationRecord, Released, Same
      <3>4. k.status # "SUCCEEDED"
        BY <2>1, <2>7 DEF terminalOperation
      <3>5. Kept(k, n) /\ OperationOK(o, n)
        BY <2>1, <2>2, <3>3, <3>4 DEF Kept, Same, OperationOK, OnMain
      <3> HIDE DEF new
      <3> QED
        BY <2>1, <3>2, <3>5
    <2> QED
      BY <2>6, <2>7
  <1>2. new \in [Ops -> OperationRecord]
    BY <1>1
  <1>3. operations' = new
    BY DEF RestoreBackup
  <1>4. /\ events' \in Nat
        /\ UNCHANGED <<desired, work, verdict, main, generated, wire, tick, request, releases, pushed>>
    BY EventIs DEF RestoreBackup
  <1>5. PICK m \in [Ops -> OperationRecord] :
           m = new /\ \A o \in Ops : Kept(operations[o], m[o]) /\ OperationOK(o, m[o])
    BY <1>1, <1>2
  <1> HIDE DEF new
  <1> QED
    BY <1>3, <1>4, <1>5, AllChange

-----------------------------------------------------------------------------
(***************************************************************************)
(* The specification                                                       *)
(***************************************************************************)

LEMMA InitOK == Init => Inv
  <1> SUFFICES ASSUME Init
               PROVE  Inv
    OBVIOUS
  <1>1. operations = <<>> /\ Len(operations) = 0 /\ Ops = {}
    BY DEF Init, Ops
  <1>2. <<0>> \in Seq(Int) /\ operations \in Seq(OperationRecord)
    BY <1>1
  <1>3. TypeOK
    <2>1. main \in Sources
      BY <1>2 DEF Init, Sources
    <2>2. tick \in [Servers -> TickRecord]
      BY IdleIs DEF Init
    <2>3. verdict \in [OpIds -> {"none", "passed", "failed"}]
      BY DEF Init
    <2>4. work \in [ready : BOOLEAN, evidence : Nat]
      BY DEF Init
    <2> QED
      BY <1>2, <2>1, <2>2, <2>3, <2>4 DEF Init, TypeOK
  <1>4. \A s \in Servers : TickOK(tick[s])
    BY IdleIs DEF Init, TickOK
  <1>5. \A c \in Clients : RequestOK(request[c])
    BY DEF Init, RequestOK
  <1>6. PushesOK
    BY FS_EmptySet DEF Init, PushesOK
  <1>7. (\A q \in releases : ReleaseOK(q)) /\ KeysOK
    BY <1>1 DEF Init, KeysOK
  <1> QED
    BY <1>1, <1>3, <1>4, <1>5, <1>6, <1>7 DEF Inv

LEMMA PeopleOK ==
    ASSUME Inv, People
    PROVE  Inv'
  <1>1. CASE prepare_release_candidate
    BY <1>1, prepare_release_candidateOK
  <1>2. CASE \/ SelectOther \/ revise_test_scenario
             \/ \E passed \in BOOLEAN : RecordResult(passed)
             \/ \E o \in Ops, result \in {"passed", "failed"} : record_scenario_run(o, result)
    BY <1>2, QuietStep
  <1>3. CASE \E c \in Clients : observeRequest(c) \/ executeMainCandidate(c)
    BY <1>3, observeRequestOK, executeMainCandidateOK
  <1>4. CASE \E o \in Ops : promote_release_candidate(o)
    BY <1>4, promote_release_candidateOK
  <1>5. CASE \E o \in Ops, h \in {"healthy", "unhealthy"} : record_runtime_observation(o, h)
    BY <1>5, record_runtime_observationOK
  <1>6. CASE \E r \in Repositories : Push(r)
    BY <1>6, PushOK
  <1> QED
    BY <1>1, <1>2, <1>3, <1>4, <1>5, <1>6 DEF People

LEMMA ServerOK ==
    ASSUME Inv, NEW s \in Servers, Server(s)
    PROVE  Inv'
  <1>1. CASE \E o \in Ops : Claim(s, o)
    BY <1>1, ClaimOK
  <1>2. CASE \/ finish(s) \/ observeMainCandidate(s) \/ ComposeSource(s) \/ RecoverSource(s)
             \/ SaveSource(s) \/ SourceReady(s)
    BY <1>2, finishOK, observeMainCandidateOK, ComposeSourceOK, RecoverSourceOK, SaveSourceOK,
       SourceReadyOK
  <1>3. CASE BeginAdvance(s) \/ AdvanceMain(s) \/ ReadBack(s) \/ SaveAdvance(s) \/ MainReady(s)
    BY <1>3, BeginAdvanceOK, AdvanceMainOK, ReadBackOK, SaveAdvanceOK, MainReadyOK
  <1>4. CASE \/ queueFlowChildren(s) \/ WaitChildren(s) \/ WaitRuntime(s) \/ finishFlowRelease(s)
    BY <1>4, queueFlowChildrenOK, WaitChildrenOK, WaitRuntimeOK, finishFlowReleaseOK
  <1> QED
    BY <1>1, <1>2, <1>3, <1>4 DEF Server

LEMMA OthersOK ==
    ASSUME Inv, Others
    PROVE  Inv'
  <1>1. CASE \E w \in wire : UpdateRef(w)
    BY <1>1, UpdateRefOK
  <1>2. CASE \E o \in Ops : \/ ChildBuilds(o) \/ verifyPromotionSource(o) \/ ChildFails(o)
                            \/ \E to \in {"PENDING", "SUCCEEDED", "FAILED"} : ChildApplied(o, to)
    BY <1>2, ChildrenOK
  <1>3. CASE \E o \in Ops : LeaseEnds(o)
    BY <1>3, LeaseEndsOK
  <1>4. CASE \E s \in Servers : Crash(s)
    BY <1>4, QuietStep
  <1>5. CASE Reconfigure \/ RestoreBackup
    BY <1>5, ReconfigureOK, RestoreBackupOK
  <1> QED
    BY <1>1, <1>2, <1>3, <1>4, <1>5 DEF Others

LEMMA StutterOK ==
    ASSUME Inv, UNCHANGED vars
    PROVE  Inv'
  <1>1. /\ UNCHANGED <<operations, request, releases, tick, pushed, main>>
        /\ TypeOK' /\ MainGrows
    BY MainStays DEF vars, Inv, TypeOK, Ops
  <1> QED
    BY <1>1, OperationsStay

LEMMA NextOK == Inv /\ [Next]_vars => Inv'
  BY PeopleOK, ServerOK, OthersOK, StutterOK DEF Next

THEOREM InvHolds == Spec => []Inv
  BY InitOK, NextOK, PTL DEF Spec

(* Candidates, promotions, Ticks, requests and releases have the types the
   code gives them: operations in a row, phases and steps that exist, updates
   under way and generated branches only of operations there are.            *)
THEOREM TypeCorrect == Spec => []TypeOK
  <1>1. Inv => TypeOK
    BY DEF Inv
  <1> QED
    BY <1>1, InvHolds, PTL

(* Whatever is built or deployed is on main: an operation has children only
   when it has seen every main contain its source, and no push, no late update
   and no other candidate takes a commit off main again.                     *)
THEOREM BuiltOnMain == Spec => []BuiltFromMain
  <1>1. Inv => BuiltFromMain
    <2> SUFFICES ASSUME Inv, NEW o \in Ops, operations[o].child # "none", NEW r \in Repositories
                 PROVE  IsPrefix(operations[o].source[r], main[r])
      BY DEF BuiltFromMain
    <2>1. OperationOK(o, operations[o])
      BY OperationIs
    <2>2. CASE operations[o].kind # "COMPOSED"
      BY <2>1, <2>2 DEF OperationOK, OnMain
    <2>3. CASE operations[o].kind = "COMPOSED"
      BY <2>1, <2>3 DEF OperationOK, OnMain
    <2> QED
      BY <2>2, <2>3
  <1> QED
    BY <1>1, InvHolds, PTL

(* What a person pushed stays on main, whenever the update of a candidate
   that has read an older main arrives.                                      *)
THEOREM PushesStay == Spec => []NoPushIsLost
  <1>1. Inv => NoPushIsLost
    BY DEF Inv, PushesOK, NoPushIsLost
  <1> QED
    BY <1>1, InvHolds, PTL

(* However many clients ask for the candidate from main with one key, and
   however their requests overlap, there is one candidate.                   *)
THEOREM OneCandidate == Spec => []OneCandidatePerKey
  <1>1. Inv => OneCandidatePerKey
    <2> SUFFICES ASSUME Inv
                 PROVE  Cardinality({o \in Ops : operations[o].kind = "MAIN"}) <= 1
      BY DEF OneCandidatePerKey
    <2>1. PICK S : S = {o \in Ops : operations[o].kind = "MAIN"}
      OBVIOUS
    <2>2. \A o, p \in S : o = p
      BY <2>1 DEF Inv, KeysOK
    <2>3. CASE S = {}
      BY <2>1, <2>3, FS_EmptySet
    <2>4. CASE S # {}
      <3>1. PICK o \in S : TRUE
        BY <2>4
      <3>2. S = {o}
        BY <2>2, <3>1
      <3>3. Cardinality(S) = 1
        BY <3>2, FS_Singleton
      <3> QED
        BY <2>1, <3>3
    <2> QED
      BY <2>3, <2>4
  <1> QED
    BY <1>1, InvHolds, PTL

\* Only a Tick that finishes a promotion records a release.
LEMMA OnlyFinishReleases ==
    ASSUME [Next]_vars
    PROVE  releases' = releases \/ \E s \in Servers : finishFlowRelease(s)
  <1>1. CASE People
    BY <1>1 DEF People, prepare_release_candidate, SelectOther, revise_test_scenario, RecordResult,
                observeRequest, executeMainCandidate, promote_release_candidate,
                record_scenario_run, record_runtime_observation, Push
  <1>2. ASSUME NEW s \in Servers, Server(s)
        PROVE  releases' = releases \/ finishFlowRelease(s)
    BY <1>2 DEF Server, Claim, finish, observeMainCandidate, ComposeSource, RecoverSource, SaveSource,
                SourceReady, BeginAdvance, AdvanceMain, ReadBack, SaveAdvance, MainReady,
                queueFlowChildren, WaitChildren, WaitRuntime, StoreOnly
  <1>3. CASE Others
    BY <1>3 DEF Others, UpdateRef, ChildBuilds, verifyPromotionSource, ChildFails, ChildApplied, Child,
                LeaseEnds, Crash, Reconfigure, RestoreBackup, StoreOnly
  <1>4. CASE UNCHANGED vars
    BY <1>4 DEF vars
  <1> QED
    BY <1>1, <1>2, <1>3, <1>4 DEF Next

(* A release is recorded for a promotion that is wanted, verified and seen
   healthy in the same transaction, and no candidate is released twice: the
   promotion that records it was not over and no other promotion of its
   candidate exists.                                                         *)
THEOREM ReleasesAreVerified == Spec => ReleasedWasVerified
  <1>1. ASSUME Inv, [Next]_vars, NEW r \in releases' \ releases
        PROVE  /\ verdict[r.candidate] = "passed" /\ work.ready
               /\ desired = r.promotion /\ operations[r.promotion].health = "healthy"
               /\ r.source = operations[r.candidate].source
               /\ \A q \in releases : q.candidate # r.candidate
    <2>1. PICK s \in Servers : finishFlowRelease(s)
      BY <1>1, OnlyFinishReleases
    <2>2. PICK o \in Ops : o = tick[s].op /\ operations[o].kind = "PROMOTION"
      BY <1>1, <2>1, TickIs DEF finishFlowRelease, TickFor
    <2>3. /\ operations[o].owner = s /\ flowGuard(o) /\ operations[o].health = "healthy"
          /\ r = ReleaseOf(o)
      BY <1>1, <2>1, <2>2 DEF finishFlowRelease, Recorded
    <2>4. /\ r.promotion = o /\ r.candidate = operations[o].candidate
          /\ r.source = operations[o].source
      BY <2>3 DEF ReleaseOf
    <2>5. /\ desired = o /\ releaseWorkReady
          /\ scenarioCandidateReady(operations[o].candidate)
      BY <2>2, <2>3 DEF flowGuard
    <2>6. r.source = operations[r.candidate].source
      BY <1>1, <2>2, <2>4, OperationIs DEF PromotionOK
    <2>7. operations[o].status # "SUCCEEDED"
      BY <1>1, <2>3, OperationIs, NoneIsNobody DEF OperationOK
    <2>8. ASSUME NEW q \in releases, q.candidate = r.candidate
          PROVE  FALSE
      <3>1. ReleaseOK(q)
        BY <1>1 DEF Inv
      <3>2. q.promotion = o
        BY <1>1, <2>2, <2>4, <2>8, <3>1 DEF Inv, KeysOK, ReleaseOK
      <3> QED
        BY <2>7, <3>1, <3>2 DEF ReleaseOK
    <2> QED
      BY <2>3, <2>4, <2>5, <2>6, <2>8 DEF releaseWorkReady, scenarioCandidateReady
  <1>2. Inv /\ [Next]_vars =>
          [\A r \in releases' \ releases :
              /\ verdict[r.candidate] = "passed" /\ work.ready
              /\ desired = r.promotion /\ operations[r.promotion].health = "healthy"
              /\ r.source = operations[r.candidate].source
              /\ \A q \in releases : q.candidate # r.candidate]_vars
    BY <1>1
  <1> QED
    BY <1>2, InvHolds, PTL DEF Spec, ReleasedWasVerified

===============================================================================
